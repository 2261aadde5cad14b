----------------------- MODULE ContainerFollowProofs -----------------------
(***************************************************************************)
(* Proofs that, for any set of containers, any number of restarts and any  *)
(* failures of the environment, ContainerFollow is type correct, never     *)
(* runs two followers of one container, keeps a key for exactly the        *)
(* followed ones, and loses a running container in two ways only.          *)
(***************************************************************************)
EXTENDS ContainerFollow, TLAPS

\* The variables keep their types, and attachToContainer has an argument
\* exactly while it runs.
THEOREM TypeCorrect == Spec => []TypeOK
<1> DEFINE Counts == [Containers -> Nat]
<1>0. /\ <<>> \in Seq(Containers)
      /\ [c \in Containers |-> 0] \in Counts
  OBVIOUS
<1>1. Init => TypeOK
  <2> SUFFICES ASSUME Init PROVE TypeOK
    OBVIOUS
  <2>1. running \subseteq Containers /\ starts \in 0..MaxStarts
    BY MaxStartsAssumption DEF Init
  <2>2. events \in Seq(Containers) /\ live \in Counts /\ eof \in Counts
    BY <1>0 DEF Init
  <2> QED
    BY <2>1, <2>2, ContainersAssumption DEF Init, TypeOK, Locations
<1>2. TypeOK /\ [Next]_vars => TypeOK'
  <2> SUFFICES ASSUME TypeOK, [Next]_vars PROVE TypeOK'
    OBVIOUS
  <2> USE ContainersAssumption, MaxStartsAssumption DEF TypeOK, Locations,
        daemon, attacher, StreamOver, DropKey, Take, AddKey, SaveRow,
        EndsAtOnce, Exists, Fails, Calls
  <2>1. CASE CtxCancel
    BY <2>1 DEF CtxCancel
  <2>2. CASE WatchError
    BY <1>0, <2>2 DEF WatchError, WatchReturn
  <2>3. CASE ListRunning
    BY <2>3 DEF ListRunning
  <2>4. CASE AttachNext
    BY <2>4 DEF AttachNext
  <2>5. CASE Register
    BY <2>5 DEF Register
  <2>6. CASE Upsert
    BY <2>6 DEF Upsert
  <2>7. CASE Follow
    <3>1. cur \in Containers
      BY <2>7 DEF Follow
    <3>2. live' \in Counts /\ eof' \in Counts
      <4>1. CASE live' = [live EXCEPT ![cur] = @ + 1] /\ eof' = eof
        BY <3>1, <4>1
      <4>2. CASE eof' = [eof EXCEPT ![cur] = @ + 1] /\ live' = live
        BY <3>1, <4>2
      <4>3. CASE live' = live /\ eof' = eof
        BY <4>3
      <4> QED
        BY <2>7, <4>1, <4>2, <4>3 DEF Follow
    <3> QED
      BY <2>7, <3>2 DEF Follow
  <2>8. CASE Subscribe
    BY <2>8 DEF Subscribe
  <2>9. CASE WatchEvent
    <3>1. Head(events) \in Containers /\ Tail(events) \in Seq(Containers)
      BY <2>9 DEF WatchEvent
    <3> QED
      BY <2>9, <3>1 DEF WatchEvent
  <2>10. CASE WatchStop
    BY <1>0, <2>10 DEF WatchStop, WatchReturn
  <2>11. ASSUME NEW c \in Containers, FollowerExit(c) PROVE TypeOK'
    BY <2>11 DEF FollowerExit
  <2>12. ASSUME NEW c \in Containers, FollowerQuit(c) PROVE TypeOK'
    <3>1. CASE live[c] > 0 /\ live' = [live EXCEPT ![c] = @ - 1]
               /\ eof' = eof
      BY <2>12, <3>1 DEF FollowerQuit
    <3>2. CASE eof[c] > 0 /\ eof' = [eof EXCEPT ![c] = @ - 1]
               /\ live' = live
      BY <2>12, <3>2 DEF FollowerQuit
    <3> QED
      BY <2>12, <3>1, <3>2 DEF FollowerQuit
  <2>13. ASSUME NEW c \in Containers, DockerStart(c) PROVE TypeOK'
    <3>1. Append(events, c) \in Seq(Containers)
      OBVIOUS
    <3> QED
      BY <2>13, <3>1 DEF DockerStart
  <2>14. ASSUME NEW c \in Containers, DockerStop(c) PROVE TypeOK'
    BY <2>14 DEF DockerStop
  <2>15. ASSUME NEW c \in Containers, StreamEnd(c),
                UNCHANGED failed \/ Fails("stream")
         PROVE  TypeOK'
    <3>1. live' \in Counts /\ eof' \in Counts
      BY <2>15 DEF StreamEnd
    <3>2. failed' \subseteq Calls
      BY <2>15
    <3> QED
      BY <2>15, <3>1, <3>2 DEF StreamEnd
  <2>16. CASE UNCHANGED vars
    BY <2>16 DEF vars
  <2> QED
    BY <2>1, <2>2, <2>3, <2>4, <2>5, <2>6, <2>7, <2>8, <2>9, <2>10, <2>11,
       <2>12, <2>13, <2>14, <2>15, <2>16
       DEF Next, Attacher, Follower, Environment, StreamBreak, StreamCancelled
<1> QED
  BY <1>1, <1>2, PTL DEF Spec

-----------------------------------------------------------------------------
\* OneFollower is not inductive.  What makes it so: a follower's container
\* has its key, and the attaching goroutine opens streams only for containers
\* that it has registered and nobody follows, because it takes each listed
\* container once, takes a container from an event only if it has no key, and
\* is done with the list before it looks at events.
FollowInv ==
    /\ OneFollower
    /\ FollowedIsRegistered
    /\ \A c \in Containers : Attaching(c) => ~Followed(c)
    /\ pc \in {"upsert", "follow"} => cur \in cancelFuncs
    /\ \A c \in todo : ~Followed(c) /\ ~Attaching(c)
    /\ pc = "list" => ~subscribed /\ \A c \in Containers : ~Followed(c)
    /\ subscribed \/ pc \in {"subscribe", "watch", "stopped"} => todo = {}

\* FollowInv holds in every reachable state: each step of the daemon, of a
\* follower or of the attaching goroutine preserves it.
THEOREM FollowInvariant == Spec => []FollowInv
<1>1. Init => FollowInv
  BY DEF Init, FollowInv, OneFollower, FollowedIsRegistered, Followed,
         Attaching
<1>2. TypeOK /\ TypeOK' /\ FollowInv /\ [Next]_vars => FollowInv'
  <2> SUFFICES ASSUME TypeOK, TypeOK', FollowInv, [Next]_vars
               PROVE  FollowInv'
    OBVIOUS
  <2> USE DEF FollowInv, TypeOK, Locations, OneFollower,
        FollowedIsRegistered, Followed, Attaching, daemon, attacher, StreamOver,
        DropKey, Take, AddKey, SaveRow, EndsAtOnce, Exists, Fails, Calls
  <2>1. CASE CtxCancel
    BY <2>1 DEF CtxCancel
  <2>2. CASE WatchError
    BY <2>2 DEF WatchError, WatchReturn
  <2>3. CASE ListRunning
    BY <2>3 DEF ListRunning
  <2>4. CASE AttachNext
    BY <2>4 DEF AttachNext
  <2>5. CASE Register
    BY <2>5 DEF Register
  <2>6. CASE Upsert
    BY <2>6 DEF Upsert
  <2>7. CASE Follow
    <3>1. \A d \in Containers \ {cur} :
            live'[d] = live[d] /\ eof'[d] = eof[d]
      BY <2>7 DEF Follow
    <3>2. cur \in Containers /\ cur \in cancelFuncs /\ cur \notin todo
      BY <2>7 DEF Follow
    <3>3. live[cur] = 0 /\ eof[cur] = 0
      BY <2>7, <3>2 DEF Follow
    <3>4. live'[cur] + eof'[cur] <= 1
      <4>1. CASE live' = [live EXCEPT ![cur] = @ + 1] /\ eof' = eof
        BY <3>2, <3>3, <4>1
      <4>2. CASE eof' = [eof EXCEPT ![cur] = @ + 1] /\ live' = live
        BY <3>2, <3>3, <4>2
      <4>3. CASE live' = live /\ eof' = eof
        BY <3>3, <4>3
      <4> QED
        BY <2>7, <4>1, <4>2, <4>3 DEF Follow
    <3> QED
      BY <2>7, <3>1, <3>2, <3>4 DEF Follow
  <2>8. CASE Subscribe
    BY <2>8 DEF Subscribe
  <2>9. CASE WatchEvent
    BY <2>9 DEF WatchEvent
  <2>10. CASE WatchStop
    BY <2>10 DEF WatchStop, WatchReturn
  <2>11. ASSUME NEW c \in Containers, FollowerExit(c) PROVE FollowInv'
    BY <2>11 DEF FollowerExit
  <2>12. ASSUME NEW c \in Containers, FollowerQuit(c) PROVE FollowInv'
    <3>1. \A d \in Containers : live'[d] + eof'[d] <= live[d] + eof[d]
      <4>1. CASE live[c] > 0 /\ live' = [live EXCEPT ![c] = @ - 1]
                 /\ eof' = eof
        BY <4>1
      <4>2. CASE eof[c] > 0 /\ eof' = [eof EXCEPT ![c] = @ - 1]
                 /\ live' = live
        BY <4>2
      <4> QED
        BY <2>12, <4>1, <4>2 DEF FollowerQuit
    <3>2. ASSUME NEW d \in Containers
          PROVE  (Followed(d)' => Followed(d)) /\ (live[d] + eof[d] <= 1)'
      <4>1. live[d] + eof[d] \in 0..1
        OBVIOUS
      <4>2. live'[d] + eof'[d] <= live[d] + eof[d]
        BY <3>1
      <4>3. live'[d] + eof'[d] \in Int
        BY <2>12 DEF FollowerQuit
      <4> QED
        BY ONLY <4>1, <4>2, <4>3 DEF Followed
    <3>3. UNCHANGED <<subscribed, pc, todo, cur, cancelFuncs>>
      BY <2>12 DEF FollowerQuit
    <3>4. OneFollower'
      BY <3>2
    <3> HIDE DEF Followed
    <3> QED
      BY <3>2, <3>3, <3>4
  <2>13. ASSUME NEW c \in Containers, DockerStart(c) PROVE FollowInv'
    BY <2>13 DEF DockerStart
  <2>14. ASSUME NEW c \in Containers, DockerStop(c) PROVE FollowInv'
    BY <2>14 DEF DockerStop
  <2>15. ASSUME NEW c \in Containers, StreamEnd(c),
                UNCHANGED failed \/ Fails("stream")
         PROVE  FollowInv'
    BY <2>15 DEF StreamEnd
  <2>16. CASE UNCHANGED vars
    BY <2>16 DEF vars
  <2> QED
    BY <2>1, <2>2, <2>3, <2>4, <2>5, <2>6, <2>7, <2>8, <2>9, <2>10, <2>11,
       <2>12, <2>13, <2>14, <2>15, <2>16
       DEF Next, Attacher, Follower, Environment, StreamBreak, StreamCancelled
<1> QED
  BY <1>1, <1>2, TypeCorrect, PTL DEF Spec

-----------------------------------------------------------------------------
\* No container ever has two followers: watchEvents may check cancelFuncs in
\* one critical section and attachToContainer register in another, whatever
\* containers stop, restart or fail in between.
THEOREM AtMostOneFollower == Spec => []OneFollower
<1>1. FollowInv => OneFollower
  BY DEF FollowInv
<1> QED
  BY <1>1, FollowInvariant, PTL

\* A follower's key stays in cancelFuncs until that follower removes it.
THEOREM FollowersHaveKeys == Spec => []FollowedIsRegistered
<1>1. FollowInv => FollowedIsRegistered
  BY DEF FollowInv
<1> QED
  BY <1>1, FollowInvariant, PTL

-----------------------------------------------------------------------------
\* The container attachToContainer is about to follow has its row already,
\* unless the cancelled context will keep the stream from opening.
RowInv ==
    /\ FollowedHasRow
    /\ pc = "follow" /\ "upsert" \notin failed => cur \in rows \/ ctxDone

\* Until an Upsert fails, every followed container has a row.
THEOREM FollowedContainersHaveRows == Spec => []FollowedHasRow
<1>1. Init => RowInv
  BY DEF Init, RowInv, FollowedHasRow, Followed
<1>2. TypeOK /\ RowInv /\ [Next]_vars => RowInv'
  <2> SUFFICES ASSUME TypeOK, RowInv, [Next]_vars PROVE RowInv'
    OBVIOUS
  <2> USE DEF TypeOK, Locations, RowInv, FollowedHasRow, Followed, daemon,
        attacher, StreamOver, DropKey, Take, AddKey, SaveRow, EndsAtOnce,
        Exists, Fails, Calls
  <2>1. CASE CtxCancel
    BY <2>1 DEF CtxCancel
  <2>2. CASE WatchError
    BY <2>2 DEF WatchError, WatchReturn
  <2>3. CASE ListRunning
    BY <2>3 DEF ListRunning
  <2>4. CASE AttachNext
    BY <2>4 DEF AttachNext
  <2>5. CASE Register
    BY <2>5 DEF Register
  <2>6. CASE Upsert
    BY <2>6 DEF Upsert
  <2>7. CASE Follow
    BY <2>7 DEF Follow
  <2>8. CASE Subscribe
    BY <2>8 DEF Subscribe
  <2>9. CASE WatchEvent
    BY <2>9 DEF WatchEvent
  <2>10. CASE WatchStop
    BY <2>10 DEF WatchStop, WatchReturn
  <2>11. ASSUME NEW c \in Containers, FollowerExit(c) PROVE RowInv'
    BY <2>11 DEF FollowerExit
  <2>12. ASSUME NEW c \in Containers, FollowerQuit(c) PROVE RowInv'
    <3>1. \A d \in Containers : Followed(d)' => Followed(d)
      <4>1. CASE live[c] > 0 /\ live' = [live EXCEPT ![c] = @ - 1]
                 /\ eof' = eof
        BY <4>1
      <4>2. CASE eof[c] > 0 /\ eof' = [eof EXCEPT ![c] = @ - 1]
                 /\ live' = live
        BY <4>2
      <4> QED
        BY <2>12, <4>1, <4>2 DEF FollowerQuit
    <3>2. UNCHANGED <<pc, cur, rows, ctxDone, failed>>
      BY <2>12 DEF FollowerQuit
    <3> HIDE DEF Followed
    <3> QED
      BY <3>1, <3>2
  <2>13. ASSUME NEW c \in Containers, DockerStart(c) PROVE RowInv'
    BY <2>13 DEF DockerStart
  <2>14. ASSUME NEW c \in Containers, DockerStop(c) PROVE RowInv'
    BY <2>14 DEF DockerStop
  <2>15. ASSUME NEW c \in Containers, StreamEnd(c),
                UNCHANGED failed \/ Fails("stream")
         PROVE  RowInv'
    BY <2>15 DEF StreamEnd
  <2>16. CASE UNCHANGED vars
    BY <2>16 DEF vars
  <2> QED
    BY <2>1, <2>2, <2>3, <2>4, <2>5, <2>6, <2>7, <2>8, <2>9, <2>10, <2>11,
       <2>12, <2>13, <2>14, <2>15, <2>16
       DEF Next, Attacher, Follower, Environment, StreamBreak, StreamCancelled
<1> QED
  <2>1. RowInv => FollowedHasRow
    BY DEF RowInv
  <2> QED
    BY <1>1, <1>2, <2>1, TypeCorrect, PTL DEF Spec

-----------------------------------------------------------------------------
\* Until FollowContainerLogs fails, every key of cancelFuncs will be removed by
\* a follower or belongs to the attachment in progress.
THEOREM KeysBelongToFollowers == Spec => []KeysAreLive
<1>1. Init => KeysAreLive
  BY DEF Init, KeysAreLive
<1>2. TypeOK /\ KeysAreLive /\ [Next]_vars => KeysAreLive'
  <2> SUFFICES ASSUME TypeOK, KeysAreLive, [Next]_vars PROVE KeysAreLive'
    OBVIOUS
  <2> USE DEF TypeOK, Locations, KeysAreLive, Followed, Attaching, daemon,
        attacher, StreamOver, DropKey, Take, AddKey, SaveRow, EndsAtOnce,
        Exists, Fails, Calls
  <2>1. CASE CtxCancel
    BY <2>1 DEF CtxCancel
  <2>2. CASE WatchError
    BY <2>2 DEF WatchError, WatchReturn
  <2>3. CASE ListRunning
    BY <2>3 DEF ListRunning
  <2>4. CASE AttachNext
    BY <2>4 DEF AttachNext
  <2>5. CASE Register
    BY <2>5 DEF Register
  <2>6. CASE Upsert
    BY <2>6 DEF Upsert
  <2>7. CASE Follow
    <3>1. CASE ctxDone
      BY <2>7, <3>1 DEF Follow
    <3>2. CASE Fails("follow") /\ ~ctxDone
      BY <2>7, <3>2 DEF Follow
    <3>3. CASE ~Fails("follow") /\ ~ctxDone
      <4>1. cur \in Containers /\ UNCHANGED cancelFuncs
        BY <2>7 DEF Follow
      <4>2. live'[cur] + eof'[cur] > 0
        <5>1. CASE live' = [live EXCEPT ![cur] = @ + 1] /\ eof' = eof
          BY <4>1, <5>1
        <5>2. CASE eof' = [eof EXCEPT ![cur] = @ + 1] /\ live' = live
          BY <4>1, <5>2
        <5> QED
          BY <2>7, <3>3, <5>1, <5>2 DEF Follow
      <4>3. \A d \in Containers \ {cur} :
              live'[d] = live[d] /\ eof'[d] = eof[d]
        BY <2>7 DEF Follow
      <4> QED
        BY <2>7, <3>3, <4>1, <4>2, <4>3 DEF Follow
    <3> QED
      BY <2>7, <3>1, <3>2, <3>3 DEF Follow
  <2>8. CASE Subscribe
    BY <2>8 DEF Subscribe
  <2>9. CASE WatchEvent
    BY <2>9 DEF WatchEvent
  <2>10. CASE WatchStop
    BY <2>10 DEF WatchStop, WatchReturn
  <2>11. ASSUME NEW c \in Containers, FollowerExit(c) PROVE KeysAreLive'
    BY <2>11 DEF FollowerExit
  <2>12. ASSUME NEW c \in Containers, FollowerQuit(c) PROVE KeysAreLive'
    BY <2>12 DEF FollowerQuit
  <2>13. ASSUME NEW c \in Containers, DockerStart(c) PROVE KeysAreLive'
    BY <2>13 DEF DockerStart
  <2>14. ASSUME NEW c \in Containers, DockerStop(c) PROVE KeysAreLive'
    BY <2>14 DEF DockerStop
  <2>15. ASSUME NEW c \in Containers, StreamEnd(c),
                UNCHANGED failed \/ Fails("stream")
         PROVE  KeysAreLive'
    BY <2>15 DEF StreamEnd
  <2>16. CASE UNCHANGED vars
    BY <2>16 DEF vars
  <2> QED
    BY <2>1, <2>2, <2>3, <2>4, <2>5, <2>6, <2>7, <2>8, <2>9, <2>10, <2>11,
       <2>12, <2>13, <2>14, <2>15, <2>16
       DEF Next, Attacher, Follower, Environment, StreamBreak, StreamCancelled
<1> QED
  BY <1>1, <1>2, TypeCorrect, PTL DEF Spec

\* The keys of cancelFuncs are those of the followed containers and of the one
\* being attached.
THEOREM KeysAreExact == Spec => []KeysMatchFollowers
<1>1. FollowedIsRegistered /\ KeysAreLive => KeysMatchFollowers
  BY DEF KeysMatchFollowers
<1> QED
  BY <1>1, FollowersHaveKeys, KeysBelongToFollowers, PTL

-----------------------------------------------------------------------------
\* A step that loses a container does so in one of the two ways.
TwoWays(c) ==
    \/ c \notin running /\ ~subscribed
    \/ pc = "watch" /\ c = Head(events) /\ eof[c] > 0

\* The step loses c, and nothing has failed.
Loses(c) ==
    /\ ~ctxDone' /\ failed' = {}
    /\ c \in running' /\ ~Covered(c)'
    /\ ~(c \in running /\ ~Covered(c))

\* What is queued at the end is in the queue, and what was in it before its head
\* was taken is its head or still there.
LEMMA QueuedEvents ==
  ASSUME NEW q \in Seq(Containers), NEW c \in Containers
  PROVE  /\ ToSet(Append(q, c)) = ToSet(q) \union {c}
         /\ q # <<>> => ToSet(q) \subseteq {Head(q)} \union ToSet(Tail(q))
<1>1. ToSet(Append(q, c)) = ToSet(q) \union {c}
  <2> DEFINE t == Append(q, c)
  <2>1. /\ DOMAIN q = 1..Len(q) /\ DOMAIN t = 1..(Len(q) + 1)
        /\ Len(q) \in Nat /\ t[Len(q) + 1] = c
        /\ \A i \in 1..Len(q) : t[i] = q[i]
    OBVIOUS
  <2> HIDE DEF t
  <2>2. \A x \in ToSet(t) : x \in ToSet(q) \union {c}
    BY <2>1 DEF ToSet
  <2>3. \A x \in ToSet(q) \union {c} : x \in ToSet(t)
    BY <2>1 DEF ToSet
  <2> QED
    BY <2>2, <2>3 DEF t
<1>2. ASSUME q # <<>>, NEW x \in ToSet(q), x # Head(q)
      PROVE  x \in ToSet(Tail(q))
  <2> DEFINE t == Tail(q)
  <2>1. /\ DOMAIN q = 1..Len(q) /\ DOMAIN t = 1..(Len(q) - 1)
        /\ Len(q) \in Nat /\ Head(q) = q[1]
        /\ \A i \in 1..(Len(q) - 1) : t[i] = q[i + 1]
    BY <1>2
  <2> HIDE DEF t
  <2>2. PICK i \in 1..Len(q) : x = q[i]
    BY <2>1 DEF ToSet
  <2>3. i - 1 \in 1..(Len(q) - 1) /\ t[i - 1] = x
    BY <1>2, <2>1, <2>2
  <2> QED
    BY <2>1, <2>3 DEF ToSet, t
<1> QED
  BY <1>1, <1>2

\* As long as nothing fails, a running container drops out of the collector's
\* sight only when it starts before the event stream is open, or when its event
\* is skipped because of the follower of its previous life.
THEOREM LossesAreOfTwoKinds == Spec => LostOnlyInTwoWays
<1>1. TypeOK /\ KeysAreLive /\ [Next]_vars
        => [\A c \in Containers : Loses(c) => TwoWays(c)]_vars
  <2> SUFFICES ASSUME TypeOK, KeysAreLive, [Next]_vars,
                      NEW c \in Containers, Loses(c)
               PROVE  TwoWays(c)
    OBVIOUS
  <2> USE DEF daemon, attacher, Loses, Fails
  <2>0. TypeOK
    OBVIOUS
  <2>1. CASE CtxCancel \/ WatchError \/ WatchStop
    BY <2>1 DEF CtxCancel, WatchError, WatchStop, WatchReturn
  <2>2. CASE ListRunning
    BY <2>2 DEF ListRunning, Covered
  <2>3. CASE AttachNext
    BY <2>3 DEF AttachNext, Covered, Attaching, Take
  <2>4. CASE Register \/ Upsert \/ Subscribe
    BY <2>4 DEF Register, Upsert, Subscribe, Covered, Attaching
  <2>5. CASE Follow
    <3>1. cur \in Containers /\ UNCHANGED <<running, todo, events>>
      BY <2>5 DEF Follow, TypeOK
    <3>2. CASE cur = c
      BY <2>5, <3>2 DEF Follow, Covered, EndsAtOnce, TypeOK
    <3>3. CASE cur # c
      BY <2>5, <3>1, <3>3 DEF Follow, Covered, Attaching, TypeOK
    <3> QED
      BY <3>2, <3>3
  <2>6. CASE WatchEvent
    <3>1. /\ pc = "watch" /\ events # <<>> /\ events' = Tail(events)
          /\ UNCHANGED <<running, todo, live, eof, ctxDone>>
      BY <2>6 DEF WatchEvent
    <3>2. c \in ToSet(events) /\ c \notin ToSet(Tail(events)) /\ ~(live[c] > 0)
      BY <2>6, <3>1 DEF WatchEvent, Covered, Attaching, TypeOK
    <3>3. c = Head(events)
      BY <3>1, <3>2, QueuedEvents DEF TypeOK
    <3>4. c \in cancelFuncs /\ failed = {} /\ ~ctxDone
      BY <2>6, <3>1, <3>3 DEF WatchEvent, Exists, Covered, Attaching
    <3>5. Followed(c)
      BY <3>1, <3>4 DEF KeysAreLive, Attaching
    <3>6. eof[c] > 0
      BY <3>2, <3>5 DEF Followed, TypeOK
    <3> QED
      BY <3>1, <3>3, <3>6 DEF TwoWays
  <2>7. ASSUME NEW d \in Containers, FollowerExit(d) \/ FollowerQuit(d)
        PROVE  TwoWays(c)
    BY <2>7 DEF FollowerExit, FollowerQuit, Covered, Attaching
  <2>8. ASSUME NEW d \in Containers, DockerStart(d)
        PROVE  TwoWays(c)
    <3>1. UNCHANGED <<pc, todo, cur, live, ctxDone, subscribed>>
          /\ running' = running \union {d}
      BY <2>8 DEF DockerStart
    <3>2. ToSet(events) \subseteq ToSet(events')
      BY <2>8, QueuedEvents DEF DockerStart, TypeOK
    <3>3. ~Covered(c)
      BY <3>1, <3>2 DEF Covered, Attaching
    <3>4. c \notin running /\ c = d
      BY <3>1, <3>3
    <3>5. CASE subscribed
      <4>1. events' = Append(events, c)
        BY <2>8, <3>1, <3>4, <3>5 DEF DockerStart
      <4>2. c \in ToSet(events')
        BY <4>1, QueuedEvents DEF TypeOK
      <4> QED
        BY <4>2 DEF Covered
    <3> QED
      BY <3>4, <3>5 DEF TwoWays
  <2>9. ASSUME NEW d \in Containers, DockerStop(d)
        PROVE  TwoWays(c)
    <3>1. /\ UNCHANGED <<pc, todo, cur, events>>
          /\ running' = running \ {d} /\ live' = [live EXCEPT ![d] = 0]
      BY <2>9 DEF DockerStop
    <3>2. c # d /\ c \in running
      BY <3>1
    <3>3. live'[c] = live[c]
      BY <3>1, <3>2 DEF TypeOK
    <3> QED
      BY <3>1, <3>2, <3>3 DEF Covered, Attaching
  <2>10. ASSUME NEW d \in Containers, StreamBreak(d) \/ StreamCancelled(d)
         PROVE  TwoWays(c)
    BY <2>10 DEF StreamBreak, StreamCancelled, StreamEnd
  <2>11. CASE UNCHANGED vars
    BY <2>11 DEF vars, Covered, Attaching
  <2> QED
    BY <2>1, <2>2, <2>3, <2>4, <2>5, <2>6, <2>7, <2>8, <2>9, <2>10, <2>11
       DEF Next, Attacher, Follower, Environment
<1>2. [\A c \in Containers : Loses(c) => TwoWays(c)]_vars
      => [\A c \in Containers :
           (/\ ~ctxDone' /\ failed' = {}
            /\ c \in running' /\ ~Covered(c)'
            /\ ~(c \in running /\ ~Covered(c)))
           => \/ c \notin running /\ ~subscribed
              \/ pc = "watch" /\ c = Head(events) /\ eof[c] > 0]_vars
  BY DEF Loses, TwoWays
<1> QED
  BY <1>1, <1>2, TypeCorrect, KeysBelongToFollowers, PTL
     DEF Spec, LostOnlyInTwoWays
=============================================================================
