-------------------------- MODULE ContainerFollow --------------------------
(***************************************************************************)
(* The part of the log collector that decides which containers are         *)
(* followed: src/backend/internal/collector/collector.go, Start,           *)
(* attachToAllRunning, watchEvents and attachToContainer, with the follower *)
(* goroutines attachToContainer starts.                                    *)
(*                                                                         *)
(* One goroutine attaches: Start lists the running containers and attaches *)
(* to each of them, and only then hands over to watchEvents, so the two    *)
(* never run at the same time and share the program counter pc.  Every     *)
(* attached container has a follower goroutine of its own.  The Docker     *)
(* daemon (containers starting and stopping, the event stream, the log     *)
(* streams) and Postgres are the environment.                              *)
(***************************************************************************)
EXTENDS Integers, Sequences, SequencesExt

CONSTANTS
    Containers,    \* the container ids the daemon may report
    NoContainer,   \* the value of cur between two attachments
    MaxStarts      \* bound: how often the daemon starts a container

ASSUME ContainersAssumption == NoContainer \notin Containers
ASSUME MaxStartsAssumption == MaxStarts \in Nat

VARIABLES
    running,       \* the containers the daemon is running
    starts,        \* how many starts have happened (for the bound only)
    events,        \* start events sent to watchEvents and not yet received
    subscribed,    \* watchEvents holds an open event stream
    ctxDone,       \* the context given to Start is cancelled
    pc,            \* where the attaching goroutine is
    todo,          \* listed containers attachToAllRunning has not reached
    cur,           \* the container attachToContainer is working on
    cancelFuncs,   \* the keys of LogCollector.cancelFuncs
    rows,          \* containers with a row in the containers table
    live,          \* live[c]: followers of c reading an open stream
    eof,           \* eof[c]: followers of c whose stream has ended and that
                   \* have not removed their key yet
    failed         \* history: the kinds of calls that have failed

vars == <<running, starts, events, subscribed, ctxDone, pc, todo, cur,
          cancelFuncs, rows, live, eof, failed>>
daemon == <<running, starts>>
attacher == <<events, subscribed, pc, todo, cur>>

Locations == {"list", "next", "register", "upsert", "follow", "subscribe",
              "watch", "stopped"}
Calls == {"list", "upsert", "follow", "stream", "events", "name"}

Init ==
    /\ running \in SUBSET Containers
    /\ starts = 0
    /\ events = <<>>
    /\ subscribed = FALSE
    /\ ctxDone = FALSE
    /\ pc = "list"
    /\ todo = {}
    /\ cur = NoContainer
    /\ cancelFuncs = {}
    /\ rows = {}
    /\ live = [c \in Containers |-> 0]
    /\ eof = [c \in Containers |-> 0]
    /\ failed = {}

\* A call of the environment fails; that it does under a cancelled context is
\* no failure of the environment.
Fails(call) == failed' = IF ctxDone THEN failed ELSE failed \union {call}

-----------------------------------------------------------------------------
(* The environment. *)

\* A start event reaches the collector only through an open event stream.
DockerStart(c) ==
    /\ c \notin running
    /\ starts < MaxStarts
    /\ running' = running \union {c}
    /\ starts' = starts + 1
    /\ events' = IF subscribed /\ ~ctxDone THEN Append(events, c) ELSE events
    /\ UNCHANGED <<subscribed, ctxDone, pc, todo, cur, cancelFuncs, rows,
                   live, eof, failed>>

\* The log streams of a container end when it stops.
DockerStop(c) ==
    /\ c \in running
    /\ running' = running \ {c}
    /\ eof' = [eof EXCEPT ![c] = @ + live[c]]
    /\ live' = [live EXCEPT ![c] = 0]
    /\ UNCHANGED <<starts, attacher, ctxDone, cancelFuncs, rows, failed>>

\* A signal cancels the context of main.
CtxCancel ==
    /\ ~ctxDone
    /\ ctxDone' = TRUE
    /\ UNCHANGED <<daemon, attacher, cancelFuncs, rows, live, eof, failed>>

StreamEnd(c) ==
    /\ live[c] > 0
    /\ live' = [live EXCEPT ![c] = @ - 1]
    /\ eof' = [eof EXCEPT ![c] = @ + 1]
    /\ UNCHANGED <<daemon, attacher, ctxDone, cancelFuncs, rows>>

\* A stream ends while its container runs: the connection drops, or the
\* scanner gives up on a line longer than its 64 KiB buffer.
StreamBreak(c) == StreamEnd(c) /\ Fails("stream")

\* Cancelling the context aborts the request behind the stream.
StreamCancelled(c) == ctxDone /\ StreamEnd(c) /\ UNCHANGED failed

-----------------------------------------------------------------------------
(* The follower goroutines. *)

\* Mutant: the exit path runs although no stream has ended.
StreamOverAnyTime(c) == TRUE
StreamOver(c) == eof[c] > 0

\* Mutant: the key stays behind.
KeepKey(c) == UNCHANGED cancelFuncs
DropKey(c) == cancelFuncs' = cancelFuncs \ {c}

\* The range loop over logChan is over: drop the key.
FollowerExit(c) ==
    /\ StreamOver(c)
    /\ eof' = [eof EXCEPT ![c] = @ - 1]
    /\ DropKey(c)
    /\ UNCHANGED <<daemon, attacher, ctxDone, rows, live, failed>>

\* The select on batchCh takes ctx.Done: return without dropping the key.
FollowerQuit(c) ==
    /\ ctxDone
    /\ \/ /\ live[c] > 0
          /\ live' = [live EXCEPT ![c] = @ - 1]
          /\ UNCHANGED eof
       \/ /\ eof[c] > 0
          /\ eof' = [eof EXCEPT ![c] = @ - 1]
          /\ UNCHANGED live
    /\ UNCHANGED <<daemon, attacher, ctxDone, cancelFuncs, rows, failed>>

-----------------------------------------------------------------------------
(* The attaching goroutine: Start, then watchEvents. *)

\* GetAllRunningContainers; a failure leaves nothing to attach to.
ListRunning ==
    /\ pc = "list"
    /\ \/ ~ctxDone /\ todo' = running /\ UNCHANGED failed
       \/ todo' = {} /\ Fails("list")
    /\ pc' = "next"
    /\ UNCHANGED <<daemon, events, subscribed, ctxDone, cur, cancelFuncs,
                   rows, live, eof>>

\* Mutant: the loop over the listed containers ends after the first.
TakeOnly(c) == todo' = {}
Take(c) == todo' = todo \ {c}

AttachNext ==
    /\ pc = "next"
    /\ \/ /\ todo = {}
          /\ pc' = "subscribe"
          /\ UNCHANGED <<todo, cur>>
       \/ \E c \in todo :
            /\ Take(c)
            /\ cur' = c
            /\ pc' = "register"
    /\ UNCHANGED <<daemon, events, subscribed, ctxDone, cancelFuncs, rows,
                   live, eof, failed>>

AddKey(c) == cancelFuncs' = cancelFuncs \union {c}

Register ==
    /\ pc = "register"
    /\ AddKey(cur)
    /\ pc' = "upsert"
    /\ UNCHANGED <<daemon, events, subscribed, ctxDone, todo, cur, rows, live,
                   eof, failed>>

\* Mutant: a container found through an event gets no row.
SaveListed(c) == rows' = IF subscribed THEN rows ELSE rows \union {c}
SaveRow(c) == rows' = rows \union {c}

\* A failed Upsert is only logged.
Upsert ==
    /\ pc = "upsert"
    /\ \/ ~ctxDone /\ SaveRow(cur) /\ UNCHANGED failed
       \/ UNCHANGED rows /\ Fails("upsert")
    /\ pc' = "follow"
    /\ UNCHANGED <<daemon, events, subscribed, ctxDone, todo, cur,
                   cancelFuncs, live, eof>>

\* Mutant: without Follow in the options every stream ends where the log ends.
StreamsEnd(c) == TRUE
EndsAtOnce(c) == c \notin running

\* FollowContainerLogs starts at the tail (Tail "0"), so the stream of a
\* container that has stopped meanwhile is at its end at once.  A failure
\* returns and leaves the key in cancelFuncs.
Follow ==
    /\ pc = "follow"
    /\ \/ /\ ~ctxDone
          /\ ~EndsAtOnce(cur)
          /\ live' = [live EXCEPT ![cur] = @ + 1]
          /\ UNCHANGED <<eof, failed>>
       \/ /\ ~ctxDone
          /\ EndsAtOnce(cur)
          /\ eof' = [eof EXCEPT ![cur] = @ + 1]
          /\ UNCHANGED <<live, failed>>
       \/ /\ Fails("follow")
          /\ UNCHANGED <<live, eof>>
    /\ pc' = IF subscribed THEN "watch" ELSE "next"
    /\ cur' = NoContainer
    /\ UNCHANGED <<daemon, events, subscribed, ctxDone, todo, cancelFuncs,
                   rows>>

\* main exits when the shared Docker client cannot be made, so neither error
\* return of watchEvents before its loop is reachable; a failure to connect
\* arrives later, as an error on the stream.
Subscribe ==
    /\ pc = "subscribe"
    /\ subscribed' = TRUE
    /\ pc' = "watch"
    /\ UNCHANGED <<daemon, events, ctxDone, todo, cur, cancelFuncs, rows,
                   live, eof, failed>>

\* Mutant: a start event always attaches.
NeverExists(c) == FALSE
Exists(c) == c \in cancelFuncs

\* A start event: skipped when the container has a key or no name can be
\* found, else the container is attached.
WatchEvent ==
    /\ pc = "watch"
    /\ events # <<>>
    /\ events' = Tail(events)
    /\ \/ /\ Exists(Head(events))
          /\ UNCHANGED <<cur, pc, failed>>
       \/ /\ ~Exists(Head(events))
          /\ Fails("name")
          /\ UNCHANGED <<cur, pc>>
       \/ /\ ~Exists(Head(events))
          /\ cur' = Head(events)
          /\ pc' = "register"
          /\ UNCHANGED failed
    /\ UNCHANGED <<daemon, subscribed, ctxDone, todo, cancelFuncs, rows, live,
                   eof>>

WatchReturn ==
    /\ pc = "watch"
    /\ pc' = "stopped"
    /\ subscribed' = FALSE
    /\ events' = <<>>
    /\ UNCHANGED <<daemon, ctxDone, todo, cur, cancelFuncs, rows, live, eof>>

\* The event stream reports an error: watchEvents returns for good.
WatchError == WatchReturn /\ Fails("events")

\* Mutant: the select of watchEvents has no case for ctx.Done.
WatchNeverStops == FALSE
WatchStop == ctxDone /\ WatchReturn /\ UNCHANGED failed

-----------------------------------------------------------------------------
Attacher ==
    \/ ListRunning \/ AttachNext \/ Register \/ Upsert \/ Follow \/ Subscribe
    \/ WatchEvent \/ WatchStop

Follower(c) == FollowerExit(c) \/ FollowerQuit(c)

Environment(c) ==
    DockerStart(c) \/ DockerStop(c) \/ StreamBreak(c) \/ StreamCancelled(c)

Next ==
    \/ CtxCancel
    \/ WatchError
    \/ Attacher
    \/ \E c \in Containers : Follower(c) \/ Environment(c)

Spec == Init /\ [][Next]_vars

\* Runnable goroutines run, and a cancelled context ends the streams opened
\* under it.  Nothing is assumed of the daemon's containers or of failures.
Fairness ==
    /\ WF_vars(Attacher)
    /\ \A c \in Containers : WF_vars(Follower(c))
    /\ \A c \in Containers : WF_vars(StreamCancelled(c))

FairSpec == Spec /\ Fairness

-----------------------------------------------------------------------------
TypeOK ==
    /\ running \subseteq Containers
    /\ starts \in 0..MaxStarts
    /\ events \in Seq(Containers)
    /\ subscribed \in BOOLEAN
    /\ ctxDone \in BOOLEAN
    /\ pc \in Locations
    /\ todo \subseteq Containers
    /\ cur \in Containers \union {NoContainer}
    /\ cur \in Containers <=> pc \in {"register", "upsert", "follow"}
    /\ cancelFuncs \subseteq Containers
    /\ rows \subseteq Containers
    /\ live \in [Containers -> Nat]
    /\ eof \in [Containers -> Nat]
    /\ failed \subseteq Calls

Followed(c) == live[c] + eof[c] > 0

\* attachToContainer holds c and will still open its stream.
Attaching(c) == cur = c /\ pc \in {"register", "upsert", "follow"}

\* A container never has two follower goroutines, so no line of it is queued
\* twice: the check of cancelFuncs in watchEvents, made outside the lock that
\* registers, is enough whatever stops, restarts and fails meanwhile.
OneFollower == \A c \in Containers : live[c] + eof[c] <= 1

\* A follower's container keeps its key until the follower has left, so the
\* removal in a follower's exit path never removes another follower's key.
FollowedIsRegistered ==
    \A c \in Containers : Followed(c) => c \in cancelFuncs

\* Until an Upsert fails, a follower's container has its row before the
\* follower can queue a line (SearchLogs joins log_entries with containers),
\* also while other calls fail.
FollowedHasRow ==
    "upsert" \notin failed => \A c \in Containers : Followed(c) => c \in rows

\* Until FollowContainerLogs fails, a key of cancelFuncs belongs to a follower
\* or to the attachment in progress, so a start event is never skipped because
\* of a key nobody will remove.
KeysAreLive ==
    "follow" \notin failed /\ ~ctxDone =>
        \A c \in cancelFuncs : Followed(c) \/ Attaching(c)

\* So the keys, which decide whether a start event is handled, are those of
\* the followed containers and of the one being attached: both directions,
\* each with its exceptions above.
KeysMatchFollowers == FollowedIsRegistered /\ KeysAreLive

\* The ways in which a running container is followed, or will be.
Covered(c) ==
    \/ pc = "list"
    \/ c \in todo
    \/ Attaching(c)
    \/ live[c] > 0
    \/ c \in ToSet(events)

\* As long as nothing fails, a running container drops out of the collector's
\* sight in two ways only: it starts before the event stream is open and after
\* the list was taken, or its start event is skipped while the follower of its
\* previous life still holds the key.
LostOnlyInTwoWays ==
    [][\A c \in Containers :
         (/\ ~ctxDone' /\ failed' = {}
          /\ c \in running' /\ ~Covered(c)'
          /\ ~(c \in running /\ ~Covered(c)))
         => \/ c \notin running /\ ~subscribed
            \/ pc = "watch" /\ c = Head(events) /\ eof[c] > 0]_vars

\* An attachment that has begun ends with a follower on an open stream,
\* unless the container stops, the collector is cancelled or its call fails.
AttachedGetsFollowed ==
    \A c \in Containers :
        Attaching(c) ~> \/ live[c] > 0 \/ c \notin running \/ ctxDone
                        \/ failed \intersect {"follow", "stream"} # {}

\* Cancelling the context stops the event watcher and every follower, whatever
\* they were doing.
CancelStopsAll ==
    ctxDone ~> /\ pc = "stopped"
               /\ \A c \in Containers : ~Followed(c)

=============================================================================
