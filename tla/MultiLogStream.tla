--------------------------- MODULE MultiLogStream ---------------------------
(***************************************************************************)
(* GET /logs/live: one WebSocket that shows the lines of all running       *)
(* containers.  src/backend/internal/websocket/multi_log.go, with the      *)
(* goroutine FollowContainerLogs of log_service.go starts per container.   *)
(*                                                                         *)
(* Per container a reader scans lines into a channel of its own (output)   *)
(* and a fan-in goroutine moves them to the shared channel merged.  One    *)
(* goroutine closes merged when all fan-ins are done.  The handler writes  *)
(* what merged holds to the client until a write fails or merged is        *)
(* closed; its return cancels the context of all the others.  No write has *)
(* a deadline: it blocks for as long as the client stays connected and     *)
(* does not read.                                                          *)
(***************************************************************************)
EXTENDS Integers, Sequences, SequencesExt

CONSTANTS
    Containers,   \* the container ids the daemon may list
    MaxLines,     \* bound: lines a container writes
    OutCap,       \* 100 in the code
    MergedCap     \* 200 in the code

ASSUME BoundsAssumption ==
    MaxLines \in Nat /\ OutCap \in Nat \ {0} /\ MergedCap \in Nat \ {0}

VARIABLES
    hpc,         \* where the handler is
    todo,        \* listed containers the handler has not reached
    sending,     \* the line WriteMessage is writing, or <<>>
    connUp,      \* FALSE: the client is gone and the next write fails
    stalled,     \* the client is connected, and its socket takes no more
    reader,      \* reader[c]: where c's reader is; "closed": it has ended and
                 \* closed output[c]
    read,        \* read[c]: lines the scanner has returned
    output,      \* output[c]: the channel between reader and fan-in
    fan,         \* fan[c]: where c's fan-in goroutine is
    hold,        \* hold[c]: the line the fan-in holds
    merged,      \* the shared channel
    closer,      \* the closing goroutine; "ended": merged is closed
    written      \* history: what has been written to the client

readers == <<reader, read>>
fans == <<fan, hold>>
handler == <<hpc, todo, sending>>
client == <<connUp, stalled>>
vars == <<handler, client, readers, output, fans, merged, closer, written>>

Lines == 1..MaxLines

Init ==
    /\ hpc = "list"
    /\ todo = {}
    /\ sending = <<>>
    /\ connUp = TRUE
    /\ stalled = FALSE
    /\ reader = [c \in Containers |-> "none"]
    /\ read = [c \in Containers |-> 0]
    /\ output = [c \in Containers |-> <<>>]
    /\ fan = [c \in Containers |-> "none"]
    /\ hold = [c \in Containers |-> 0]
    /\ merged = <<>>
    /\ closer = "none"
    /\ written = <<>>

\* The deferred cancels run when the handler returns.  Nothing else cancels:
\* the context of a hijacked request does not notice that the client is gone.
Cancelled == hpc = "done"

-----------------------------------------------------------------------------
(* The handler. *)

\* GetAllRunningContainers; its failure closes the connection.
List ==
    /\ hpc = "list"
    /\ \/ hpc' = "follow" /\ todo' \in SUBSET Containers
       \/ hpc' = "done" /\ UNCHANGED todo
    /\ UNCHANGED <<sending, client, readers, output, fans, merged, closer,
                   written>>

\* FollowContainerLogs and the fan-in for one container; a container that
\* cannot be followed is skipped.
FollowContainer(c) ==
    /\ hpc = "follow"
    /\ c \in todo
    /\ todo' = todo \ {c}
    /\ \/ /\ reader' = [reader EXCEPT ![c] = "scan"]
          /\ fan' = [fan EXCEPT ![c] = "recv"]
       \/ UNCHANGED <<reader, fan>>
    /\ UNCHANGED <<hpc, sending, client, read, output, hold, merged, closer,
                   written>>

StartCloser ==
    /\ hpc = "follow"
    /\ todo = {}
    /\ hpc' = "write"
    /\ closer' = "waiting"
    /\ UNCHANGED <<todo, sending, client, readers, output, fans, merged,
                   written>>

WriteFailed == hpc' = "done"

TakeMessage ==
    /\ hpc = "write"
    /\ sending = <<>>
    /\ merged # <<>>
    /\ sending' = <<Head(merged)>>
    /\ merged' = Tail(merged)
    /\ UNCHANGED <<hpc, todo, client, readers, output, fans, closer, written>>

\* WriteMessage returns: never while the client stalls, and its first failure
\* ends the handler.
WriteMessage ==
    /\ sending # <<>>
    /\ \/ connUp /\ ~stalled /\ written' = written \o sending /\ UNCHANGED hpc
       \/ ~connUp /\ WriteFailed /\ UNCHANGED written
    /\ sending' = <<>>
    /\ UNCHANGED <<todo, client, readers, output, fans, merged, closer>>

\* The range over merged ends: it is empty and closed.
MergedEnds ==
    /\ hpc = "write"
    /\ sending = <<>>
    /\ merged = <<>>
    /\ closer = "ended"
    /\ hpc' = "done"
    /\ UNCHANGED <<todo, sending, client, readers, output, fans, merged,
                   closer, written>>

-----------------------------------------------------------------------------
(* The goroutine of FollowContainerLogs. *)

ScanLine(c) ==
    /\ reader[c] = "scan"
    /\ read[c] < MaxLines
    /\ read' = [read EXCEPT ![c] = @ + 1]
    /\ reader' = [reader EXCEPT ![c] = "send"]
    /\ UNCHANGED <<handler, client, output, fans, merged, closer, written>>

\* Mutant: the channel takes one line too many.
RoomForOneMore(c) == Len(output[c]) <= OutCap
HasRoom(c) == Len(output[c]) < OutCap

PutLine(c) ==
    /\ reader[c] = "send"
    /\ HasRoom(c)
    /\ output' = [output EXCEPT ![c] = Append(@, read[c])]
    /\ reader' = [reader EXCEPT ![c] = "scan"]
    /\ UNCHANGED <<handler, client, read, fans, merged, closer, written>>

\* Mutant: a reader that gives up forgets to close its channel.
EndSilently(c) == reader' = [reader EXCEPT ![c] = "none"]
CloseOutput(c) == reader' = [reader EXCEPT ![c] = "closed"]

\* Scan returns FALSE: the container stops, the stream breaks or a line is
\* longer than the scanner's buffer.
StreamEnds(c) ==
    /\ reader[c] = "scan"
    /\ CloseOutput(c)
    /\ UNCHANGED <<handler, client, read, output, fans, merged, closer,
                   written>>

\* The cancelled context aborts the read behind Scan, or wins the select.
ReaderCancelled(c) ==
    /\ Cancelled
    /\ reader[c] \in {"scan", "send"}
    /\ CloseOutput(c)
    /\ UNCHANGED <<handler, client, read, output, fans, merged, closer,
                   written>>

-----------------------------------------------------------------------------
(* The fan-in goroutines and the closing goroutine. *)

Receive(c) ==
    /\ fan[c] = "recv"
    /\ output[c] # <<>>
    /\ hold' = [hold EXCEPT ![c] = Head(output[c])]
    /\ output' = [output EXCEPT ![c] = Tail(@)]
    /\ fan' = [fan EXCEPT ![c] = "send"]
    /\ UNCHANGED <<handler, client, readers, merged, closer, written>>

\* Mutant: a line that finds merged full is dropped.
DropIfFull(c) == merged' = IF Len(merged) < MergedCap
                             THEN Append(merged, <<c, hold[c]>>) ELSE merged
Send(c) == Len(merged) < MergedCap /\ merged' = Append(merged, <<c, hold[c]>>)

Merge(c) ==
    /\ fan[c] = "send"
    /\ Send(c)
    /\ hold' = [hold EXCEPT ![c] = 0]
    /\ fan' = [fan EXCEPT ![c] = "recv"]
    /\ UNCHANGED <<handler, client, readers, output, closer, written>>

\* Mutant: the send to merged has no case for ctx.Done.
FanIgnoresCancel(c) == FALSE
FanCancelled(c) ==
    /\ fan[c] = "send"
    /\ Cancelled
    /\ hold' = [hold EXCEPT ![c] = 0]
    /\ fan' = [fan EXCEPT ![c] = "done"]
    /\ UNCHANGED <<handler, client, readers, output, merged, closer, written>>

OutputEnds(c) ==
    /\ fan[c] = "recv"
    /\ output[c] = <<>>
    /\ reader[c] = "closed"
    /\ fan' = [fan EXCEPT ![c] = "done"]
    /\ UNCHANGED <<handler, client, readers, output, hold, merged, closer,
                   written>>

\* Mutant: merged is closed as soon as one fan-in is done.
OneDone == \E c \in Containers : fan[c] = "done"
AllDone == \A c \in Containers : fan[c] \in {"none", "done"}

CloseMerged ==
    /\ closer = "waiting"
    /\ AllDone
    /\ closer' = "ended"
    /\ UNCHANGED <<handler, client, readers, output, fans, merged, written>>

-----------------------------------------------------------------------------
(* The client. *)

\* It stops reading (a sleeping tab, a slow line), or reads again.
ClientStalls ==
    /\ connUp
    /\ stalled' = ~stalled
    /\ UNCHANGED <<handler, connUp, readers, output, fans, merged, closer,
                   written>>

\* Its connection breaks, which ends a blocked write too.
ClientGoes ==
    /\ connUp
    /\ connUp' = FALSE
    /\ stalled' = FALSE
    /\ UNCHANGED <<handler, readers, output, fans, merged, closer, written>>

Handler ==
    \/ List \/ StartCloser \/ TakeMessage \/ WriteMessage \/ MergedEnds
    \/ \E c \in Containers : FollowContainer(c)
Reader(c) == PutLine(c) \/ ReaderCancelled(c)
FanIn(c) == Receive(c) \/ Merge(c) \/ FanCancelled(c) \/ OutputEnds(c)

Next ==
    \/ Handler
    \/ ClientStalls \/ ClientGoes
    \/ CloseMerged
    \/ \E c \in Containers :
         Reader(c) \/ FanIn(c) \/ ScanLine(c) \/ StreamEnds(c)

Spec == Init /\ [][Next]_vars

\* Goroutines that are not blocked run.  Nothing is assumed of the containers,
\* which may be silent for ever, or of the client, which may stay connected and
\* never read again: the handler is then blocked in WriteMessage.
Fairness ==
    /\ WF_vars(Handler)
    /\ WF_vars(CloseMerged)
    /\ \A c \in Containers : WF_vars(Reader(c)) /\ WF_vars(FanIn(c))

FairSpec == Spec /\ Fairness

-----------------------------------------------------------------------------
TypeOK ==
    /\ hpc \in {"list", "follow", "write", "done"}
    /\ todo \subseteq Containers
    /\ sending \in Seq(Containers \X Lines)
    /\ sending # <<>> => hpc = "write" /\ Len(sending) = 1
    /\ connUp \in BOOLEAN /\ stalled \in BOOLEAN
    /\ reader \in [Containers -> {"none", "scan", "send", "closed"}]
    /\ read \in [Containers -> 0..MaxLines]
    /\ output \in [Containers -> Seq(Lines)]
    /\ \A c \in Containers : Len(output[c]) <= OutCap
    /\ fan \in [Containers -> {"none", "recv", "send", "done"}]
    /\ hold \in [Containers -> 0..MaxLines]
    /\ \A c \in Containers : fan[c] = "send" <=> hold[c] > 0
    /\ merged \in Seq(Containers \X Lines) /\ Len(merged) <= MergedCap
    /\ closer \in {"none", "waiting", "ended"}
    /\ written \in Seq(Containers \X Lines)

\* merged is closed only when no goroutine will send to it: a send on a closed
\* channel would end the whole process, and with it the log collector.
NoSendOnClosed ==
    closer = "ended" =>
        /\ hpc \in {"write", "done"}
        /\ \A c \in Containers : fan[c] \notin {"recv", "send"}

\* The lines of container c in a sequence of merged lines.
OfContainer(c, s) ==
    FoldLeft(LAMBDA mine, m : IF m[1] = c THEN Append(mine, m[2]) ELSE mine,
             <<>>, s)

\* The lines of container c on their way to the client, oldest first.
InFlight(c) ==
    OfContainer(c, written \o sending \o merged)
    \o (IF fan[c] = "send" THEN <<hold[c]>> ELSE <<>>)
    \o output[c]
    \o (IF reader[c] = "send" THEN <<read[c]>> ELSE <<>>)

\* While the client is there, every line a scanner returned is written, or on
\* its way, once and in the container's order, through both channels and
\* whatever the other containers do; also when the handler has ended because
\* all streams have.
LinesInOrder ==
    connUp => \A c \in Containers :
                 InFlight(c) = [i \in 1..read[c] |-> i]

\* The handler's return ends every goroutine it started, those blocked on a
\* full channel included.
ReturnEndsAll ==
    hpc = "done" ~> /\ closer # "waiting"
                    /\ \A c \in Containers : /\ reader[c] \in {"none", "closed"}
                                             /\ fan[c] \in {"none", "done"}

\* If the client does not stop reading for good, the handler returns once every
\* stream has ended, so that the client sees the connection closed.  At the
\* next line of any container, or out of the write it is blocked in, it returns
\* once the client is gone.  Nothing else notices a gone client: the handler
\* never reads from the connection.
HandlerReturns ==
    /\ <>[]~stalled =>
         ((hpc = "write"
           /\ \A c \in Containers : reader[c] \in {"none", "closed"})
            ~> hpc = "done")
    /\ (~connUp /\ sending \o merged # <<>>) ~> hpc = "done"
=============================================================================
