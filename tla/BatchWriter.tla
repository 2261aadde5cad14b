---------------------------- MODULE BatchWriter ----------------------------
(***************************************************************************)
(* The path of a log line from a follower goroutine to Postgres, and the   *)
(* shutdown that ends it: batchWriter, signalDone, Shutdown and the        *)
(* follower's select of src/backend/internal/collector/collector.go, with  *)
(* BatchInsertLogs and the end of main in src/backend/cmd/api/main.go.     *)
(*                                                                         *)
(* Followers queue lines in batchCh.  The writer collects them in batch    *)
(* and flushes it at the cap or on a tick; those flushes are inserted by   *)
(* goroutines of their own, which nobody waits for.  On cancellation it    *)
(* drains the channel, inserting in its own goroutine, and closes          *)
(* batchDone, which main's last step but one waits for.                    *)
(***************************************************************************)
EXTENDS Integers, Sequences, SequencesExt, FiniteSets

CONSTANTS
    Followers,       \* the follower goroutines
    MaxLines,        \* bound: lines a follower queues
    BatchCap,        \* 1000 in the code
    ChanCap,         \* 10000 in the code
    InsertsMayFail   \* the database may refuse an insert or time out

ASSUME SizesAssumption ==
    MaxLines \in Nat /\ BatchCap \in Nat \ {0} /\ ChanCap \in Nat \ {0}
ASSUME InsertsAssumption == InsertsMayFail \in BOOLEAN

\* The k-th line of follower f.
Entries == Followers \X (1..MaxLines)

VARIABLES
    senders,     \* followers still in their loop
    sent,        \* sent[f]: lines f has queued
    batchCh,     \* the channel's buffer
    batch,       \* the writer's buffer
    wpc,         \* where the writer is
    syncInsert,  \* what the writer is inserting itself
    inflight,    \* the batches of the goroutines started by flush(false)
    stored,      \* stored[e]: rows of log_entries that hold e
    dropped,     \* entries of refused inserts
    ctxDone,     \* the context of main is cancelled
    mpc,         \* where main is
    clean,       \* the collector's Shutdown returned nil
    promised     \* history: what was buffered when the context was cancelled

vars == <<senders, sent, batchCh, batch, wpc, syncInsert, inflight, stored,
          dropped, ctxDone, mpc, clean, promised>>
follower == <<senders, sent>>
writer == <<batch, wpc, syncInsert>>
main == <<ctxDone, mpc, clean, promised>>
database == <<stored, dropped>>

\* A step of any goroutine needs the process.
alive == mpc # "exited"

Init ==
    /\ senders = Followers
    /\ sent = [f \in Followers |-> 0]
    /\ batchCh = <<>>
    /\ batch = <<>>
    /\ wpc = "select"
    /\ syncInsert = <<>>
    /\ inflight = {}
    /\ stored = [e \in Entries |-> 0]
    /\ dropped = {}
    /\ ctxDone = FALSE
    /\ mpc = "serving"
    /\ clean = FALSE
    /\ promised = {}

-----------------------------------------------------------------------------
(* The followers: select between the send, which blocks while the channel is *)
(* full, and ctx.Done.                                                       *)

FollowerSend(f) ==
    /\ alive
    /\ f \in senders
    /\ sent[f] < MaxLines
    /\ Len(batchCh) < ChanCap
    /\ batchCh' = Append(batchCh, <<f, sent[f] + 1>>)
    /\ sent' = [sent EXCEPT ![f] = @ + 1]
    /\ UNCHANGED <<senders, writer, inflight, database, main>>

FollowerQuit(f) ==
    /\ alive
    /\ ctxDone
    /\ f \in senders
    /\ senders' = senders \ {f}
    /\ UNCHANGED <<sent, batchCh, writer, inflight, database, main>>

-----------------------------------------------------------------------------
(* The writer. *)

\* Mutant: a batch is cut one entry late.
Overfull(b) == Len(b) > BatchCap
Full(b) == Len(b) >= BatchCap

\* Mutant: the batch handed over is not cleared.
FlushNoReset(b) ==
    /\ batch' = b
    /\ inflight' = IF b = <<>> THEN inflight ELSE inflight \union {b}

\* flush(false): the batch goes to a goroutine of its own.
FlushAsync(b) ==
    /\ batch' = <<>>
    /\ inflight' = IF b = <<>> THEN inflight ELSE inflight \union {b}

\* flush(true), up to the call of insert; pc is where the writer waits for it
\* and done where it goes on when there was nothing to flush.
FlushSync(b, pc, done) ==
    /\ batch' = <<>>
    /\ syncInsert' = b
    /\ wpc' = IF b = <<>> THEN done ELSE pc

WriterRecv ==
    /\ alive
    /\ wpc = "select"
    /\ batchCh # <<>>
    /\ batchCh' = Tail(batchCh)
    /\ LET b == Append(batch, Head(batchCh))
       IN  IF Full(b)
             THEN FlushAsync(b)
             ELSE batch' = b /\ UNCHANGED inflight
    /\ UNCHANGED <<follower, wpc, syncInsert, database, main>>

\* Mutant: the ticker never fires.
TickerStopped == FALSE

WriterTick ==
    /\ alive
    /\ wpc = "select"
    /\ FlushAsync(batch)
    /\ UNCHANGED <<follower, batchCh, wpc, syncInsert, database, main>>

WriterCancelled ==
    /\ alive
    /\ wpc = "select"
    /\ ctxDone
    /\ wpc' = "drain"
    /\ UNCHANGED <<follower, batchCh, batch, syncInsert, inflight, database,
                   main>>

WriterDrain ==
    /\ alive
    /\ wpc = "drain"
    /\ batchCh # <<>>
    /\ batchCh' = Tail(batchCh)
    /\ LET b == Append(batch, Head(batchCh))
       IN  IF Full(b)
             THEN FlushSync(b, "drainInsert", "drain")
             ELSE batch' = b /\ UNCHANGED <<wpc, syncInsert>>
    /\ UNCHANGED <<follower, inflight, database, main>>

\* Mutant: the drain may stop early.
StopEarly == TRUE
ChannelEmpty == batchCh = <<>>

\* The drain loop's default: the channel is empty at this moment.
WriterDrained ==
    /\ alive
    /\ wpc = "drain"
    /\ ChannelEmpty
    /\ FlushSync(batch, "finalInsert", "signal")
    /\ UNCHANGED <<follower, batchCh, inflight, database, main>>

\* Mutant: the rows are inserted one by one, without the transaction, so an
\* error leaves the first ones in the table.
InsertRows(b) ==
    \E k \in 0..Len(b) :
       /\ k < Len(b) => InsertsMayFail
       /\ stored' = [e \in Entries |->
                       stored[e]
                       + IF e \in ToSet(SubSeq(b, 1, k)) THEN 1 ELSE 0]
       /\ dropped' = dropped \union ToSet(SubSeq(b, k + 1, Len(b)))

\* BatchInsertLogs of a batch is one transaction: all of it is stored, or
\* none and the batch is dropped.
InsertBatch(b) ==
    \/ /\ stored' = [e \in Entries |->
                        stored[e] + IF e \in ToSet(b) THEN 1 ELSE 0]
       /\ UNCHANGED dropped
    \/ /\ InsertsMayFail
       /\ dropped' = dropped \union ToSet(b)
       /\ UNCHANGED stored

WriterInsert ==
    /\ alive
    /\ wpc \in {"drainInsert", "finalInsert"}
    /\ InsertBatch(syncInsert)
    /\ syncInsert' = <<>>
    /\ wpc' = IF wpc = "drainInsert" THEN "drain" ELSE "signal"
    /\ UNCHANGED <<follower, batchCh, batch, inflight, main>>

\* close(batchDone); wpc = "done" stands for the closed channel.
SignalDone ==
    /\ alive
    /\ wpc = "signal"
    /\ wpc' = "done"
    /\ UNCHANGED <<follower, batchCh, batch, syncInsert, inflight, database,
                   main>>

AsyncInsert(b) ==
    /\ alive
    /\ b \in inflight
    /\ InsertBatch(b)
    /\ inflight' = inflight \ {b}
    /\ UNCHANGED <<follower, batchCh, writer, main>>

-----------------------------------------------------------------------------
(* The end of main. *)

CtxCancel ==
    /\ alive
    /\ ~ctxDone
    /\ ctxDone' = TRUE
    /\ promised' = ToSet(batchCh) \union ToSet(batch)
    /\ UNCHANGED <<follower, batchCh, writer, inflight, database, mpc, clean>>

MainSignalled ==
    /\ mpc = "serving"
    /\ ctxDone
    /\ mpc' = "servers"
    /\ UNCHANGED <<follower, batchCh, writer, inflight, database, ctxDone,
                   clean, promised>>

\* Both HTTP servers are shut down, within five seconds each.
ServersDown ==
    /\ mpc = "servers"
    /\ mpc' = "collector"
    /\ UNCHANGED <<follower, batchCh, writer, inflight, database, ctxDone,
                   clean, promised>>

\* Mutant: Shutdown waits for the followers too, and has no deadline.  (A
\* follower whose container is silent never comes to its select.)
JoinFollowers == wpc = "done" /\ senders = {} /\ clean' = TRUE
DoneOrDeadline == (wpc = "done" /\ clean' = TRUE) \/ clean' = FALSE

\* LogCollector.Shutdown returns: batchDone is closed, or ten seconds are over.
Shutdown ==
    /\ mpc = "collector"
    /\ mpc' = "closing"
    /\ DoneOrDeadline
    /\ UNCHANGED <<follower, batchCh, writer, inflight, database, ctxDone,
                   promised>>

\* main returns: every goroutine ends where it is.
Exit ==
    /\ mpc = "closing"
    /\ mpc' = "exited"
    /\ UNCHANGED <<follower, batchCh, writer, inflight, database, ctxDone,
                   clean, promised>>

-----------------------------------------------------------------------------
Writer ==
    \/ WriterRecv \/ WriterCancelled \/ WriterDrain \/ WriterDrained
    \/ WriterInsert \/ SignalDone

Main == MainSignalled \/ ServersDown \/ Shutdown \/ Exit

InsertDone == \E b \in inflight : AsyncInsert(b)

Follower(f) == FollowerSend(f) \/ FollowerQuit(f)

Next ==
    \/ CtxCancel
    \/ Main
    \/ Writer
    \/ WriterTick
    \/ InsertDone
    \/ \E f \in Followers : Follower(f)

Spec == Init /\ [][Next]_vars

\* The goroutines run, the ticker ticks, every insert ends within its ten
\* seconds and every timeout of main expires.  Followers need do nothing: the
\* container of one may be silent.
Fairness ==
    /\ WF_vars(Writer)
    /\ WF_vars(WriterTick)
    /\ WF_vars(InsertDone)
    /\ WF_vars(Main)

FairSpec == Spec /\ Fairness

-----------------------------------------------------------------------------
TypeOK ==
    /\ senders \subseteq Followers
    /\ sent \in [Followers -> 0..MaxLines]
    /\ batchCh \in Seq(Entries) /\ Len(batchCh) <= ChanCap
    /\ batch \in Seq(Entries) /\ Len(batch) < BatchCap
    /\ wpc \in {"select", "drain", "drainInsert", "finalInsert", "signal",
                "done"}
    /\ syncInsert \in Seq(Entries) /\ Len(syncInsert) <= BatchCap
    /\ \A b \in inflight : b \in Seq(Entries) /\ Len(b) <= BatchCap
    /\ stored \in [Entries -> Nat]
    /\ dropped \subseteq Entries
    /\ ctxDone \in BOOLEAN
    /\ mpc \in {"serving", "servers", "collector", "closing", "exited"}
    /\ clean \in BOOLEAN
    /\ promised \subseteq Entries

\* How often e occurs in s.
Occurrences(e, s) == Cardinality({i \in DOMAIN s : s[i] = e})

Queued(e) == e[2] <= sent[e[1]]

\* Entry e, counted over the channel, the writer's buffer, its own insert,
\* the inserts in the background, the table and the refused batches.
Copies(e) ==
    /\ Occurrences(e, batchCh) + Occurrences(e, batch)
       + Occurrences(e, syncInsert)
       + Cardinality({b \in inflight : e \in ToSet(b)})
       + stored[e] + (IF e \in dropped THEN 1 ELSE 0)
       = IF Queued(e) THEN 1 ELSE 0

\* From the moment it is queued, a line is in exactly one place: nothing the
\* writer does, in normal operation, in the drain or at the cap, loses or
\* doubles a line; only a refused insert drops it.
ExactlyOnePlace == \A e \in Entries : Copies(e)

\* Everything buffered when the context was cancelled has left the channel and
\* the writer's buffer when batchDone is closed, whatever followers still
\* queue behind it.
DrainKeepsPromise ==
    wpc \in {"signal", "done"} =>
        /\ batch = <<>> /\ syncInsert = <<>>
        /\ promised \intersect ToSet(batchCh) = {}

\* The batches handed to an insert that has not ended.
Inserting == {ToSet(b) : b \in inflight \union {syncInsert}} \ {{}}

\* The writer, its goroutines and the shutdown implement the abstract log
\* delivery: a batch is cut from the oldest queued lines, is inserted once and
\* as a whole, so that each of its lines gets exactly one row or none, for
\* good, and nothing is cut or stored after the process has ended.
Delivery == INSTANCE LogDelivery WITH
    accepted <- sent,
    batches <- Inserting,
    table <- stored,
    refused <- dropped,
    open <- alive,
    MayRefuse <- InsertsMayFail

DeliversLines == Delivery!Spec

\* When the followers fall silent (here: have queued what MaxLines allows, or
\* less), every line queued so far reaches the database, which stores or
\* refuses it, unless the collector is cancelled first.
EventuallyStored ==
    []<>(ctxDone \/ \A e \in Entries :
                       Queued(e) => stored[e] > 0 \/ e \in dropped)

\* A signal ends the process, whatever the writer, the inserts and the
\* followers are doing.
ShutdownEnds == ctxDone ~> mpc = "exited"

\* Shutdown's comment: it "waits for the batch writer to flush what it has
\* buffered".  So after a shutdown without an error, every line buffered at
\* the cancellation is in the table, if the database accepts it.
CleanExitStoresAll ==
    mpc = "exited" /\ clean =>
        \A e \in promised : stored[e] > 0 \/ e \in dropped
=============================================================================
