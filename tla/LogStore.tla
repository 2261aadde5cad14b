------------------------------- MODULE LogStore -------------------------------
(***************************************************************************)
(* The tables containers and log_entries, what the collector does to them  *)
(* (Upsert, BatchInsertLogs, the hourly retention) and the queries of the  *)
(* search and of the AI summaries: src/backend/internal/storage and        *)
(* retentionLoop of src/backend/internal/collector/collector.go.           *)
(*                                                                         *)
(* A message is the set of words the program looks for in it and a length. *)
(* Time passes in ticks; a negative limit is no LIMIT at all (gorm).       *)
(***************************************************************************)
EXTENDS Integers, Sequences, SequencesExt, FiniteSets, FiniteSetsExt

CONSTANTS
    Ids,            \* the container ids, naturals: their order is SQL's
    Names,          \* the container names
    Messages,       \* what containers log
    Keep,           \* the retention period, 7 days in the code
    SearchDefault,  \* 100 in the code
    SearchMax,      \* 1000 in the code
    MaxTime,        \* bound: ticks
    MaxRows         \* bound: rows ever inserted

ASSUME IdsAssumption == Ids \subseteq Nat
ASSUME NamesAssumption == "" \notin Names
ASSUME LimitsAssumption ==
    /\ SearchMax \in Nat /\ SearchDefault \in 1..SearchMax
    /\ Keep \in Nat \ {0} /\ MaxTime \in Nat /\ MaxRows \in Nat
\* A message is not empty, so some word finds it.
ASSUME MessagesAssumption ==
    \A m \in Messages : m.words # {} /\ m.length \in Nat

VARIABLES
    now,          \* the time
    containers,   \* the table containers: id -> name
    logEntries,   \* the table log_entries
    nextId        \* the serial of the next row

store == <<now, containers, logEntries, nextId>>

Rows == [id : 1..MaxRows, container : Ids, message : Messages, at : 0..MaxTime]

StoreInit ==
    /\ now = 0
    /\ containers = [i \in {} |-> ""]
    /\ logEntries = {}
    /\ nextId = 1

-----------------------------------------------------------------------------
(* The writers. *)

\* FirstOrCreate by id, with the name assigned: a renamed container keeps its
\* row, a container made again under the same name gets a second one.
Upsert(i, n) ==
    /\ containers' = [j \in DOMAIN containers \union {i} |->
                        IF j = i THEN n ELSE containers[j]]
    /\ UNCHANGED <<now, logEntries, nextId>>

InsertLog(i, m) ==
    /\ nextId <= MaxRows
    /\ logEntries' = logEntries \union
         {[id |-> nextId, container |-> i, message |-> m, at |-> now]}
    /\ nextId' = nextId + 1
    /\ UNCHANGED <<now, containers>>

Tick ==
    /\ now < MaxTime
    /\ now' = now + 1
    /\ UNCHANGED <<containers, logEntries, nextId>>

\* runRetention, when DeleteLogsBefore does not fail.
Retention ==
    /\ logEntries' = {r \in logEntries : r.at >= now - Keep}
    /\ UNCHANGED <<now, containers, nextId>>

StoreNext ==
    \/ Tick
    \/ Retention
    \/ \E i \in Ids : \/ \E n \in Names : Upsert(i, n)
                      \/ \E m \in Messages : InsertLog(i, m)

-----------------------------------------------------------------------------
(* The queries.  Rows of one time come in any order, so a query has a set of  *)
(* answers, each a sequence of rows.                                          *)

NewestFirst(rows) ==
    {s \in SetToSeqs(rows) :
        \A i, j \in DOMAIN s : i < j => s[i].at >= s[j].at}

Limited(s, limit) ==
    IF limit < 0 \/ limit > Len(s) THEN s ELSE SubSeq(s, 1, limit)

Answers(rows, limit) == {Limited(s, limit) : s \in NewestFirst(rows)}

\* The inner join with containers.
Joined == {r \in logEntries : r.container \in DOMAIN containers}

\* The rows SearchLogs selects: word in the message, and the name unless empty.
\* A bound of the time that is not given is 0, or MaxTime.
Found(word, name, from, to) ==
    {r \in Joined : /\ word \in r.message.words
                    /\ name = "" \/ containers[r.container] = name
                    /\ r.at >= from /\ r.at <= to}

SearchLimit(limit) ==
    IF limit <= 0 \/ limit > SearchMax THEN SearchDefault ELSE limit

SearchLogs(word, name, from, to, limit) ==
    Answers(Found(word, name, from, to), SearchLimit(limit))

GetLogsSince(since, limit) ==
    Answers({r \in Joined : r.at >= since}, limit)

\* GetLogsByContainerSince: the row First finds, then the logs of its id.
Named(name) == {i \in DOMAIN containers : containers[i] = name}
FirstByName(name) == Min(Named(name))
OfContainer(i, since) ==
    {r \in logEntries : r.container = i /\ r.at >= since}

-----------------------------------------------------------------------------
StoreTypeOK ==
    /\ now \in 0..MaxTime
    /\ DOMAIN containers \subseteq Ids
    /\ \A i \in DOMAIN containers : containers[i] \in Names
    /\ logEntries \subseteq Rows
    /\ nextId \in 1..MaxRows + 1
=============================================================================
