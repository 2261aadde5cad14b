------------------------------ MODULE AiSummary ------------------------------
(***************************************************************************)
(* The requests about stored logs: GET /logs/search, /logs/summarize and   *)
(* /logs/summarize/container, one at a time, while the collector goes on   *)
(* writing.  src/backend/internal/services/ai_service.go with the handlers *)
(* ai_handler.go and SearchLogs of logs_handler.go.                        *)
(***************************************************************************)
EXTENDS LogStore

CONSTANTS
    DefaultHours,   \* 24 in the code (a tick is an hour)
    DefaultLimit,   \* 2000 in the code
    MaxLimit,       \* 5000 in the code
    Budget,         \* maxLogSectionChars, 8000 in the code
    Suffix,         \* the length of " (repeated n times)"
    PromptLines,    \* 100 in the code
    Requests        \* what clients ask for

ASSUME SummaryAssumption ==
    /\ DefaultHours \in Nat \ {0} /\ PromptLines \in Nat \ {0}
    /\ MaxLimit \in Nat /\ DefaultLimit \in 1..MaxLimit
    /\ Budget \in Nat /\ Suffix \in Nat

ASSUME RequestsAssumption ==
    \A q \in Requests : /\ q.kind \in {"all", "container", "search"}
                        /\ q.limit \in Int
                        /\ q.kind # "search" => q.hours \in Int

VARIABLES
    request,   \* what the client asks for
    rpc,       \* where the request is
    since,     \* where the time range of the summary begins
    found,     \* the id First has found; 0: none
    namesakes, \* history: the containers with the name when First looked
    logs,      \* what the query returned: lines of a name and a message
    prompt,    \* the lines of the prompt and the omission it mentions
    reply      \* the answer

lookup == <<found, namesakes>>
vars == <<store, request, rpc, since, lookup, logs, prompt, reply>>
NoPrompt == [lines |-> <<>>, omitted |-> 0]
NoRequest == [kind |-> "none"]

Init ==
    /\ StoreInit
    /\ request = NoRequest
    /\ rpc = "idle"
    /\ since = 0
    /\ found = 0
    /\ namesakes = {}
    /\ logs = <<>>
    /\ prompt = NoPrompt
    /\ reply = "none"

Respond(r) == reply' = r /\ rpc' = "done"
Goto(l) == rpc' = l /\ UNCHANGED reply

-----------------------------------------------------------------------------
(* The requests and their queries. *)

\* What a handler refuses.
BadRequest(q) ==
    \/ q.kind = "search" /\ (q.word = "" \/ ~q.times)
    \/ q.kind = "container" /\ q.name = ""

Hours(q) == IF q.hours = 0 THEN DefaultHours ELSE q.hours

\* The handlers' checks, and the range of a summary.  A number that does not
\* parse counts as 0; SearchLogs keeps its default for a limit it does not like.
Arrive ==
    /\ rpc = "idle"
    /\ request' \in Requests
    /\ IF BadRequest(request')
         THEN Respond("badRequest") /\ UNCHANGED since
         ELSE /\ Goto(IF request'.kind = "container" THEN "lookup" ELSE "query")
              /\ since' = IF request'.kind = "search"
                            THEN since ELSE now - Hours(request')
    /\ UNCHANGED <<store, lookup, logs, prompt>>

\* Mutant: a large limit is passed on.
UncappedLimit(l) == IF l = 0 THEN DefaultLimit ELSE l
Limit(l) == IF l = 0 \/ l > MaxLimit THEN DefaultLimit ELSE l

\* Rows as the handlers see them.
Lines(rows) == [i \in DOMAIN rows |-> [name |-> containers[rows[i].container],
                                       message |-> rows[i].message]]

Query ==
    /\ rpc = "query"
    /\ \/ /\ request.kind = "search"
          /\ \E rows \in SearchLogs(request.word, request.name, request.from,
                                     request.to, request.limit) :
               logs' = Lines(rows)
          /\ Respond("ok")
       \/ /\ request.kind = "all"
          /\ \E rows \in GetLogsSince(since, Limit(request.limit)) :
               logs' = Lines(rows)
          /\ IF logs' = <<>> THEN Respond("noLogs") ELSE Goto("prompt")
    /\ UNCHANGED <<store, request, since, lookup, prompt>>

\* The two queries of GetLogsByContainerSince; an unknown name is an error.
LookUp ==
    /\ rpc = "lookup"
    /\ IF Named(request.name) = {}
         THEN Respond("error") /\ UNCHANGED lookup
         ELSE /\ Goto("fetch")
              /\ found' = FirstByName(request.name)
              /\ namesakes' = Named(request.name)
    /\ UNCHANGED <<store, request, since, logs, prompt>>

\* Mutant: the lines are selected by the name, joined with containers again.
SelectByName ==
    {r \in Joined : containers[r.container] = request.name /\ r.at >= since}
SelectById == OfContainer(found, since)

Fetch ==
    /\ rpc = "fetch"
    /\ \E rows \in Answers(SelectById, Limit(request.limit)) :
         logs' = [i \in DOMAIN rows |-> [name |-> request.name,
                                         message |-> rows[i].message]]
    /\ IF logs' = <<>> THEN Respond("noLogs") ELSE Goto("prompt")
    /\ UNCHANGED <<store, request, since, lookup, prompt>>

\* The database fails, or the 45 seconds of a summary are over.
QueryFails ==
    /\ rpc \in {"query", "lookup", "fetch"}
    /\ Respond("error")
    /\ UNCHANGED <<store, request, since, lookup, logs, prompt>>

-----------------------------------------------------------------------------
(* The prompt. *)

Severity(m) ==
    CASE m.words \intersect {"fatal", "panic"} # {} -> 4
      [] /\ m.words \intersect {"fatal", "panic"} = {}
         /\ m.words \intersect {"error", "exception", "failed"} # {} -> 3
      [] OTHER -> IF "warn" \in m.words THEN 2 ELSE 1

\* The groups of equal lines of logs.
GroupsOf(lines) ==
    {[name |-> l.name, message |-> l.message,
      count |-> Cardinality({i \in DOMAIN lines : lines[i] = l})] :
         l \in ToSet(lines)}

\* The length a group counts for.
LineLength(g) == g.message.length + IF g.count > 1 THEN Suffix ELSE 0

\* Mutant: groups are ordered by how often they occur.
ByCount(g, h) == g.count > h.count
Before(g, h) ==
    \/ Severity(g.message) > Severity(h.message)
    \/ Severity(g.message) = Severity(h.message) /\ g.count > h.count

\* sort.Slice on the values of a map: any order the comparison allows.
Ranked(groups) ==
    {s \in SetToSeqs(groups) :
        \A i, j \in DOMAIN s : i < j => ~Before(s[j], s[i])}

\* Mutant: a group that does not fit is left out and the next one tried.
SkipIt(acc) == acc
StopHere(acc) == [acc EXCEPT !.open = FALSE]

\* Mutant: the number of omitted groups is taken the wrong way round.
TooMany(ranked, lines) == Len(lines) - Len(ranked)
Omitted(ranked, lines) == Len(ranked) - Len(lines)

\* A turn of the loop of prepareLogsForPrompt: lines up to the budget; a first
\* line that is too long goes in when it is severe.
Take(acc, g) ==
    CASE ~acc.open -> acc
      [] acc.open /\ acc.length + LineLength(g) <= Budget ->
           [acc EXCEPT !.lines = Append(@, g),
                       !.length = @ + LineLength(g)]
      [] OTHER ->
           StopHere(IF acc.lines = <<>> /\ Severity(g.message) >= 3
                      THEN [acc EXCEPT !.lines = <<g>>] ELSE acc)
TakeNothing == [lines |-> <<>>, length |-> 0, open |-> TRUE]

Prepared(ranked) ==
    LET lines == FoldLeft(Take, TakeNothing, ranked).lines
    IN  [lines |-> lines, omitted |-> Omitted(ranked, lines)]

\* buildPrompt and buildContainerPrompt.
BuildPrompt ==
    /\ rpc = "prompt"
    /\ IF request.kind = "all"
         THEN \E ranked \in Ranked(GroupsOf(logs)) : prompt' = Prepared(ranked)
         ELSE prompt' = [lines |-> Limited(logs, PromptLines), omitted |-> 0]
    /\ Goto("call")
    /\ UNCHANGED <<store, request, since, lookup, logs>>

-----------------------------------------------------------------------------
(* The provider.  It may answer with JSON, with other text, with an error, or *)
(* not at all; there may also be no key.                                      *)

CallReturns ==
    /\ rpc = "call"
    /\ \E r \in {"summary", "unparsed", "error"} : Respond(r)
    /\ UNCHANGED <<store, request, since, lookup, logs, prompt>>

\* The HTTP client gives up after 30 seconds.
CallTimesOut ==
    /\ rpc = "call"
    /\ Respond("error")
    /\ UNCHANGED <<store, request, since, lookup, logs, prompt>>

-----------------------------------------------------------------------------
Next ==
    \/ Arrive \/ Query \/ LookUp \/ Fetch \/ QueryFails \/ BuildPrompt
    \/ CallReturns \/ CallTimesOut
    \* Bound: the store rests after the last query: nothing reads it any more.
    \/ /\ rpc \in {"idle", "query", "lookup", "fetch"}
       /\ StoreNext
       /\ UNCHANGED <<request, rpc, since, lookup, logs, prompt, reply>>

Spec == Init /\ [][Next]_vars

-----------------------------------------------------------------------------
TypeOK ==
    /\ StoreTypeOK
    /\ request \in Requests \union {NoRequest}
    /\ rpc \in {"idle", "query", "lookup", "fetch", "prompt", "call", "done"}
    /\ since \in Int
    /\ found \in Ids \union {0} /\ namesakes \subseteq Ids
    /\ prompt.omitted \in Nat
    /\ reply \in {"none", "badRequest", "error", "ok", "noLogs", "summary",
                  "unparsed"}

\* The lines of a container's summary have been fetched.
ContainerFetched ==
    /\ request.kind = "container"
    /\ rpc \in {"prompt", "call"} \/ reply = "noLogs"

\* lines shows the newest of rows, each message as often as the rows have it,
\* and all of them unless the limit cuts them.
ShowsNewest(lines, rows, limit) ==
    \E newest \in SUBSET rows :
        /\ \A m \in Messages :
             Cardinality({k \in DOMAIN lines : lines[k].message = m})
             = Cardinality({r \in newest : r.message = m})
        /\ \A r \in newest, q \in rows \ newest : r.at >= q.at
        /\ newest = rows \/ Len(lines) = limit

\* Whatever is renamed, inserted or deleted between the two queries, a summary
\* is about one container, which had the name when it was looked up, also if
\* others had it or have it now: its newest lines in the time range, each as
\* often as it was logged, and all of them unless the limit cuts them.
SummaryOfOneContainer ==
    ContainerFetched =>
        \E i \in namesakes :
            ShowsNewest(logs, OfContainer(i, since), Limit(request.limit))

\* A number of lines sent is bounded, except that a negative limit reaches the
\* database as no limit at all.
FetchIsBounded ==
    LET bound == IF request.kind = "search" THEN SearchMax ELSE MaxLimit
    IN  Len(logs) > bound => request.kind # "search" /\ request.limit < 0

TotalLength(lines) == FoldLeft(LAMBDA n, g : n + LineLength(g), 0, lines)

\* The prompt of the general summary holds the worst of what was fetched: no
\* omitted group is more severe, or as severe and more frequent, than one that
\* is in; the lines keep the budget, except for a single severe one; and the
\* number of omissions it mentions is right.
PromptKeepsWorst ==
    rpc = "call" /\ request.kind = "all" =>
        LET groups == GroupsOf(logs)
            kept == ToSet(prompt.lines)
        IN  /\ kept \subseteq groups
            /\ prompt.omitted = Cardinality(groups \ kept)
            /\ \A g \in groups \ kept, h \in kept : ~Before(g, h)
            /\ \/ TotalLength(prompt.lines) <= Budget
               \/ Len(prompt.lines) = 1 /\ Severity(prompt.lines[1].message) > 2
=============================================================================
