------------------------------ MODULE ApiRoutes ------------------------------
(***************************************************************************)
(* How a path of the main API server finds its handler, and how the        *)
(* handlers about containers answer: src/backend/cmd/api/main.go and       *)
(* src/backend/internal/handlers.  A path is the sequence of its segments. *)
(***************************************************************************)
EXTENDS Integers, Sequences, SequencesExt

CONSTANTS
    Ids,        \* what may stand for {id}: container ids and names
    LogsNames   \* the segments that begin with "logs"

ASSUME IdsAssumption == "" \notin Ids
ASSUME LogsNamesAssumption == {"logs"} \subseteq LogsNames

Handlers == {"MultiLogStream", "DockerHealthCheck", "ListContainers",
             "LogStream", "GetContainerLogs", "GetContainerStats",
             "GetContainer", "SearchLogs", "GenerateSummary",
             "GenerateContainerSummary", "NotFound", "Redirect"}

\* Mutant: the suffixes are tried in another order.
ContainersRouteLogsFirst(path) ==
    IF path[2] \in LogsNames \/ "logs" \in ToSet(path) THEN "GetContainerLogs"
    ELSE IF Last(path) = "stats" THEN "GetContainerStats" ELSE "GetContainer"

\* The function registered for /containers/: suffixes before the plain id.
ContainersRoute(path) ==
    CASE IsSuffix(<<"logs", "live">>, path) -> "LogStream"
      [] Last(path) = "logs" -> "GetContainerLogs"
      [] Last(path) = "stats" -> "GetContainerStats"
      [] /\ Last(path) \notin {"logs", "stats"}
         /\ Len(path) = 2 /\ path[2] \notin LogsNames -> "GetContainer"
      [] OTHER -> "NotFound"

\* http.ServeMux: a path with an empty segment inside is redirected; then the
\* exact patterns, and /containers/ for all below it.
Route(path) ==
    IF "" \in ToSet(Front(path)) THEN "Redirect" ELSE
    CASE path = <<"logs", "live">> -> "MultiLogStream"
      [] path = <<"health", "docker">> -> "DockerHealthCheck"
      [] path = <<"containers">> -> "ListContainers"
      [] path = <<"logs", "search">> -> "SearchLogs"
      [] path = <<"logs", "summarize">> -> "GenerateSummary"
      [] path = <<"logs", "summarize", "container">> ->
             "GenerateContainerSummary"
      [] Len(path) > 1 /\ path[1] = "containers" -> ContainersRoute(path)
      [] OTHER -> "NotFound"

\* The id a handler takes from the path, or the empty string if the handler
\* refuses the path.
IdOf(handler, path) ==
    CASE handler = "GetContainer" -> path[2]
      [] handler = "LogStream" -> IF Len(path) = 4 THEN path[2] ELSE ""
      [] handler \in {"GetContainerLogs", "GetContainerStats"} ->
             IF Len(path) = 3 THEN path[2] ELSE ""

\* The tail parameter: only GetContainerLogs refuses a bad one.
Tails == {"none", "positive", "notPositive", "noNumber"}

\* The outcome of the call to Docker behind a handler; a WebSocket may also
\* fail to be upgraded before that call.
Outcomes == {"ok", "notFound", "error", "noUpgrade"}

\* GetContainerLogs alone tells a missing container from other errors.
DockerStatus(handler, outcome) ==
    CASE outcome = "ok" -> IF handler = "LogStream" THEN 101 ELSE 200
      [] outcome = "noUpgrade" -> IF handler = "LogStream" THEN 400 ELSE 200
      [] outcome = "notFound" /\ handler = "GetContainerLogs" -> 404
      [] outcome \in {"notFound", "error"} /\ handler = "LogStream" -> 1011
      [] OTHER -> 500

Status(handler, path, tail, outcome) ==
    CASE handler = "NotFound" -> 404
      [] handler = "Redirect" -> 307
      [] handler = "DockerHealthCheck" -> 200
      [] handler = "ListContainers" -> DockerStatus(handler, outcome)
      [] OTHER ->
           IF \/ IdOf(handler, path) = ""
              \/ /\ handler = "GetContainerLogs"
                 /\ tail \in {"notPositive", "noNumber"}
             THEN 400
             ELSE DockerStatus(handler, outcome)

\* README.md, API Surface: the documented paths about container id.
Documented(id) ==
    { [path |-> <<"containers", id>>, handler |-> "GetContainer"],
      [path |-> <<"containers", id, "stats">>,
       handler |-> "GetContainerStats"],
      [path |-> <<"containers", id, "logs">>, handler |-> "GetContainerLogs"],
      [path |-> <<"containers", id, "logs", "live">>,
       handler |-> "LogStream"] }

\* The documented paths without an id, and what /logs/live of the viewer is.
OtherDocumented ==
    { [path |-> <<"containers">>, handler |-> "ListContainers"],
      [path |-> <<"health", "docker">>, handler |-> "DockerHealthCheck"],
      [path |-> <<"logs", "search">>, handler |-> "SearchLogs"],
      [path |-> <<"logs", "summarize">>, handler |-> "GenerateSummary"],
      [path |-> <<"logs", "summarize", "container">>,
       handler |-> "GenerateContainerSummary"],
      [path |-> <<"logs", "live">>, handler |-> "MultiLogStream"] }

\* Paths about containers that no document names.
Undocumented(id) == { <<"containers", id, "top">>, <<"nothing">>,
                      <<"containers", id, "more", "logs">>,
                      <<"containers", id, "more", "logs", "live">> }
=============================================================================
