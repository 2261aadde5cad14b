-------------------------- MODULE LiveStreamProofs --------------------------
(***************************************************************************)
(* Proofs about requests for the logs of a container and the readers of    *)
(* its stream, for any container ids, sizes of headers, payloads and       *)
(* lengths of streams.                                                     *)
(***************************************************************************)
EXTENDS LiveStream, DataInduction

-----------------------------------------------------------------------------
(* From paths to handlers. *)

\* The last segments of a path of two to four.
LEMMA Segments ==
  /\ \A a, b : Last(<<a, b>>) = b /\ ToSet(Front(<<a, b>>)) = {a}
  /\ \A a, b, c : /\ Last(<<a, b, c>>) = c
                  /\ ToSet(Front(<<a, b, c>>)) = {a, b}
  /\ \A a, b, c, d : /\ Last(<<a, b, c, d>>) = d
                     /\ ToSet(Front(<<a, b, c, d>>)) = {a, b, c}
<1>1. /\ \A a, b : Last(<<a, b>>) = b
      /\ \A a, b, c : Last(<<a, b, c>>) = c
      /\ \A a, b, c, d : Last(<<a, b, c, d>>) = d
  BY DEF Last
<1>2. ASSUME NEW S, NEW s \in Seq(S), s # <<>>
      PROVE  ToSet(Front(s)) = {s[i] : i \in 1..(Len(s) - 1)}
  <2>1. /\ DOMAIN Front(s) = 1..(Len(s) - 1)
        /\ \A i \in 1..(Len(s) - 1) : Front(s)[i] = s[i]
    BY <1>2 DEF Front
  <2> QED
    BY <2>1 DEF ToSet
<1>3. ASSUME NEW a, NEW b PROVE ToSet(Front(<<a, b>>)) = {a}
  <2> DEFINE S == {a, b}
  <2>1. <<a, b>> \in Seq(S) /\ <<a, b>> # <<>> /\ Len(<<a, b>>) - 1 = 1
    OBVIOUS
  <2>2. {<<a, b>>[i] : i \in 1..1} = {a}
    OBVIOUS
  <2> HIDE DEF S
  <2> QED
    BY <1>2, <2>1, <2>2
<1>4. ASSUME NEW a, NEW b, NEW c
      PROVE  ToSet(Front(<<a, b, c>>)) = {a, b}
  <2> DEFINE S == {a, b, c}
  <2>1. /\ <<a, b, c>> \in Seq(S) /\ <<a, b, c>> # <<>>
        /\ Len(<<a, b, c>>) - 1 = 2
    OBVIOUS
  <2>2. {<<a, b, c>>[i] : i \in 1..2} = {a, b}
    OBVIOUS
  <2> HIDE DEF S
  <2> QED
    BY <1>2, <2>1, <2>2
<1>5. ASSUME NEW a, NEW b, NEW c, NEW d
      PROVE  ToSet(Front(<<a, b, c, d>>)) = {a, b, c}
  <2> DEFINE S == {a, b, c, d}
  <2>1. /\ <<a, b, c, d>> \in Seq(S) /\ <<a, b, c, d>> # <<>>
        /\ Len(<<a, b, c, d>>) - 1 = 3
    OBVIOUS
  <2>2. {<<a, b, c, d>>[i] : i \in 1..3} = {a, b, c}
    OBVIOUS
  <2> HIDE DEF S
  <2> QED
    BY <1>2, <2>1, <2>2
<1> QED
  BY <1>1, <1>3, <1>4, <1>5

\* A path ends with logs and live when its last two segments are these.
LEMMA LiveSuffix ==
  /\ \A a, b : IsSuffix(<<"logs", "live">>, <<a, b>>)
                 <=> a = "logs" /\ b = "live"
  /\ \A a, b, c : IsSuffix(<<"logs", "live">>, <<a, b, c>>)
                    <=> b = "logs" /\ c = "live"
  /\ \A a, b, c, d : IsSuffix(<<"logs", "live">>, <<a, b, c, d>>)
                       <=> c = "logs" /\ d = "live"
BY DEF IsSuffix, IsPrefix, Reverse

\* Where the documented paths about a container lead.
LEMMA ContainerRoutes ==
  ASSUME NEW id \in Ids
  PROVE  /\ id \notin LogsNames \union {"stats"}
              => Route(<<"containers", id>>) = "GetContainer"
         /\ Route(<<"containers", id, "stats">>) = "GetContainerStats"
         /\ Route(<<"containers", id, "logs">>) = "GetContainerLogs"
         /\ Route(<<"containers", id, "logs", "live">>) = "LogStream"
<1>0. id # ""
  BY IdsAssumption
<1>1. ASSUME id \notin LogsNames \union {"stats"}
      PROVE  Route(<<"containers", id>>) = "GetContainer"
  <2> DEFINE path == <<"containers", id>>
  <2>1. /\ path[1] = "containers" /\ path[2] = id /\ Len(path) = 2
        /\ path # <<"logs", "live">> /\ path # <<"health", "docker">>
        /\ path # <<"containers">> /\ path # <<"logs", "search">>
        /\ path # <<"logs", "summarize">>
        /\ path # <<"logs", "summarize", "container">>
    OBVIOUS
  <2>2. /\ Last(path) = id /\ ToSet(Front(path)) = {"containers"}
        /\ ~IsSuffix(<<"logs", "live">>, path)
    BY Segments, LiveSuffix
  <2>3. id # "logs" /\ id # "stats"
    BY <1>1, LogsNamesAssumption
  <2> HIDE DEF path
  <2>4. Route(path) = ContainersRoute(path)
    BY <2>1, <2>2 DEF Route
  <2>5. ContainersRoute(path) = "GetContainer"
    BY <1>1, <2>1, <2>2, <2>3 DEF ContainersRoute
  <2> QED
    BY <2>4, <2>5 DEF path
<1>2. ASSUME NEW last \in {"stats", "logs"}
      PROVE  Route(<<"containers", id, last>>)
             = IF last = "logs" THEN "GetContainerLogs" ELSE "GetContainerStats"
  <2> DEFINE path == <<"containers", id, last>>
  <2>1. /\ path[1] = "containers" /\ Len(path) = 3
        /\ path # <<"logs", "live">> /\ path # <<"health", "docker">>
        /\ path # <<"containers">> /\ path # <<"logs", "search">>
        /\ path # <<"logs", "summarize">>
        /\ path # <<"logs", "summarize", "container">>
    OBVIOUS
  <2>2. /\ Last(path) = last /\ ToSet(Front(path)) = {"containers", id}
        /\ ~IsSuffix(<<"logs", "live">>, path)
    BY Segments, LiveSuffix
  <2> HIDE DEF path
  <2>3. "" \notin ToSet(Front(path))
    BY <1>0, <2>2, Zenon
  <2>4. Len(path) > 1
    BY <2>1
  <2>5. Route(path) = ContainersRoute(path)
    BY <2>1, <2>3, <2>4 DEF Route
  <2> QED
    BY <2>2, <2>5 DEF ContainersRoute, path
<1>3. Route(<<"containers", id, "logs", "live">>) = "LogStream"
  <2> DEFINE path == <<"containers", id, "logs", "live">>
  <2>1. /\ path[1] = "containers" /\ Len(path) = 4
        /\ path # <<"logs", "live">> /\ path # <<"health", "docker">>
        /\ path # <<"containers">> /\ path # <<"logs", "search">>
        /\ path # <<"logs", "summarize">>
        /\ path # <<"logs", "summarize", "container">>
    OBVIOUS
  <2>2. /\ Last(path) = "live"
        /\ ToSet(Front(path)) = {"containers", id, "logs"}
        /\ IsSuffix(<<"logs", "live">>, path)
    BY Segments, LiveSuffix
  <2> HIDE DEF path
  <2>3. "" \notin ToSet(Front(path))
    BY <1>0, <2>2, Zenon
  <2>4. Len(path) > 1
    BY <2>1
  <2>5. Route(path) = ContainersRoute(path)
    BY <2>1, <2>3, <2>4 DEF Route
  <2> QED
    BY <2>2, <2>5 DEF ContainersRoute, path
<1> QED
  BY <1>1, <1>2, <1>3

\* Where the other documented paths lead.
LEMMA OtherRoutes == \A d \in OtherDocumented : Route(d.path) = d.handler
<1>1. Route(<<"containers">>) = "ListContainers"
  <2> DEFINE path == <<"containers">>
  <2>1. /\ path # <<"logs", "live">> /\ path # <<"health", "docker">>
        /\ path # <<"logs", "search">> /\ path # <<"logs", "summarize">>
        /\ path # <<"logs", "summarize", "container">> /\ ~(Len(path) > 1)
    OBVIOUS
  <2>2. ToSet(Front(path)) = {}
    BY DEF Front, ToSet
  <2>3. path = <<"containers">>
    OBVIOUS
  <2> HIDE DEF path
  <2>4. Route(path) = "ListContainers"
    <3>1. "" \notin ToSet(Front(path))
      BY <2>2
    <3> QED
      BY <2>1, <2>3, <3>1, Zenon DEF Route
  <2> QED
    BY <2>3, <2>4
<1>2. ASSUME NEW a \in {"health", "logs"},
             NEW b \in {"docker", "search", "summarize", "live"}
      PROVE  "" \notin ToSet(Front(<<a, b>>))
  <2>1. ToSet(Front(<<a, b>>)) = {a}
    BY Segments
  <2> QED
    BY <2>1, Zenon
<1>3. "" \notin ToSet(Front(<<"logs", "summarize", "container">>))
  <2>1. ToSet(Front(<<"logs", "summarize", "container">>))
        = {"logs", "summarize"}
    BY Segments
  <2> QED
    BY <2>1, Zenon
<1>4. Route(<<"health", "docker">>) = "DockerHealthCheck"
  BY <1>2 DEF Route
<1>5. Route(<<"logs", "search">>) = "SearchLogs"
  BY <1>2 DEF Route
<1>6. Route(<<"logs", "summarize">>) = "GenerateSummary"
  BY <1>2 DEF Route
<1>7. Route(<<"logs", "summarize", "container">>) = "GenerateContainerSummary"
  BY <1>3 DEF Route
<1>8. Route(<<"logs", "live">>) = "MultiLogStream"
  BY <1>2 DEF Route
<1> QED
  BY <1>1, <1>4, <1>5, <1>6, <1>7, <1>8 DEF OtherDocumented

\* The handler of a request is the one its path leads to.
Routed == request.path # <<>> => request.handler = Route(request.path)

\* Every documented path reaches its handler, which takes the container's id
\* from it, for any ids, except that a container called stats, or by a name
\* that begins with logs, cannot be inspected.
THEOREM PathsWork == Spec => []DocumentedPathsWork
<1>1. Init => Routed
  BY DEF Init, Routed
<1>2. Routed /\ [Next]_vars => Routed'
  <2> SUFFICES ASSUME Routed, [Next]_vars PROVE Routed'
    OBVIOUS
  <2>1. CASE Request
    <3>1. PICK path :
            request' = [path |-> path, handler |-> Route(path)]
      BY <2>1 DEF Request, Answer
    <3>2. request'.path = path /\ request'.handler = Route(path)
      BY <3>1
    <3> QED
      BY <3>2 DEF Routed
  <2>2. CASE UNCHANGED request
    BY <2>2 DEF Routed
  <2>3. CASE LiveHandler \/ ClientGone
    BY <2>2, <2>3 DEF LiveHandler, ReadChunk, ReadEnds, ClientGone, stream
  <2>4. CASE Reader
    BY <2>2, <2>4 DEF Reader, ScanLine, ServeLeftover, ReadFrame, ReadFails,
       TooLong, stream
  <2>5. CASE Sent \/ TakerStalls
    BY <2>2, <2>5 DEF Sent, TakerStalls, stream
  <2> QED
    BY <2>1, <2>2, <2>3, <2>4, <2>5 DEF Next, vars, stream
<1>3. Routed => DocumentedPathsWork
  <2> SUFFICES ASSUME Routed, NEW id \in Ids, NEW d \in Documented(id),
                      request.path = d.path
               PROVE
                 \/ request.handler = d.handler /\ IdOf(d.handler, d.path) = id
                 \/ d.handler = "GetContainer"
                    /\ id \in LogsNames \union {"stats"}
    BY OtherRoutes DEF DocumentedPathsWork
  <2>1. d.path # <<>>
    BY DEF Documented
  <2>2. request.handler = Route(d.path)
    BY <2>1 DEF Routed
  <2>3. CASE d = [path |-> <<"containers", id>>, handler |-> "GetContainer"]
    <3>1. d.path[2] = id
      BY <2>3
    <3> QED
      BY <2>2, <2>3, <3>1, ContainerRoutes DEF IdOf
  <2>4. CASE d = [path |-> <<"containers", id, "stats">>,
                  handler |-> "GetContainerStats"]
    <3>1. d.path[2] = id /\ Len(d.path) = 3
      BY <2>4
    <3> QED
      BY <2>2, <2>4, <3>1, ContainerRoutes DEF IdOf
  <2>5. CASE d = [path |-> <<"containers", id, "logs">>,
                  handler |-> "GetContainerLogs"]
    <3>1. d.path[2] = id /\ Len(d.path) = 3
      BY <2>5
    <3> QED
      BY <2>2, <2>5, <3>1, ContainerRoutes DEF IdOf
  <2>6. CASE d = [path |-> <<"containers", id, "logs", "live">>,
                  handler |-> "LogStream"]
    <3>1. d.path[2] = id /\ Len(d.path) = 4
      BY <2>6
    <3> QED
      BY <2>2, <2>6, <3>1, ContainerRoutes DEF IdOf
  <2> QED
    BY <2>3, <2>4, <2>5, <2>6 DEF Documented
<1> QED
  BY <1>1, <1>2, <1>3, PTL DEF Spec

-----------------------------------------------------------------------------
(* What the two decoders of whole buffers compute. *)

\* Where the frame ends whose header begins at position i, and whether its
\* header or its payload is cut off by the end of the data.
NextFrame(data, i) == i + HeaderLen + data[i + HeaderLen - 1]
HeaderCut(data, i) == i + HeaderLen > Len(data) + 1
FrameCut(data, i) ==
    HeaderCut(data, i) \/ NextFrame(data, i) > Len(data) + 1

\* A header that is not cut says where its frame ends, behind it.
LEMMA FramesAdvance ==
  ASSUME NEW data \in Seq(Nat), NEW i \in 1..(Len(data) + 1)
  PROVE  /\ i + HeaderLen \in Nat /\ i + HeaderLen > i
         /\ ~HeaderCut(data, i) =>
              /\ NextFrame(data, i) \in Nat
              /\ NextFrame(data, i) >= i + HeaderLen
         /\ ~FrameCut(data, i) =>
              NextFrame(data, i) \in (i + 1)..(Len(data) + 1)
<1>1. HeaderLen \in Nat /\ HeaderLen > 1 /\ Len(data) \in Nat
  BY HeaderAssumption
<1>2. i + HeaderLen \in Nat /\ i + HeaderLen > i
  BY <1>1
<1>3. ASSUME ~HeaderCut(data, i)
      PROVE  /\ NextFrame(data, i) \in Nat
             /\ NextFrame(data, i) >= i + HeaderLen
  <2>1. i + HeaderLen - 1 \in 1..Len(data)
    BY <1>1, <1>3 DEF HeaderCut
  <2>2. data[i + HeaderLen - 1] \in Nat
    BY <2>1
  <2> QED
    BY <1>2, <2>2 DEF NextFrame
<1> QED
  BY <1>1, <1>2, <1>3 DEF FrameCut

\* decodeDockerLogs goes from frame to frame, and takes their payloads.
LEMMA DockerLogsSteps ==
  ASSUME NEW raw \in Seq(Nat)
  PROVE  \E text \in [1..(Len(raw) + 1) -> Seq(Nat)] :
           /\ decodeDockerLogs(raw) = text[1]
           /\ \A i \in 1..(Len(raw) + 1) :
                text[i] = IF FrameCut(raw, i) THEN <<>>
                          ELSE SubSeq(raw, i + HeaderLen,
                                      NextFrame(raw, i) - 1)
                               \o text[NextFrame(raw, i)]
<1> DEFINE n == Len(raw) + 1
           payload(i) == SubSeq(raw, i + HeaderLen, NextFrame(raw, i) - 1)
           Decodes(text) ==
             text = [i \in 1..(Len(raw) + 1) |->
                       LET j == i + HeaderLen
                           next == j + raw[j - 1]
                       IN  IF IsCut(raw, j) \/ IsCut(raw, next)
                             THEN <<>>
                             ELSE SubSeq(raw, j, next - 1) \o text[next]]
           chosen == CHOOSE text : Decodes(text)
           Value(text, i) == IF FrameCut(raw, i) THEN <<>>
                             ELSE payload(i) \o text[NextFrame(raw, i)]
           Body(text, i) == LET j == i + HeaderLen
                                next == j + raw[j - 1]
                            IN  IF IsCut(raw, j) \/ IsCut(raw, next)
                                  THEN <<>>
                                  ELSE SubSeq(raw, j, next - 1) \o text[next]
<1>1. decodeDockerLogs(raw) = chosen[1]
  BY DEF decodeDockerLogs
<1>2. n \in Nat /\ 1 \in 1..n
  OBVIOUS
<1>3. ASSUME NEW text
      PROVE  Decodes(text) <=> text = [i \in 1..n |-> Value(text, i)]
  <2>1. Decodes(text) <=> text = [i \in 1..n |-> Body(text, i)]
    BY Zenon
  <2>2. ASSUME NEW i \in 1..n
        PROVE  Body(text, i) = Value(text, i)
    <3>1. /\ IsCut(raw, i + HeaderLen) <=> HeaderCut(raw, i)
          /\ IsCut(raw, NextFrame(raw, i)) <=> NextFrame(raw, i) > Len(raw) + 1
      BY DEF IsCut, HeaderCut
    <3>2. Body(text, i) = IF \/ IsCut(raw, i + HeaderLen)
                             \/ IsCut(raw, NextFrame(raw, i))
                            THEN <<>>
                            ELSE payload(i) \o text[NextFrame(raw, i)]
      <4>1. i + HeaderLen + raw[(i + HeaderLen) - 1] = NextFrame(raw, i)
        BY HeaderAssumption DEF NextFrame
      <4> QED
        BY <4>1, Zenon
    <3> HIDE DEF Body, payload
    <3>3. CASE FrameCut(raw, i)
      BY <3>1, <3>2, <3>3 DEF FrameCut
    <3>4. CASE ~FrameCut(raw, i)
      BY <3>1, <3>2, <3>4 DEF FrameCut
    <3> QED
      BY <3>3, <3>4
  <2> HIDE DEF Decodes, Body, Value
  <2> QED
    BY <2>1, <2>2
<1> DEFINE stop == {i \in 1..n : FrameCut(raw, i)}
           leaf == [i \in 1..n |-> <<>>]
           next == [i \in 1..n |-> NextFrame(raw, i)]
           step == [p \in (1..n) \X Seq(Nat) |->
                      IF FrameCut(raw, p[1]) THEN <<>>
                      ELSE payload(p[1]) \o p[2]]
<1>5. ASSUME NEW i \in 1..n, ~FrameCut(raw, i)
      PROVE  payload(i) \in Seq(Nat) /\ NextFrame(raw, i) \in (i + 1)..n
  <2>1. /\ i + HeaderLen \in Nat /\ i + HeaderLen > 1
        /\ NextFrame(raw, i) \in (i + 1)..n
    BY <1>5, FramesAdvance
  <2>2. NextFrame(raw, i) - 1 <= Len(raw)
    BY <2>1
  <2> QED
    BY <2>1, <2>2
<1>6. \A i \in (1..n) \ stop : next[i] \in (i + 1)..n
  BY <1>5
<1>7. PICK text \in [1..n -> Seq(Nat)] :
        LooksForward(text, n, stop, leaf, next, step)
  <2>1. leaf \in [1..n -> Seq(Nat)]
    OBVIOUS
  <2>2. step \in [(1..n) \X Seq(Nat) -> Seq(Nat)]
    <3> HIDE DEF payload
    <3> QED
      BY <1>5
  <2>3. stop \in SUBSET (1..n)
    OBVIOUS
  <2> HIDE DEF stop, leaf, next, step, n, payload
  <2> QED
    BY <1>2, <1>6, <2>1, <2>2, <2>3, ForwardLooking
<1>8. ASSUME NEW i \in 1..n
      PROVE  text[i] = Value(text, i)
  <2>1. CASE FrameCut(raw, i)
    BY <1>7, <2>1 DEF LooksForward
  <2>2. CASE ~FrameCut(raw, i)
    <3>1. i \notin stop /\ next[i] = NextFrame(raw, i)
      BY <2>2
    <3>2. text[NextFrame(raw, i)] \in Seq(Nat)
      <4>1. NextFrame(raw, i) \in 1..n
        BY <1>2, <1>5, <2>2
      <4> QED
        BY <1>7, <4>1
    <3>3. step[<<i, text[NextFrame(raw, i)]>>] = Value(text, i)
      BY <2>2, <3>2
    <3>4. text[i] = step[<<i, text[next[i]]>>]
      <4> HIDE DEF stop, leaf, next, step
      <4> QED
        BY <1>7, <3>1 DEF LooksForward
    <3> QED
      BY <3>1, <3>3, <3>4
  <2> QED
    BY <2>1, <2>2
<1> HIDE DEF n
<1>9. Decodes(chosen)
  <2>1. Decodes(text)
    <3> HIDE DEF Decodes, Value
    <3>1. text = [i \in 1..n |-> Value(text, i)]
      BY <1>7, <1>8
    <3> QED
      BY <1>3, <3>1
  <2> HIDE DEF Decodes
  <2> QED
    BY <2>1
<1>10. \A i \in 1..n : chosen[i] = Value(chosen, i)
  <2> HIDE DEF Decodes, Value, chosen
  <2> QED
    BY <1>3, <1>9
<1>11. chosen[1] = text[1]
  <2> HIDE DEF chosen
  <2>1. \A i \in 1..n : i \in stop => chosen[i] = text[i]
    BY <1>8, <1>10
  <2>2. ASSUME NEW i \in (1..n) \ stop, chosen[next[i]] = text[next[i]]
        PROVE  chosen[i] = text[i]
    <3>1. ~FrameCut(raw, i) /\ next[i] = NextFrame(raw, i)
      BY <2>2
    <3> QED
      BY <1>8, <1>10, <2>2, <3>1
  <2>3. \A i \in (1..n) \ stop :
          /\ next[i] \in (i + 1)..n
          /\ chosen[next[i]] = text[next[i]] => chosen[i] = text[i]
    BY <1>6, <2>2
  <2> HIDE DEF stop, next
  <2>4. AgreeForward(chosen, text, n, stop, next)
    BY <2>1, <2>3 DEF AgreeForward
  <2>5. \A i \in 1..n : chosen[i] = text[i]
    BY <1>2, <2>4, SameForward, ZenonT(30)
  <2> QED
    BY <1>2, <2>5
<1> QED
  BY <1>1, <1>7, <1>8, <1>11 DEF n

\* What decodeLogChunk makes of data from each position on.
Decoded(text, data) ==
    /\ text \in [1..(Len(data) + 1) -> Seq(Nat)]
    /\ \A i \in 1..(Len(data) + 1) :
         text[i] = IF HeaderCut(data, i) THEN <<>>
                   ELSE IF data[i] \notin {1, 2}
                   THEN SubSeq(data, i, Len(data))
                   ELSE IF FrameCut(data, i)
                   THEN SubSeq(data, i + HeaderLen, Len(data))
                   ELSE SubSeq(data, i + HeaderLen, NextFrame(data, i) - 1)
                        \o text[NextFrame(data, i)]

LEMMA ChunkSteps ==
  ASSUME NEW data \in Seq(Nat)
  PROVE  \E text : /\ Decoded(text, data)
                   /\ decodeLogChunk(data)
                      = IF text[1] = <<>> THEN data ELSE text[1]
<1> DEFINE n == Len(data) + 1
           payload(i) == SubSeq(data, i + HeaderLen, NextFrame(data, i) - 1)
           Decodes(text) ==
             text = [i \in 1..(Len(data) + 1) |->
                       LET j == i + HeaderLen
                           next == j + data[j - 1]
                       IN  CASE j > Len(data) + 1 -> <<>>
                             [] j <= Len(data) + 1 /\ data[i] \notin {1, 2} ->
                                  SubSeq(data, i, Len(data))
                             [] OTHER ->
                                  IF next > Len(data) + 1
                                    THEN CutFrame(data, j)
                                    ELSE SubSeq(data, j, next - 1)
                                         \o text[next]]
           chosen == CHOOSE text : Decodes(text)
           Stops(i) == FrameCut(data, i) \/ data[i] \notin {1, 2}
           Leaf(i) == IF HeaderCut(data, i) THEN <<>>
                      ELSE IF data[i] \notin {1, 2}
                      THEN SubSeq(data, i, Len(data))
                      ELSE CutFrame(data, i + HeaderLen)
           Value(text, i) == IF Stops(i) THEN Leaf(i)
                             ELSE payload(i) \o text[NextFrame(data, i)]
           Case(text, i) ==
             LET j == i + HeaderLen
                 next == j + data[j - 1]
             IN  CASE j > Len(data) + 1 -> <<>>
                   [] j <= Len(data) + 1 /\ data[i] \notin {1, 2} ->
                        SubSeq(data, i, Len(data))
                   [] OTHER ->
                        IF next > Len(data) + 1
                          THEN CutFrame(data, j)
                          ELSE SubSeq(data, j, next - 1) \o text[next]
<1>1. decodeLogChunk(data) = IF chosen[1] = <<>> THEN data ELSE chosen[1]
  BY DEF decodeLogChunk
<1>2. n \in Nat /\ 1 \in 1..n
  OBVIOUS
<1>3. ASSUME NEW text, NEW i \in 1..n
      PROVE  Case(text, i) = Value(text, i)
  <2> DEFINE later == IF NextFrame(data, i) > Len(data) + 1
                        THEN CutFrame(data, i + HeaderLen)
                        ELSE payload(i) \o text[NextFrame(data, i)]
             fits == i + HeaderLen <= Len(data) + 1
  <2>1. fits <=> ~HeaderCut(data, i)
    BY HeaderAssumption DEF HeaderCut
  <2>2. Case(text, i) =
          CASE HeaderCut(data, i) -> <<>>
            [] fits /\ data[i] \notin {1, 2} -> SubSeq(data, i, Len(data))
            [] OTHER -> later
    <3>1. i + HeaderLen + data[(i + HeaderLen) - 1] = NextFrame(data, i)
      BY HeaderAssumption DEF NextFrame
    <3> QED
      BY <3>1, Zenon DEF HeaderCut
  <2> HIDE DEF Case, payload, fits
  <2>3. CASE HeaderCut(data, i)
    <3>1. Case(text, i) = <<>>
      <4> HIDE DEF later
      <4> QED
        BY <2>1, <2>2, <2>3, Zenon
    <3> QED
      BY <2>3, <3>1 DEF FrameCut
  <2>4. CASE ~HeaderCut(data, i) /\ data[i] \notin {1, 2}
    <3>1. Case(text, i) = SubSeq(data, i, Len(data))
      <4> HIDE DEF later
      <4> QED
        BY <2>1, <2>2, <2>4, Zenon
    <3> QED
      BY <2>4, <3>1
  <2>5. CASE ~HeaderCut(data, i) /\ data[i] \in {1, 2}
    <3>1. Case(text, i) = later
      <4> HIDE DEF later
      <4> QED
        BY <2>1, <2>2, <2>5, Zenon
    <3> QED
      BY <2>5, <3>1 DEF FrameCut
  <2> QED
    BY <2>3, <2>4, <2>5
<1>4. ASSUME NEW text
      PROVE  Decodes(text) <=> text = [i \in 1..n |-> Value(text, i)]
  <2>1. Decodes(text) <=> text = [i \in 1..n |-> Case(text, i)]
    BY Zenon
  <2> HIDE DEF Decodes, Case, Value
  <2> QED
    BY <1>3, <2>1
<1> DEFINE stop == {i \in 1..n : Stops(i)}
           leaf == [i \in 1..n |-> Leaf(i)]
           next == [i \in 1..n |-> NextFrame(data, i)]
           step == [p \in (1..n) \X Seq(Nat) |->
                      IF Stops(p[1]) THEN <<>> ELSE payload(p[1]) \o p[2]]
<1>5. ASSUME NEW i \in 1..n, ~FrameCut(data, i)
      PROVE  payload(i) \in Seq(Nat) /\ NextFrame(data, i) \in (i + 1)..n
  <2>1. /\ i + HeaderLen \in Nat /\ i + HeaderLen > 1
        /\ NextFrame(data, i) \in (i + 1)..n
    BY <1>5, FramesAdvance
  <2>2. NextFrame(data, i) - 1 <= Len(data)
    BY <2>1
  <2> QED
    BY <2>1, <2>2
<1>6. \A i \in (1..n) \ stop : next[i] \in (i + 1)..n
  BY <1>5
<1>7. ASSUME NEW i \in 1..n
      PROVE  Leaf(i) \in Seq(Nat)
  <2>1. i + HeaderLen \in Nat /\ i + HeaderLen >= 1
    BY HeaderAssumption
  <2>2. <<>> \in Seq(Nat)
    OBVIOUS
  <2>3. SubSeq(data, i, Len(data)) \in Seq(Nat)
    OBVIOUS
  <2>4. SubSeq(data, i + HeaderLen, Len(data)) \in Seq(Nat)
    BY <2>1
  <2> QED
    BY <2>2, <2>3, <2>4 DEF CutFrame
<1>8. PICK text \in [1..n -> Seq(Nat)] :
        LooksForward(text, n, stop, leaf, next, step)
  <2>1. leaf \in [1..n -> Seq(Nat)]
    <3> HIDE DEF Leaf
    <3> QED
      BY <1>7
  <2>2. step \in [(1..n) \X Seq(Nat) -> Seq(Nat)]
    <3> HIDE DEF payload
    <3> QED
      BY <1>5
  <2>3. stop \in SUBSET (1..n)
    OBVIOUS
  <2> HIDE DEF stop, leaf, next, step, n, payload
  <2> QED
    BY <1>2, <1>6, <2>1, <2>2, <2>3, ForwardLooking
<1>9. ASSUME NEW i \in 1..n
      PROVE  text[i] = Value(text, i)
  <2>1. CASE Stops(i)
    <3>1. i \in stop /\ leaf[i] = Leaf(i)
      BY <2>1
    <3> HIDE DEF stop, leaf, next, step
    <3>2. text[i] = leaf[i]
      BY <1>8, <3>1 DEF LooksForward
    <3> QED
      BY <2>1, <3>1, <3>2
  <2>2. CASE ~Stops(i)
    <3>1. i \notin stop /\ next[i] = NextFrame(data, i)
      BY <2>2
    <3>2. text[NextFrame(data, i)] \in Seq(Nat)
      <4>1. NextFrame(data, i) \in 1..n
        BY <1>2, <1>5, <2>2
      <4> QED
        BY <1>8, <4>1
    <3>3. step[<<i, text[NextFrame(data, i)]>>] = Value(text, i)
      BY <2>2, <3>2
    <3>4. text[i] = step[<<i, text[next[i]]>>]
      <4> HIDE DEF stop, leaf, next, step
      <4> QED
        BY <1>8, <3>1 DEF LooksForward
    <3> QED
      BY <3>1, <3>3, <3>4
  <2> QED
    BY <2>1, <2>2
<1> HIDE DEF n, Decodes, Case, Leaf, payload
<1>10. Decodes(chosen)
  <2>1. text = [i \in 1..n |-> text[i]]
    BY <1>8
  <2>2. Decodes(text)
    <3> HIDE DEF Value
    <3>1. text = [i \in 1..n |-> Value(text, i)]
      BY <1>9, <2>1
    <3> QED
      BY <1>4, <3>1
  <2> QED
    BY <2>2
<1>11. \A i \in 1..n : chosen[i] = Value(chosen, i)
  <2> HIDE DEF Value, chosen
  <2> QED
    BY <1>4, <1>10
<1>12. chosen[1] = text[1]
  <2> HIDE DEF chosen
  <2>1. \A i \in 1..n : i \in stop => chosen[i] = text[i]
    BY <1>9, <1>11
  <2>2. ASSUME NEW i \in (1..n) \ stop, chosen[next[i]] = text[next[i]]
        PROVE  chosen[i] = text[i]
    <3>1. ~Stops(i) /\ next[i] = NextFrame(data, i)
      BY <2>2
    <3> QED
      BY <1>9, <1>11, <2>2, <3>1
  <2>3. \A i \in (1..n) \ stop :
          /\ next[i] \in (i + 1)..n
          /\ chosen[next[i]] = text[next[i]] => chosen[i] = text[i]
    BY <1>6, <2>2
  <2> HIDE DEF stop, next
  <2>4. AgreeForward(chosen, text, n, stop, next)
    BY <2>1, <2>3 DEF AgreeForward
  <2>5. \A i \in 1..n : chosen[i] = text[i]
    BY <1>2, <2>4, SameForward, ZenonT(30)
  <2> QED
    BY <1>2, <2>5
<1>13. Decoded(text, data)
  <2>1. ASSUME NEW i \in 1..n
        PROVE  text[i] = IF HeaderCut(data, i) THEN <<>>
                         ELSE IF data[i] \notin {1, 2}
                         THEN SubSeq(data, i, Len(data))
                         ELSE IF FrameCut(data, i)
                         THEN SubSeq(data, i + HeaderLen, Len(data))
                         ELSE payload(i) \o text[NextFrame(data, i)]
    <3>1. text[i] = Value(text, i)
      BY <1>9
    <3> QED
      BY <3>1 DEF Leaf, FrameCut, CutFrame
  <2> QED
    BY <1>8, <2>1 DEF Decoded, n, payload
<1>14. decodeLogChunk(data) = IF text[1] = <<>> THEN data ELSE text[1]
  BY <1>1, <1>12
<1> QED
  BY <1>13, <1>14

\* decodeLogChunk returns bytes.
LEMMA ChunkType ==
  ASSUME NEW data \in Seq(Nat)
  PROVE  decodeLogChunk(data) \in Seq(Nat)
<1>1. PICK text : /\ Decoded(text, data)
                  /\ decodeLogChunk(data)
                     = IF text[1] = <<>> THEN data ELSE text[1]
  BY ChunkSteps
<1>2. text[1] \in Seq(Nat)
  BY <1>1 DEF Decoded
<1> QED
  BY <1>1, <1>2

-----------------------------------------------------------------------------
(* The text in a part of the stream. *)

\* A byte with its place in its frame.
Located == [byte : Nat, at : Nat]

\* The same for a byte of Docker's: a frame begins with the type of its
\* stream, and text is no such type.
Marked == {b \in Located : /\ b.at > 0
                           /\ b.at = 1 => b.byte \in {1, 2}
                           /\ b.at > HeaderLen => b.byte > 6}

\* A text after one more byte of the stream.
Keep(text, b) == IF b.at > HeaderLen THEN Append(text, b.byte) ELSE text

\* text[p] is the text in the first p bytes of a layout.
Texts(text, s) ==
    /\ text \in [0..Len(s) -> Seq(Nat)]
    /\ text[0] = <<>>
    /\ \A p \in 1..Len(s) : text[p] = Keep(text[p - 1], s[p])

\* TextIn goes through a layout byte by byte.
LEMMA TextSteps ==
  ASSUME NEW s \in Seq(Located)
  PROVE  \E text : Texts(text, s) /\ TextIn(s) = text[Len(s)]
<1> DEFINE n == Len(s)
           Iterates(f) ==
             f = [T \in SUBSET (DOMAIN s) |->
                    IF T = {} THEN <<>>
                    ELSE IF s[Max(T)].at > HeaderLen
                           THEN Append(f[T \ {Max(T)}], s[Max(T)].byte)
                           ELSE f[T \ {Max(T)}]]
           iter == CHOOSE f : Iterates(f)
<1>1. TextIn(s) = iter[DOMAIN s]
  BY DEF TextIn, FoldLeft, MapThenFoldSet
<1>2. /\ DOMAIN s = 1..n /\ n \in Nat /\ <<>> \in Seq(Nat)
      /\ \A i \in 1..n : s[i] \in Located
  OBVIOUS
<1>3. \A i \in 1..n : s[i].at \in Nat /\ s[i].byte \in Nat
  BY <1>2 DEF Located
<1>4. ASSUME NEW i \in 1..n, NEW text \in Seq(Nat)
      PROVE  Keep(text, s[i]) \in Seq(Nat)
  BY <1>3 DEF Keep
<1>5. \E f : Iterates(f)
  <2> DEFINE step == [p \in Seq(Nat) \X (1..n) |-> Keep(p[1], s[p[2]])]
  <2>1. step \in [Seq(Nat) \X (1..n) -> Seq(Nat)]
    BY <1>4
  <2> HIDE DEF step, n
  <2>2. PICK f : IsFold(f, n, Seq(Nat), <<>>, step)
    BY <1>2, <2>1, FoldExists
  <2>3. ASSUME NEW T \in SUBSET (1..n), T # {}
        PROVE  f[T] = Keep(f[T \ {Max(T)}], s[Max(T)])
    <3>1. Max(T) \in 1..n
      <4>1. T \in SUBSET (0..n)
        OBVIOUS
      <4> QED
        BY <1>2, <2>3, <4>1, GreatestElement
    <3>2. f[T \ {Max(T)}] \in Seq(Nat)
      BY <2>2 DEF IsFold
    <3> QED
      BY <2>2, <2>3, <3>1, <3>2 DEF step, IsFold
  <2>4. Iterates(f)
    BY <1>2, <2>2, <2>3 DEF Keep, IsFold
  <2> QED
    BY <2>4
<1>6. Iterates(iter)
  BY <1>5
<1> HIDE DEF iter
<1> DEFINE g == [i \in 0..n |-> iter[1..i]]
<1>7. g[0] = <<>>
  BY <1>2, <1>6
<1>8. ASSUME NEW i \in 1..n
      PROVE  g[i] = Keep(g[i - 1], s[i])
  <2>1. Max(1..i) = i /\ (1..i) \ {i} = 1..(i - 1)
    BY GreatestOfInterval
  <2>2. 1..i \in SUBSET (DOMAIN s) /\ 1..i # {}
    BY <1>2, BeginningOfInterval
  <2>3. iter[1..i] = Keep(iter[1..(i - 1)], s[i])
    <3> DEFINE T == 1..i
    <3>1. iter[T] = Keep(iter[T \ {Max(T)}], s[Max(T)])
      <4> HIDE DEF T
      <4> QED
        BY <1>6, <2>2 DEF Keep, T
    <3> QED
      BY <2>1, <3>1
  <2> QED
    BY <2>3
<1>9. TextIn(s) = g[n]
  BY <1>1, <1>2
<1>10. g \in [0..n -> Seq(Nat)]
  <2> DEFINE P == {m \in Nat : m <= n => g[m] \in Seq(Nat)}
  <2>1. 0 \in P
    BY <1>2, <1>7
  <2>2. ASSUME NEW m \in Nat, m \in P
        PROVE  m + 1 \in P
    <3>1. CASE m + 1 <= n
      <4>1. m + 1 \in 1..n /\ (m + 1) - 1 = m /\ g[m] \in Seq(Nat)
        BY <1>2, <2>2, <3>1
      <4> HIDE DEF g, n
      <4> QED
        BY <1>4, <1>8, <4>1
    <3>2. CASE ~(m + 1 <= n)
      BY <3>2
    <3> QED
      BY <3>1, <3>2
  <2>3. \A m \in Nat : m \in P
    <3> HIDE DEF P
    <3> QED
      BY <2>1, <2>2, SetInduction
  <2>4. g = [i \in 0..n |-> g[i]]
    OBVIOUS
  <2> HIDE DEF g
  <2>5. \A i \in 0..n : g[i] \in Seq(Nat)
    BY <1>2, <2>3
  <2> QED
    BY <2>4, <2>5
<1> HIDE DEF g
<1> QED
  BY <1>7, <1>8, <1>9, <1>10 DEF Texts

\* The text in a part of a layout from its beginning.
LEMMA TextOfPrefix ==
  ASSUME NEW s \in Seq(Located), NEW text, Texts(text, s),
         NEW p \in 0..Len(s)
  PROVE  TextIn(SubSeq(s, 1, p)) = text[p]
<1> DEFINE r == SubSeq(s, 1, p)
<1>1. r \in Seq(Located) /\ Len(r) = p /\ \A i \in 1..p : r[i] = s[i]
  OBVIOUS
<1> HIDE DEF r
<1>2. PICK other : Texts(other, r) /\ TextIn(r) = other[Len(r)]
  BY <1>1, TextSteps
<1>3. text[0] = other[0]
  BY <1>2 DEF Texts
<1>4. ASSUME NEW i \in 1..p, other[i - 1] = text[i - 1]
      PROVE  other[i] = text[i]
  <2>1. i \in 1..Len(r) /\ i \in 1..Len(s)
    BY <1>1
  <2>2. other[i] = Keep(other[i - 1], s[i])
    BY <1>1, <1>2, <2>1 DEF Texts
  <2>3. text[i] = Keep(text[i - 1], s[i])
    BY <2>1 DEF Texts
  <2> QED
    BY <1>4, <2>2, <2>3
<1>5. other[p] = text[p]
  BY <1>3, <1>4, SameSteps
<1> QED
  BY <1>1, <1>2, <1>5 DEF r

-----------------------------------------------------------------------------
(* The layout of a stream of frames. *)

\* Where a frame that begins at position i of a layout ends, and that it does:
\* its bytes have the places 1, 2, ... in it, and the next frame follows.
FrameEnd(L, i) == i + HeaderLen + L[i + HeaderLen - 1].byte
IsFrame(L, i) ==
    /\ i + HeaderLen - 1 <= Len(L)
    /\ FrameEnd(L, i) <= Len(L) + 1
    /\ \A j \in i..(FrameEnd(L, i) - 1) : L[j].at = j - i + 1
    /\ FrameEnd(L, i) <= Len(L) => L[FrameEnd(L, i)].at = 1

\* A layout of whole frames only.
Framed(L) ==
    /\ Len(L) > 0 => L[1].at = 1
    /\ \A i \in 1..Len(L) : L[i].at = 1 => IsFrame(L, i)

\* One more frame may follow.
LEMMA FramedAppend ==
  ASSUME NEW L \in Seq(Located), Framed(L),
         NEW p \in Seq(Located), Len(p) >= HeaderLen,
         \A j \in 1..Len(p) : p[j].at = j,
         p[HeaderLen].byte = Len(p) - HeaderLen
  PROVE  Framed(L \o p)
<1> DEFINE M == L \o p
           n == Len(L)
           m == Len(p)
<1>1. /\ M \in Seq(Located) /\ Len(M) = n + m /\ n \in Nat /\ m \in Nat
      /\ \A i \in 1..n : M[i] = L[i]
      /\ \A j \in 1..m : M[n + j] = p[j]
  OBVIOUS
<1>2. HeaderLen \in Nat /\ HeaderLen > 1
  BY HeaderAssumption
<1>3. \A i \in 1..n : L[i].byte \in Nat
  <2>1. \A i \in 1..n : L[i] \in Located
    OBVIOUS
  <2> QED
    BY <2>1 DEF Located
<1> HIDE DEF M, n, m
<1>4. Len(M) > 0 => M[1].at = 1
  <2>1. CASE n > 0
    BY <1>1, <2>1 DEF n, Framed
  <2>2. CASE n = 0
    <3>1. M[0 + 1] = p[1] /\ p[1].at = 1
      BY <1>1, <1>2, <2>2 DEF m
    <3> QED
      BY <3>1
  <2> QED
    BY <1>1, <2>1, <2>2
<1>5. ASSUME NEW i \in 1..n, M[i].at = 1
      PROVE  IsFrame(M, i)
  <2>1. IsFrame(L, i)
    BY <1>1, <1>5 DEF Framed, n
  <2> DEFINE h == i + HeaderLen - 1
             e == FrameEnd(L, i)
  <2>2. h \in 1..n /\ M[h] = L[h] /\ L[h].byte \in Nat
    BY <1>1, <1>2, <1>3, <2>1 DEF IsFrame, n
  <2>3. FrameEnd(M, i) = e /\ e \in Nat /\ e > i /\ e <= n + 1
    BY <1>2, <2>1, <2>2 DEF FrameEnd, IsFrame, n
  <2>4. ASSUME NEW j \in i..(e - 1)
        PROVE  M[j].at = j - i + 1
    <3>1. L[j].at = j - i + 1
      BY <2>1 DEF IsFrame
    <3> HIDE DEF e
    <3>2. j \in 1..n
      BY <1>1, <2>3
    <3> QED
      BY <1>1, <3>1, <3>2
  <2>5. M[e].at = 1
    <3>1. CASE e <= n
      BY <1>1, <2>1, <2>3, <3>1 DEF IsFrame, n
    <3>2. CASE e = n + 1
      <4>1. M[n + 1] = p[1] /\ p[1].at = 1
        BY <1>1, <1>2 DEF m
      <4> QED
        BY <3>2, <4>1
    <3> HIDE DEF e
    <3> QED
      BY <1>1, <2>3, <3>1, <3>2
  <2> HIDE DEF e
  <2> QED
    BY <1>1, <2>2, <2>3, <2>4, <2>5 DEF IsFrame
<1>6. ASSUME NEW j \in 1..m, M[n + j].at = 1
      PROVE  IsFrame(M, n + j)
  <2>1. j = 1
    BY <1>1, <1>6 DEF m
  <2>2. M[n + HeaderLen] = p[HeaderLen] /\ n + 1 + HeaderLen - 1 = n + HeaderLen
    BY <1>1, <1>2 DEF m
  <2>3. FrameEnd(M, n + 1) = n + m + 1
    BY <1>1, <1>2, <2>2 DEF FrameEnd, m
  <2>4. \A k \in (n + 1)..(n + m) : M[k].at = k - n
    <3>1. ASSUME NEW k \in (n + 1)..(n + m)
          PROVE  M[k].at = k - n
      <4>1. k - n \in 1..m /\ n + (k - n) = k
        BY <1>1
      <4> QED
        BY <1>1, <4>1 DEF m
    <3> QED
      BY <3>1
  <2>5. n + HeaderLen <= Len(M)
    BY <1>1, <1>2 DEF m
  <2> QED
    BY <1>1, <2>1, <2>2, <2>3, <2>4, <2>5 DEF IsFrame
<1>7. ASSUME NEW i \in 1..Len(M), M[i].at = 1
      PROVE  IsFrame(M, i)
  <2>1. CASE i <= n
    BY <1>5, <1>7, <2>1
  <2>2. CASE i > n
    <3>1. i - n \in 1..m /\ n + (i - n) = i
      BY <1>1, <2>2
    <3> QED
      BY <1>6, <1>7, <3>1
  <2> QED
    BY <1>1, <2>1, <2>2
<1> QED
  BY <1>4, <1>7 DEF Framed, M

\* A frame as it is laid out in the stream.
Piece(f) ==
    LET bytes == IF tty THEN f.text ELSE Header(f) \o f.text
    IN  [i \in 1..Len(bytes) |->
           [byte |-> bytes[i], at |-> IF tty THEN i + HeaderLen ELSE i]]

LEMMA PieceOfFrame ==
  ASSUME NEW f \in Frames
  PROVE  /\ Piece(f) \in Seq(Located)
         /\ tty => \A j \in 1..Len(Piece(f)) : Piece(f)[j].at > HeaderLen
         /\ ~tty => /\ Len(Piece(f)) >= HeaderLen
                    /\ \A j \in 1..Len(Piece(f)) : Piece(f)[j].at = j
                    /\ Piece(f)[HeaderLen].byte = Len(Piece(f)) - HeaderLen
         /\ Piece(f) \in Seq(Marked)
<1>1. HeaderLen \in Nat /\ HeaderLen > 1
  BY HeaderAssumption
<1>2. f.text \in Seq(Nat) /\ f.type \in Nat
  BY PayloadsAssumption DEF Frames
<1>3. /\ Header(f) \in Seq(Nat) /\ Len(Header(f)) = HeaderLen
      /\ Header(f)[HeaderLen] = Len(f.text)
  <2>1. ASSUME NEW i \in 1..HeaderLen
        PROVE  /\ i = 1 /\ i # HeaderLen => Header(f)[i] = f.type
               /\ i # 1 /\ i = HeaderLen => Header(f)[i] = Len(f.text)
               /\ i # 1 /\ i # HeaderLen => Header(f)[i] = 0
    <3>1. Header(f)[i] = CASE i = 1 -> f.type
                           [] i = HeaderLen -> Len(f.text)
                           [] OTHER -> 0
      BY Zenon DEF Header
    <3> QED
      BY <3>1, Zenon
  <2>2. Header(f) = [i \in 1..HeaderLen |-> Header(f)[i]]
    BY DEF Header
  <2>3. \A i \in 1..HeaderLen : Header(f)[i] \in Nat
    BY <1>1, <1>2, <2>1
  <2> QED
    BY <1>1, <2>1, <2>2, <2>3
<1> DEFINE bytes == IF tty THEN f.text ELSE Header(f) \o f.text
           at(i) == IF tty THEN i + HeaderLen ELSE i
<1>4. bytes \in Seq(Nat)
  BY <1>2, <1>3
<1>5. ~tty => /\ Len(bytes) = HeaderLen + Len(f.text)
              /\ bytes[HeaderLen] = Len(f.text)
  <2> DEFINE h == Header(f)
             x == f.text
  <2>1. ~tty => bytes = h \o x
    OBVIOUS
  <2>2. /\ h \in Seq(Nat) /\ x \in Seq(Nat) /\ Len(h) = HeaderLen
        /\ h[HeaderLen] = Len(x) /\ HeaderLen \in 1..Len(h)
    BY <1>1, <1>2, <1>3
  <2> HIDE DEF h, x, bytes
  <2>3. Len(h \o x) = HeaderLen + Len(x) /\ (h \o x)[HeaderLen] = Len(x)
    BY <2>2
  <2> QED
    BY <2>1, <2>3 DEF x
<1>6. Piece(f) = [i \in 1..Len(bytes) |-> [byte |-> bytes[i], at |-> at(i)]]
  BY DEF Piece
<1> HIDE DEF bytes
<1>7. \A i \in 1..Len(bytes) : [byte |-> bytes[i], at |-> at(i)] \in Located
  BY <1>1, <1>4 DEF Located
<1>8. Piece(f) \in Seq(Located) /\ Len(Piece(f)) = Len(bytes)
  BY <1>4, <1>6, <1>7
<1>9. \A i \in 1..Len(bytes) : /\ Piece(f)[i].byte = bytes[i]
                               /\ Piece(f)[i].at = at(i)
  BY <1>6
<1>10. Len(f.text) \in Nat /\ Len(bytes) \in Nat
  BY <1>2, <1>4
<1>11. ASSUME tty
       PROVE  \A j \in 1..Len(Piece(f)) : Piece(f)[j].at > HeaderLen
  BY <1>1, <1>8, <1>9, <1>10, <1>11
<1>12. ASSUME ~tty
       PROVE  /\ Len(Piece(f)) >= HeaderLen
              /\ \A j \in 1..Len(Piece(f)) : Piece(f)[j].at = j
              /\ Piece(f)[HeaderLen].byte = Len(Piece(f)) - HeaderLen
  BY <1>1, <1>5, <1>8, <1>9, <1>10, <1>12
<1>13. ASSUME NEW i \in 1..Len(bytes)
       PROVE  Piece(f)[i] \in Marked
  <2>1. /\ i \in Nat /\ i >= 1 /\ f.type \in {1, 2}
        /\ \A j \in 1..Len(f.text) : f.text[j] > 6
    BY <1>10, PayloadsAssumption DEF Frames
  <2>2. Piece(f)[i] \in Located
    BY <1>6, <1>7, <1>9
  <2>3. CASE tty
    <3>1. bytes[i] > 6 /\ at(i) > HeaderLen /\ at(i) > 0
      BY <1>1, <2>1, <2>3 DEF bytes
    <3> QED
      BY <1>1, <1>9, <2>2, <3>1 DEF Marked
  <2>4. CASE ~tty
    <3> DEFINE h == Header(f)
               x == f.text
    <3>1. bytes = h \o x
      BY <2>4 DEF bytes
    <3>2. /\ h \in Seq(Nat) /\ x \in Seq(Nat) /\ Len(h) = HeaderLen
          /\ \A j \in 1..Len(x) : x[j] > 6
      BY <1>2, <1>3, <2>1
    <3>3. h[1] \in {1, 2}
      <4>1. h[1] = f.type
        <5>1. 1 \in 1..HeaderLen /\ 1 # HeaderLen
          BY <1>1
        <5>2. h[1] = CASE 1 = 1 -> f.type
                       [] 1 = HeaderLen -> Len(f.text)
                       [] OTHER -> 0
          BY <5>1, Zenon DEF Header
        <5> QED
          BY <5>1, <5>2, Zenon
      <4> QED
        BY <2>1, <4>1
    <3>4. at(i) = i
      BY <2>4
    <3> HIDE DEF h, x
    <3>5. i = 1 => bytes[i] = h[1]
      BY <1>1, <3>1, <3>2
    <3>6. i > HeaderLen => bytes[i] > 6
      <4>1. Len(bytes) = HeaderLen + Len(x)
        BY <1>5, <2>4 DEF x
      <4>2. i > HeaderLen => /\ i - HeaderLen \in 1..Len(x)
                             /\ bytes[i] = x[i - HeaderLen]
        BY <1>1, <2>1, <3>1, <3>2, <4>1
      <4> QED
        BY <3>2, <4>2
    <3> QED
      BY <1>9, <2>1, <2>2, <3>3, <3>4, <3>5, <3>6 DEF Marked
  <2> QED
    BY <2>3, <2>4
<1>14. Piece(f) \in Seq(Marked)
  BY <1>8, <1>10, <1>13
<1> QED
  BY <1>8, <1>11, <1>12, <1>14

\* The layout of a stream: text only, or frames only.
Laid(L) ==
    /\ L \in Seq(Located)
    /\ tty => \A i \in 1..Len(L) : L[i].at > HeaderLen
    /\ ~tty => Framed(L)

LEMMA LaidOut ==
  ASSUME frames \in Seq(Frames)
  PROVE  Laid(Layout)
<1> DEFINE n == Len(frames)
           pieces == [k \in DOMAIN frames |-> Piece(frames[k])]
<1>1. n \in Nat /\ DOMAIN frames = 1..n /\ \A k \in 1..n : frames[k] \in Frames
  OBVIOUS
<1>2. Layout = FlattenSeq(pieces)
  BY DEF Layout, Piece
<1>3. /\ pieces \in Seq(Seq(Located)) /\ Len(pieces) = n
      /\ \A k \in 1..n : pieces[k] = Piece(frames[k])
  BY <1>1, PieceOfFrame
<1> HIDE DEF pieces, n
<1>4. PICK g \in [0..n -> Seq(Located)] :
        /\ g[0] = <<>>
        /\ \A k \in 1..n : g[k] = g[k - 1] \o pieces[k]
        /\ FlattenSeq(pieces) = g[n]
  BY <1>3, FlattenSteps
<1> DEFINE P == {k \in Nat : k <= n => Laid(g[k])}
<1>5. 0 \in P
  <2>1. g[0] = <<>> /\ <<>> \in Seq(Located) /\ Len(<<>>) = 0
    BY <1>4
  <2>2. Framed(<<>>)
    BY DEF Framed
  <2> QED
    BY <2>1, <2>2 DEF Laid
<1>6. ASSUME NEW k \in Nat, k \in P
      PROVE  k + 1 \in P
  <2> SUFFICES ASSUME k + 1 <= n
               PROVE  Laid(g[k + 1])
    OBVIOUS
  <2> DEFINE L == g[k]
             p == Piece(frames[k + 1])
  <2>1. g[k + 1] = L \o p
    <3>1. k + 1 \in 1..n /\ (k + 1) - 1 = k
      BY <1>1
    <3> QED
      BY <1>3, <1>4, <3>1
  <2>2. Laid(L)
    BY <1>1, <1>6
  <2>3. frames[k + 1] \in Frames
    BY <1>1
  <2> HIDE DEF L, p
  <2>4. L \in Seq(Located) /\ p \in Seq(Located) /\ L \o p \in Seq(Located)
    <3>1. L \in Seq(Located) /\ p \in Seq(Located)
      BY <2>2, <2>3, PieceOfFrame DEF Laid, p
    <3> QED
      BY <3>1
  <2>5. ASSUME tty, NEW i \in 1..Len(L \o p)
        PROVE  (L \o p)[i].at > HeaderLen
    <3>1. \A j \in 1..Len(L) : L[j].at > HeaderLen
      BY <2>2, <2>5 DEF Laid
    <3>2. \A j \in 1..Len(p) : p[j].at > HeaderLen
      BY <2>3, <2>5, PieceOfFrame DEF p
    <3>3. CASE i <= Len(L)
      BY <2>4, <3>1, <3>3
    <3>4. CASE i > Len(L)
      <4>1. i - Len(L) \in 1..Len(p) /\ (L \o p)[i] = p[i - Len(L)]
        BY <2>4, <3>4
      <4> QED
        BY <3>2, <4>1
    <3> QED
      BY <2>4, <3>3, <3>4
  <2>6. ASSUME ~tty
        PROVE  Framed(L \o p)
    <3>1. /\ Len(p) >= HeaderLen
          /\ \A j \in 1..Len(p) : p[j].at = j
          /\ p[HeaderLen].byte = Len(p) - HeaderLen
      BY <2>3, <2>6, PieceOfFrame DEF p
    <3>2. Framed(L)
      BY <2>2, <2>6 DEF Laid
    <3> QED
      BY <2>4, <3>1, <3>2, FramedAppend
  <2> QED
    BY <2>1, <2>4, <2>5, <2>6 DEF Laid
<1>7. n \in P
  <2> HIDE DEF P
  <2> QED
    BY <1>1, <1>5, <1>6, SetInduction
<1> QED
  BY <1>1, <1>2, <1>4, <1>7

\* Every byte of it is marked.
LEMMA MarkedOut ==
  ASSUME frames \in Seq(Frames)
  PROVE  Layout \in Seq(Marked)
<1> DEFINE n == Len(frames)
           pieces == [k \in DOMAIN frames |-> Piece(frames[k])]
<1>1. n \in Nat /\ DOMAIN frames = 1..n /\ \A k \in 1..n : frames[k] \in Frames
  OBVIOUS
<1>2. Layout = FlattenSeq(pieces)
  BY DEF Layout, Piece
<1>3. pieces \in Seq(Seq(Marked)) /\ Len(pieces) = n
  BY <1>1, PieceOfFrame
<1> HIDE DEF pieces, n
<1>4. PICK g \in [0..n -> Seq(Marked)] : FlattenSeq(pieces) = g[n]
  BY <1>3, FlattenSteps
<1> QED
  BY <1>1, <1>2, <1>4

\* What the stream holds before it ends or breaks is its beginning.
StreamInv ==
    /\ frames \in Seq(Frames)
    /\ tty \in BOOLEAN
    /\ intact \in BOOLEAN
    /\ consumer \in {"api", "collector"}
    /\ wire \in Prefixes(Bytes(Layout))

LEMMA StreamInvariant == Spec => []StreamInv
<1>1. Init => StreamInv
  BY BoundedIsSeq DEF Init, StreamInv
<1>2. StreamInv /\ [Next]_vars => StreamInv'
  <2>1. [Next]_vars => UNCHANGED <<frames, tty, intact, consumer, wire>>
    BY DEF Next, vars, stream, Request, LiveHandler, ReadChunk, ReadEnds,
       ClientGone, Reader, ScanLine, ServeLeftover, ReadFrame, ReadFails,
       TooLong, Sent, TakerStalls
  <2>2. UNCHANGED <<frames, tty, wire>> => UNCHANGED Bytes(Layout)
    BY DEF Bytes, Layout, Header
  <2> QED
    BY <2>1, <2>2 DEF StreamInv
<1> QED
  BY <1>1, <1>2, PTL DEF Spec

\* The bytes that are there are those of the layout.
WireIsLaid(L) ==
    /\ wire \in Seq(Nat)
    /\ Len(wire) <= Len(L)
    /\ \A i \in 1..Len(wire) : wire[i] = L[i].byte

LEMMA WireOfLayout ==
  ASSUME StreamInv
  PROVE  Laid(Layout) /\ WireIsLaid(Layout)
<1> DEFINE L == Layout
           b == Bytes(L)
<1>1. Laid(L)
  BY LaidOut DEF StreamInv
<1> HIDE DEF L
<1>2. b \in Seq(Nat) /\ Len(b) = Len(L) /\ \A i \in 1..Len(L) : b[i] = L[i].byte
  <2>1. Len(L) \in Nat /\ \A i \in 1..Len(L) : L[i].byte \in Nat
    <3>1. Len(L) \in Nat /\ \A i \in 1..Len(L) : L[i] \in Located
      BY <1>1 DEF Laid
    <3> QED
      BY <3>1 DEF Located
  <2> QED
    BY <2>1 DEF Bytes
<1>3. PICK m \in 0..Len(b) : wire = SubSeq(b, 1, m)
  BY DEF StreamInv, Prefixes, L
<1> HIDE DEF b
<1>4. wire \in Seq(Nat) /\ Len(wire) = m /\ \A i \in 1..m : wire[i] = b[i]
  BY <1>2, <1>3
<1> QED
  BY <1>1, <1>2, <1>3, <1>4 DEF WireIsLaid, L

-----------------------------------------------------------------------------
(* Types. *)

\* Every path has a handler, and every answer a status.
LEMMA AnswersExist ==
  /\ \A path : Route(path) \in Handlers
  /\ \A handler, path, tail, outcome :
       Status(handler, path, tail, outcome)
         \in {101, 200, 307, 400, 404, 500, 1011}
<1>1. ASSUME NEW path
      PROVE  Route(path) \in Handlers
  <2>1. ContainersRoute(path) \in Handlers
    BY Zenon DEF ContainersRoute, Handlers
  <2> QED
    BY <2>1, Zenon DEF Route, Handlers
<1>2. ASSUME NEW handler, NEW path, NEW tail, NEW outcome
      PROVE  Status(handler, path, tail, outcome)
               \in {101, 200, 307, 400, 404, 500, 1011}
  <2> DEFINE S == {101, 200, 307, 400, 404, 500, 1011}
             opened == IF handler = "LogStream" THEN 101 ELSE 200
             refused == IF handler = "LogStream" THEN 400 ELSE 200
  <2>1. /\ 101 \in S /\ 200 \in S /\ 307 \in S /\ 400 \in S /\ 404 \in S
        /\ 500 \in S /\ 1011 \in S
        /\ opened \in S /\ refused \in S
    OBVIOUS
  <2> HIDE DEF S
  <2>2. DockerStatus(handler, outcome) \in S
    BY <2>1, ZenonT(30) DEF DockerStatus
  <2>3. Status(handler, path, tail, outcome) \in S
    BY <2>1, <2>2, ZenonT(30) DEF Status
  <2> QED
    BY <2>3 DEF S
<1> QED
  BY <1>1, <1>2

\* The variables of the API's side.
ApiType ==
    /\ request.handler \in Handlers \union {"none"}
    /\ status \in {0, 101, 200, 307, 400, 404, 500, 1000, 1006, 1011}
    /\ view \in Seq(Nat)
    /\ cutHeader \in BOOLEAN /\ cutFrame \in BOOLEAN

\* The variables of the reader.
ReaderType ==
    /\ dbuf \in Seq(Nat)
    /\ sbuf \in Seq(Nat) /\ Len(sbuf) <= MaxToken
    /\ lines \in Seq(Seq(Nat))
    /\ scanner \in {"scan", "ended", "tooLong"}

TypeInv == ApiType /\ ReaderType /\ pos \in 0..Len(wire)

\* A request changes the API's side only, to an answer of the right type.
LEMMA RequestType ==
  ASSUME wire \in Seq(Nat), ApiType, Request
  PROVE  ApiType'
<1>1. PICK path, tail, outcome : Answer(path, tail, outcome)
  BY DEF Request
<1>2. UNCHANGED <<cutHeader, cutFrame>>
  BY DEF Request
<1>3. decodeDockerLogs(wire) \in Seq(Nat)
  <2>1. PICK text \in [1..(Len(wire) + 1) -> Seq(Nat)] :
          decodeDockerLogs(wire) = text[1]
    BY DockerLogsSteps
  <2>2. 1 \in 1..(Len(wire) + 1)
    OBVIOUS
  <2> QED
    BY <2>1, <2>2
<1>4. view' \in Seq(Nat)
  <2>1. <<>> \in Seq(Nat)
    OBVIOUS
  <2>2. view' = decodeDockerLogs(wire) \/ view' = <<>>
    BY <1>1, Zenon DEF Answer
  <2> QED
    BY <1>3, <2>1, <2>2
<1>5. status' \in {101, 200, 307, 400, 404, 500, 1011}
  <2>1. \E any : status' = Status(Route(path), path, tail, any)
    BY <1>1, Zenon DEF Answer
  <2> QED
    BY <2>1, AnswersExist
<1>6. request'.handler \in Handlers
  <2>1. request' = [path |-> path, handler |-> Route(path)]
    BY <1>1 DEF Answer
  <2>2. request'.handler = Route(path)
    BY <2>1
  <2> QED
    BY <2>2, AnswersExist
<1> QED
  BY <1>2, <1>4, <1>5, <1>6 DEF ApiType

\* A read of the live view.
LEMMA ReadChunkType ==
  ASSUME wire \in Seq(Nat), TypeInv, NEW n \in 1..Len(wire), ReadChunk(n)
  PROVE  ApiType' /\ pos' \in 0..Len(wire)
<1>1. pos' = pos + n /\ pos' \in 0..Len(wire)
  BY DEF ReadChunk, TypeInv
<1>2. view' \in Seq(Nat)
  <2>1. SubSeq(wire, pos + 1, pos + n) \in Seq(Nat)
    BY <1>1 DEF TypeInv
  <2>2. decodeLogChunk(SubSeq(wire, pos + 1, pos + n)) \in Seq(Nat)
    BY <2>1, ChunkType
  <2> QED
    BY <2>2 DEF ReadChunk, TypeInv, ApiType
<1>3. cutHeader' \in BOOLEAN /\ cutFrame' \in BOOLEAN
  BY Zenon DEF ReadChunk, InsideHeader, FrameEnds
<1>4. UNCHANGED <<request, status>>
  BY DEF ReadChunk, stream
<1> QED
  BY <1>1, <1>2, <1>3, <1>4 DEF ApiType, TypeInv

\* Where the first line in a buffer ends.
EndOfLine(s) == CHOOSE i \in DOMAIN s :
                  s[i] = Newline /\ \A j \in 1..i-1 : s[j] # Newline

LEMMA FirstNewline ==
  ASSUME NEW s \in Seq(Nat), Contains(s, Newline)
  PROVE  /\ EndOfLine(s) \in 1..Len(s)
         /\ s[EndOfLine(s)] = Newline
         /\ \A j \in 1..(EndOfLine(s) - 1) : s[j] # Newline
<1> DEFINE T == {i \in 1..Len(s) : s[i] = Newline}
<1>1. T # {} /\ T \in SUBSET Nat
  BY DEF Contains
<1>2. PICK i \in T : \A j \in T : i <= j
  <2> HIDE DEF T
  <2> QED
    BY <1>1, LeastElement
<1>3. \A j \in 1..(i - 1) : s[j] # Newline
  <2>1. ASSUME NEW j \in 1..(i - 1) PROVE j \notin T /\ j \in 1..Len(s)
    BY <1>2
  <2> QED
    BY <2>1
<1>4. i \in DOMAIN s /\ s[i] = Newline
  OBVIOUS
<1>5. /\ EndOfLine(s) \in DOMAIN s
      /\ s[EndOfLine(s)] = Newline
      /\ \A j \in 1..(EndOfLine(s) - 1) : s[j] # Newline
  BY <1>3, <1>4 DEF EndOfLine
<1> QED
  BY <1>5

\* A line without its carriage return.
LEMMA DropCRType ==
  ASSUME NEW line \in Seq(Nat)
  PROVE  DropCR(line) \in Seq(Nat)
BY DEF DropCR, Front

LEMMA LineType ==
  \A ls \in Seq(Seq(Nat)), line \in Seq(Nat) :
    Append(ls, DropCR(line)) \in Seq(Seq(Nat))
<1> SUFFICES ASSUME NEW ls \in Seq(Seq(Nat)), NEW line \in Seq(Nat)
             PROVE  Append(ls, DropCR(line)) \in Seq(Seq(Nat))
  OBVIOUS
<1> DEFINE x == DropCR(line)
<1>1. x \in Seq(Nat)
  BY DropCRType
<1> HIDE DEF x
<1>2. Append(ls, x) \in Seq(Seq(Nat))
  BY <1>1
<1> QED
  BY <1>2 DEF x

\* A step of the reader.
LEMMA ReaderStepType ==
  ASSUME wire \in Seq(Nat), TypeInv, Reader
  PROVE  ReaderType' /\ pos' \in 0..Len(wire)
<1> USE DEF TypeInv, ReaderType
<1>1. <<>> \in Seq(Nat) /\ Len(<<>>) = 0 /\ MaxToken \in Nat
  BY TokenAssumption
<1>2. CASE ScanLine
  <2> DEFINE i == EndOfLine(sbuf)
  <2>1. /\ lines' = Append(lines, DropCR(SubSeq(sbuf, 1, i - 1)))
        /\ sbuf' = SubSeq(sbuf, i + 1, Len(sbuf))
        /\ UNCHANGED <<dbuf, scanner, pos>>
    BY <1>2 DEF ScanLine, EndOfLine
  <2>2. i \in 1..Len(sbuf)
    BY <1>2, FirstNewline DEF ScanLine, NoLine
  <2> HIDE DEF i
  <2>3. /\ SubSeq(sbuf, 1, i - 1) \in Seq(Nat)
        /\ SubSeq(sbuf, i + 1, Len(sbuf)) \in Seq(Nat)
        /\ Len(SubSeq(sbuf, i + 1, Len(sbuf))) <= Len(sbuf)
    BY <2>2
  <2>4. lines' \in Seq(Seq(Nat))
    BY <2>1, <2>3, LineType, Zenon
  <2>5. Len(sbuf') <= MaxToken
    BY <1>1, <2>1, <2>3
  <2> QED
    BY <2>1, <2>3, <2>4, <2>5
<1>3. CASE ServeLeftover
  <2>1. PICK n \in 1..Len(dbuf) :
          Room(n) /\ sbuf' = sbuf \o SubSeq(dbuf, 1, n) /\ KeepRest(n)
    BY <1>3 DEF ServeLeftover
  <2>2. /\ SubSeq(dbuf, 1, n) \in Seq(Nat) /\ Len(SubSeq(dbuf, 1, n)) = n
        /\ SubSeq(dbuf, n + 1, Len(dbuf)) \in Seq(Nat)
    <3>1. n \in Nat /\ n >= 1 /\ n <= Len(dbuf) /\ dbuf \in Seq(Nat)
      OBVIOUS
    <3> QED
      BY <3>1
  <2>3. sbuf' \in Seq(Nat) /\ Len(sbuf') <= MaxToken
    BY <2>1, <2>2 DEF Room
  <2> QED
    BY <1>3, <2>1, <2>2, <2>3 DEF ServeLeftover, KeepRest
<1>4. CASE ReadFrame
  <2>1. wire[pos + HeaderLen] \in Nat /\ PayloadEnd \in 0..Len(wire)
    <3>1. pos + HeaderLen \in 1..Len(wire)
      BY <1>4, HeaderAssumption DEF ReadFrame, FrameHere
    <3>2. wire[pos + HeaderLen] \in Nat
      BY <3>1
    <3>3. PayloadEnd \in Nat
      BY <3>2, HeaderAssumption DEF PayloadEnd
    <3> HIDE DEF PayloadEnd
    <3> QED
      BY <1>4, <3>2, <3>3 DEF ReadFrame, FrameHere
  <2>2. SubSeq(wire, pos + HeaderLen + 1, PayloadEnd) \in Seq(Nat)
    <3>1. pos + HeaderLen + 1 \in Nat /\ pos + HeaderLen + 1 >= 1
      BY HeaderAssumption
    <3> HIDE DEF PayloadEnd
    <3> QED
      BY <2>1, <3>1, SMTT(30)
  <2> QED
    BY <1>4, <2>1, <2>2 DEF ReadFrame
<1>5. CASE ReadFails
  <2>1. lines' = lines \/ lines' = Append(lines, DropCR(sbuf))
    BY <1>5 DEF ReadFails
  <2>2. lines' \in Seq(Seq(Nat))
    BY <2>1, LineType, Zenon
  <2> QED
    BY <1>1, <1>5, <2>2 DEF ReadFails
<1>6. CASE TooLong
  BY <1>6 DEF TooLong
<1> QED
  BY <1>2, <1>3, <1>4, <1>5, <1>6 DEF Reader

LEMMA TypeInvariant == Spec => []TypeInv
<1>1. Init => TypeInv
  <2> SUFFICES ASSUME Init PROVE TypeInv
    OBVIOUS
  <2>1. <<>> \in Seq(Nat) /\ <<>> \in Seq(Seq(Nat)) /\ Len(<<>>) = 0
    OBVIOUS
  <2>2. wire \in Seq(Nat)
    BY WireOfLayout, BoundedIsSeq DEF Init, StreamInv, WireIsLaid
  <2>3. pos \in 0..Len(wire)
    BY <2>2 DEF Init
  <2>4. request.handler \in Handlers \union {"none"}
    BY DEF Init
  <2>5. ApiType
    BY <2>1, <2>4 DEF Init, ApiType
  <2>6. ReaderType
    BY <2>1, TokenAssumption DEF Init, ReaderType
  <2> QED
    BY <2>3, <2>5, <2>6 DEF TypeInv
<1>2. StreamInv /\ TypeInv /\ [Next]_vars /\ StreamInv' => TypeInv'
  <2> SUFFICES ASSUME StreamInv, TypeInv, [Next]_vars
               PROVE  TypeInv'
    OBVIOUS
  <2>1. wire \in Seq(Nat)
    BY WireOfLayout DEF WireIsLaid
  <2>2. CASE Request
    <3>1. ApiType'
      BY <2>1, <2>2, RequestType DEF TypeInv
    <3>2. UNCHANGED <<wire, pos, reader>>
      BY <2>2 DEF Request
    <3> QED
      BY <3>1, <3>2 DEF TypeInv, ReaderType, reader
  <2>3. CASE \E n \in 1..Len(wire) : ReadChunk(n)
    <3>1. PICK n \in 1..Len(wire) : ReadChunk(n)
      BY <2>3
    <3>2. ApiType' /\ pos' \in 0..Len(wire)
      BY <2>1, <3>1, ReadChunkType
    <3>3. UNCHANGED <<wire, reader>>
      BY <3>1 DEF ReadChunk, stream
    <3> QED
      BY <3>2, <3>3 DEF TypeInv, ReaderType, reader
  <2>4. CASE ReadEnds \/ ClientGone
    BY <2>4 DEF ReadEnds, CloseCode, ClientGone, stream, reader, TypeInv,
       ApiType, ReaderType
  <2>5. CASE Reader
    <3>1. ReaderType' /\ pos' \in 0..Len(wire)
      BY <2>1, <2>5, ReaderStepType
    <3>2. UNCHANGED <<wire, request, api>>
      BY <2>5 DEF Reader, ScanLine, ServeLeftover, ReadFrame, ReadFails,
         TooLong, stream
    <3> QED
      BY <3>1, <3>2 DEF TypeInv, ApiType, api
  <2>6. CASE UNCHANGED vars \/ Sent \/ TakerStalls
    <3>1. UNCHANGED <<stream, api, pos, reader>>
      BY <2>6 DEF vars, Sent, TakerStalls
    <3> QED
      BY <3>1 DEF stream, api, reader, TypeInv, ApiType, ReaderType
  <2> QED
    BY <2>2, <2>3, <2>4, <2>5, <2>6 DEF Next, LiveHandler
<1> QED
  BY <1>1, <1>2, StreamInvariant, PTL DEF Spec

\* A send is on, or not.
TakerType == sending \in BOOLEAN /\ stalled \in BOOLEAN

LEMMA TakerInvariant == Spec => []TakerType
<1>1. Init => TakerType
  BY DEF Init, TakerType
<1>2. TakerType /\ [Next]_vars => TakerType'
  <2> SUFFICES ASSUME TakerType, [Next]_vars PROVE TakerType'
    OBVIOUS
  <2>1. CASE UNCHANGED taker
    BY <2>1 DEF taker, TakerType
  <2>2. CASE LiveHandler \/ ClientGone
    <3>1. \/ UNCHANGED taker
          \/ sending' = TRUE /\ stalled' = stalled
          \/ sending' = FALSE /\ stalled' = FALSE
      <4>1. \A n : ReadChunk(n) => sending' = TRUE /\ stalled' = stalled
        BY DEF ReadChunk
      <4>2. ReadEnds => UNCHANGED taker
        BY DEF ReadEnds
      <4>3. ClientGone => sending' = FALSE /\ stalled' = FALSE
        BY DEF ClientGone
      <4> QED
        BY <2>2, <4>1, <4>2, <4>3, Zenon DEF LiveHandler
    <3> QED
      BY <3>1 DEF taker, TakerType
  <2>3. CASE Reader
    <3>1. \/ UNCHANGED taker
          \/ sending' = TRUE /\ stalled' = stalled
          \/ sending' = (sbuf # <<>>) /\ stalled' = stalled
      BY <2>3, Zenon DEF Reader, ScanLine, ServeLeftover, ReadFrame, ReadFails,
         TooLong, taker
    <3> QED
      BY <3>1 DEF taker, TakerType
  <2>4. CASE Request \/ Sent \/ TakerStalls
    BY <2>4, Zenon DEF Request, Sent, TakerStalls, taker, TakerType
  <2> QED
    BY <2>1, <2>2, <2>3, <2>4 DEF Next, vars
<1> QED
  BY <1>1, <1>2, PTL DEF Spec

\* Every variable keeps its type.
THEOREM TypeCorrect == Spec => []TypeOK
<1>1. StreamInv /\ TypeInv /\ TakerType => TypeOK
  BY WireOfLayout
     DEF StreamInv, WireIsLaid, TypeInv, ApiType, ReaderType, TakerType, TypeOK
<1> QED
  BY <1>1, StreamInvariant, TypeInvariant, TakerInvariant, PTL

-----------------------------------------------------------------------------
(* Frame after frame. *)

(* Bytes put together and taken apart. *)

LEMMA BytesAssociate ==
  \A a, b, c \in Seq(Nat) : (a \o b) \o c = a \o (b \o c)
<1>1. Associates(Nat)
  BY SequencesJoin
<1> QED
  BY <1>1 DEF Associates

LEMMA BytesAppend ==
  \A a, b \in Seq(Nat), x \in Nat : Append(a \o b, x) = a \o Append(b, x)
<1>1. AppendsLast(Nat)
  BY SequencesJoin
<1> QED
  BY <1>1 DEF AppendsLast

LEMMA BytesLonger ==
  \A s \in Seq(Nat) : \A k \in 1..Len(s) :
    SubSeq(s, 1, k) = Append(SubSeq(s, 1, k - 1), s[k])
<1>1. OneLonger(Nat)
  BY SequencesJoin
<1> QED
  BY <1>1 DEF OneLonger

LEMMA BytesCut ==
  \A s \in Seq(Nat) : \A i \in 0..Len(s) :
    SubSeq(s, 1, i) \o SubSeq(s, i + 1, Len(s)) = s
<1>1. CutInTwo(Nat)
  BY SequencesJoin
<1> QED
  BY <1>1 DEF CutInTwo

LEMMA BytesCancel == \A a, b, c \in Seq(Nat) : a \o b = a \o c => b = c
<1>1. Cancels(Nat)
  BY SequencesJoin
<1> QED
  BY <1>1 DEF Cancels

\* After a frame that is whole on the wire the next one begins; of one that is
\* cut off nothing later on the wire is the end.
LEMMA NextFrameEnd ==
  ASSUME StreamInv, ~tty, NEW p \in 0..Len(wire), FrameEnds(p),
         NEW e, e = NextFrame(wire, p + 1) - 1
  PROVE  /\ ~FrameCut(wire, p + 1) =>
              /\ e \in (p + 1)..Len(wire)
              /\ FrameEnds(e)
              /\ \A q \in (p + 1)..(e - 1) : ~FrameEnds(q)
              /\ \A q \in (p + 1)..e : Layout[q].at = q - p
         /\ FrameCut(wire, p + 1) =>
              \A q \in (p + 1)..Len(wire) : ~FrameEnds(q)
<1> DEFINE L == Layout
           n == Len(L)
           w == Len(wire)
           end == FrameEnd(L, p + 1)
<1>1. /\ L \in Seq(Located) /\ n \in Nat /\ w \in Nat /\ w <= n
      /\ \A i \in 1..w : wire[i] = L[i].byte
      /\ Framed(L)
  BY WireOfLayout DEF Laid, WireIsLaid
<1>2. HeaderLen \in Nat /\ HeaderLen > 1
  BY HeaderAssumption
<1>3. \A i \in 1..n : L[i].byte \in Nat
  <2>1. \A i \in 1..n : L[i] \in Located
    BY <1>1
  <2> QED
    BY <2>1 DEF Located
<1>4. \A q : FrameEnds(q) <=> (q = n \/ L[q + 1].at = 1)
  BY DEF FrameEnds
<1> HIDE DEF L, n, w
<1>5. CASE p = n
  <2>1. FrameCut(wire, p + 1)
    BY <1>1, <1>2, <1>5 DEF FrameCut, HeaderCut, w
  <2>2. (p + 1)..w = {}
    BY <1>1, <1>5
  <2> QED
    BY <2>1, <2>2 DEF w
<1>6. CASE p # n
  <2>1. p \in Nat /\ p + 1 \in 1..n /\ L[p + 1].at = 1
    BY <1>1, <1>4, <1>6 DEF w
  <2>2. IsFrame(L, p + 1)
    BY <1>1, <2>1 DEF Framed, n
  <2>3. p + HeaderLen \in 1..n /\ L[p + HeaderLen].byte \in Nat
    BY <1>1, <1>2, <1>3, <2>1, <2>2 DEF IsFrame, n
  <2>4. end = p + 1 + HeaderLen + L[p + HeaderLen].byte
    <3>1. p + 1 + HeaderLen - 1 = p + HeaderLen
      BY <1>2, <2>1
    <3> QED
      BY <3>1 DEF FrameEnd
  <2>5. end \in Nat /\ end >= p + 1 + HeaderLen /\ end <= n + 1
    BY <1>1, <1>2, <2>1, <2>2, <2>3, <2>4, SMTT(30) DEF IsFrame, n
  <2>6. \A q \in (p + 1)..(end - 1) : L[q].at = q - p
    BY <2>1, <2>2, SMTT(30) DEF IsFrame
  <2>7. FrameEnds(end - 1)
    BY <1>1, <1>4, <2>2, <2>5 DEF IsFrame, n
  <2>8. ASSUME NEW q \in (p + 1)..(end - 2)
        PROVE  ~FrameEnds(q)
    <3>1. q + 1 \in (p + 1)..(end - 1) /\ q # n
      BY <1>1, <2>1, <2>5
    <3>2. L[q + 1].at = q + 1 - p
      BY <2>6, <3>1
    <3> QED
      BY <1>4, <2>1, <3>1, <3>2
  <2> HIDE DEF end
  <2>9. p + HeaderLen <= w => NextFrame(wire, p + 1) = end
    <3>1. p + 1 + HeaderLen - 1 = p + HeaderLen
      BY <1>2, <2>1
    <3>2. p + HeaderLen <= w => p + HeaderLen \in 1..w
      BY <1>1, <2>3
    <3> QED
      BY <1>1, <2>4, <3>1, <3>2 DEF NextFrame
  <2>10. ASSUME ~FrameCut(wire, p + 1)
         PROVE  /\ e = end - 1
                /\ end - 1 \in (p + 1)..w
    <3>1. p + HeaderLen <= w
      BY <1>1, <1>2, <2>1, <2>10 DEF FrameCut, HeaderCut, w
    <3>2. end <= w + 1
      <4>1. ~(NextFrame(wire, p + 1) > w + 1)
        BY <2>10 DEF FrameCut, w
      <4> QED
        BY <1>1, <2>5, <2>9, <3>1, <4>1
    <3> QED
      BY <1>1, <1>2, <2>1, <2>5, <2>9, <3>1, <3>2
  <2>11. ASSUME FrameCut(wire, p + 1)
         PROVE  w <= end - 2
    <3>1. CASE HeaderCut(wire, p + 1)
      BY <1>1, <1>2, <2>1, <2>5, <3>1 DEF HeaderCut, w
    <3>2. CASE ~HeaderCut(wire, p + 1)
      <4>1. p + HeaderLen <= w /\ NextFrame(wire, p + 1) > w + 1
        BY <1>1, <1>2, <2>1, <2>11, <3>2 DEF FrameCut, HeaderCut, w
      <4> QED
        BY <1>1, <2>5, <2>9, <4>1
    <3> QED
      BY <3>1, <3>2
  <2>12. \A q \in (p + 1)..w : w <= end - 2 => q \in (p + 1)..(end - 2)
    BY <1>1, <2>1, <2>5
  <2>13. (end - 1) - 1 = end - 2
    BY <2>5
  <2> QED
    BY <2>6, <2>7, <2>8, <2>10, <2>11, <2>12, <2>13 DEF L, w
<1> QED
  BY <1>5, <1>6

\* A frame adds its payload to the text.
LEMMA TextOfFrame ==
  ASSUME StreamInv, ~tty, NEW text, Texts(text, Layout),
         NEW p \in 0..Len(wire), NEW e \in (p + HeaderLen)..Len(wire),
         \A q \in (p + 1)..e : Layout[q].at = q - p
  PROVE  text[e] = text[p] \o SubSeq(wire, p + 1 + HeaderLen, e)
<1> DEFINE L == Layout
           n == Len(L)
           w == Len(wire)
           m == e - p
           part(j) == SubSeq(wire, p + 1 + HeaderLen, p + j)
           a == [j \in 0..m |-> text[p + j]]
           b == [j \in 0..m |-> text[p] \o part(j)]
<1>1. /\ n \in Nat /\ w \in Nat /\ w <= n
      /\ wire \in Seq(Nat)
      /\ \A i \in 1..w : wire[i] = L[i].byte
  BY WireOfLayout DEF Laid, WireIsLaid
<1>2. /\ HeaderLen \in Nat /\ HeaderLen > 1 /\ p \in Nat /\ e \in Nat
      /\ m \in Nat /\ p + m = e /\ p + 0 = p
  BY <1>1, HeaderAssumption
<1>3. text[p] \in Seq(Nat)
  <2>1. p \in 0..n
    BY <1>1
  <2> QED
    BY <2>1 DEF Texts
<1>4. \A j \in Nat : j <= HeaderLen => part(j) = <<>>
  BY <1>1, <1>2
<1>5. ASSUME NEW j \in Nat, HeaderLen < j, j <= m
      PROVE  /\ part(j - 1) \in Seq(Nat)
             /\ part(j) = Append(part(j - 1), wire[p + j])
             /\ wire[p + j] \in Nat
  <2> DEFINE h == p + 1 + HeaderLen
             k == p + j
  <2>1. /\ h \in Nat /\ h >= 1 /\ k \in Nat /\ h <= k /\ k <= w
        /\ p + (j - 1) = k - 1
    BY <1>1, <1>2, <1>5
  <2> HIDE DEF h, k
  <2>2. SubSeq(wire, h, k - 1) \in Seq(Nat) /\ wire[k] \in Nat
    BY <1>1, <2>1 DEF w
  <2>3. SubSeq(wire, h, k) = Append(SubSeq(wire, h, k - 1), wire[k])
    BY <1>1, <2>1, SMTT(30) DEF w
  <2> QED
    BY <2>1, <2>2, <2>3 DEF h, k
<1> HIDE DEF n, w, m, part
<1>6. a[0] = b[0]
  <2>1. 0 \in 0..m /\ part(0) = <<>>
    BY <1>2, <1>4
  <2>2. a[0] = text[p] /\ b[0] = text[p] \o <<>>
    BY <1>2, <2>1
  <2> QED
    BY <1>3, <2>2
<1>7. ASSUME NEW j \in 1..m, a[j - 1] = b[j - 1]
      PROVE  a[j] = b[j]
  <2>1. j \in 0..m /\ j - 1 \in 0..m /\ p + (j - 1) = p + j - 1
    BY <1>2
  <2>2. /\ a[j] = text[p + j] /\ a[j - 1] = text[p + j - 1]
        /\ b[j] = text[p] \o part(j)
        /\ b[j - 1] = text[p] \o part(j - 1)
    BY <2>1
  <2>3. p + j \in 1..w /\ p + j \in 1..n /\ p + j \in (p + 1)..e
    BY <1>1, <1>2 DEF w, m
  <2>4. L[p + j].at = j /\ L[p + j].byte = wire[p + j]
    <3>1. p + j - p = j
      BY <1>2
    <3> HIDE DEF L
    <3>2. L[p + j].at = p + j - p
      BY <2>3 DEF L
    <3>3. L[p + j].byte = wire[p + j]
      BY <1>1, <2>3 DEF w
    <3> QED
      BY <3>1, <3>2, <3>3
  <2>5. text[p + j] = Keep(text[p + j - 1], L[p + j])
    BY <2>3 DEF Texts, n
  <2> HIDE DEF a, b, L
  <2>6. CASE j <= HeaderLen
    <3>1. Keep(text[p + j - 1], L[p + j]) = text[p + j - 1]
      BY <1>2, <2>4, <2>6 DEF Keep
    <3>2. part(j) = <<>> /\ part(j - 1) = <<>>
      BY <1>2, <1>4, <2>6
    <3> QED
      BY <1>7, <2>2, <2>5, <3>1, <3>2
  <2>7. CASE j > HeaderLen
    <3>1. Keep(text[p + j - 1], L[p + j])
          = Append(text[p + j - 1], wire[p + j])
      BY <1>2, <2>4, <2>7 DEF Keep
    <3>2. /\ part(j - 1) \in Seq(Nat)
          /\ part(j) = Append(part(j - 1), wire[p + j])
          /\ wire[p + j] \in Nat
      BY <1>2, <1>5, <2>7
    <3> DEFINE old == part(j - 1)
               c == wire[p + j]
    <3> HIDE DEF old, c
    <3>3. Append(text[p] \o old, c) = text[p] \o Append(old, c)
      <4>1. old \in Seq(Nat) /\ c \in Nat
        BY <3>2 DEF old, c
      <4> QED
        BY <1>3, <4>1, BytesAppend
    <3> QED
      BY <1>7, <2>2, <2>5, <3>1, <3>2, <3>3 DEF old, c
  <2> QED
    BY <1>2, <2>6, <2>7
<1>8. m \in 0..m
  BY <1>2
<1>9. a[m] = text[e] /\ b[m] = text[p] \o part(m)
  BY <1>2, <1>8
<1>10. part(m) = SubSeq(wire, p + 1 + HeaderLen, e)
  BY <1>2 DEF part
<1> HIDE DEF a, b
<1>11. a[m] = b[m]
  BY <1>2, <1>6, <1>7, SameSteps
<1> QED
  BY <1>9, <1>10, <1>11

\* The end of the last frame that is whole on the wire.
Ends == {p \in 0..Len(wire) : FrameEnds(p)}
LastEnd == CHOOSE p \in Ends : \A q \in Ends : q <= p

LEMMA LastEndExists ==
  ASSUME StreamInv
  PROVE  /\ 0 \in Ends
         /\ LastEnd \in Ends
         /\ \A q \in Ends : q <= LastEnd
         /\ WholeFrames = TextIn(SubSeq(Layout, 1, LastEnd))
<1>1. /\ Layout \in Seq(Located) /\ Len(Layout) \in Nat /\ Len(wire) \in Nat
      /\ ~tty => Framed(Layout)
  BY WireOfLayout DEF Laid, WireIsLaid
<1>2. 0 \in Ends
  <2>1. Len(Layout) = 0 \/ tty \/ Layout[0 + 1].at = 1
    BY <1>1 DEF Framed
  <2> QED
    BY <1>1, <2>1 DEF Ends, FrameEnds
<1>3. \E p \in Ends : \A q \in Ends : q <= p
  <2>1. Ends \in SUBSET (0..Len(wire)) /\ Ends # {}
    BY <1>2 DEF Ends
  <2> QED
    BY <1>1, <2>1, GreatestElement
<1>4. LastEnd \in Ends /\ \A q \in Ends : q <= LastEnd
  BY <1>3 DEF LastEnd
<1>5. WholeFrames = TextIn(SubSeq(Layout, 1, LastEnd))
  BY DEF WholeFrames, LastEnd, Ends
<1> QED
  BY <1>2, <1>4, <1>5

\* decodeDockerLogs finds the payload of the frames that are whole.
LEMMA DecodedIsWhole ==
  ASSUME StreamInv, ~tty
  PROVE  decodeDockerLogs(wire) = WholeFrames
<1> DEFINE w == Len(wire)
           n == w + 1
           payload(i) == SubSeq(wire, i + HeaderLen, NextFrame(wire, i) - 1)
           stop == {i \in 1..n : FrameCut(wire, i) \/ ~FrameEnds(i - 1)}
           next == [i \in 1..n |-> NextFrame(wire, i)]
<1>1. /\ Layout \in Seq(Located) /\ w \in Nat /\ w <= Len(Layout)
      /\ wire \in Seq(Nat) /\ Len(Layout) \in Nat
  BY WireOfLayout DEF Laid, WireIsLaid
<1>2. PICK text : Texts(text, Layout)
  BY <1>1, TextSteps
<1>3. PICK d \in [1..(Len(wire) + 1) -> Seq(Nat)] :
        /\ decodeDockerLogs(wire) = d[1]
        /\ \A i \in 1..(Len(wire) + 1) :
             d[i] = IF FrameCut(wire, i) THEN <<>>
                    ELSE SubSeq(wire, i + HeaderLen, NextFrame(wire, i) - 1)
                         \o d[NextFrame(wire, i)]
  BY <1>1, DockerLogsSteps
<1>4. LastEnd \in 0..w /\ FrameEnds(LastEnd)
  BY LastEndExists DEF Ends
<1>5. \A p \in 0..w : text[p] \in Seq(Nat)
  BY <1>1, <1>2, SMTT(30) DEF Texts
<1> DEFINE f == [i \in 1..n |-> IF FrameEnds(i - 1) THEN text[i - 1] \o d[i]
                                ELSE text[LastEnd]]
           g == [i \in 1..n |-> text[LastEnd]]
<1>6. ASSUME NEW i \in 1..n, i \in stop
      PROVE  f[i] = g[i]
  <2>1. CASE ~FrameEnds(i - 1)
    BY <2>1
  <2>2. CASE FrameEnds(i - 1)
    <3>1. FrameCut(wire, i) /\ i - 1 \in 0..w /\ i - 1 + 1 = i
      BY <1>1, <1>6, <2>2
    <3>2. i - 1 \in Ends
      BY <2>2, <3>1 DEF Ends
    <3>3. i - 1 <= LastEnd
      BY <3>2, LastEndExists
    <3>4. \A q \in (i - 1 + 1)..w : ~FrameEnds(q)
      BY <2>2, <3>1, NextFrameEnd
    <3>5. LastEnd = i - 1
      BY <1>1, <1>4, <3>1, <3>3, <3>4
    <3>6. d[i] = <<>>
      BY <1>3, <3>1
    <3>7. text[i - 1] \o <<>> = text[i - 1]
      BY <1>5, <3>1
    <3> QED
      BY <2>2, <3>5, <3>6, <3>7
  <2> QED
    BY <2>1, <2>2
<1>7. ASSUME NEW i \in (1..n) \ stop
      PROVE  /\ next[i] \in (i + 1)..n
             /\ f[next[i]] = g[next[i]] => f[i] = g[i]
  <2> DEFINE p == i - 1
             e == NextFrame(wire, i) - 1
             j == NextFrame(wire, i)
  <2>1. /\ p \in 0..w /\ FrameEnds(p) /\ ~FrameCut(wire, p + 1) /\ p + 1 = i
        /\ i \in 1..n /\ i \in Nat
    BY <1>1
  <2>2. i + HeaderLen \in Nat /\ j \in (i + 1)..n /\ j >= i + HeaderLen
    BY <1>1, <2>1, FramesAdvance DEF FrameCut
  <2>3. /\ e \in (p + 1)..w /\ FrameEnds(e)
        /\ \A q \in (p + 1)..e : Layout[q].at = q - p
    <3>1. ASSUME NEW q \in 0..Len(wire), FrameEnds(q),
                 ~FrameCut(wire, q + 1),
                 NEW r, r = NextFrame(wire, q + 1) - 1
          PROVE  /\ r \in (q + 1)..Len(wire) /\ FrameEnds(r)
                 /\ \A k \in (q + 1)..r : Layout[k].at = k - q
      BY <3>1, NextFrameEnd
    <3>2. /\ e = NextFrame(wire, p + 1) - 1
          /\ p \in 0..Len(wire) /\ FrameEnds(p) /\ ~FrameCut(wire, p + 1)
      BY <2>1
    <3> HIDE DEF p, e, w
    <3>3. /\ e \in (p + 1)..Len(wire) /\ FrameEnds(e)
          /\ \A k \in (p + 1)..e : Layout[k].at = k - p
      BY <3>1, <3>2
    <3> QED
      BY <3>3 DEF w
  <2>4. e \in (p + HeaderLen)..w
    BY <1>1, <2>1, <2>2, <2>3, HeaderAssumption
  <2>5. text[e] = text[p] \o SubSeq(wire, p + 1 + HeaderLen, e)
    <3> HIDE DEF p, e
    <3> QED
      BY <1>2, <2>1, <2>3, <2>4, TextOfFrame
  <2>6. SubSeq(wire, p + 1 + HeaderLen, e) = payload(i)
    BY <2>1
  <2>7. d[i] = payload(i) \o d[j]
    BY <1>3, <2>1
  <2>8. payload(i) \in Seq(Nat) /\ d[j] \in Seq(Nat) /\ text[p] \in Seq(Nat)
    <3>1. e <= w /\ e \in Nat
      BY <1>1, <2>3, <2>4
    <3>2. payload(i) \in Seq(Nat)
      <4> DEFINE h == i + HeaderLen
      <4>1. h \in Nat /\ h >= 1
        BY <2>1, <2>2, HeaderAssumption
      <4> HIDE DEF e, h
      <4>2. SubSeq(wire, h, e) \in Seq(Nat)
        BY <1>1, <3>1, <4>1
      <4> QED
        BY <4>2 DEF h, e
    <3>3. d[j] \in Seq(Nat)
      BY <1>1, <1>3, <2>1, <2>2
    <3> QED
      BY <1>5, <2>1, <3>2, <3>3
  <2> HIDE DEF payload, e, p, n, w
  <2>9. text[p] \o d[i] = text[e] \o d[j]
    <3>1. (text[p] \o payload(i)) \o d[j] = text[p] \o (payload(i) \o d[j])
      BY <2>8, BytesAssociate
    <3> QED
      BY <2>5, <2>6, <2>7, <3>1
  <2>10. j \in 1..n /\ j - 1 = e
    BY <1>1, <2>1, <2>2 DEF n, e
  <2>11. f[j] = text[e] \o d[j] /\ g[j] = text[LastEnd]
    BY <2>3, <2>10
  <2>12. f[i] = text[p] \o d[i] /\ g[i] = text[LastEnd] /\ next[i] = j
    BY <2>1 DEF p
  <2> HIDE DEF f, g, next, j
  <2> QED
    BY <2>2, <2>9, <2>11, <2>12 DEF j
<1>8. n \in Nat /\ 1 \in 1..n /\ 1 - 1 = 0
  BY <1>1
<1>9. f[1] = g[1]
  <2> HIDE DEF f, g, stop, next, n
  <2>1. AgreeForward(f, g, n, stop, next)
    BY <1>6, <1>7 DEF AgreeForward
  <2>2. \A i \in 1..n : f[i] = g[i]
    BY <1>8, <2>1, SameForward
  <2> QED
    BY <1>8, <2>2
<1>10. f[1] = d[1]
  <2>1. FrameEnds(0)
    BY LastEndExists DEF Ends
  <2>2. text[0] = <<>> /\ d[1] \in Seq(Nat)
    BY <1>2, <1>3, <1>8 DEF Texts
  <2>3. <<>> \o d[1] = d[1]
    BY <2>2
  <2>4. f[1] = text[1 - 1] \o d[1]
    BY <1>8, <2>1
  <2> QED
    BY <1>8, <2>2, <2>3, <2>4
<1>11. g[1] = WholeFrames
  <2>1. LastEnd \in 0..Len(Layout)
    BY <1>1, <1>4
  <2>2. WholeFrames = text[LastEnd]
    BY <1>1, <1>2, <2>1, TextOfPrefix, LastEndExists
  <2> QED
    BY <1>8, <2>2
<1> QED
  BY <1>3, <1>9, <1>10, <1>11

\* What GetContainerLogs has answered is what it decoded.
FetchInv == request.handler = "GetContainerLogs" /\ status = 200 =>
              view = decodeDockerLogs(wire)

\* GetContainerLogs answers with what the container wrote, without headers.
THEOREM FetchCorrect == Spec => []FetchIsExact
<1>1. Init => FetchInv
  <2> SUFFICES ASSUME Init PROVE FetchInv
    OBVIOUS
  <2>1. request.handler = "none"
    BY DEF Init
  <2> QED
    BY <2>1 DEF FetchInv
<1>2. FetchInv /\ [Next]_vars => FetchInv'
  <2> SUFFICES ASSUME FetchInv, [Next]_vars
               PROVE  FetchInv'
    OBVIOUS
  <2>1. CASE Request
    <3>1. PICK path, tail, outcome : Answer(path, tail, outcome)
      BY <2>1 DEF Request
    <3>2. /\ request'.handler = Route(path)
          /\ view' = IF Route(path) = "GetContainerLogs" /\ status' = 200
                       THEN decodeDockerLogs(wire) ELSE <<>>
      BY <3>1 DEF Answer
    <3>3. wire' = wire
      BY <2>1 DEF Request
    <3> QED
      BY <3>2, <3>3 DEF FetchInv
  <2>2. CASE \E n \in 1..Len(wire) : ReadChunk(n)
    <3>1. status' # 200
      BY <2>2 DEF ReadChunk
    <3> QED
      BY <3>1 DEF FetchInv
  <2>3. CASE ReadEnds \/ ClientGone
    <3>1. status' # 200
      BY <2>3 DEF ReadEnds, CloseCode, ClientGone
    <3> QED
      BY <3>1 DEF FetchInv
  <2>4. CASE Reader
    <3>1. UNCHANGED <<wire, request, api>>
      BY <2>4 DEF Reader, ScanLine, ServeLeftover, ReadFrame, ReadFails,
         TooLong, stream
    <3> QED
      BY <3>1 DEF FetchInv, api
  <2>5. CASE UNCHANGED vars \/ Sent \/ TakerStalls
    <3>1. UNCHANGED <<stream, api>>
      BY <2>5 DEF vars, Sent, TakerStalls
    <3> QED
      BY <3>1 DEF stream, api, FetchInv
  <2> QED
    BY <2>1, <2>2, <2>3, <2>4, <2>5 DEF Next, LiveHandler
<1>3. StreamInv /\ FetchInv => FetchIsExact
  BY DecodedIsWhole DEF FetchInv, FetchIsExact
<1> QED
  BY <1>1, <1>2, <1>3, StreamInvariant, PTL DEF Spec

-----------------------------------------------------------------------------
(* The lines of a text. *)

\* The lines that end, and the rest, after one more byte.
Split == [ended : Seq(Seq(Nat)), rest : Seq(Nat)]
Cut(acc, b) == IF b = Newline
                 THEN [ended |-> Append(acc.ended, acc.rest), rest |-> <<>>]
                 ELSE [acc EXCEPT !.rest = Append(@, b)]
NoLines == [ended |-> <<>>, rest |-> <<>>]

LEMMA CutType ==
  ASSUME NEW acc \in Split, NEW b \in Nat
  PROVE  /\ Cut(acc, b) \in Split
         /\ b = Newline => /\ Cut(acc, b).ended = Append(acc.ended, acc.rest)
                           /\ Cut(acc, b).rest = <<>>
         /\ b # Newline => /\ Cut(acc, b).ended = acc.ended
                           /\ Cut(acc, b).rest = Append(acc.rest, b)
<1>1. acc.ended \in Seq(Seq(Nat)) /\ acc.rest \in Seq(Nat) /\ <<>> \in Seq(Nat)
  BY DEF Split
<1>2. CASE b = Newline
  <2>1. Append(acc.ended, acc.rest) \in Seq(Seq(Nat))
    BY <1>1
  <2> QED
    BY <1>1, <1>2, <2>1 DEF Cut, Split
<1>3. CASE b # Newline
  <2>1. Append(acc.rest, b) \in Seq(Nat)
    BY <1>1
  <2>2. Cut(acc, b) = [acc EXCEPT !.rest = Append(acc.rest, b)]
    BY <1>3 DEF Cut
  <2> QED
    BY <1>1, <1>3, <2>1, <2>2 DEF Split
<1> QED
  BY <1>2, <1>3

\* split[i] is what the first i bytes of a text are split into.
Splits(split, s) ==
    /\ split \in [0..Len(s) -> Split]
    /\ split[0] = NoLines
    /\ \A i \in 1..Len(s) : split[i] = Cut(split[i - 1], s[i])

\* LinesOf goes through a text byte by byte.
LEMMA LinesSteps ==
  ASSUME NEW s \in Seq(Nat)
  PROVE  \E split : Splits(split, s) /\ LinesOf(s) = split[Len(s)]
<1> DEFINE n == Len(s)
           Iterates(f) ==
             f = [T \in SUBSET (DOMAIN s) |->
                    IF T = {} THEN [ended |-> <<>>, rest |-> <<>>]
                    ELSE Cut(f[T \ {Max(T)}], s[Max(T)])]
           iter == CHOOSE f : Iterates(f)
<1>1. LinesOf(s) = iter[DOMAIN s]
  BY DEF LinesOf, FoldLeft, MapThenFoldSet, Cut
<1>2. /\ DOMAIN s = 1..n /\ n \in Nat /\ \A i \in 1..n : s[i] \in Nat
      /\ NoLines \in Split
  <2>1. <<>> \in Seq(Nat) /\ <<>> \in Seq(Seq(Nat))
    OBVIOUS
  <2> QED
    BY <2>1 DEF NoLines, Split
<1>3. \E f : Iterates(f)
  <2> DEFINE step == [p \in Split \X (1..n) |-> Cut(p[1], s[p[2]])]
  <2>1. step \in [Split \X (1..n) -> Split]
    BY <1>2, CutType
  <2> HIDE DEF step, n
  <2>2. PICK f : IsFold(f, n, Split, NoLines, step)
    BY <1>2, <2>1, FoldExists
  <2>3. ASSUME NEW T \in SUBSET (1..n), T # {}
        PROVE  f[T] = Cut(f[T \ {Max(T)}], s[Max(T)])
    <3>1. Max(T) \in 1..n
      <4>1. T \in SUBSET (0..n)
        OBVIOUS
      <4> QED
        BY <1>2, <2>3, <4>1, GreatestElement
    <3>2. f[T \ {Max(T)}] \in Split
      BY <2>2 DEF IsFold
    <3> QED
      BY <2>2, <2>3, <3>1, <3>2 DEF step, IsFold
  <2>4. Iterates(f)
    BY <1>2, <2>2, <2>3 DEF IsFold, NoLines
  <2> QED
    BY <2>4
<1>4. Iterates(iter)
  BY <1>3
<1> HIDE DEF iter
<1> DEFINE g == [i \in 0..n |-> iter[1..i]]
<1>5. g[0] = NoLines
  BY <1>2, <1>4 DEF NoLines
<1>6. ASSUME NEW i \in 1..n
      PROVE  g[i] = Cut(g[i - 1], s[i])
  <2>1. Max(1..i) = i /\ (1..i) \ {i} = 1..(i - 1)
    BY GreatestOfInterval
  <2>2. 1..i \in SUBSET (DOMAIN s) /\ 1..i # {}
    BY <1>2, BeginningOfInterval
  <2>3. iter[1..i] = Cut(iter[1..(i - 1)], s[i])
    BY <1>4, <2>1, <2>2
  <2> QED
    BY <2>3
<1>7. LinesOf(s) = g[n]
  BY <1>1, <1>2
<1>8. g \in [0..n -> Split]
  <2> DEFINE P == {m \in Nat : m <= n => g[m] \in Split}
  <2>1. 0 \in P
    BY <1>2, <1>5
  <2>2. ASSUME NEW m \in Nat, m \in P
        PROVE  m + 1 \in P
    <3>1. CASE m + 1 <= n
      <4>1. m + 1 \in 1..n /\ (m + 1) - 1 = m /\ g[m] \in Split
        BY <1>2, <2>2, <3>1
      <4> HIDE DEF g, n
      <4>2. g[m + 1] = Cut(g[m], s[m + 1]) /\ s[m + 1] \in Nat
        BY <1>2, <1>6, <4>1
      <4>3. g[m + 1] \in Split
        BY <4>1, <4>2, CutType
      <4> QED
        BY <4>3
    <3>2. CASE ~(m + 1 <= n)
      BY <3>2
    <3> QED
      BY <3>1, <3>2
  <2>3. \A m \in Nat : m \in P
    <3> HIDE DEF P
    <3> QED
      BY <2>1, <2>2, SetInduction
  <2>4. g = [i \in 0..n |-> g[i]]
    OBVIOUS
  <2> HIDE DEF g
  <2>5. \A i \in 0..n : g[i] \in Split
    BY <1>2, <2>3
  <2> QED
    BY <2>4, <2>5
<1> HIDE DEF g
<1> QED
  BY <1>5, <1>6, <1>7, <1>8 DEF Splits

\* What LinesOf does with a byte more.
LEMMA LinesAppend ==
  /\ LinesOf(<<>>) = NoLines
  /\ \A s \in Seq(Nat) : LinesOf(s) \in Split
  /\ \A s \in Seq(Nat), b \in Nat : LinesOf(Append(s, b)) = Cut(LinesOf(s), b)
<1>1. LinesOf(<<>>) = NoLines
  <2>1. <<>> \in Seq(Nat) /\ Len(<<>>) = 0
    OBVIOUS
  <2> QED
    BY <2>1, LinesSteps DEF Splits
<1>2. ASSUME NEW s \in Seq(Nat)
      PROVE  LinesOf(s) \in Split
  <2>1. PICK split : Splits(split, s) /\ LinesOf(s) = split[Len(s)]
    BY LinesSteps
  <2> QED
    BY <2>1 DEF Splits
<1>3. ASSUME NEW s \in Seq(Nat), NEW b \in Nat
      PROVE  LinesOf(Append(s, b)) = Cut(LinesOf(s), b)
  <2> DEFINE n == Len(s)
             r == Append(s, b)
  <2>1. PICK f : Splits(f, s) /\ LinesOf(s) = f[n]
    BY LinesSteps
  <2>2. r \in Seq(Nat) /\ Len(r) = n + 1 /\ n \in Nat
        /\ r[n + 1] = b /\ \A i \in 1..n : r[i] = s[i]
    OBVIOUS
  <2> HIDE DEF r
  <2>3. PICK g : Splits(g, r) /\ LinesOf(r) = g[n + 1]
    BY <2>2, LinesSteps
  <2>4. f[0] = g[0]
    BY <2>1, <2>3 DEF Splits
  <2>5. ASSUME NEW i \in 1..n, f[i - 1] = g[i - 1]
        PROVE  f[i] = g[i]
    BY <2>1, <2>2, <2>3, <2>5 DEF Splits
  <2>6. f[n] = g[n]
    <3> HIDE DEF n
    <3> QED
      BY <2>2, <2>4, <2>5, SameSteps
  <2>7. g[n + 1] = Cut(g[n], b)
    <3>1. n + 1 \in 1..Len(r) /\ (n + 1) - 1 = n
      BY <2>2
    <3> QED
      BY <2>2, <2>3, <3>1 DEF Splits
  <2> QED
    BY <2>1, <2>3, <2>6, <2>7 DEF r
<1> QED
  BY <1>1, <1>2, <1>3

\* Bytes that are no newline go to the rest.
LEMMA LinesOfRest ==
  ASSUME NEW d \in Seq(Nat), NEW ended \in Seq(Seq(Nat)),
         LinesOf(d) = [ended |-> ended, rest |-> <<>>],
         NEW s \in Seq(Nat), \A i \in 1..Len(s) : s[i] # Newline
  PROVE  LinesOf(d \o s) = [ended |-> ended, rest |-> s]
<1> DEFINE n == Len(s)
           a == [j \in 0..n |-> LinesOf(d \o SubSeq(s, 1, j))]
           b == [j \in 0..n |-> [ended |-> ended, rest |-> SubSeq(s, 1, j)]]
<1>1. n \in Nat /\ 0 \in 0..n /\ n \in 0..n
  OBVIOUS
<1>2. a[0] = b[0]
  <2>1. SubSeq(s, 1, 0) = <<>> /\ d \o <<>> = d
    OBVIOUS
  <2> QED
    BY <1>1, <2>1
<1>3. ASSUME NEW j \in 1..n, a[j - 1] = b[j - 1]
      PROVE  a[j] = b[j]
  <2> DEFINE old == SubSeq(s, 1, j - 1)
             new == SubSeq(s, 1, j)
  <2>1. /\ old \in Seq(Nat) /\ new = Append(old, s[j]) /\ s[j] \in Nat
        /\ s[j] # Newline /\ j - 1 \in 0..n /\ j \in 0..n
    OBVIOUS
  <2>2. LinesOf(d \o old) = [ended |-> ended, rest |-> old]
    BY <1>3, <2>1
  <2>3. a[j] = LinesOf(d \o new) /\ b[j] = [ended |-> ended, rest |-> new]
    BY <2>1
  <2> HIDE DEF old, new, a, b
  <2>4. d \o new = Append(d \o old, s[j]) /\ d \o old \in Seq(Nat)
    <3> DEFINE c == s[j]
    <3>1. c \in Nat /\ old \in Seq(Nat) /\ new = Append(old, c)
      BY <2>1
    <3> HIDE DEF c
    <3>2. Append(d \o old, c) = d \o Append(old, c)
      BY <3>1, BytesAppend
    <3> QED
      BY <3>1, <3>2 DEF c
  <2>5. LinesOf(d \o new) = Cut(LinesOf(d \o old), s[j])
    BY <2>1, <2>4, LinesAppend
  <2>6. Cut([ended |-> ended, rest |-> old], s[j])
        = [ended |-> ended, rest |-> Append(old, s[j])]
    BY <2>1 DEF Cut
  <2> QED
    BY <2>1, <2>2, <2>3, <2>5, <2>6
<1>4. a[n] = b[n]
  <2> HIDE DEF a, b, n
  <2> QED
    BY <1>1, <1>2, <1>3, SameSteps
<1>5. SubSeq(s, 1, n) = s
  OBVIOUS
<1>6. a[n] = LinesOf(d \o s) /\ b[n] = [ended |-> ended, rest |-> s]
  BY <1>1, <1>5
<1> QED
  BY <1>4, <1>6

\* One sequence begins with another if it has its elements.
LEMMA PrefixOfElements ==
  ASSUME NEW S, NEW s \in Seq(S), NEW r \in Seq(S)
  PROVE  IsPrefix(s, r) <=>
           Len(s) <= Len(r) /\ \A i \in 1..Len(s) : s[i] = r[i]
<1>1. ASSUME IsPrefix(s, r), NEW i \in 1..Len(s)
      PROVE  s[i] = r[i]
  <2>1. /\ SubSeq(s, 1, Len(s))[i] = s[i] /\ Len(s) <= Len(r)
        /\ SubSeq(s, 1, Len(s)) = SubSeq(r, 1, Len(s))
    BY <1>1 DEF IsPrefix
  <2>2. SubSeq(r, 1, Len(s))[i] = r[i]
    BY <2>1
  <2> QED
    BY <2>1, <2>2
<1>2. ASSUME Len(s) <= Len(r), \A i \in 1..Len(s) : s[i] = r[i]
      PROVE  IsPrefix(s, r)
  BY <1>2 DEF IsPrefix
<1> QED
  BY <1>1, <1>2 DEF IsPrefix

\* The lines of a text and then its rest.
AllOf(acc) == acc.ended \o <<acc.rest>>

LEMMA AllOfAt ==
  ASSUME NEW acc, acc.ended \in Seq(Seq(Nat)), acc.rest \in Seq(Nat)
  PROVE  /\ \A i \in 1..Len(acc.ended) : AllOf(acc)[i] = acc.ended[i]
         /\ AllOf(acc)[Len(acc.ended) + 1] = acc.rest
<1> DEFINE e == acc.ended
           r == acc.rest
<1>1. e \in Seq(Seq(Nat)) /\ AllOf(acc) = e \o <<r>>
  BY DEF AllOf
<1>2. Len(<<r>>) = 1 /\ <<r>>[1] = r
  OBVIOUS
<1> HIDE DEF e, r
<1>3. /\ \A i \in 1..Len(e) : (e \o <<r>>)[i] = e[i]
      /\ (e \o <<r>>)[Len(e) + 1] = r
  BY <1>1, <1>2
<1> QED
  BY <1>1, <1>3 DEF e, r

\* The lines ended go on, and the next line begins with s.
GoesOn(ended, s, acc) ==
    /\ IsPrefix(ended, acc.ended)
    /\ IsPrefix(s, AllOf(acc)[Len(ended) + 1])

\* What a longer text is split into goes on with what is split already.
LEMMA LinesGoOn ==
  ASSUME NEW x \in Seq(Nat), NEW y \in Seq(Nat),
         NEW ended \in Seq(Seq(Nat)), NEW s \in Seq(Nat),
         LinesOf(x) = [ended |-> ended, rest |-> s]
  PROVE  GoesOn(ended, s, LinesOf(x \o y))
<1> DEFINE n == Len(y)
           acc(m) == LinesOf(x \o SubSeq(y, 1, m))
           P == {m \in Nat : m <= n => GoesOn(ended, s, acc(m))}
           k == Len(ended)
<1>1. n \in Nat /\ k \in Nat
  OBVIOUS
<1>2. 0 \in P
  <2>1. acc(0) = LinesOf(x)
    <3>1. x \o SubSeq(y, 1, 0) = x
      OBVIOUS
    <3> QED
      BY <3>1
  <2>2. AllOf(LinesOf(x))[k + 1] = s
    BY DEF AllOf
  <2>3. IsPrefix(ended, ended) /\ IsPrefix(s, s)
    BY DEF IsPrefix
  <2> QED
    BY <2>1, <2>2, <2>3 DEF GoesOn
<1>3. ASSUME NEW m \in Nat, m \in P
      PROVE  m + 1 \in P
  <2> SUFFICES ASSUME m + 1 <= n
               PROVE  GoesOn(ended, s, acc(m + 1))
    OBVIOUS
  <2> DEFINE old == acc(m)
             new == acc(m + 1)
             b == y[m + 1]
  <2>1. /\ b \in Nat /\ x \o SubSeq(y, 1, m) \in Seq(Nat)
        /\ x \o SubSeq(y, 1, m + 1) = Append(x \o SubSeq(y, 1, m), b)
    <3> DEFINE part == SubSeq(y, 1, m)
    <3>1. m + 1 \in 1..n /\ (m + 1) - 1 = m
      BY <1>1
    <3>2. /\ SubSeq(y, 1, m + 1) = Append(part, b)
          /\ part \in Seq(Nat) /\ b \in Nat
      BY <3>1, BytesLonger
    <3> HIDE DEF part, b
    <3>3. Append(x \o part, b) = x \o Append(part, b)
      BY <3>2, BytesAppend
    <3>4. x \o SubSeq(y, 1, m + 1) = Append(x \o part, b)
      BY <3>2, <3>3
    <3>5. x \o part \in Seq(Nat)
      BY <3>2
    <3> QED
      BY <3>2, <3>4, <3>5 DEF part
  <2>2. new = Cut(old, b) /\ old \in Split
    BY <2>1, LinesAppend
  <2>3. GoesOn(ended, s, old)
    BY <1>1, <1>3
  <2> HIDE DEF acc, old, new, b, n
  <2>4. /\ old.ended \in Seq(Seq(Nat)) /\ old.rest \in Seq(Nat)
        /\ new.ended \in Seq(Seq(Nat)) /\ new.rest \in Seq(Nat)
    BY <2>1, <2>2, CutType DEF Split
  <2>5. /\ k <= Len(old.ended)
        /\ \A i \in 1..k : ended[i] = old.ended[i]
    BY <2>3, <2>4, PrefixOfElements, SMTT(30) DEF GoesOn
  <2>6. CASE b = Newline
    <3>1. new.ended = Append(old.ended, old.rest) /\ new.rest = <<>>
      BY <2>1, <2>2, <2>6, CutType
    <3>2. Len(new.ended) = Len(old.ended) + 1
          /\ \A i \in 1..Len(old.ended) : new.ended[i] = old.ended[i]
      BY <2>4, <3>1
    <3>3. IsPrefix(ended, new.ended)
      <4>1. k <= Len(new.ended) /\ \A i \in 1..k : ended[i] = new.ended[i]
        BY <2>4, <2>5, <3>2
      <4> QED
        BY <2>4, <4>1, PrefixOfElements
    <3>4. AllOf(new)[k + 1] = AllOf(old)[k + 1]
      <4>1. k + 1 \in 1..(Len(old.ended) + 1)
        BY <2>4, <2>5
      <4>2. AllOf(old) = new.ended
        BY <2>4, <3>1 DEF AllOf
      <4>3. AllOf(new)[k + 1] = new.ended[k + 1]
        BY <2>4, <3>2, <4>1, AllOfAt
      <4> QED
        BY <4>2, <4>3
    <3> QED
      BY <2>3, <3>3, <3>4 DEF GoesOn, new
  <2>7. CASE b # Newline
    <3>1. new.ended = old.ended /\ new.rest = Append(old.rest, b)
      BY <2>1, <2>2, <2>7, CutType
    <3>2. CASE k < Len(old.ended)
      <4>1. k + 1 \in 1..Len(old.ended)
        BY <1>1, <2>4, <3>2
      <4>2. /\ AllOf(new)[k + 1] = new.ended[k + 1]
            /\ AllOf(old)[k + 1] = old.ended[k + 1]
        BY <2>4, <3>1, <4>1, AllOfAt
      <4> QED
        BY <2>3, <3>1, <4>2 DEF GoesOn, new
    <3>3. CASE k = Len(old.ended)
      <4>1. AllOf(new)[k + 1] = new.rest /\ AllOf(old)[k + 1] = old.rest
        BY <2>4, <3>1, <3>3 DEF AllOf
      <4>2. IsPrefix(s, old.rest)
        BY <2>3, <4>1 DEF GoesOn
      <4>3. Len(s) <= Len(old.rest) /\ \A i \in 1..Len(s) : s[i] = old.rest[i]
        BY <2>4, <4>2, PrefixOfElements, SMTT(30)
      <4>4. Len(s) <= Len(new.rest) /\ \A i \in 1..Len(s) : s[i] = new.rest[i]
        BY <2>1, <2>4, <3>1, <4>3
      <4>5. IsPrefix(s, new.rest)
        BY <2>4, <4>4, PrefixOfElements
      <4> QED
        BY <2>3, <3>1, <4>1, <4>5 DEF GoesOn, new
    <3> QED
      BY <1>1, <2>4, <2>5, <3>2, <3>3
  <2> QED
    BY <2>6, <2>7
<1>4. n \in P
  <2> HIDE DEF P
  <2> QED
    BY <1>1, <1>2, <1>3, SetInduction
<1>5. SubSeq(y, 1, n) = y
  OBVIOUS
<1>6. GoesOn(ended, s, acc(n))
  BY <1>1, <1>4
<1>7. acc(n) = LinesOf(x \o y)
  BY <1>5
<1> HIDE DEF acc
<1> QED
  BY <1>6, <1>7

-----------------------------------------------------------------------------
(* The reader of the collector. *)

\* The text in the first p bytes of the stream.
Read(p) == TextIn(SubSeq(Layout, 1, p))

\* Reading on only adds to it, a frame its payload.
LEMMA ReadingOn ==
  ASSUME StreamInv
  PROVE  /\ Read(0) = <<>>
         /\ \A p \in 0..Len(Layout) : Read(p) \in Seq(Nat)
         /\ \A p, q \in 0..Len(Layout) :
              p <= q => \E y \in Seq(Nat) : Read(q) = Read(p) \o y
         /\ ~tty => \A p \in Ends :
              ~FrameCut(wire, p + 1) =>
                /\ NextFrame(wire, p + 1) - 1 \in Ends
                /\ Read(NextFrame(wire, p + 1) - 1)
                   = Read(p) \o SubSeq(wire, p + 1 + HeaderLen,
                                       NextFrame(wire, p + 1) - 1)
<1> DEFINE n == Len(Layout)
           w == Len(wire)
<1>1. /\ Layout \in Seq(Located) /\ n \in Nat /\ w \in Nat /\ w <= n
      /\ wire \in Seq(Nat) /\ \A i \in 1..n : Layout[i] \in Located
  BY WireOfLayout DEF Laid, WireIsLaid
<1>2. PICK text : Texts(text, Layout)
  BY <1>1, TextSteps
<1>3. \A p \in 0..n : Read(p) = text[p] /\ text[p] \in Seq(Nat)
  BY <1>1, <1>2, TextOfPrefix DEF Read, Texts
<1>4. Read(0) = <<>>
  BY <1>1, <1>2, <1>3 DEF Texts
<1>5. ASSUME NEW p \in 0..n, NEW q \in 0..n, p <= q
      PROVE  \E y \in Seq(Nat) : Read(q) = Read(p) \o y
  <2> DEFINE P == {m \in Nat : p + m <= n =>
                     \E y \in Seq(Nat) : text[p + m] = text[p] \o y}
  <2>1. 0 \in P
    <3>1. text[p + 0] = text[p] \o <<>> /\ <<>> \in Seq(Nat)
      BY <1>1, <1>3
    <3> QED
      BY <3>1
  <2>2. ASSUME NEW m \in Nat, m \in P
        PROVE  m + 1 \in P
    <3> SUFFICES ASSUME p + m + 1 <= n
                 PROVE  \E y \in Seq(Nat) : text[p + (m + 1)] = text[p] \o y
      BY <1>1
    <3>1. PICK y \in Seq(Nat) : text[p + m] = text[p] \o y
      BY <1>1, <2>2
    <3>2. /\ p + m + 1 \in 1..n /\ p + m + 1 - 1 = p + m
          /\ p + (m + 1) = p + m + 1
      BY <1>1
    <3> DEFINE b == Layout[p + m + 1]
    <3>3. b.byte \in Nat
      BY <1>1, <3>2 DEF Located
    <3>4. text[p + m + 1] = Keep(text[p + m], b)
      <4> HIDE DEF n
      <4> QED
        BY <1>2, <3>2 DEF Texts, n
    <3> HIDE DEF b
    <3>5. text[p] \in Seq(Nat)
      BY <1>3
    <3>6. CASE b.at > HeaderLen
      <4>1. text[p + m + 1] = text[p] \o Append(y, b.byte)
        <5> DEFINE t == text[p]
                   c == b.byte
        <5>1. t \in Seq(Nat) /\ c \in Nat
          BY <3>3, <3>5
        <5>2. text[p + m + 1] = Append(t \o y, c)
          BY <3>1, <3>4, <3>6 DEF Keep
        <5> HIDE DEF t, c
        <5>3. Append(t \o y, c) = t \o Append(y, c)
          BY <5>1, BytesAppend
        <5> QED
          BY <5>2, <5>3 DEF t, c
      <4>2. Append(y, b.byte) \in Seq(Nat)
        BY <3>3
      <4> QED
        BY <3>2, <4>1, <4>2
    <3>7. CASE ~(b.at > HeaderLen)
      BY <3>1, <3>2, <3>4, <3>7 DEF Keep
    <3> QED
      BY <3>6, <3>7
  <2>3. \A m \in Nat : m \in P
    <3> HIDE DEF P
    <3> QED
      BY <2>1, <2>2, SetInduction
  <2>4. ASSUME NEW m, m = q - p
        PROVE  \E y \in Seq(Nat) : text[q] = text[p] \o y
    <3>1. m \in Nat /\ p + m = q /\ p + m <= n
      BY <1>1, <1>5, <2>4
    <3>2. \E y \in Seq(Nat) : text[p + m] = text[p] \o y
      BY <2>3, <3>1
    <3> QED
      BY <3>1, <3>2
  <2>5. \E y \in Seq(Nat) : text[q] = text[p] \o y
    BY <2>4
  <2> QED
    BY <1>3, <2>5
<1>6. ASSUME ~tty, NEW p \in Ends, ~FrameCut(wire, p + 1),
             NEW e, e = NextFrame(wire, p + 1) - 1
      PROVE  /\ e \in Ends
             /\ Read(e) = Read(p) \o SubSeq(wire, p + 1 + HeaderLen, e)
  <2>1. p \in 0..w /\ FrameEnds(p)
    BY DEF Ends
  <2>2. /\ e \in (p + 1)..w /\ FrameEnds(e)
        /\ \A q \in (p + 1)..e : Layout[q].at = q - p
    BY <1>6, <2>1, NextFrameEnd
  <2>3. e \in (p + HeaderLen)..w
    <3>1. p + 1 \in 1..(w + 1)
      BY <1>1, <2>1
    <3>2. NextFrame(wire, p + 1) >= p + 1 + HeaderLen
      BY <1>1, <1>6, <3>1, FramesAdvance DEF FrameCut
    <3>3. NextFrame(wire, p + 1) \in Nat
      BY <1>1, <1>6, <3>1, FramesAdvance DEF FrameCut
    <3> QED
      BY <1>1, <1>6, <2>1, <2>2, <3>2, <3>3, HeaderAssumption
  <2>4. text[e] = text[p] \o SubSeq(wire, p + 1 + HeaderLen, e)
    BY <1>2, <1>6, <2>1, <2>2, <2>3, TextOfFrame
  <2>5. e \in 0..n /\ p \in 0..n /\ e \in 0..w
    BY <1>1, <2>1, <2>2
  <2> QED
    BY <1>3, <2>2, <2>4, <2>5 DEF Ends
<1> QED
  BY <1>3, <1>4, <1>5, <1>6

\* The lines returned, what the scanner holds and what the decoder holds are
\* together the text read so far.
Joined(text, ls, s, d) ==
    \E done \in Seq(Nat) :
      /\ LinesOf(done) = [ended |-> ls, rest |-> <<>>]
      /\ text = done \o (s \o d)

\* All lines and, if there is one, the unfinished one.
Everything(all) ==
    all.ended \o (IF all.rest = <<>> THEN <<>> ELSE <<all.rest>>)

\* How far the reader is.
Progress(p, sc, ls, s, d) ==
    /\ p \in Ends
    /\ sc \in {"scan", "tooLong"} => Joined(Read(p), ls, s, d)
    /\ sc = "tooLong" => s # <<>> /\ ~Contains(s, Newline)
    /\ sc = "ended" => ls = Everything(LinesOf(WholeFrames))

\* The lines returned are whole lines that ended, without carriage returns.
Returned(p, sc, ls, s, d) ==
    \E raw \in Seq(Seq(Nat)) : ls = Trimmed(raw) /\ Progress(p, sc, raw, s, d)

ReaderInv ==
    consumer = "collector" =>
      /\ status = 0
      /\ ~tty => Returned(pos, scanner, lines, sbuf, dbuf)

\* A line more is a line without its carriage return more.
LEMMA TrimmedAppend ==
  ASSUME NEW raw \in Seq(Seq(Nat)), NEW line \in Seq(Nat)
  PROVE  Trimmed(Append(raw, line)) = Append(Trimmed(raw), DropCR(line))
<1> DEFINE l == Append(raw, line)
           n == Len(raw)
           t == Trimmed(raw)
<1>1. /\ n \in Nat /\ Len(l) = n + 1 /\ l[n + 1] = line
      /\ \A i \in 1..n : l[i] = raw[i]
  OBVIOUS
<1>2. /\ t \in Seq(Seq(Nat)) /\ Len(t) = n
      /\ \A i \in 1..n : t[i] = DropCR(raw[i])
  <2>1. \A i \in 1..n : DropCR(raw[i]) \in Seq(Nat)
    BY DropCRType
  <2> QED
    BY <1>1, <2>1 DEF Trimmed
<1>3. DropCR(line) \in Seq(Nat)
  BY DropCRType
<1> DEFINE x == DropCR(line)
           a == Append(t, x)
<1>4. /\ a \in Seq(Seq(Nat)) /\ Len(a) = n + 1 /\ a[n + 1] = x
      /\ \A i \in 1..n : a[i] = t[i]
  <2> HIDE DEF t, x
  <2> QED
    BY <1>2, <1>3 DEF x
<1>5. Trimmed(l) = [i \in 1..(n + 1) |-> DropCR(l[i])]
  BY <1>1 DEF Trimmed
<1>6. a = [i \in 1..(n + 1) |-> a[i]]
  <2> HIDE DEF a
  <2> QED
    BY <1>4
<1>7. \A i \in 1..(n + 1) : a[i] = DropCR(l[i])
  <2> SUFFICES ASSUME NEW i \in 1..(n + 1) PROVE a[i] = DropCR(l[i])
    OBVIOUS
  <2> HIDE DEF a, l, t, n
  <2>1. i \in 1..n \/ i = n + 1
    BY <1>1
  <2> QED
    BY <1>1, <1>2, <1>4, <2>1
<1> QED
  BY <1>5, <1>6, <1>7

\* A beginning of the lines, without carriage returns, is one of all of them.
LEMMA TrimmedPrefix ==
  ASSUME NEW raw \in Seq(Seq(Nat)), NEW all \in Seq(Seq(Nat)),
         IsPrefix(raw, all)
  PROVE  IsPrefix(Trimmed(raw), Trimmed(all)) /\ Len(Trimmed(raw)) = Len(raw)
<1>1. /\ Len(raw) \in Nat /\ Len(all) \in Nat /\ Len(raw) <= Len(all)
      /\ \A i \in 1..Len(raw) : raw[i] = all[i]
  BY PrefixOfElements
<1>2. ASSUME NEW s \in Seq(Seq(Nat))
      PROVE  /\ Trimmed(s) \in Seq(Seq(Nat)) /\ Len(Trimmed(s)) = Len(s)
             /\ \A i \in 1..Len(s) : Trimmed(s)[i] = DropCR(s[i])
  <2>1. \A i \in 1..Len(s) : DropCR(s[i]) \in Seq(Nat)
    BY DropCRType
  <2> QED
    BY <2>1 DEF Trimmed
<1>3. \A i \in 1..Len(raw) : Trimmed(raw)[i] = Trimmed(all)[i]
  BY <1>1, <1>2
<1> QED
  BY <1>1, <1>2, <1>3, PrefixOfElements

\* A step of the reader keeps it so.
LEMMA ReaderGoesOn ==
  ASSUME StreamInv, TypeInv, ~tty, Reader,
         NEW raw \in Seq(Seq(Nat)), lines = Trimmed(raw),
         Progress(pos, scanner, raw, sbuf, dbuf)
  PROVE  Returned(pos', scanner', lines', sbuf', dbuf')
<1>1. /\ wire \in Seq(Nat) /\ Len(wire) <= Len(Layout)
      /\ Len(wire) \in Nat /\ Len(Layout) \in Nat
  BY WireOfLayout DEF WireIsLaid, Laid
<1>2. /\ dbuf \in Seq(Nat) /\ sbuf \in Seq(Nat) /\ raw \in Seq(Seq(Nat))
      /\ pos \in 0..Len(wire) /\ pos \in Ends /\ pos \in 0..Len(Layout)
  BY <1>1 DEF TypeInv, ReaderType, Progress
<1>3. scanner = "scan" /\ Joined(Read(pos), raw, sbuf, dbuf)
  BY DEF Progress, Reader, ScanLine, ServeLeftover, ReadFrame, ReadFails,
     TooLong, Scanning
<1>4. PICK done \in Seq(Nat) :
        /\ LinesOf(done) = [ended |-> raw, rest |-> <<>>]
        /\ Read(pos) = done \o (sbuf \o dbuf)
  BY <1>3 DEF Joined
<1>5. \A a, b, c \in Seq(Nat) : (a \o b) \o c = a \o (b \o c)
  BY BytesAssociate
<1>6. NoLine => \A i \in 1..Len(sbuf) : sbuf[i] # Newline
  BY DEF NoLine, Contains
<1>7. CASE ScanLine
  <2> DEFINE i == EndOfLine(sbuf)
             line == SubSeq(sbuf, 1, i - 1)
             rest == SubSeq(sbuf, i + 1, Len(sbuf))
             more == Append(done \o line, Newline)
  <2>1. /\ lines' = Append(lines, DropCR(line)) /\ sbuf' = rest
        /\ UNCHANGED <<dbuf, scanner, pos>>
    BY <1>7 DEF ScanLine, EndOfLine
  <2>2. /\ i \in 1..Len(sbuf) /\ sbuf[i] = Newline
        /\ \A j \in 1..(i - 1) : sbuf[j] # Newline
    BY <1>2, <1>7, FirstNewline DEF ScanLine, NoLine
  <2> HIDE DEF i
  <2>3. /\ line \in Seq(Nat) /\ rest \in Seq(Nat)
        /\ \A j \in 1..Len(line) : line[j] # Newline
    BY <1>2, <2>2, SMTT(30)
  <2>5. Append(line, Newline) \o rest = sbuf
    <3>1. i \in 0..Len(sbuf)
      BY <1>2, <2>2
    <3>2. SubSeq(sbuf, 1, i) = Append(line, Newline)
      BY <1>2, <2>2, BytesLonger
    <3>3. SubSeq(sbuf, 1, i) \o rest = sbuf
      BY <1>2, <3>1, BytesCut
    <3> QED
      BY <3>2, <3>3
  <2> HIDE DEF line, rest
  <2>6. LinesOf(done \o line) = [ended |-> raw, rest |-> line]
    BY <1>2, <1>4, <2>3, LinesOfRest
  <2>7. /\ done \o line \in Seq(Nat) /\ Newline \in Nat
        /\ more \in Seq(Nat)
    BY <2>3 DEF Newline
  <2>8. LinesOf(more) = Cut(LinesOf(done \o line), Newline)
    BY <2>7, LinesAppend
  <2>9. LinesOf(more) = [ended |-> Append(raw, line), rest |-> <<>>]
    BY <2>6, <2>8 DEF Cut
  <2>10. more \o (rest \o dbuf) = done \o (sbuf \o dbuf)
    <3> DEFINE l == Append(line, Newline)
    <3>1. more = done \o l /\ l \in Seq(Nat)
      <4> DEFINE c == Newline
      <4>1. c \in Nat
        BY <2>7
      <4> HIDE DEF c
      <4>2. Append(done \o line, c) = done \o Append(line, c)
        BY <2>3, <4>1, BytesAppend
      <4>3. Append(line, c) \in Seq(Nat)
        BY <2>3, <4>1
      <4> QED
        BY <4>2, <4>3 DEF c
    <3> HIDE DEF l, more
    <3>2. rest \o dbuf \in Seq(Nat)
      BY <1>2, <2>3
    <3>3. (done \o l) \o (rest \o dbuf) = done \o (l \o (rest \o dbuf))
      BY <1>5, <3>1, <3>2
    <3>4. l \o (rest \o dbuf) = (l \o rest) \o dbuf
      BY <1>2, <1>5, <2>3, <3>1
    <3> QED
      BY <2>5, <3>1, <3>3, <3>4 DEF l
  <2> HIDE DEF more
  <2>11. Joined(Read(pos'), Append(raw, line), sbuf', dbuf')
    <3>1. Read(pos') = Read(pos)
      BY <2>1
    <3> QED
      BY <1>4, <2>1, <2>7, <2>9, <2>10, <3>1 DEF Joined
  <2>12. Progress(pos', scanner', Append(raw, line), sbuf', dbuf')
    BY <1>2, <1>3, <2>1, <2>11 DEF Progress
  <2>13. Append(raw, line) \in Seq(Seq(Nat))
    BY <1>2, <2>3
  <2>14. lines' = Trimmed(Append(raw, line))
    BY <1>2, <2>1, <2>3, TrimmedAppend, Zenon
  <2> QED
    BY <2>12, <2>13, <2>14 DEF Returned
<1>8. CASE ServeLeftover
  <2>1. PICK n \in 1..Len(dbuf) : sbuf' = sbuf \o SubSeq(dbuf, 1, n)
                                  /\ KeepRest(n)
    BY <1>8 DEF ServeLeftover
  <2> DEFINE a == SubSeq(dbuf, 1, n)
             b == SubSeq(dbuf, n + 1, Len(dbuf))
  <2>2. /\ a \in Seq(Nat) /\ b \in Seq(Nat) /\ a \o b = dbuf
        /\ sbuf' = sbuf \o a /\ dbuf' = b
    <3>1. n \in 0..Len(dbuf) /\ n \in Nat /\ Len(dbuf) \in Nat
      BY <1>2
    <3>2. a \in Seq(Nat) /\ b \in Seq(Nat)
      BY <1>2, <3>1, SMTT(30)
    <3>3. a \o b = dbuf
      BY <1>2, <3>1, BytesCut
    <3> QED
      BY <2>1, <3>2, <3>3 DEF KeepRest
  <2>3. UNCHANGED <<lines, scanner, pos>>
    BY <1>8 DEF ServeLeftover
  <2> HIDE DEF a, b
  <2>4. (sbuf \o a) \o b = sbuf \o dbuf
    <3>1. (sbuf \o a) \o b = sbuf \o (a \o b)
      <4>1. sbuf \in Seq(Nat) /\ a \in Seq(Nat) /\ b \in Seq(Nat)
        BY <1>2, <2>2
      <4> QED
        BY <4>1, BytesAssociate, Zenon
    <3> QED
      BY <2>2, <3>1
  <2>5. Joined(Read(pos'), raw, sbuf', dbuf')
    <3>1. Read(pos') = Read(pos)
      BY <2>3
    <3> QED
      BY <1>4, <2>2, <2>3, <2>4, <3>1 DEF Joined
  <2>6. Progress(pos', scanner', raw, sbuf', dbuf')
    BY <1>2, <1>3, <2>3, <2>5 DEF Progress
  <2> QED
    BY <1>2, <2>3, <2>6 DEF Returned
<1>9. ASSUME FrameHere
      PROVE  /\ ~FrameCut(wire, pos + 1)
             /\ PayloadEnd = NextFrame(wire, pos + 1) - 1
  <2>1. HeaderLen \in Nat /\ pos \in Nat /\ pos + HeaderLen \in 1..Len(wire)
    BY <1>1, <1>2, <1>9, HeaderAssumption DEF FrameHere
  <2>2. wire[pos + HeaderLen] \in Nat
    BY <1>1, <2>1
  <2>3. pos + 1 + HeaderLen - 1 = pos + HeaderLen
    BY <2>1
  <2>4. NextFrame(wire, pos + 1) = PayloadEnd + 1
    <3>1. NextFrame(wire, pos + 1) = pos + 1 + HeaderLen + wire[pos + HeaderLen]
      BY <2>3 DEF NextFrame
    <3>2. \A p, h, w \in Nat : p + 1 + h + w = p + h + w + 1
      OBVIOUS
    <3> QED
      BY <2>1, <2>2, <3>1, <3>2 DEF PayloadEnd
  <2>5. ~HeaderCut(wire, pos + 1)
    BY <1>1, <2>1 DEF HeaderCut
  <2>6. PayloadEnd \in Nat /\ PayloadEnd <= Len(wire)
    BY <1>9, <2>1, <2>2 DEF PayloadEnd, FrameHere
  <2> HIDE DEF PayloadEnd
  <2>7. ASSUME NEW e \in Nat, e <= Len(wire), NEW f, f = e + 1
        PROVE  ~(f > Len(wire) + 1) /\ e = f - 1
    BY <1>1, <2>7
  <2>8. /\ ~(NextFrame(wire, pos + 1) > Len(wire) + 1)
        /\ PayloadEnd = NextFrame(wire, pos + 1) - 1
    BY <2>4, <2>6, <2>7
  <2> QED
    BY <2>5, <2>8 DEF FrameCut
<1>10. ASSUME ~FrameHere
       PROVE  FrameCut(wire, pos + 1)
  <2>1. HeaderLen \in Nat /\ pos \in Nat
    BY <1>2, HeaderAssumption
  <2>2. CASE ~(pos + HeaderLen <= Len(wire))
    BY <1>1, <2>1, <2>2 DEF FrameCut, HeaderCut
  <2>3. CASE pos + HeaderLen <= Len(wire) /\ ~(PayloadEnd <= Len(wire))
    <3>1. pos + HeaderLen \in 1..Len(wire)
      BY <1>1, <2>1, <2>3, HeaderAssumption
    <3>2. wire[pos + HeaderLen] \in Nat
      BY <1>1, <3>1
    <3>3. pos + 1 + HeaderLen - 1 = pos + HeaderLen
      BY <2>1
    <3>4. NextFrame(wire, pos + 1) = PayloadEnd + 1
      <4>1. NextFrame(wire, pos + 1)
            = pos + 1 + HeaderLen + wire[pos + HeaderLen]
        BY <3>3 DEF NextFrame
      <4>2. \A p, h, w \in Nat : p + 1 + h + w = p + h + w + 1
        OBVIOUS
      <4> QED
        BY <2>1, <3>2, <4>1, <4>2 DEF PayloadEnd
    <3>5. PayloadEnd \in Nat
      BY <2>1, <3>2 DEF PayloadEnd
    <3> QED
      BY <1>1, <2>3, <3>4, <3>5 DEF FrameCut
  <2> QED
    BY <1>10, <2>2, <2>3 DEF FrameHere
<1>11. CASE ReadFrame
  <2> DEFINE new == SubSeq(wire, pos + HeaderLen + 1, PayloadEnd)
  <2>1. /\ dbuf = <<>> /\ FrameHere /\ dbuf' = new /\ pos' = PayloadEnd
        /\ UNCHANGED <<sbuf, lines, scanner>>
    BY <1>11 DEF ReadFrame
  <2>2. pos + 1 + HeaderLen = pos + HeaderLen + 1
    BY <1>2, HeaderAssumption
  <2>3. PayloadEnd \in Ends /\ Read(PayloadEnd) = Read(pos) \o new
    BY <1>2, <1>9, <2>1, <2>2, ReadingOn
  <2>4. Read(pos) = done \o sbuf
    <3>1. sbuf \o <<>> = sbuf
      BY <1>2
    <3> QED
      BY <1>4, <2>1, <3>1
  <2>5. new \in Seq(Nat)
    <3>1. PayloadEnd \in 0..Len(wire)
      BY <2>3 DEF Ends
    <3>2. pos + HeaderLen + 1 \in Nat /\ pos + HeaderLen + 1 >= 1
      BY <1>2, HeaderAssumption
    <3> HIDE DEF PayloadEnd
    <3> QED
      BY <1>1, <3>1, <3>2
  <2> HIDE DEF new
  <2>6. Read(PayloadEnd) = done \o (sbuf \o new)
    <3>1. (done \o sbuf) \o new = done \o (sbuf \o new)
      BY <1>2, <1>5, <2>5
    <3> QED
      BY <2>3, <2>4, <3>1
  <2>7. Joined(Read(PayloadEnd), raw, sbuf, new)
    BY <1>4, <2>6 DEF Joined
  <2>8. Progress(pos', scanner', raw, sbuf', dbuf')
    BY <1>3, <2>1, <2>3, <2>7 DEF Progress
  <2> QED
    BY <1>2, <2>1, <2>8 DEF Returned
<1>12. CASE ReadFails
  <2>1. /\ NoLine /\ dbuf = <<>> /\ ~FrameHere /\ scanner' = "ended"
        /\ lines' = IF sbuf = <<>> THEN lines ELSE Append(lines, DropCR(sbuf))
        /\ pos' = pos
    BY <1>12 DEF ReadFails
  <2>2. pos = LastEnd
    <3>1. \A q \in (pos + 1)..Len(wire) : ~FrameEnds(q)
      <4>1. FrameEnds(pos)
        BY <1>2 DEF Ends
      <4> QED
        BY <1>2, <1>10, <2>1, <4>1, NextFrameEnd
    <3>2. LastEnd \in 0..Len(wire) /\ FrameEnds(LastEnd) /\ pos <= LastEnd
      BY <1>2, LastEndExists DEF Ends
    <3> QED
      BY <1>1, <1>2, <3>1, <3>2
  <2>3. WholeFrames = done \o sbuf
    <3>1. sbuf \o <<>> = sbuf
      BY <1>2
    <3> QED
      BY <1>4, <2>1, <2>2, <3>1, LastEndExists DEF Read
  <2>4. LinesOf(WholeFrames) = [ended |-> raw, rest |-> sbuf]
    BY <1>2, <1>4, <1>6, <2>1, <2>3, LinesOfRest
  <2> DEFINE new == IF sbuf = <<>> THEN raw ELSE Append(raw, sbuf)
  <2>5. new = Everything(LinesOf(WholeFrames))
    <3>1. raw \o <<>> = raw /\ raw \o <<sbuf>> = Append(raw, sbuf)
      BY <1>2
    <3>2. Everything([ended |-> raw, rest |-> sbuf])
          = raw \o (IF sbuf = <<>> THEN <<>> ELSE <<sbuf>>)
      BY DEF Everything
    <3> QED
      BY <2>4, <3>1, <3>2
  <2>6. new \in Seq(Seq(Nat)) /\ lines' = Trimmed(new)
    <3>1. Append(raw, sbuf) \in Seq(Seq(Nat))
      BY <1>2
    <3>2. Trimmed(Append(raw, sbuf)) = Append(lines, DropCR(sbuf))
      BY <1>2, TrimmedAppend, Zenon
    <3> QED
      BY <2>1, <3>1, <3>2
  <2> HIDE DEF new
  <2>7. Progress(pos', scanner', new, sbuf', dbuf')
    BY <1>2, <2>1, <2>5 DEF Progress
  <2> QED
    BY <2>6, <2>7 DEF Returned
<1>13. CASE TooLong
  <2>1. /\ NoLine /\ Len(sbuf) = MaxToken /\ scanner' = "tooLong"
        /\ UNCHANGED <<pos, dbuf, sbuf, lines>>
    BY <1>13 DEF TooLong
  <2>2. sbuf # <<>>
    BY <1>2, <2>1, TokenAssumption
  <2>3. Progress(pos', scanner', raw, sbuf', dbuf')
    BY <1>2, <1>3, <2>1, <2>2 DEF Progress, NoLine
  <2> QED
    BY <1>2, <2>1, <2>3 DEF Returned
<1> QED
  BY <1>7, <1>8, <1>11, <1>12, <1>13 DEF Reader

\* What the reader has returned, and holds, when it is so far.
LEMMA LinesAreThere ==
  ASSUME StreamInv, TypeInv, ~tty,
         NEW raw \in Seq(Seq(Nat)),
         Progress(pos, scanner, raw, sbuf, dbuf)
  PROVE  LET all == LinesOf(WholeFrames)
             unfinished == IF all.rest = <<>> THEN <<>> ELSE <<all.rest>>
         IN  /\ scanner = "scan" => IsPrefix(raw, all.ended)
             /\ scanner = "ended" => raw = all.ended \o unfinished
             /\ scanner = "tooLong" =>
                  /\ IsPrefix(raw, all.ended)
                  /\ IsPrefix(sbuf, (all.ended \o unfinished)[Len(raw) + 1])
<1> DEFINE all == LinesOf(WholeFrames)
           unfinished == IF all.rest = <<>> THEN <<>> ELSE <<all.rest>>
<1>1. /\ dbuf \in Seq(Nat) /\ sbuf \in Seq(Nat) /\ raw \in Seq(Seq(Nat))
      /\ pos \in Ends /\ <<>> \in Seq(Nat)
  BY DEF TypeInv, ReaderType, Progress
<1>2. /\ pos \in 0..Len(Layout) /\ LastEnd \in 0..Len(Layout)
      /\ pos <= LastEnd
      /\ WholeFrames = Read(LastEnd)
  <2>1. Len(wire) \in Nat /\ Len(Layout) \in Nat /\ Len(wire) <= Len(Layout)
    BY WireOfLayout DEF Laid, WireIsLaid
  <2> QED
    BY <1>1, <2>1, LastEndExists DEF Ends, Read
<1>3. PICK y \in Seq(Nat) : WholeFrames = Read(pos) \o y
  BY <1>2, ReadingOn
<1>4. WholeFrames \in Seq(Nat)
  BY <1>2, ReadingOn
<1>5. all \in Split
  BY <1>4, LinesAppend
<1>6. \A a, b, c \in Seq(Nat) : (a \o b) \o c = a \o (b \o c)
  BY BytesAssociate
<1> HIDE DEF all
<1>7. ASSUME scanner = "scan"
      PROVE  IsPrefix(raw, all.ended)
  <2>1. PICK done \in Seq(Nat) :
          /\ LinesOf(done) = [ended |-> raw, rest |-> <<>>]
          /\ Read(pos) = done \o (sbuf \o dbuf)
    BY <1>7 DEF Progress, Joined
  <2> DEFINE more == (sbuf \o dbuf) \o y
  <2>2. WholeFrames = done \o more /\ more \in Seq(Nat)
    <3> DEFINE held == sbuf \o dbuf
    <3>1. held \in Seq(Nat)
      BY <1>1
    <3> HIDE DEF held
    <3>2. (done \o held) \o y = done \o (held \o y)
      BY <1>6, <3>1
    <3>3. held \o y \in Seq(Nat)
      BY <3>1
    <3> QED
      BY <1>3, <2>1, <3>2, <3>3 DEF held
  <2> HIDE DEF more
  <2>3. GoesOn(raw, <<>>, all)
    BY <1>1, <2>1, <2>2, LinesGoOn DEF all
  <2> QED
    BY <2>3 DEF GoesOn
<1>8. ASSUME scanner = "ended"
      PROVE  raw = all.ended \o unfinished
  BY <1>8 DEF Progress, Everything, all
<1>9. ASSUME scanner = "tooLong"
      PROVE  /\ IsPrefix(raw, all.ended)
             /\ IsPrefix(sbuf, (all.ended \o unfinished)[Len(raw) + 1])
  <2>1. PICK done \in Seq(Nat) :
          /\ LinesOf(done) = [ended |-> raw, rest |-> <<>>]
          /\ Read(pos) = done \o (sbuf \o dbuf)
    BY <1>9 DEF Progress, Joined
  <2>2. sbuf # <<>> /\ \A i \in 1..Len(sbuf) : sbuf[i] # Newline
    BY <1>1, <1>9 DEF Progress, Contains
  <2>3. /\ LinesOf(done \o sbuf) = [ended |-> raw, rest |-> sbuf]
        /\ done \o sbuf \in Seq(Nat)
    BY <1>1, <2>1, <2>2, LinesOfRest
  <2> DEFINE more == dbuf \o y
  <2>4. WholeFrames = (done \o sbuf) \o more /\ more \in Seq(Nat)
    <3> DEFINE seen == done \o sbuf
    <3>1. (done \o sbuf) \o dbuf = done \o (sbuf \o dbuf)
      BY <1>1, <1>6
    <3>2. seen \in Seq(Nat) /\ Read(pos) = seen \o dbuf
      BY <1>1, <2>1, <3>1
    <3> HIDE DEF seen
    <3>3. (seen \o dbuf) \o y = seen \o (dbuf \o y)
      BY <1>1, <1>6, <3>2
    <3>4. more \in Seq(Nat)
      BY <1>1
    <3> HIDE DEF more
    <3>5. more = dbuf \o y
      BY DEF more
    <3> QED
      BY <1>3, <3>2, <3>3, <3>4, <3>5 DEF seen
  <2> HIDE DEF more
  <2>5. GoesOn(raw, sbuf, all)
    BY <1>1, <2>3, <2>4, LinesGoOn DEF all
  <2>6. /\ all.ended \in Seq(Seq(Nat)) /\ all.rest \in Seq(Nat)
        /\ Len(raw) <= Len(all.ended)
    BY <1>5, <2>5 DEF GoesOn, IsPrefix, Split
  <2>7. CASE all.rest = <<>>
    <3>1. Len(raw) # Len(all.ended)
      <4>1. SUFFICES ASSUME Len(raw) = Len(all.ended) PROVE FALSE
        OBVIOUS
      <4>2. AllOf(all)[Len(raw) + 1] = <<>>
        BY <2>6, <2>7, <4>1 DEF AllOf
      <4>3. Len(sbuf) <= 0
        BY <2>5, <4>2 DEF GoesOn, IsPrefix
      <4> QED
        BY <1>1, <2>2, <4>3
    <3>2. /\ AllOf(all)[Len(raw) + 1] = all.ended[Len(raw) + 1]
          /\ all.ended \o <<>> = all.ended
      <4>1. Len(raw) + 1 \in 1..Len(all.ended)
        BY <1>1, <2>6, <3>1
      <4>2. AllOf(all)[Len(raw) + 1] = all.ended[Len(raw) + 1]
        BY <2>6, <4>1, AllOfAt
      <4>3. all.ended \o <<>> = all.ended
        BY <2>6
      <4> QED
        BY <4>2, <4>3
    <3> QED
      BY <2>5, <2>7, <3>2 DEF GoesOn
  <2>8. CASE all.rest # <<>>
    BY <2>5, <2>8 DEF GoesOn, AllOf
  <2> QED
    BY <2>7, <2>8
<1> QED
  BY <1>7, <1>8, <1>9 DEF all

\* However payloads split lines and the scanner's buffer splits payloads, the
\* lines it returns are the container's, each without the carriage return it may
\* end with, in order; at the end of the stream all of them and the unfinished
\* one, unless a line too long stopped it there.
THEOREM LinesCorrect == Spec => []LinesAreExact
<1>1. Init => ReaderInv
  <2> SUFFICES ASSUME Init PROVE ReaderInv
    OBVIOUS
  <2>1. StreamInv
    BY BoundedIsSeq DEF Init, StreamInv
  <2>2. /\ status = 0 /\ pos = 0 /\ scanner = "scan" /\ lines = <<>>
        /\ sbuf = <<>> /\ dbuf = <<>>
    BY DEF Init
  <2>3. 0 \in Ends
    BY <2>1, LastEndExists
  <2>4. Joined(Read(0), <<>>, <<>>, <<>>)
    <3>1. Read(0) = <<>> /\ LinesOf(<<>>) = NoLines
      BY <2>1, ReadingOn, LinesAppend
    <3>2. <<>> \in Seq(Nat) /\ <<>> \o (<<>> \o <<>>) = <<>>
      OBVIOUS
    <3> QED
      BY <3>1, <3>2 DEF Joined, NoLines
  <2>5. Progress(pos, scanner, <<>>, sbuf, dbuf)
    BY <2>2, <2>3, <2>4 DEF Progress
  <2>6. <<>> \in Seq(Seq(Nat)) /\ Trimmed(<<>>) = <<>>
    BY DEF Trimmed
  <2> QED
    BY <2>2, <2>5, <2>6 DEF ReaderInv, Returned
<1>2. StreamInv /\ TypeInv /\ ReaderInv /\ [Next]_vars => ReaderInv'
  <2> SUFFICES ASSUME StreamInv, TypeInv, ReaderInv, [Next]_vars,
                      consumer' = "collector"
               PROVE  /\ status' = 0
                      /\ ~tty' => Returned(pos, scanner, lines, sbuf, dbuf)'
    BY DEF ReaderInv
  <2>1. UNCHANGED <<frames, tty, wire, consumer>>
    BY DEF Next, vars, stream, Request, LiveHandler, ReadChunk, ReadEnds,
       ClientGone, Reader, ScanLine, ServeLeftover, ReadFrame, ReadFails,
       TooLong, Sent, TakerStalls
  <2>2. consumer = "collector" /\ status = 0
    BY <2>1 DEF ReaderInv
  <2>3. Reader \/ UNCHANGED vars \/ Sent \/ TakerStalls
    BY <2>2 DEF Next, Request, LiveHandler, ReadChunk, ReadEnds, ClientGone
  <2>4. status' = 0
    BY <2>2, <2>3 DEF vars, api, Reader, ScanLine, ServeLeftover, ReadFrame,
       ReadFails, TooLong, Sent, TakerStalls
  <2>5. ~tty => Returned(pos', scanner', lines', sbuf', dbuf')
    <3>1. CASE Reader
      BY <2>2, <3>1, ReaderGoesOn DEF ReaderInv, Returned
    <3>2. CASE UNCHANGED vars \/ Sent \/ TakerStalls
      <4>1. UNCHANGED <<pos, scanner, lines, sbuf, dbuf>>
        BY <3>2 DEF vars, reader, Sent, TakerStalls
      <4> QED
        BY <2>2, <4>1 DEF ReaderInv
    <3> QED
      BY <2>3, <3>1, <3>2
  <2>6. Layout' = Layout
    BY <2>1 DEF Layout, Header
  <2>7. Ends' = Ends
    BY <2>1, <2>6 DEF Ends, FrameEnds
  <2>8. WholeFrames' = WholeFrames
    BY <2>1, <2>6 DEF WholeFrames, FrameEnds
  <2>9. Returned(pos, scanner, lines, sbuf, dbuf)'
        <=> Returned(pos', scanner', lines', sbuf', dbuf')
    <3>1. Read(pos)' = Read(pos')
      BY <2>6 DEF Read
    <3> QED
      BY <2>7, <2>8, <3>1 DEF Returned, Progress
  <2> QED
    BY <2>1, <2>4, <2>5, <2>9
<1>3. StreamInv /\ TypeInv /\ ReaderInv => LinesAreExact
  <2> SUFFICES ASSUME StreamInv, TypeInv, ReaderInv, consumer = "collector",
                      ~tty
               PROVE  LinesAreExact
    BY DEF LinesAreExact
  <2>1. PICK raw \in Seq(Seq(Nat)) :
          lines = Trimmed(raw) /\ Progress(pos, scanner, raw, sbuf, dbuf)
    BY DEF ReaderInv, Returned
  <2>2. scanner \in {"scan", "ended", "tooLong"}
    BY DEF TypeInv, ReaderType
  <2>3. /\ "scan" # "ended" /\ "scan" # "tooLong" /\ "ended" # "tooLong"
    OBVIOUS
  <2> DEFINE all == LinesOf(WholeFrames)
             unfinished == IF all.rest = <<>> THEN <<>> ELSE <<all.rest>>
  <2>4. /\ scanner = "scan" => IsPrefix(raw, all.ended)
        /\ scanner = "ended" => raw = all.ended \o unfinished
        /\ scanner = "tooLong" =>
             /\ IsPrefix(raw, all.ended)
             /\ IsPrefix(sbuf, (all.ended \o unfinished)[Len(raw) + 1])
    BY <2>1, LinesAreThere, Zenon
  <2>5. all.ended \in Seq(Seq(Nat))
    <3>1. WholeFrames \in Seq(Nat)
      <4>1. LastEnd \in 0..Len(Layout) /\ WholeFrames = Read(LastEnd)
        <5>1. /\ Len(wire) \in Nat /\ Len(Layout) \in Nat
              /\ Len(wire) <= Len(Layout)
          BY WireOfLayout DEF Laid, WireIsLaid
        <5> QED
          BY <5>1, LastEndExists DEF Ends, Read
      <4> QED
        BY <4>1, ReadingOn
    <3> QED
      BY <3>1, LinesAppend DEF Split
  <2> HIDE DEF all
  <2>6. IsPrefix(raw, all.ended) =>
          /\ IsPrefix(lines, Trimmed(all.ended)) /\ Len(lines) = Len(raw)
    BY <2>1, <2>5, TrimmedPrefix
  <2>7. /\ scanner = "scan" => IsPrefix(lines, Trimmed(all.ended))
        /\ scanner = "ended" => lines = Trimmed(all.ended \o unfinished)
        /\ scanner = "tooLong" =>
             /\ IsPrefix(lines, Trimmed(all.ended))
             /\ IsPrefix(sbuf, (all.ended \o unfinished)[Len(lines) + 1])
    BY <2>1, <2>4, <2>6
  <2> QED
    BY <2>2, <2>3, <2>7, Zenon DEF LinesAreExact, all
<1> QED
  BY <1>1, <1>2, <1>3, StreamInvariant, TypeInvariant, PTL DEF Spec

-----------------------------------------------------------------------------
(* Subsequences. *)

\* How far a is found after one more element x.
Advance(a, k, x) == IF k < Len(a) /\ a[k + 1] = x THEN k + 1 ELSE k

\* h[i] elements of a are found in the first i of b.
Finds(h, a, b) ==
    /\ h \in [0..Len(b) -> Nat]
    /\ h[0] = 0
    /\ \A i \in 1..Len(b) : h[i] = Advance(a, h[i - 1], b[i])

LEMMA SubsequenceSteps ==
  ASSUME NEW a \in Seq(Nat), NEW b \in Seq(Nat)
  PROVE  \E h : Finds(h, a, b) /\ (IsSubsequence(a, b) <=> h[Len(b)] = Len(a))
<1> DEFINE n == Len(b)
           Iterates(f) ==
             f = [T \in SUBSET (DOMAIN b) |->
                    IF T = {} THEN 0
                    ELSE Advance(a, f[T \ {Max(T)}], b[Max(T)])]
           iter == CHOOSE f : Iterates(f)
<1>1. IsSubsequence(a, b) <=> iter[DOMAIN b] = Len(a)
  BY DEF IsSubsequence, FoldLeft, MapThenFoldSet, Advance
<1>2. /\ DOMAIN b = 1..n /\ n \in Nat /\ 0 \in Nat
      /\ \A i \in 1..n, k \in Nat : Advance(a, k, b[i]) \in Nat
  BY DEF Advance
<1>3. \E f : Iterates(f)
  <2> DEFINE step == [p \in Nat \X (1..n) |-> Advance(a, p[1], b[p[2]])]
  <2>1. step \in [Nat \X (1..n) -> Nat]
    BY <1>2
  <2> HIDE DEF step, n
  <2>2. PICK f : IsFold(f, n, Nat, 0, step)
    BY <1>2, <2>1, FoldExists
  <2>3. ASSUME NEW T \in SUBSET (1..n), T # {}
        PROVE  f[T] = Advance(a, f[T \ {Max(T)}], b[Max(T)])
    <3>1. Max(T) \in 1..n
      <4>1. T \in SUBSET (0..n)
        OBVIOUS
      <4> QED
        BY <1>2, <2>3, <4>1, GreatestElement
    <3>2. f[T \ {Max(T)}] \in Nat
      BY <2>2 DEF IsFold
    <3> QED
      BY <2>2, <2>3, <3>1, <3>2 DEF step, IsFold
  <2>4. Iterates(f)
    BY <1>2, <2>2, <2>3 DEF IsFold
  <2> QED
    BY <2>4
<1>4. Iterates(iter)
  BY <1>3
<1> HIDE DEF iter
<1> DEFINE h == [i \in 0..n |-> iter[1..i]]
<1>5. h[0] = 0
  BY <1>2, <1>4
<1>6. ASSUME NEW i \in 1..n
      PROVE  h[i] = Advance(a, h[i - 1], b[i])
  <2>1. Max(1..i) = i /\ (1..i) \ {i} = 1..(i - 1)
    BY GreatestOfInterval
  <2>2. 1..i \in SUBSET (DOMAIN b) /\ 1..i # {}
    BY <1>2, BeginningOfInterval
  <2>3. iter[1..i] = Advance(a, iter[1..(i - 1)], b[i])
    BY <1>4, <2>1, <2>2
  <2> QED
    BY <2>3
<1>7. iter[DOMAIN b] = h[n]
  BY <1>2
<1>8. h \in [0..n -> Nat]
  <2> DEFINE P == {m \in Nat : m <= n => h[m] \in Nat}
  <2>1. 0 \in P
    BY <1>2, <1>5
  <2>2. ASSUME NEW m \in Nat, m \in P
        PROVE  m + 1 \in P
    <3>1. CASE m + 1 <= n
      <4>1. m + 1 \in 1..n /\ (m + 1) - 1 = m /\ h[m] \in Nat
        BY <1>2, <2>2, <3>1
      <4> HIDE DEF h, n
      <4>2. h[m + 1] = Advance(a, h[m], b[m + 1])
        BY <1>6, <4>1
      <4>3. h[m + 1] \in Nat
        BY <1>2, <4>1, <4>2
      <4> QED
        BY <4>3
    <3>2. CASE ~(m + 1 <= n)
      BY <3>2
    <3> QED
      BY <3>1, <3>2
  <2>3. \A m \in Nat : m \in P
    <3> HIDE DEF P
    <3> QED
      BY <2>1, <2>2, SetInduction
  <2>4. h = [i \in 0..n |-> h[i]]
    OBVIOUS
  <2> HIDE DEF h
  <2>5. \A i \in 0..n : h[i] \in Nat
    BY <1>2, <2>3
  <2> QED
    BY <2>4, <2>5
<1> HIDE DEF h
<1> QED
  BY <1>1, <1>5, <1>6, <1>7, <1>8 DEF Finds

\* h shows a place in b for every element of a.
Embeds(h, a, b) ==
    /\ h \in [0..Len(b) -> 0..Len(a)]
    /\ h[0] = 0 /\ h[Len(b)] = Len(a)
    /\ \A i \in 1..Len(b) :
         \/ h[i] = h[i - 1]
         \/ h[i - 1] < Len(a) /\ h[i] = h[i - 1] + 1 /\ a[h[i]] = b[i]

LEMMA SubsequenceEmbeds ==
  ASSUME NEW a \in Seq(Nat), NEW b \in Seq(Nat)
  PROVE  IsSubsequence(a, b) <=> \E h : Embeds(h, a, b)
<1> DEFINE n == Len(b)
           m == Len(a)
<1>1. PICK f : Finds(f, a, b) /\ (IsSubsequence(a, b) <=> f[n] = m)
  BY SubsequenceSteps
<1>2. n \in Nat /\ m \in Nat /\ 0 \in 0..n /\ n \in 0..n
  OBVIOUS
<1>3. ASSUME NEW i \in 1..n
      PROVE  /\ i - 1 \in 0..n /\ i \in 0..n
             /\ f[i - 1] \in Nat /\ f[i] \in Nat
             /\ \/ f[i - 1] < m /\ a[f[i - 1] + 1] = b[i] /\ f[i] = f[i - 1] + 1
                \/ ~(f[i - 1] < m /\ a[f[i - 1] + 1] = b[i]) /\ f[i] = f[i - 1]
  <2>1. i - 1 \in 0..n /\ i \in 0..n
    BY <1>2
  <2>2. f[i - 1] \in Nat /\ f[i] \in Nat
    BY <1>1, <2>1 DEF Finds
  <2>3. f[i] = Advance(a, f[i - 1], b[i])
    BY <1>1 DEF Finds
  <2> HIDE DEF n, m
  <2>4. f[i] = IF f[i - 1] < m /\ a[f[i - 1] + 1] = b[i] THEN f[i - 1] + 1
               ELSE f[i - 1]
    BY <2>3 DEF Advance, m
  <2> QED
    BY <2>1, <2>2, <2>4
<1>4. f[0] = 0
  BY <1>1 DEF Finds
<1>5. \A i \in Nat : i <= n => f[i] \in 0..m
  <2> DEFINE P == {i \in Nat : i <= n => f[i] \in 0..m}
  <2>1. 0 \in P
    BY <1>2, <1>4
  <2>2. ASSUME NEW i \in Nat, i \in P
        PROVE  i + 1 \in P
    <3>1. SUFFICES ASSUME i + 1 <= n PROVE f[i + 1] \in 0..m
      OBVIOUS
    <3>2. i + 1 \in 1..n /\ (i + 1) - 1 = i /\ f[i] \in 0..m
      BY <1>2, <2>2, <3>1
    <3>3. /\ f[i + 1] \in Nat
          /\ (f[i] < m /\ f[i + 1] = f[i] + 1) \/ f[i + 1] = f[i]
      BY <1>3, <3>2
    <3> HIDE DEF n, m
    <3> QED
      BY <1>2, <3>2, <3>3
  <2> HIDE DEF P
  <2>3. \A i \in Nat : i \in P
    BY <2>1, <2>2, SetInduction
  <2> QED
    BY <2>3 DEF P
<1>6. ASSUME f[n] = m
      PROVE  Embeds(f, a, b)
  <2>1. f \in [0..n -> 0..m]
    BY <1>1, <1>2, <1>5 DEF Finds
  <2> HIDE DEF n, m
  <2>2. \A i \in 1..n : \/ f[i] = f[i - 1]
                        \/ f[i - 1] < m /\ f[i] = f[i - 1] + 1 /\ a[f[i]] = b[i]
    BY <1>3
  <2> QED
    BY <1>4, <1>6, <2>1, <2>2 DEF Embeds, n, m
<1>7. ASSUME NEW h, Embeds(h, a, b)
      PROVE  f[n] = m
  <2> DEFINE P == {i \in Nat : i <= n => h[i] <= f[i]}
  <2>0. h[0] = 0 /\ h[n] = m /\ \A i \in 0..n : h[i] \in 0..m
    BY <1>7 DEF Embeds
  <2>1. 0 \in P
    BY <1>4, <2>0
  <2>2. ASSUME NEW i \in Nat, i \in P
        PROVE  i + 1 \in P
    <3>1. SUFFICES ASSUME i + 1 <= n PROVE h[i + 1] <= f[i + 1]
      OBVIOUS
    <3>2. i + 1 \in 1..n /\ (i + 1) - 1 = i /\ h[i] <= f[i]
          /\ h[i] \in Nat /\ h[i + 1] \in Nat /\ f[i] \in Nat
      BY <1>2, <1>5, <2>0, <2>2, <3>1
    <3>3. \/ h[i + 1] = h[i]
          \/ h[i] < m /\ h[i + 1] = h[i] + 1 /\ a[h[i + 1]] = b[i + 1]
      BY <1>7, <3>2 DEF Embeds
    <3>4. /\ f[i + 1] \in Nat
          /\ \/ f[i] < m /\ a[f[i] + 1] = b[i + 1] /\ f[i + 1] = f[i] + 1
             \/ ~(f[i] < m /\ a[f[i] + 1] = b[i + 1]) /\ f[i + 1] = f[i]
      BY <1>3, <3>2
    <3>5. CASE h[i + 1] = h[i] \/ h[i] < f[i]
      <4> HIDE DEF n, m
      <4>1. f[i] <= f[i + 1] /\ h[i + 1] <= h[i] + 1
        BY <1>2, <3>2, <3>3, <3>4
      <4>2. h[i + 1] = h[i] \/ h[i] + 1 <= f[i]
        BY <3>2, <3>5
      <4>3. \A u, v, x, y \in Nat :
              /\ u <= v /\ v <= y /\ x <= u + 1
              /\ x = u \/ u + 1 <= v
              => x <= y
        OBVIOUS
      <4> QED
        BY <3>2, <3>4, <4>1, <4>2, <4>3, SMTT(30)
    <3>6. CASE h[i + 1] # h[i] /\ h[i] = f[i]
      <4>1. h[i] < m /\ h[i + 1] = h[i] + 1 /\ a[f[i] + 1] = b[i + 1]
        BY <3>3, <3>6
      <4>2. f[i + 1] = f[i] + 1
        BY <3>4, <3>6, <4>1
      <4> QED
        BY <3>2, <3>6, <4>1, <4>2
    <3> QED
      BY <3>2, <3>5, <3>6
  <2>3. n \in P
    <3> HIDE DEF P
    <3> QED
      BY <1>2, <2>1, <2>2, SetInduction
  <2> QED
    BY <1>2, <1>5, <2>0, <2>3
<1> QED
  BY <1>1, <1>6, <1>7

\* Subsequences put together.
LEMMA SubsequencesJoin ==
  ASSUME NEW a \in Seq(Nat), NEW b \in Seq(Nat), IsSubsequence(a, b),
         NEW c \in Seq(Nat), NEW d \in Seq(Nat), IsSubsequence(c, d)
  PROVE  IsSubsequence(a \o c, b \o d)
<1>1. PICK f : Embeds(f, a, b)
  BY SubsequenceEmbeds
<1>2. PICK g : Embeds(g, c, d)
  BY SubsequenceEmbeds
<1> DEFINE x == a \o c
           y == b \o d
           m == Len(a)
           n == Len(b)
           k == Len(c)
           l == Len(d)
           h == [i \in 0..(n + l) |-> IF i <= n THEN f[i] ELSE m + g[i - n]]
<1>3. /\ x \in Seq(Nat) /\ y \in Seq(Nat) /\ Len(x) = m + k /\ Len(y) = n + l
      /\ \A i \in 1..m : x[i] = a[i]
      /\ \A i \in 1..k : x[m + i] = c[i]
      /\ \A i \in 1..n : y[i] = b[i]
      /\ \A i \in 1..l : y[n + i] = d[i]
      /\ m \in Nat /\ n \in Nat /\ k \in Nat /\ l \in Nat
  OBVIOUS
<1>4. /\ f[0] = 0 /\ f[n] = m /\ \A i \in 0..n : f[i] \in 0..m
      /\ \A i \in 1..n :
           \/ f[i] = f[i - 1]
           \/ f[i - 1] < m /\ f[i] = f[i - 1] + 1 /\ a[f[i]] = b[i]
  BY <1>1 DEF Embeds
<1>5. /\ g[0] = 0 /\ g[l] = k /\ \A i \in 0..l : g[i] \in 0..k
      /\ \A i \in 1..l :
           \/ g[i] = g[i - 1]
           \/ g[i - 1] < k /\ g[i] = g[i - 1] + 1 /\ c[g[i]] = d[i]
  BY <1>2 DEF Embeds
<1> HIDE DEF x, y, m, n, k, l
<1>6. /\ \A i \in 0..n : h[i] = f[i]
      /\ \A i \in 0..l : h[n + i] = m + g[i]
  <2>1. ASSUME NEW i \in 0..n PROVE h[i] = f[i]
    <3>1. i \in 0..(n + l) /\ i <= n
      BY <1>3
    <3> QED
      BY <3>1
  <2>2. ASSUME NEW i \in 0..l PROVE h[n + i] = m + g[i]
    <3>1. n + i \in 0..(n + l) /\ (n + i) - n = i
      BY <1>3
    <3>2. h[n + i] = IF n + i <= n THEN f[n + i] ELSE m + g[i]
      BY <3>1
    <3>3. n + i <= n => f[n + i] = m + g[i]
      BY <1>3, <1>4, <1>5
    <3> QED
      BY <3>2, <3>3
  <2> QED
    BY <2>1, <2>2
<1>7. /\ \A u \in 0..m : u \in 0..(m + k)
      /\ \A u \in 0..k : m + u \in 0..(m + k)
      /\ \A u, v \in 0..m : u < m /\ v = u + 1 => v \in 1..m /\ u < m + k
      /\ \A u, v \in 0..k :
           u < k /\ v = u + 1 => /\ v \in 1..k /\ m + u < m + k
                                /\ m + v = (m + u) + 1
  BY <1>3
<1>8. h \in [0..(n + l) -> 0..(m + k)]
  <2>1. ASSUME NEW i \in 0..(n + l)
        PROVE  h[i] \in 0..(m + k)
    <3>1. CASE i <= n
      BY <1>3, <1>4, <3>1
    <3>2. CASE ~(i <= n)
      <4>1. i - n \in 0..l
        BY <1>3, <3>2
      <4>2. g[i - n] \in 0..k
        BY <1>5, <4>1
      <4>3. h[i] = m + g[i - n]
        BY <3>2
      <4> QED
        BY <1>7, <4>2, <4>3
    <3> QED
      BY <3>1, <3>2
  <2>2. h = [i \in 0..(n + l) |-> h[i]]
    OBVIOUS
  <2> HIDE DEF h
  <2> QED
    BY <2>1, <2>2
<1> HIDE DEF h
<1>9. ASSUME NEW i \in 1..(n + l)
      PROVE  \/ h[i] = h[i - 1]
             \/ h[i - 1] < m + k /\ h[i] = h[i - 1] + 1 /\ x[h[i]] = y[i]
  <2>1. CASE i <= n
    <3>1. i \in 1..n /\ i \in 0..n /\ i - 1 \in 0..n
      BY <1>3, <2>1
    <3>2. /\ h[i] = f[i] /\ h[i - 1] = f[i - 1]
          /\ f[i] \in 0..m /\ f[i - 1] \in 0..m
      BY <1>4, <1>6, <3>1
    <3>3. CASE f[i] = f[i - 1]
      BY <3>2, <3>3
    <3>4. CASE f[i - 1] < m /\ f[i] = f[i - 1] + 1 /\ a[f[i]] = b[i]
      <4>1. f[i] \in 1..m
        BY <1>7, <3>2, <3>4
      <4>2. x[f[i]] = a[f[i]] /\ y[i] = b[i]
        BY <1>3, <3>1, <4>1
      <4>3. h[i - 1] < m + k
        BY <1>7, <3>2, <3>4
      <4> QED
        BY <3>2, <3>4, <4>2, <4>3
    <3> QED
      BY <1>4, <3>1, <3>3, <3>4
  <2>2. CASE ~(i <= n)
    <3>1. PICK j \in 1..l : i = n + j
      <4>1. i - n \in 1..l /\ i = n + (i - n)
        BY <1>3, <2>2, SMTT(30)
      <4> QED
        BY <4>1
    <3>2. j \in 0..l /\ j - 1 \in 0..l /\ i - 1 = n + (j - 1)
      BY <1>3, <3>1
    <3>3. h[i] = m + g[j] /\ h[i - 1] = m + g[j - 1]
          /\ g[j] \in 0..k /\ g[j - 1] \in 0..k
      BY <1>5, <1>6, <3>1, <3>2
    <3>4. CASE g[j] = g[j - 1]
      BY <3>3, <3>4
    <3>5. CASE g[j - 1] < k /\ g[j] = g[j - 1] + 1 /\ c[g[j]] = d[j]
      <4>1. g[j] \in 1..k
        BY <1>7, <3>3, <3>5
      <4>2. x[m + g[j]] = c[g[j]] /\ y[n + j] = d[j]
        BY <1>3, <4>1
      <4>3. h[i - 1] < m + k /\ h[i] = h[i - 1] + 1
        BY <1>7, <3>3, <3>5
      <4> QED
        BY <3>1, <3>3, <3>5, <4>2, <4>3
    <3> QED
      BY <1>5, <3>4, <3>5
  <2> QED
    BY <2>1, <2>2
<1>10. h[0] = 0 /\ h[n + l] = m + k
  BY <1>3, <1>4, <1>5, <1>6, SMTT(30)
<1>11. Embeds(h, x, y)
  BY <1>3, <1>8, <1>9, <1>10 DEF Embeds
<1> QED
  BY <1>3, <1>11, SubsequenceEmbeds DEF x, y

\* A sequence is a subsequence of itself, the empty one of every other.
LEMMA SubsequenceEnds ==
  ASSUME NEW a \in Seq(Nat)
  PROVE  IsSubsequence(a, a) /\ IsSubsequence(<<>>, a)
<1>1. <<>> \in Seq(Nat) /\ Len(<<>>) = 0 /\ Len(a) \in Nat
  OBVIOUS
<1>2. IsSubsequence(a, a)
  <2> DEFINE h == [i \in 0..Len(a) |-> i]
  <2>1. Embeds(h, a, a)
    BY <1>1 DEF Embeds
  <2> QED
    BY <2>1, SubsequenceEmbeds
<1>3. IsSubsequence(<<>>, a)
  <2> DEFINE h == [i \in 0..Len(a) |-> 0]
  <2>1. Embeds(h, <<>>, a)
    BY <1>1 DEF Embeds
  <2> QED
    BY <1>1, <2>1, SubsequenceEmbeds
<1> QED
  BY <1>2, <1>3

-----------------------------------------------------------------------------
(* The live view. *)

\* A part of a part.
LEMMA PartOfPart ==
  ASSUME NEW s \in Seq(Nat), NEW p \in Nat, NEW n \in Nat, p + n <= Len(s),
         NEW i \in 1..(n + 1), NEW j \in 0..n, i <= j + 1
  PROVE  SubSeq(SubSeq(s, p + 1, p + n), i, j) = SubSeq(s, p + i, p + j)
<1> DEFINE r == SubSeq(s, p + 1, p + n)
           a == SubSeq(r, i, j)
           b == SubSeq(s, p + i, p + j)
           m == (j - i) + 1
<1>1. /\ i \in Nat /\ j \in Nat /\ m \in Nat /\ Len(s) \in Nat
      /\ (p + j) - (p + i) + 1 = m /\ p + i >= 1
      /\ \A k \in 1..m : /\ i + k - 1 \in 1..n
                         /\ p + (i + k - 1) = (p + i) + k - 1
  OBVIOUS
<1>2. /\ r \in Seq(Nat) /\ Len(r) = n
      /\ \A k \in 1..n : r[k] = s[p + k]
  <2>1. p + 1 \in Nat /\ p + n \in Nat /\ (p + n) - (p + 1) + 1 = n
    OBVIOUS
  <2>2. r \in Seq(Nat) /\ Len(r) = n
    BY <1>1, <2>1
  <2>3. ASSUME NEW k \in 1..n PROVE r[k] = s[p + k]
    <3>1. (p + 1) + k - 1 = p + k
      OBVIOUS
    <3>2. r[k] = s[(p + 1) + k - 1]
      BY <2>1
    <3> QED
      BY <3>1, <3>2
  <2> QED
    BY <2>2, <2>3
<1> HIDE DEF r
<1>3. /\ a = [k \in 1..m |-> r[i + k - 1]]
      /\ b = [k \in 1..m |-> s[(p + i) + k - 1]]
  <2>1. /\ i >= 1 /\ m = j - i + 1 /\ p + i \in Nat /\ p + j \in Nat
        /\ m = (p + j) - (p + i) + 1
    BY <1>1
  <2> HIDE DEF m
  <2>2. a = [k \in 1..m |-> r[i + k - 1]]
    <3>1. r \in Seq(Nat) /\ i \in Nat /\ j \in Nat /\ m = j - i + 1
      BY <1>1, <1>2, <2>1
    <3> QED
      BY <3>1
  <2>3. b = [k \in 1..m |-> s[(p + i) + k - 1]]
    BY <1>1, <2>1
  <2> QED
    BY <2>2, <2>3
<1>4. ASSUME NEW k \in 1..m
      PROVE  r[i + k - 1] = s[(p + i) + k - 1]
  BY <1>1, <1>2
<1> HIDE DEF a, b, m
<1>5. a = b
  BY <1>3, <1>4
<1> QED
  BY <1>5 DEF a, b, r

\* The text in the beginning of a layout and then the text in a part of it.
LEMMA TextOfPart ==
  ASSUME NEW s \in Seq(Located), NEW text, Texts(text, s),
         NEW p \in 0..Len(s), NEW q \in p..Len(s)
  PROVE  text[q] = text[p] \o TextIn(SubSeq(s, p + 1, q))
<1> DEFINE r == SubSeq(s, p + 1, q)
           n == q - p
<1>1. /\ n \in Nat /\ p + n = q /\ p \in Nat /\ q \in Nat /\ Len(s) \in Nat
      /\ q <= Len(s)
  OBVIOUS
<1>2. r \in Seq(Located) /\ Len(r) = n
  BY <1>1
<1>3. ASSUME NEW i \in 1..n
      PROVE  r[i] = s[p + i] /\ r[i].byte \in Nat
  <2>1. r[i] = s[p + i] /\ r[i] \in Located
    BY <1>1, <1>2
  <2> QED
    BY <2>1 DEF Located
<1> HIDE DEF r
<1>4. PICK other : Texts(other, r) /\ TextIn(r) = other[n]
  BY <1>2, TextSteps
<1>5. \A i \in 0..n : other[i] \in Seq(Nat) /\ text[p + i] \in Seq(Nat)
  <2>1. \A i \in 0..n : p + i \in 0..Len(s)
    BY <1>1
  <2> QED
    BY <1>2, <1>4, <2>1 DEF Texts
<1> DEFINE a == [i \in 0..n |-> text[p + i]]
           b == [i \in 0..n |-> text[p] \o other[i]]
<1>6. a[0] = b[0]
  <2>1. 0 \in 0..n /\ p + 0 = p /\ other[0] = <<>> /\ text[p] \in Seq(Nat)
    BY <1>1, <1>4, <1>5 DEF Texts
  <2>2. text[p] \o <<>> = text[p]
    BY <2>1
  <2> QED
    BY <2>1, <2>2
<1>7. ASSUME NEW i \in 1..n, a[i - 1] = b[i - 1]
      PROVE  a[i] = b[i]
  <2>1. /\ i \in 0..n /\ i - 1 \in 0..n /\ 0 \in 0..n /\ p + i \in 1..Len(s)
        /\ p + (i - 1) = p + i - 1 /\ p + 0 = p
    BY <1>1
  <2> DEFINE t == text[p]
             o == other[i - 1]
             c == r[i]
  <2>2. t \in Seq(Nat) /\ o \in Seq(Nat) /\ c.byte \in Nat
    BY <1>3, <1>5, <2>1
  <2>3. text[p + i - 1] = t \o o
    BY <1>7, <2>1
  <2>4. text[p + i] = Keep(t \o o, c)
    <3>1. text[p + i] = Keep(text[p + i - 1], s[p + i])
      BY <2>1 DEF Texts
    <3> QED
      BY <1>3, <2>3, <3>1
  <2>5. other[i] = Keep(o, c)
    BY <1>2, <1>4 DEF Texts
  <2> HIDE DEF t, o, c
  <2>6. Keep(t \o o, c) = t \o Keep(o, c)
    BY <2>2, BytesAppend DEF Keep
  <2>7. a[i] = text[p + i] /\ b[i] = t \o other[i]
    BY <2>1 DEF t
  <2> QED
    BY <2>4, <2>5, <2>6, <2>7
<1>8. a[n] = b[n]
  <2> HIDE DEF a, b, n
  <2> QED
    BY <1>1, <1>6, <1>7, SameSteps
<1>9. n \in 0..n
  BY <1>1
<1> QED
  BY <1>1, <1>4, <1>8, <1>9 DEF r

\* The text is what is left of the bytes without headers.
LEMMA TextInBytes ==
  ASSUME NEW s \in Seq(Located)
  PROVE  /\ TextIn(s) \in Seq(Nat) /\ Bytes(s) \in Seq(Nat)
         /\ IsSubsequence(TextIn(s), Bytes(s))
         /\ (\A i \in 1..Len(s) : s[i].at > HeaderLen) => TextIn(s) = Bytes(s)
<1> DEFINE n == Len(s)
           b == Bytes(s)
           part(m) == SubSeq(b, 1, m)
<1>1. /\ n \in Nat /\ 0 \in 0..n /\ n \in 0..n
      /\ \A i \in 1..n : s[i].byte \in Nat
  <2>1. \A i \in 1..n : s[i] \in Located
    OBVIOUS
  <2> QED
    BY <2>1 DEF Located
<1>2. b \in Seq(Nat) /\ Len(b) = n /\ \A i \in 1..n : b[i] = s[i].byte
  BY <1>1 DEF Bytes
<1> HIDE DEF b
<1>3. PICK text : Texts(text, s) /\ TextIn(s) = text[n]
  BY TextSteps
<1>4. text[0] = <<>> /\ \A m \in 0..n : text[m] \in Seq(Nat)
  BY <1>3 DEF Texts
<1>5. part(0) = <<>> /\ part(n) = b
  BY <1>2
<1>6. ASSUME NEW i \in 1..n
      PROVE  /\ part(i - 1) \in Seq(Nat) /\ text[i - 1] \in Seq(Nat)
             /\ part(i) = Append(part(i - 1), b[i])
             /\ text[i] = IF s[i].at > HeaderLen THEN Append(text[i - 1], b[i])
                          ELSE text[i - 1]
             /\ b[i] \in Nat
  <2>1. part(i) = Append(part(i - 1), b[i])
    BY <1>2, BytesLonger
  <2>2. text[i] = Keep(text[i - 1], s[i])
    BY <1>3 DEF Texts
  <2>3. part(i - 1) \in Seq(Nat)
    BY <1>1, <1>2
  <2>4. text[i - 1] \in Seq(Nat)
    BY <1>1, <1>4
  <2> QED
    BY <1>1, <1>2, <2>1, <2>2, <2>3, <2>4 DEF Keep
<1> HIDE DEF part
<1>7. IsSubsequence(text[n], part(n))
  <2> DEFINE P == {m \in Nat : m <= n => IsSubsequence(text[m], part(m))}
  <2>1. 0 \in P
    <3>1. <<>> \in Seq(Nat)
      OBVIOUS
    <3> QED
      BY <1>4, <1>5, <3>1, SubsequenceEnds
  <2>2. ASSUME NEW m \in Nat, m \in P
        PROVE  m + 1 \in P
    <3>1. SUFFICES ASSUME m + 1 <= n
                   PROVE  IsSubsequence(text[m + 1], part(m + 1))
      OBVIOUS
    <3>2. m + 1 \in 1..n /\ (m + 1) - 1 = m
      BY <1>1, <3>1
    <3> DEFINE t == text[m]
               u == part(m)
               x == b[m + 1]
    <3>3. /\ t \in Seq(Nat) /\ u \in Seq(Nat) /\ x \in Nat
          /\ part(m + 1) = Append(u, x)
          /\ text[m + 1] = Append(t, x) \/ text[m + 1] = t
      BY <1>6, <3>2
    <3>4. IsSubsequence(t, u)
      BY <1>1, <2>2, <3>1
    <3> HIDE DEF t, u, x
    <3>5. /\ <<x>> \in Seq(Nat) /\ <<>> \in Seq(Nat) /\ t \o <<>> = t
          /\ Append(u, x) = u \o <<x>> /\ Append(t, x) = t \o <<x>>
      BY <3>3
    <3>6. /\ IsSubsequence(t \o <<x>>, u \o <<x>>)
          /\ IsSubsequence(t \o <<>>, u \o <<x>>)
      <4>1. IsSubsequence(<<x>>, <<x>>) /\ IsSubsequence(<<>>, <<x>>)
        BY <3>5, SubsequenceEnds
      <4> QED
        BY <3>3, <3>4, <3>5, <4>1, SubsequencesJoin
    <3> QED
      BY <3>3, <3>5, <3>6
  <2>3. n \in P
    <3> HIDE DEF P
    <3> QED
      BY <1>1, <2>1, <2>2, SetInduction
  <2> QED
    BY <1>1, <2>3
<1>8. ASSUME \A i \in 1..n : s[i].at > HeaderLen
      PROVE  text[n] = part(n)
  <2> DEFINE f == [m \in 0..n |-> text[m]]
             g == [m \in 0..n |-> part(m)]
  <2>1. f[0] = g[0]
    BY <1>1, <1>4, <1>5
  <2>2. ASSUME NEW i \in 1..n, f[i - 1] = g[i - 1]
        PROVE  f[i] = g[i]
    <3>1. i \in 0..n /\ i - 1 \in 0..n
      BY <1>1
    <3>2. text[i - 1] = part(i - 1)
      BY <2>2, <3>1
    <3>3. text[i] = part(i)
      BY <1>6, <1>8, <3>2
    <3> QED
      BY <3>1, <3>3
  <2>3. f[n] = g[n]
    <3> HIDE DEF f, g, n
    <3> QED
      BY <1>1, <2>1, <2>2, SameSteps
  <2> QED
    BY <1>1, <2>3
<1> QED
  BY <1>1, <1>2, <1>3, <1>4, <1>5, <1>7, <1>8 DEF b

\* What the stream holds from the beginning of a frame on.
LEMMA FrameFrom ==
  ASSUME StreamInv, ~tty, NEW q \in Nat, q < Len(wire), FrameEnds(q),
         NEW e, e = NextFrame(wire, q + 1) - 1
  PROVE  /\ wire[q + 1] \in {1, 2}
         /\ q + HeaderLen <= Len(Layout)
         /\ \A k \in (q + 1)..(q + HeaderLen) : Layout[k].at = k - q
         /\ q + HeaderLen <= Len(wire) =>
              /\ e \in Nat /\ e >= q + HeaderLen /\ e <= Len(Layout)
              /\ FrameEnds(e)
              /\ \A k \in (q + 1)..e : Layout[k].at = k - q
<1> DEFINE L == Layout
           n == Len(L)
           w == Len(wire)
           end == FrameEnd(L, q + 1)
<1>1. /\ L \in Seq(Marked) /\ n \in Nat /\ w \in Nat /\ w <= n
      /\ \A i \in 1..w : wire[i] = L[i].byte
      /\ Framed(L)
  BY WireOfLayout, MarkedOut DEF Laid, WireIsLaid, StreamInv
<1>2. HeaderLen \in Nat /\ HeaderLen > 1
  BY HeaderAssumption
<1>3. \A i \in 1..n : L[i].byte \in Nat /\ (L[i].at = 1 => L[i].byte \in {1, 2})
  <2>1. \A i \in 1..n : L[i] \in Marked
    BY <1>1
  <2> QED
    BY <2>1 DEF Marked, Located
<1>4. FrameEnds(q) <=> (q = n \/ L[q + 1].at = 1)
  BY DEF FrameEnds
<1>5. \A k : FrameEnds(k) <=> (k = n \/ L[k + 1].at = 1)
  BY DEF FrameEnds
<1> HIDE DEF L, n, w
<1>6. q + 1 \in 1..n /\ q + 1 \in 1..w /\ L[q + 1].at = 1
  BY <1>1, <1>4 DEF w
<1>7. IsFrame(L, q + 1)
  BY <1>1, <1>6 DEF Framed, n
<1>8. /\ (q + 1) + HeaderLen - 1 = q + HeaderLen
      /\ q + 1 + HeaderLen - 1 = q + HeaderLen
  BY <1>2
<1>9. q + HeaderLen \in 1..n /\ L[q + HeaderLen].byte \in Nat
  BY <1>1, <1>2, <1>3, <1>6, <1>7, <1>8 DEF IsFrame, n
<1>10. end = q + 1 + HeaderLen + L[q + HeaderLen].byte
  BY <1>8 DEF FrameEnd
<1>11. end \in Nat /\ end >= q + 1 + HeaderLen /\ end <= n + 1
  BY <1>1, <1>2, <1>7, <1>9, <1>10 DEF IsFrame, n
<1>12. \A k \in (q + 1)..(end - 1) : L[k].at = k - q
  BY <1>7 DEF IsFrame
<1>13. end <= n => L[end].at = 1
  BY <1>7 DEF IsFrame, n
<1> HIDE DEF end
<1>14. FrameEnds(end - 1)
  <2>1. (end - 1) + 1 = end /\ (end <= n \/ end - 1 = n)
    BY <1>1, <1>11
  <2> QED
    BY <1>5, <1>13, <2>1
<1>15. ASSUME q + HeaderLen <= w
       PROVE  e = end - 1
  <2>1. wire[q + HeaderLen] = L[q + HeaderLen].byte
    BY <1>1, <1>9, <1>15
  <2>2. NextFrame(wire, q + 1) = end
    BY <1>8, <1>10, <2>1 DEF NextFrame
  <2> QED
    BY <2>2
<1>16. wire[q + 1] \in {1, 2}
  BY <1>1, <1>3, <1>6
<1>17. /\ end - 1 \in Nat /\ end - 1 >= q + HeaderLen /\ end - 1 <= n
       /\ \A k \in (q + 1)..(q + HeaderLen) : k \in (q + 1)..(end - 1)
  BY <1>1, <1>2, <1>11
<1> QED
  BY <1>9, <1>12, <1>14, <1>15, <1>16, <1>17 DEF L, n, w

\* A part of the stream, its layout, and the two together.
LEMMA PartOfStream ==
  ASSUME StreamInv, NEW p \in 0..Len(wire), NEW n \in Nat, p + n <= Len(wire)
  PROVE  /\ SubSeq(wire, p + 1, p + n) \in Seq(Nat)
         /\ Len(SubSeq(wire, p + 1, p + n)) = n
         /\ \A i \in 1..n : SubSeq(wire, p + 1, p + n)[i] = wire[p + i]
         /\ SubSeq(Layout, p + 1, p + n) \in Seq(Located)
         /\ Len(SubSeq(Layout, p + 1, p + n)) = n
         /\ \A i \in 1..n : SubSeq(Layout, p + 1, p + n)[i] = Layout[p + i]
         /\ SubSeq(wire, p + 1, p + n) = Bytes(SubSeq(Layout, p + 1, p + n))
<1> DEFINE L == Layout
           w == Len(wire)
           d == SubSeq(wire, p + 1, p + n)
           r == SubSeq(L, p + 1, p + n)
<1>1. /\ L \in Seq(Located) /\ wire \in Seq(Nat) /\ w <= Len(L)
      /\ w \in Nat /\ Len(L) \in Nat
      /\ \A i \in 1..w : wire[i] = L[i].byte
  BY WireOfLayout DEF Laid, WireIsLaid
<1> HIDE DEF L
<1>2. /\ p + 1 \in Nat /\ p + n \in Nat /\ (p + n) - (p + 1) + 1 = n
      /\ p + 1 >= 1 /\ p + n <= w /\ p + n <= Len(L)
  BY <1>1
<1>3. \A i \in 1..n : p + i \in 1..w /\ (p + 1) + i - 1 = p + i
  BY <1>1
<1>4. d \in Seq(Nat) /\ Len(d) = n /\ \A i \in 1..n : d[i] = wire[p + i]
  <2>1. d = [i \in 1..n |-> wire[(p + 1) + i - 1]]
    BY <1>1, <1>2
  <2>2. d \in Seq(Nat)
    BY <1>1, <1>2
  <2> HIDE DEF d
  <2> QED
    BY <1>3, <2>1, <2>2
<1>5. r \in Seq(Located) /\ Len(r) = n /\ \A i \in 1..n : r[i] = L[p + i]
  <2>1. r = [i \in 1..n |-> L[(p + 1) + i - 1]]
    BY <1>1, <1>2
  <2>2. r \in Seq(Located)
    BY <1>1, <1>2
  <2> HIDE DEF r
  <2> QED
    BY <1>3, <2>1, <2>2
<1> HIDE DEF d, r
<1>6. d = Bytes(r)
  <2>1. Bytes(r) = [i \in 1..n |-> r[i].byte]
    BY <1>5 DEF Bytes
  <2>2. d = [i \in 1..n |-> d[i]]
    BY <1>4
  <2>3. \A i \in 1..n : d[i] = r[i].byte
    BY <1>1, <1>3, <1>4, <1>5
  <2> QED
    BY <2>1, <2>2, <2>3
<1> QED
  BY <1>4, <1>5, <1>6 DEF d, r, L

\* From the beginning of a frame on, decodeLogChunk finds the text that was
\* read, if the read does not end inside a header.
LEMMA ChunkFromFrame ==
  ASSUME StreamInv, ~tty, NEW p \in 0..Len(wire), NEW n \in Nat,
         p + n <= Len(wire), FrameEnds(p), ~InsideHeader(p + n),
         NEW t, Decoded(t, SubSeq(wire, p + 1, p + n)),
         NEW text, Texts(text, Layout)
  PROVE  text[p] \o t[1] = text[p + n]
<1> DEFINE w == Len(wire)
           data == SubSeq(wire, p + 1, p + n)
           m == n + 1
           stop == {i \in 1..m : ~FrameEnds(p + i - 1) \/ FrameCut(data, i)}
           next == [i \in 1..m |-> NextFrame(data, i)]
           f == [i \in 1..m |-> IF FrameEnds(p + i - 1)
                                  THEN text[p + i - 1] \o t[i]
                                  ELSE text[p + n]]
           g == [i \in 1..m |-> text[p + n]]
<1>1. /\ data \in Seq(Nat) /\ Len(data) = n
      /\ \A i \in 1..n : data[i] = wire[p + i]
  BY PartOfStream
<1>2. /\ wire \in Seq(Nat) /\ w \in Nat /\ w <= Len(Layout)
      /\ Len(Layout) \in Nat /\ p \in Nat /\ m \in Nat
      /\ HeaderLen \in Nat /\ HeaderLen > 1
  BY WireOfLayout, HeaderAssumption DEF WireIsLaid, Laid
<1>3. \A q \in 0..w : text[q] \in Seq(Nat)
  <2>1. \A q \in 0..Len(Layout) : text[q] \in Seq(Nat)
    BY DEF Texts
  <2>2. \A q \in 0..w : q \in 0..Len(Layout)
    BY <1>2
  <2> QED
    BY <2>1, <2>2
<1> HIDE DEF data, w
<1>4. /\ \A i \in 1..m : t[i] \in Seq(Nat)
      /\ \A i \in 1..m :
           /\ HeaderCut(data, i) => t[i] = <<>>
           /\ ~HeaderCut(data, i) /\ data[i] \in {1, 2} /\ FrameCut(data, i)
              => t[i] = SubSeq(data, i + HeaderLen, n)
           /\ data[i] \in {1, 2} /\ ~FrameCut(data, i)
              => t[i] = SubSeq(data, i + HeaderLen, NextFrame(data, i) - 1)
                        \o t[NextFrame(data, i)]
  <2>1. Decoded(t, data)
    BY DEF data
  <2>2. \A i \in 1..m : HeaderCut(data, i) => FrameCut(data, i)
    BY DEF FrameCut
  <2> QED
    BY <1>1, <2>1, <2>2 DEF Decoded
\* Where a frame begins inside the part.
<1>5. ASSUME NEW i \in 1..n, FrameEnds(p + i - 1)
      PROVE  /\ p + i - 1 \in Nat /\ p + i - 1 < w
             /\ (p + i - 1) + 1 = p + i
             /\ data[i] \in {1, 2} /\ ~HeaderCut(data, i)
             /\ i + HeaderLen - 1 <= n /\ (p + i - 1) + HeaderLen <= w
             /\ NextFrame(wire, p + i) = p + NextFrame(data, i)
  <2> DEFINE q == p + i - 1
  <2>1. q \in Nat /\ q < w /\ q + 1 = p + i
    BY <1>2 DEF w
  <2> HIDE DEF q
  <2>2. /\ wire[q + 1] \in {1, 2}
        /\ q + HeaderLen <= Len(Layout)
        /\ \A k \in (q + 1)..(q + HeaderLen) : Layout[k].at = k - q
    <3>1. ASSUME NEW e, e = NextFrame(wire, q + 1) - 1
          PROVE  /\ wire[q + 1] \in {1, 2}
                 /\ q + HeaderLen <= Len(Layout)
                 /\ \A k \in (q + 1)..(q + HeaderLen) : Layout[k].at = k - q
      BY <1>5, <2>1, <3>1, FrameFrom DEF q, w
    <3> QED
      BY <3>1
  <2>3. ~HeaderCut(data, i)
    <3>1. SUFFICES ASSUME i + HeaderLen > n + 1
                   PROVE  FALSE
      BY <1>1 DEF HeaderCut
    <3> DEFINE k == p + n + 1
    <3>2. /\ k \in (q + 1)..(q + HeaderLen) /\ k - q \in 2..HeaderLen
          /\ p + n < Len(Layout)
      BY <1>2, <2>1, <2>2, <3>1 DEF q
    <3>3. Layout[k].at \in 2..HeaderLen
      BY <2>2, <3>2
    <3> QED
      BY <3>2, <3>3 DEF InsideHeader
  <2>4. i + HeaderLen - 1 \in 1..n
    BY <1>1, <1>2, <2>3 DEF HeaderCut
  <2>5. data[i + HeaderLen - 1] = wire[p + (i + HeaderLen - 1)]
        /\ data[i + HeaderLen - 1] \in Nat
    <3> DEFINE k == i + HeaderLen - 1
    <3>1. k \in 1..n
      BY <2>4
    <3> HIDE DEF k
    <3>2. data[k] = wire[p + k]
      BY <1>1, <3>1
    <3>3. data[k] \in Nat
      BY <1>1, <3>1
    <3> QED
      BY <3>2, <3>3 DEF k
  <2>6. p + (i + HeaderLen - 1) = (p + i) + HeaderLen - 1
    BY <1>2
  <2>7. NextFrame(wire, p + i) = p + NextFrame(data, i)
    BY <1>2, <2>5, <2>6, SMTT(30) DEF NextFrame
  <2>8. data[i] \in {1, 2}
    BY <1>1, <2>1, <2>2
  <2>9. i + HeaderLen - 1 <= n /\ q + HeaderLen <= w
    BY <1>2, <2>4 DEF q, w
  <2> QED
    BY <2>1, <2>3, <2>7, <2>8, <2>9 DEF q
\* The end of the part.
<1>6. t[m] = <<>>
  <2>1. HeaderCut(data, m)
    BY <1>1, <1>2 DEF HeaderCut
  <2>2. m \in 1..m
    BY <1>2
  <2> QED
    BY <1>4, <2>1, <2>2
<1>7. ASSUME NEW i \in 1..m, i \in stop
      PROVE  f[i] = g[i]
  <2>1. CASE ~FrameEnds(p + i - 1)
    BY <2>1
  <2>2. CASE FrameEnds(p + i - 1) /\ i = m
    <3>1. p + m - 1 = p + n /\ p + n \in 0..w
      BY <1>2 DEF w
    <3>2. text[p + n] \o <<>> = text[p + n]
      BY <1>3, <3>1
    <3> QED
      BY <1>6, <2>2, <3>1, <3>2
  <2>3. CASE FrameEnds(p + i - 1) /\ i # m
    <3> DEFINE q == p + i - 1
               e == NextFrame(wire, q + 1) - 1
    <3>0. i \in 1..n /\ FrameCut(data, i)
      BY <1>2, <1>7, <2>3
    <3>1. /\ q \in Nat /\ q < w /\ q + 1 = p + i
          /\ data[i] \in {1, 2} /\ ~HeaderCut(data, i)
          /\ i + HeaderLen - 1 <= n /\ q + HeaderLen <= w
          /\ NextFrame(wire, q + 1) = p + NextFrame(data, i)
      BY <1>5, <2>3, <3>0
    <3>2. t[i] = SubSeq(data, i + HeaderLen, n)
      BY <1>4, <3>0, <3>1
    <3>3. SubSeq(data, i + HeaderLen, n)
          = SubSeq(wire, p + (i + HeaderLen), p + n)
      <4>1. i + HeaderLen \in 1..(n + 1) /\ n \in 0..n /\ i + HeaderLen <= n + 1
        BY <1>2, <3>0, <3>1
      <4> QED
        BY <1>2, <4>1, PartOfPart DEF data, w
    <3>4. NextFrame(data, i) \in Nat /\ NextFrame(data, i) > n + 1
      <4>1. NextFrame(data, i) \in Nat
        BY <1>1, <3>1, FramesAdvance
      <4> QED
        BY <1>1, <3>0, <3>1, <4>1 DEF FrameCut
    <3>5. e \in Nat /\ \A k \in (q + 1)..e : Layout[k].at = k - q
      BY <2>3, <3>1, FrameFrom DEF w
    <3>6. p + n < e /\ p + n \in Nat
      <4>1. \A k \in Nat : k > n + 1 => p + n < (p + k) - 1
        BY <1>2
      <4>2. e = (p + NextFrame(data, i)) - 1
        BY <3>1
      <4> HIDE DEF e, q
      <4> QED
        BY <1>2, <3>4, <4>1, <4>2
    <3> HIDE DEF q, e
    <3>7. \A k \in (q + 1)..(p + n) : Layout[k].at = k - q
      <4>1. \A k \in (q + 1)..(p + n) : k \in (q + 1)..e
        BY <3>1, <3>5, <3>6
      <4> QED
        BY <3>5, <4>1
    <3>8. p + n \in (q + HeaderLen)..Len(wire) /\ q \in 0..Len(wire)
      BY <1>2, <3>0, <3>1 DEF q, w
    <3>9. text[p + n] = text[q] \o SubSeq(wire, q + 1 + HeaderLen, p + n)
      BY <3>7, <3>8, TextOfFrame
    <3>10. q + 1 + HeaderLen = p + (i + HeaderLen)
      BY <1>2, <3>1
    <3>11. f[i] = text[q] \o t[i] /\ g[i] = text[p + n]
      BY <2>3 DEF q
    <3> QED
      BY <3>2, <3>3, <3>9, <3>10, <3>11
  <2> QED
    BY <2>1, <2>2, <2>3
<1>8. ASSUME NEW i \in (1..m) \ stop
      PROVE  /\ next[i] \in (i + 1)..m
             /\ f[next[i]] = g[next[i]] => f[i] = g[i]
  <2> DEFINE q == p + i - 1
             j == NextFrame(data, i)
             e == NextFrame(wire, q + 1) - 1
             x == SubSeq(data, i + HeaderLen, j - 1)
  <2>1. FrameEnds(q) /\ ~FrameCut(data, i) /\ i \in 1..m
    BY <1>8
  <2>2. i \in 1..n
    <3>1. i = m => HeaderCut(data, i)
      BY <1>1, <1>2 DEF HeaderCut
    <3> QED
      BY <1>2, <2>1, <3>1 DEF FrameCut
  <2>3. /\ q \in Nat /\ q < w /\ q + 1 = p + i
        /\ data[i] \in {1, 2} /\ ~HeaderCut(data, i)
        /\ i + HeaderLen - 1 <= n /\ q + HeaderLen <= w
        /\ NextFrame(wire, q + 1) = p + j
    BY <1>5, <2>1, <2>2
  <2>4. j \in (i + 1)..m /\ j >= i + HeaderLen
    BY <1>1, <2>1, <2>3, FramesAdvance
  <2>5. t[i] = x \o t[j]
    BY <1>4, <2>1, <2>3
  <2>6. /\ e \in Nat /\ e >= q + HeaderLen /\ FrameEnds(e)
        /\ \A k \in (q + 1)..e : Layout[k].at = k - q
    BY <2>1, <2>3, FrameFrom DEF w
  <2>7. /\ e = p + (j - 1) /\ j - 1 \in 0..n
        /\ i + HeaderLen \in 1..(n + 1) /\ i + HeaderLen <= (j - 1) + 1
        /\ e = p + j - 1
    <3>1. e = (p + j) - 1
      BY <2>3
    <3> HIDE DEF e, q, j
    <3>2. j \in Nat /\ j <= n + 1 /\ j >= i + 1
      BY <1>2, <2>2, <2>4
    <3>3. (p + j) - 1 = p + (j - 1) /\ (p + j) - 1 = p + j - 1
      BY <1>2, <3>2
    <3>4. /\ j - 1 \in 0..n
          /\ i + HeaderLen \in 1..(n + 1) /\ i + HeaderLen <= (j - 1) + 1
      BY <1>2, <2>2, <2>4, <3>2
    <3> QED
      BY <3>1, <3>3, <3>4
  <2> HIDE DEF e, q, j
  <2>8. e \in (q + HeaderLen)..Len(wire) /\ q \in 0..Len(wire)
    <3>1. p + (j - 1) <= w
      BY <1>2, <2>7 DEF w
    <3>2. q + HeaderLen \in Nat
      BY <1>2, <2>3
    <3> QED
      BY <1>2, <2>3, <2>6, <2>7, <3>1, <3>2 DEF w
  <2>9. x = SubSeq(wire, q + 1 + HeaderLen, e)
    <3>1. x = SubSeq(wire, p + (i + HeaderLen), p + (j - 1))
      <4>1. /\ i + HeaderLen \in 1..(n + 1) /\ j - 1 \in 0..n
            /\ i + HeaderLen <= (j - 1) + 1 /\ p \in Nat /\ p + n <= Len(wire)
            /\ wire \in Seq(Nat)
        BY <1>2, <2>7 DEF w
      <4> HIDE DEF x
      <4> DEFINE u == i + HeaderLen
                 v == j - 1
      <4>2. SubSeq(SubSeq(wire, p + 1, p + n), u, v)
            = SubSeq(wire, p + u, p + v)
        <5>1. u \in 1..(n + 1) /\ v \in 0..n /\ u <= v + 1
          BY <4>1
        <5> HIDE DEF u, v
        <5> QED
          BY <4>1, <5>1, PartOfPart
      <4> QED
        BY <4>2 DEF x, data
    <3>2. q + 1 + HeaderLen = p + (i + HeaderLen)
      BY <1>2, <2>3
    <3> QED
      BY <2>7, <3>1, <3>2
  <2>10. text[e] = text[q] \o x
    BY <2>6, <2>8, <2>9, TextOfFrame
  <2>11. x \in Seq(Nat) /\ t[j] \in Seq(Nat) /\ text[q] \in Seq(Nat)
    <3>1. t[j] \in Seq(Nat) /\ text[q] \in Seq(Nat)
      BY <1>2, <1>3, <1>4, <2>2, <2>4, <2>8 DEF w
    <3>2. SubSeq(data, i + HeaderLen, j - 1) \in Seq(Nat)
      <4> DEFINE h == i + HeaderLen
                 k == j - 1
      <4>1. h \in Nat /\ h >= 1 /\ k \in Nat /\ k <= Len(data)
        BY <1>1, <1>2, <2>7
      <4> HIDE DEF h, k
      <4>2. SubSeq(data, h, k) \in Seq(Nat)
        BY <1>1, <4>1
      <4> QED
        BY <4>2 DEF h, k
    <3> QED
      BY <3>1, <3>2
  <2> HIDE DEF x
  <2>12. text[q] \o t[i] = text[e] \o t[j]
    <3>1. (text[q] \o x) \o t[j] = text[q] \o (x \o t[j])
      BY <2>11, BytesAssociate
    <3> QED
      BY <2>5, <2>10, <3>1
  <2>13. f[j] = text[e] \o t[j] /\ g[j] = text[p + n]
    <3>1. j \in 1..m /\ p + j - 1 = e
      BY <1>2, <2>2, <2>4, <2>7
    <3> QED
      BY <2>6, <3>1
  <2>14. f[i] = text[q] \o t[i] /\ g[i] = text[p + n] /\ next[i] = j
    BY <2>1 DEF q, j
  <2> HIDE DEF f, g, next
  <2> QED
    BY <2>4, <2>12, <2>13, <2>14
<1>9. 1 \in 1..m /\ p + 1 - 1 = p
  BY <1>2
<1>10. f[1] = g[1]
  <2>0. m \in Nat
    BY <1>2
  <2> HIDE DEF f, g, stop, next, m
  <2>1. AgreeForward(f, g, m, stop, next)
    BY <1>7, <1>8 DEF AgreeForward
  <2>2. \A i \in 1..m : f[i] = g[i]
    BY <2>0, <2>1, SameForward
  <2> QED
    BY <1>9, <2>2
<1>11. f[1] = text[p] \o t[1] /\ g[1] = text[p + n]
  BY <1>9
<1> QED
  BY <1>10, <1>11

\* Reads of the live handler, wherever they begin and end but in a header.
LEMMA ChunkShowsText ==
  ASSUME StreamInv, NEW p \in 0..Len(wire), NEW n \in Nat, n >= 1,
         p + n <= Len(wire), ~InsideHeader(p), ~InsideHeader(p + n),
         NEW data, data = SubSeq(wire, p + 1, p + n),
         NEW part, part = TextIn(SubSeq(Layout, p + 1, p + n))
  PROVE  /\ part \in Seq(Nat) /\ data \in Seq(Nat)
         /\ IsSubsequence(part, decodeLogChunk(data))
         /\ tty \/ (FrameEnds(p) /\ part # <<>>) => decodeLogChunk(data) = part
<1> DEFINE r == SubSeq(Layout, p + 1, p + n)
<1>1. /\ data \in Seq(Nat) /\ Len(data) = n
      /\ \A i \in 1..n : data[i] = wire[p + i]
      /\ r \in Seq(Located) /\ Len(r) = n
      /\ \A i \in 1..n : r[i] = Layout[p + i]
      /\ data = Bytes(r)
  BY PartOfStream
<1>2. /\ Layout \in Seq(Located) /\ Layout \in Seq(Marked)
      /\ Len(wire) \in Nat /\ Len(Layout) \in Nat /\ Len(wire) <= Len(Layout)
      /\ \A i \in 1..Len(wire) : wire[i] = Layout[i].byte
      /\ tty => \A i \in 1..Len(Layout) : Layout[i].at > HeaderLen
  BY WireOfLayout, MarkedOut DEF WireIsLaid, Laid, StreamInv
<1>3. /\ part \in Seq(Nat) /\ IsSubsequence(part, data)
      /\ (\A i \in 1..n : r[i].at > HeaderLen) => part = data
  BY <1>1, TextInBytes
<1> HIDE DEF r
<1>4. PICK t : /\ Decoded(t, data)
               /\ decodeLogChunk(data) = IF t[1] = <<>> THEN data ELSE t[1]
  BY <1>1, ChunkSteps
<1>5. /\ 1 \in 1..n /\ 1 \in 1..(n + 1)
      /\ p + 1 \in 1..Len(wire) /\ p + 1 \in 1..Len(Layout)
  BY <1>2
<1>6. CASE tty \/ ~FrameEnds(p)
  <2>1. Layout[p + 1].at > HeaderLen
    <3>1. CASE tty
      BY <1>2, <1>5, <3>1
    <3>2. CASE ~tty /\ ~FrameEnds(p)
      <4>1. Layout[p + 1].at \in Nat /\ Layout[p + 1].at > 0
        <5>1. Layout[p + 1] \in Marked
          BY <1>2, <1>5
        <5> QED
          BY <5>1 DEF Marked, Located
      <4>2. p < Len(Layout) /\ Layout[p + 1].at # 1
        BY <1>2, <1>5, <3>2 DEF FrameEnds
      <4>3. Layout[p + 1].at \notin 2..HeaderLen
        BY <4>2 DEF InsideHeader
      <4> QED
        BY <4>1, <4>2, <4>3, HeaderAssumption
    <3> QED
      BY <1>6, <3>1, <3>2
  <2>2. data[1] \notin {1, 2}
    <3>1. data[1] = Layout[p + 1].byte
      BY <1>1, <1>2, <1>5
    <3>2. Layout[p + 1] \in Marked
      BY <1>2, <1>5
    <3>3. Layout[p + 1].byte > 6
      BY <2>1, <3>2 DEF Marked
    <3> QED
      BY <3>1, <3>3
  <2>3. t[1] = <<>> \/ t[1] = data
    <3>1. t[1] = IF HeaderCut(data, 1) THEN <<>> ELSE SubSeq(data, 1, Len(data))
      BY <1>1, <1>5, <2>2, <1>4 DEF Decoded
    <3>2. SubSeq(data, 1, Len(data)) = data
      BY <1>1
    <3> QED
      BY <3>1, <3>2
  <2>4. decodeLogChunk(data) = data
    BY <1>4, <2>3
  <2>5. tty => part = data
    <3>1. ASSUME tty PROVE \A i \in 1..n : r[i].at > HeaderLen
      <4>1. \A i \in 1..n : p + i \in 1..Len(Layout)
        BY <1>2
      <4> QED
        BY <1>1, <1>2, <3>1, <4>1
    <3> QED
      BY <1>3, <3>1
  <2> QED
    BY <1>1, <1>3, <1>6, <2>4, <2>5
<1>7. CASE ~tty /\ FrameEnds(p)
  <2>1. PICK text : Texts(text, Layout)
    BY <1>2, TextSteps
  <2>2. /\ p \in 0..Len(Layout) /\ p + n \in p..Len(Layout)
    BY <1>2
  <2>3. text[p] \in Seq(Nat) /\ t[1] \in Seq(Nat)
    BY <1>1, <1>4, <1>5, <2>1, <2>2 DEF Texts, Decoded
  <2>4. text[p] \o t[1] = text[p + n]
    BY <1>4, <1>7, <2>1, ChunkFromFrame
  <2>5. text[p + n] = text[p] \o part
    BY <1>2, <2>1, <2>2, TextOfPart
  <2>6. t[1] = part
    <3>1. text[p] \o t[1] = text[p] \o part
      BY <2>4, <2>5
    <3> QED
      BY <1>3, <2>3, <3>1, BytesCancel
  <2>7. CASE part = <<>>
    <3>1. IsSubsequence(<<>>, data)
      BY <1>1, SubsequenceEnds
    <3> QED
      BY <1>1, <1>3, <1>4, <1>7, <2>6, <2>7, <3>1
  <2>8. CASE part # <<>>
    <3>1. IsSubsequence(part, part)
      BY <1>3, SubsequenceEnds
    <3> QED
      BY <1>1, <1>3, <1>4, <2>6, <2>8, <3>1
  <2> QED
    BY <2>7, <2>8
<1> QED
  BY <1>6, <1>7

\* The beginning of a stream is the beginning of a frame.
LEMMA Boundaries ==
  ASSUME StreamInv
  PROVE  /\ FrameEnds(0) /\ ~InsideHeader(0)
         /\ \A p : tty \/ FrameEnds(p)
              => ~(p \in 0..Len(Layout) /\ InsideHeader(p))
<1>1. /\ Layout \in Seq(Located) /\ Len(Layout) \in Nat
      /\ tty => \A i \in 1..Len(Layout) : Layout[i].at > HeaderLen
      /\ ~tty => Framed(Layout)
  BY WireOfLayout DEF Laid
<1>2. HeaderLen \in Nat
  BY HeaderAssumption
<1>3. FrameEnds(0)
  <2>1. Len(Layout) = 0 \/ tty \/ Layout[0 + 1].at = 1
    BY <1>1 DEF Framed
  <2> QED
    BY <1>1, <2>1 DEF FrameEnds
<1>4. ASSUME NEW p \in 0..Len(Layout), tty \/ FrameEnds(p), InsideHeader(p)
      PROVE  FALSE
  <2>1. p < Len(Layout) /\ Layout[p + 1].at \in 2..HeaderLen
    BY <1>4 DEF InsideHeader
  <2>2. p + 1 \in 1..Len(Layout)
    BY <1>1, <2>1
  <2>3. CASE tty
    BY <1>1, <1>2, <2>1, <2>2, <2>3
  <2>4. CASE ~tty
    <3>1. Layout[p + 1].at = 1
      BY <1>1, <1>4, <2>1, <2>4 DEF FrameEnds
    <3> QED
      BY <2>1, <3>1
  <2> QED
    BY <2>3, <2>4
<1>5. 0 \in 0..Len(Layout)
  BY <1>1
<1> QED
  BY <1>3, <1>4, <1>5

\* What the live view has shown at position p.
Shown(p, v, header, frame) ==
    /\ v \in Seq(Nat)
    /\ ~header => ~InsideHeader(p) /\ IsSubsequence(Read(p), v)
    /\ tty \/ ~frame => v = Read(p)
    /\ ~frame => FrameEnds(p)

LiveInv ==
    /\ consumer = "api" /\ status = 0 =>
         pos = 0 /\ cutHeader = FALSE /\ cutFrame = FALSE
    /\ request.handler = "LogStream" =>
         consumer = "api" /\ Shown(pos, view, cutHeader, cutFrame)

\* A read adds what it holds.
LEMMA ReadShows ==
  ASSUME StreamInv, TypeInv, Shown(pos, view, cutHeader, cutFrame),
         NEW n \in 1..Len(wire), ReadChunk(n)
  PROVE  Shown(pos', view', cutHeader', cutFrame')
<1> DEFINE data == SubSeq(wire, pos + 1, pos + n)
           part == TextIn(SubSeq(Layout, pos + 1, pos + n))
           chunk == decodeLogChunk(data)
           q == pos + n
<1>1. /\ pos' = q /\ view' = view \o chunk
      /\ cutHeader' = (cutHeader \/ InsideHeader(q))
      /\ cutFrame' = (cutFrame \/ ~FrameEnds(q) \/ part = <<>>)
      /\ n <= Len(wire) - pos
  BY DEF ReadChunk
<1>2. /\ Layout \in Seq(Located) /\ Len(Layout) \in Nat /\ Len(wire) \in Nat
      /\ Len(wire) <= Len(Layout) /\ wire \in Seq(Nat)
  BY WireOfLayout DEF Laid, WireIsLaid
<1>3. /\ pos \in 0..Len(wire) /\ n \in Nat /\ n >= 1 /\ q <= Len(wire)
      /\ pos \in 0..Len(Layout) /\ q \in 0..Len(Layout)
      /\ q \in pos..Len(Layout)
  BY <1>1, <1>2 DEF TypeInv
<1>4. /\ Read(q) = Read(pos) \o part
      /\ Read(pos) \in Seq(Nat) /\ Read(q) \in Seq(Nat)
  <2>1. PICK text : Texts(text, Layout)
    BY <1>2, TextSteps
  <2>2. Read(q) = text[q] /\ Read(pos) = text[pos]
    BY <1>2, <1>3, <2>1, TextOfPrefix DEF Read
  <2>3. text[q] = text[pos] \o part
    BY <1>2, <1>3, <2>1, TextOfPart
  <2>4. text[q] \in Seq(Nat) /\ text[pos] \in Seq(Nat)
    BY <1>3, <2>1 DEF Texts
  <2> QED
    BY <2>2, <2>3, <2>4
<1>5. data \in Seq(Nat) /\ chunk \in Seq(Nat)
  BY <1>3, PartOfStream, ChunkType
<1>6. view \in Seq(Nat)
  BY DEF Shown
<1>7. /\ data = SubSeq(wire, pos + 1, pos + n) /\ chunk = decodeLogChunk(data)
      /\ part = TextIn(SubSeq(Layout, pos + 1, pos + n))
  OBVIOUS
<1> HIDE DEF q, part, chunk, data
<1>8. ASSUME ~InsideHeader(pos), ~InsideHeader(q)
      PROVE  /\ part \in Seq(Nat) /\ IsSubsequence(part, chunk)
             /\ tty \/ (FrameEnds(pos) /\ part # <<>>) => chunk = part
  <2>1. \A p, d, t : /\ p = pos /\ d = SubSeq(wire, p + 1, p + n)
                     /\ t = TextIn(SubSeq(Layout, p + 1, p + n))
          => /\ t \in Seq(Nat) /\ IsSubsequence(t, decodeLogChunk(d))
             /\ tty \/ (FrameEnds(p) /\ t # <<>>) => decodeLogChunk(d) = t
    <3> SUFFICES ASSUME NEW p, p = pos,
                        NEW d, d = SubSeq(wire, p + 1, p + n),
                        NEW t, t = TextIn(SubSeq(Layout, p + 1, p + n))
                 PROVE  /\ t \in Seq(Nat) /\ IsSubsequence(t, decodeLogChunk(d))
                        /\ tty \/ (FrameEnds(p) /\ t # <<>>)
                           => decodeLogChunk(d) = t
      OBVIOUS
    <3>1. /\ p \in 0..Len(wire) /\ n \in Nat /\ n >= 1
          /\ p + n <= Len(wire) /\ ~InsideHeader(p) /\ ~InsideHeader(p + n)
      BY <1>3, <1>8 DEF q
    <3> QED
      BY <3>1, ChunkShowsText, Zenon
  <2>2. \A t : t = part
          => /\ t \in Seq(Nat) /\ IsSubsequence(t, chunk)
             /\ tty \/ (FrameEnds(pos) /\ t # <<>>) => chunk = t
    BY <1>7, <2>1
  <2> QED
    BY <2>2
<1>9. view \o chunk \in Seq(Nat)
  BY <1>5, <1>6
<1>10. ASSUME ~cutHeader'
      PROVE  ~InsideHeader(q) /\ IsSubsequence(Read(q), view \o chunk)
  <2>1. /\ ~InsideHeader(q) /\ ~InsideHeader(pos)
        /\ IsSubsequence(Read(pos), view)
    BY <1>1, <1>10 DEF Shown
  <2>2. part \in Seq(Nat) /\ IsSubsequence(part, chunk)
    BY <1>8, <2>1
  <2> QED
    BY <1>4, <1>5, <1>6, <2>1, <2>2, SubsequencesJoin
<1>11. ASSUME tty \/ ~cutFrame'
       PROVE  view \o chunk = Read(q)
  <2>1. /\ view = Read(pos)
        /\ tty \/ (FrameEnds(pos) /\ FrameEnds(q) /\ part # <<>>)
    BY <1>1, <1>11 DEF Shown
  <2>2. ~InsideHeader(pos) /\ ~InsideHeader(q)
    BY <1>3, <2>1, Boundaries
  <2>3. chunk = part
    BY <1>8, <2>1, <2>2
  <2> QED
    BY <1>4, <2>1, <2>3
<1>12. ~cutFrame' => FrameEnds(q)
  BY <1>1
<1>13. Shown(q, view \o chunk, cutHeader', cutFrame')
  BY <1>9, <1>10, <1>11, <1>12 DEF Shown
<1> QED
  BY <1>1, <1>13

\* Whatever the sizes of its reads, the live view loses no text unless a read
\* ends inside a header, and shows nothing else while reads end with frames
\* that hold text, and for a container with a terminal.
THEOREM LiveViewCorrect == Spec => []LiveViewKeepsText
<1>1. Init => LiveInv
  <2> SUFFICES ASSUME Init PROVE LiveInv
    OBVIOUS
  <2>1. request.handler = "none"
    BY DEF Init
  <2> QED
    BY <2>1 DEF Init, LiveInv
<1>2. StreamInv /\ TypeInv /\ LiveInv /\ [Next]_vars => LiveInv'
  <2> SUFFICES ASSUME StreamInv, TypeInv, LiveInv, [Next]_vars
               PROVE  LiveInv'
    OBVIOUS
  <2>1. UNCHANGED <<frames, tty, wire, consumer>>
    BY DEF Next, vars, stream, Request, LiveHandler, ReadChunk, ReadEnds,
       ClientGone, Reader, ScanLine, ServeLeftover, ReadFrame, ReadFails,
       TooLong, Sent, TakerStalls
  <2>2. Layout' = Layout
    BY <2>1 DEF Layout, Header
  <2>3. Shown(pos, view, cutHeader, cutFrame)'
        <=> Shown(pos', view', cutHeader', cutFrame')
    <3>1. Read(pos)' = Read(pos')
      BY <2>2 DEF Read
    <3> QED
      BY <2>1, <2>2, <3>1 DEF Shown, InsideHeader, FrameEnds
  <2>4. CASE Request
    <3>1. PICK path, tail, outcome : Answer(path, tail, outcome)
      BY <2>4 DEF Request
    <3>2. /\ consumer = "api" /\ pos = 0 /\ ~cutHeader /\ ~cutFrame
          /\ UNCHANGED <<pos, cutHeader, cutFrame>>
          /\ cutHeader = FALSE /\ cutFrame = FALSE
      BY <2>4 DEF Request, LiveInv
    <3>3. request'.handler = "LogStream" => view' = <<>>
      <4>1. /\ request'.handler = Route(path)
            /\ view' = IF Route(path) = "GetContainerLogs" /\ status' = 200
                         THEN decodeDockerLogs(wire) ELSE <<>>
        BY <3>1 DEF Answer
      <4> QED
        BY <4>1
    <3>4. Shown(0, <<>>, FALSE, FALSE)
      <4>1. FrameEnds(0) /\ ~InsideHeader(0) /\ Read(0) = <<>>
        BY Boundaries, ReadingOn
      <4>2. <<>> \in Seq(Nat)
        OBVIOUS
      <4>3. IsSubsequence(<<>>, <<>>)
        BY <4>2, SubsequenceEnds
      <4> QED
        BY <4>1, <4>2, <4>3 DEF Shown
    <3> QED
      BY <2>1, <2>3, <3>2, <3>3, <3>4 DEF LiveInv
  <2>5. CASE \E n \in 1..Len(wire) : ReadChunk(n)
    <3>1. PICK n \in 1..Len(wire) : ReadChunk(n)
      BY <2>5
    <3>2. status' = status /\ status = 101 /\ request' = request
      BY <3>1 DEF ReadChunk, stream
    <3>3. Shown(pos, view, cutHeader, cutFrame)
          => Shown(pos', view', cutHeader', cutFrame')
      BY <3>1, ReadShows
    <3> QED
      BY <2>1, <2>3, <3>2, <3>3 DEF LiveInv
  <2>6. CASE ReadEnds \/ ClientGone
    <3>1. status' # 0 /\ request' = request
          /\ UNCHANGED <<pos, view, cutHeader, cutFrame>>
      BY <2>6 DEF ReadEnds, CloseCode, ClientGone, stream
    <3> QED
      BY <2>1, <2>3, <3>1 DEF LiveInv
  <2>7. CASE Reader
    <3>1. consumer = "collector" /\ request' = request
      BY <2>7 DEF Reader, ScanLine, ServeLeftover, ReadFrame, ReadFails,
         TooLong, Scanning, stream
    <3> QED
      BY <2>1, <3>1 DEF LiveInv
  <2>8. CASE UNCHANGED vars \/ Sent \/ TakerStalls
    <3>1. UNCHANGED <<request, status, pos, view, cutHeader, cutFrame>>
      BY <2>8 DEF vars, stream, api, Sent, TakerStalls
    <3> QED
      BY <2>1, <2>3, <3>1 DEF LiveInv
  <2> QED
    BY <2>4, <2>5, <2>6, <2>7, <2>8 DEF Next, LiveHandler
<1>3. LiveInv => LiveViewKeepsText
  BY DEF LiveInv, Shown, Read, LiveViewKeepsText
<1> QED
  BY <1>1, <1>2, <1>3, StreamInvariant, TypeInvariant, PTL DEF Spec
=============================================================================
