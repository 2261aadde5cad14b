------------------------------ MODULE LiveStream ------------------------------
(***************************************************************************)
(* From Docker's log stream to text: a request that asks for the logs of   *)
(* one container (GetContainerLogs, LogStreamHandler), or the reader that  *)
(* FollowContainerLogs starts for the collector and for /logs/live.        *)
(* src/backend/internal/services/log_service.go and                        *)
(* src/backend/internal/websocket/handler.go, with the routes of main.go.  *)
(*                                                                         *)
(* Docker sends frames, a header and a payload each, but raw text for a    *)
(* container with a terminal.  Bytes are naturals: 0 to 2 occur in headers *)
(* only, 10 is the newline, 13 the carriage return, text is 7 and above.   *)
(* A header is HeaderLen bytes: the stream type, zeros, the payload's      *)
(* length in the last byte.                                                *)
(*                                                                         *)
(* Who takes the text may stop taking it: the client stops reading its     *)
(* WebSocket, which has no write deadline, or the output channel is full.  *)
(***************************************************************************)
EXTENDS ApiRoutes

CONSTANTS
    HeaderLen,   \* 8 in the code
    MaxToken,    \* the scanner's largest line, 65536 in the code
    Payloads,    \* what a container writes at once
    MaxFrames    \* bound: frames in a stream

ASSUME HeaderAssumption == HeaderLen \in Nat /\ HeaderLen > 1
ASSUME TokenAssumption == MaxToken \in Nat \ {0}
ASSUME PayloadsAssumption ==
    \A p \in Payloads : p \in Seq(Nat) /\ \A i \in DOMAIN p : p[i] > 6

Newline == 10
Return == 13
Frames == [type : {1, 2}, text : Payloads]

VARIABLES
    frames,     \* what the container writes
    tty,        \* it has a terminal: its stream has no headers
    wire,       \* the bytes of the stream before it ends or breaks
    intact,     \* FALSE: the stream breaks with an error
    consumer,   \* "api" or "collector": who reads the stream
    request,    \* what the client of the API asks for
    status,     \* the HTTP status or the WebSocket's close code; 0: none yet
    pos,        \* bytes of wire the consumer has read
    view,       \* what was written to the client of the API
    cutHeader,  \* history: a read of the handler ended inside a header
    cutFrame,   \* history: a read ended inside a frame, or held no payload
    dbuf,       \* multiplexedDecoder.buf
    sbuf,       \* the scanner's buffer
    lines,      \* the lines the scanner returned
    scanner,    \* "scan", "ended" or "tooLong"
    sending,    \* in WriteMessage, or at the output channel
    stalled     \* who takes the text takes none

stream == <<frames, tty, wire, intact, consumer, request>>
api == <<status, view, cutHeader, cutFrame>>
reader == <<dbuf, sbuf, lines, scanner>>
taker == <<sending, stalled>>
vars == <<stream, api, pos, reader, taker>>

Header(f) == [i \in 1..HeaderLen |->
                CASE i = 1 -> f.type
                  [] i = HeaderLen -> Len(f.text)
                  [] OTHER -> 0]

\* The stream byte by byte: each with its place in its frame.
Layout ==
    FlattenSeq([k \in DOMAIN frames |->
        LET bytes == IF tty THEN frames[k].text
                            ELSE Header(frames[k]) \o frames[k].text
        IN  [i \in 1..Len(bytes) |->
                [byte |-> bytes[i], at |-> IF tty THEN i + HeaderLen ELSE i]]])

Bytes(layout) == [i \in 1..Len(layout) |-> layout[i].byte]

\* The bytes of a layout that are no header's.
TextIn(layout) ==
    FoldLeft(LAMBDA text, b : IF b.at > HeaderLen THEN Append(text, b.byte)
                                                  ELSE text,
             <<>>, layout)

Init ==
    /\ frames \in BoundedSeq(Frames, MaxFrames)
    /\ tty \in BOOLEAN
    /\ wire \in Prefixes(Bytes(Layout))
    /\ intact \in BOOLEAN
    /\ intact => wire = Bytes(Layout)
    /\ consumer \in {"api", "collector"}
    /\ request = [path |-> <<>>, handler |-> "none"]
    /\ status = 0
    /\ pos = 0
    /\ view = <<>>
    /\ cutHeader = FALSE
    /\ cutFrame = FALSE
    /\ dbuf = <<>>
    /\ sbuf = <<>>
    /\ lines = <<>>
    /\ scanner = "scan"
    /\ sending = FALSE
    /\ stalled = FALSE

-----------------------------------------------------------------------------
(* The decoders of whole buffers, as recursive functions of the position.  *)

\* Mutant: a frame that ends with the data counts as cut.
CutOrLast(raw, next) == next > Len(raw)
IsCut(raw, next) == next > Len(raw) + 1

\* GetContainerLogs: frames until the rest is none; what is cut is left out.
decodeDockerLogs(raw) ==
    LET text[i \in 1..Len(raw) + 1] ==
          LET j == i + HeaderLen
              next == j + raw[j - 1]
          IN  IF IsCut(raw, j) \/ IsCut(raw, next)
                THEN <<>>
                ELSE SubSeq(raw, j, next - 1) \o text[next]
    IN  text[1]

\* Mutant: a frame cut at the end of the read is dropped.
DropCut(data, j) == <<>>
CutFrame(data, j) == SubSeq(data, j, Len(data))

\* decodeLogChunk: frames, raw text as it is, and the part of a frame that is
\* there; text is what out receives from position i on.
decodeLogChunk(data) ==
    LET text[i \in 1..Len(data) + 1] ==
          LET j == i + HeaderLen
              next == j + data[j - 1]
          IN  CASE j > Len(data) + 1 -> <<>>
                [] j <= Len(data) + 1 /\ data[i] \notin {1, 2} ->
                     SubSeq(data, i, Len(data))
                [] OTHER ->
                     IF next > Len(data) + 1
                       THEN CutFrame(data, j)
                       ELSE SubSeq(data, j, next - 1) \o text[next]
    IN  IF text[1] = <<>> THEN data ELSE text[1]

-----------------------------------------------------------------------------
(* The API's side. *)

\* A request arrives and is refused or answered; io.ReadAll fails on a stream
\* that breaks.  A live stream is only opened here.
Answer(path, tail, outcome) ==
    LET handler == Route(path)
    IN  /\ request' = [path |-> path, handler |-> handler]
        /\ status' = IF handler = "GetContainerLogs" /\ ~intact
                       THEN Status(handler, path, tail, "error")
                       ELSE Status(handler, path, tail, outcome)
        /\ view' = IF handler = "GetContainerLogs" /\ status' = 200
                     THEN decodeDockerLogs(wire) ELSE <<>>

Request ==
    /\ consumer = "api"
    /\ status = 0
    /\ \E id \in Ids \union {""}, tail \in Tails, outcome \in Outcomes :
         \E path \in {d.path : d \in Documented(id)} \union Undocumented(id)
                      \union {<<"containers">>, <<"health", "docker">>} :
           Answer(path, tail, outcome)
    /\ UNCHANGED <<frames, tty, wire, intact, consumer, pos, cutHeader,
                   cutFrame, reader, taker>>

\* A position between two frames, or inside a header.
FrameEnds(p) == p = Len(Layout) \/ tty \/ Layout[p + 1].at = 1
InsideHeader(p) == p < Len(Layout) /\ Layout[p + 1].at \in 2..HeaderLen

\* One turn of the loop of ServeHTTP: a read of any size, and the write.
ReadChunk(n) ==
    /\ status = 101 /\ ~sending
    /\ n <= Len(wire) - pos
    /\ pos' = pos + n
    /\ view' = view \o decodeLogChunk(SubSeq(wire, pos + 1, pos + n))
    /\ cutHeader' = (cutHeader \/ InsideHeader(pos + n))
    /\ cutFrame' = (\/ cutFrame \/ ~FrameEnds(pos + n)
                    \/ TextIn(SubSeq(Layout, pos + 1, pos + n)) = <<>>)
    /\ sending' = TRUE
    /\ UNCHANGED <<stream, status, reader, stalled>>

\* Mutant: only an error ends the loop, the end of the stream does not.
CloseOnError == ~intact /\ status' = 1011
CloseCode == status' = IF intact THEN 1000 ELSE 1011

ReadEnds ==
    /\ status = 101 /\ ~sending
    /\ pos = Len(wire)
    /\ CloseCode
    /\ UNCHANGED <<stream, pos, view, cutHeader, cutFrame, reader, taker>>

\* The write fails: the client is gone.
ClientGone ==
    /\ status = 101 /\ sending
    /\ status' = 1006
    /\ sending' = FALSE /\ stalled' = FALSE
    /\ UNCHANGED <<stream, pos, view, cutHeader, cutFrame, reader>>

-----------------------------------------------------------------------------
(* The reader of FollowContainerLogs: bufio.Scanner over multiplexedDecoder. *)

Scanning == consumer = "collector" /\ scanner = "scan" /\ ~sending
NoLine == ~Contains(sbuf, Newline)

\* bufio.ScanLines: one carriage return at the end of a line is not its text.
DropCR(line) ==
    IF line # <<>> /\ Last(line) = Return THEN Front(line) ELSE line

\* Scan finds a line in its buffer; it goes to the output channel.
ScanLine ==
    /\ Scanning
    /\ ~NoLine
    /\ LET i == CHOOSE i \in DOMAIN sbuf :
                  sbuf[i] = Newline /\ \A j \in 1..i-1 : sbuf[j] # Newline
       IN  /\ lines' = Append(lines, DropCR(SubSeq(sbuf, 1, i - 1)))
           /\ sbuf' = SubSeq(sbuf, i + 1, Len(sbuf))
    /\ sending' = TRUE
    /\ UNCHANGED <<stream, api, pos, dbuf, scanner, stalled>>

\* Mutant: what does not fit is not kept.
Forget(n) == dbuf' = <<>>
KeepRest(n) == dbuf' = SubSeq(dbuf, n + 1, Len(dbuf))

\* Mutant: the scanner's buffer grows without limit.
Unlimited(n) == TRUE
Room(n) == Len(sbuf) + n <= MaxToken

\* Read serves what is left of the last payload, as far as there is room: the
\* scanner's buffer grows to MaxToken, in steps left open here.
ServeLeftover ==
    /\ Scanning /\ NoLine
    /\ dbuf # <<>>
    /\ \E n \in 1..Len(dbuf) :
         /\ Room(n)
         /\ sbuf' = sbuf \o SubSeq(dbuf, 1, n)
         /\ KeepRest(n)
    /\ UNCHANGED <<stream, api, pos, lines, scanner, taker>>

PayloadEnd == pos + HeaderLen + wire[pos + HeaderLen]
FrameHere == pos + HeaderLen <= Len(wire) /\ PayloadEnd <= Len(wire)

\* Read takes the next frame whole; an empty one makes it read on.
ReadFrame ==
    /\ Scanning /\ NoLine
    /\ dbuf = <<>> /\ Len(sbuf) < MaxToken
    /\ FrameHere
    /\ dbuf' = SubSeq(wire, pos + HeaderLen + 1, PayloadEnd)
    /\ pos' = PayloadEnd
    /\ UNCHANGED <<stream, api, sbuf, lines, scanner, taker>>

\* Read fails, at the end of the stream or inside a frame: what the buffer
\* holds is the last line.
ReadFails ==
    /\ Scanning /\ NoLine
    /\ dbuf = <<>> /\ Len(sbuf) < MaxToken
    /\ ~FrameHere
    /\ scanner' = "ended"
    /\ lines' = IF sbuf = <<>> THEN lines ELSE Append(lines, DropCR(sbuf))
    /\ sending' = (sbuf # <<>>)
    /\ sbuf' = <<>>
    /\ UNCHANGED <<stream, api, pos, dbuf, stalled>>

\* The buffer is full and holds no line: bufio.ErrTooLong, and the goroutine
\* ends although the container goes on.
TooLong ==
    /\ Scanning /\ NoLine
    /\ Len(sbuf) = MaxToken
    /\ scanner' = "tooLong"
    /\ UNCHANGED <<stream, api, pos, dbuf, sbuf, lines, taker>>

-----------------------------------------------------------------------------
(* Who takes the text. *)

\* The write, or the send, returns.
Sent ==
    /\ sending /\ ~stalled
    /\ sending' = FALSE
    /\ UNCHANGED <<stream, api, pos, reader, stalled>>

\* The client reads no more, or again; the output channel is full, or not.
TakerStalls ==
    /\ sending
    /\ stalled' = ~stalled
    /\ UNCHANGED <<stream, api, pos, reader, sending>>

-----------------------------------------------------------------------------
Reader == ScanLine \/ ServeLeftover \/ ReadFrame \/ ReadFails \/ TooLong
LiveHandler == (\E n \in 1..Len(wire) : ReadChunk(n)) \/ ReadEnds

Next == Request \/ LiveHandler \/ ClientGone \/ Reader \/ Sent \/ TakerStalls

Spec == Init /\ [][Next]_vars

\* The goroutines that read go on reading, but a write or a send returns only
\* when the text is taken, and nothing makes the taker take it.
FairSpec == Spec /\ WF_vars(Reader) /\ WF_vars(LiveHandler) /\ WF_vars(Sent)

-----------------------------------------------------------------------------
TypeOK ==
    /\ frames \in Seq(Frames)
    /\ tty \in BOOLEAN
    /\ wire \in Seq(Nat)
    /\ intact \in BOOLEAN
    /\ consumer \in {"api", "collector"}
    /\ request.handler \in Handlers \union {"none"}
    /\ status \in {0, 101, 200, 307, 400, 404, 500, 1000, 1006, 1011}
    /\ pos \in 0..Len(wire)
    /\ view \in Seq(Nat)
    /\ cutHeader \in BOOLEAN /\ cutFrame \in BOOLEAN
    /\ dbuf \in Seq(Nat)
    /\ sbuf \in Seq(Nat) /\ Len(sbuf) <= MaxToken
    /\ lines \in Seq(Seq(Nat))
    /\ scanner \in {"scan", "ended", "tooLong"}
    /\ sending \in BOOLEAN /\ stalled \in BOOLEAN

\* The documented paths reach their handlers and name the container, with the
\* exceptions the order and the wording of main's tests make: a container
\* called stats, or by a name that begins with logs, cannot be inspected.
DocumentedPathsWork ==
    /\ \A d \in OtherDocumented : Route(d.path) = d.handler
    /\ \A id \in Ids : \A d \in Documented(id) :
         request.path = d.path =>
           \/ request.handler = d.handler /\ IdOf(d.handler, d.path) = id
           \/ d.handler = "GetContainer" /\ id \in LogsNames \union {"stats"}

\* The payload of the frames that are whole on the wire.
WholeFrames ==
    LET ends == {p \in 0..Len(wire) : FrameEnds(p)}
    IN  TextIn(SubSeq(Layout, 1, CHOOSE p \in ends : \A q \in ends : q <= p))

\* GetContainerLogs answers with what the container wrote, without headers.
FetchIsExact ==
    request.handler = "GetContainerLogs" /\ status = 200 /\ ~tty =>
        view = WholeFrames

\* a is b with some elements left out.
IsSubsequence(a, b) ==
    FoldLeft(LAMBDA k, x : IF k < Len(a) /\ a[k + 1] = x THEN k + 1 ELSE k,
             0, b) = Len(a)

\* Whatever the sizes of its reads, the live view loses no text unless a read
\* ends inside a header; it shows nothing else while reads end with frames
\* that hold text, and for a container with a terminal.
LiveViewKeepsText ==
    request.handler = "LogStream" =>
        LET text == TextIn(SubSeq(Layout, 1, pos))
        IN  /\ ~cutHeader => IsSubsequence(text, view)
            /\ tty \/ ~cutFrame => view = text

\* The lines of a text: those that end, and the rest.
LinesOf(text) ==
    LET step(acc, b) == IF b = Newline
                          THEN [ended |-> Append(acc.ended, acc.rest),
                                rest |-> <<>>]
                          ELSE [acc EXCEPT !.rest = Append(@, b)]
    IN  FoldLeft(step, [ended |-> <<>>, rest |-> <<>>], text)

Trimmed(ls) == [i \in 1..Len(ls) |-> DropCR(ls[i])]

\* However payloads split lines and the scanner's buffer splits payloads, the
\* lines it returns are the container's, each without the carriage return it
\* may end with, in order; at the end of the stream all of them, and the
\* unfinished one.  Only a line too long for the buffer stops it before, at
\* that line.
LinesAreExact ==
    consumer = "collector" /\ ~tty =>
        LET all == LinesOf(WholeFrames)
            unfinished == IF all.rest = <<>> THEN <<>> ELSE <<all.rest>>
        IN  CASE scanner = "scan" -> IsPrefix(lines, Trimmed(all.ended))
              [] scanner = "ended" -> lines = Trimmed(all.ended \o unfinished)
              [] scanner = "tooLong" ->
                   /\ IsPrefix(lines, Trimmed(all.ended))
                   /\ IsPrefix(sbuf, (all.ended \o unfinished)[Len(lines) + 1])

\* The reader's goroutine has not returned.
Following == consumer = "collector" /\ (scanner = "scan" \/ sending)

\* The end of the stream ends the live handler and the reader (handler.go,
\* lines 90-92: looping here spun forever on EOF), whatever the pauses of who
\* takes the text, as long as it does not stop for good.
ReadersEnd ==
    <>[]~stalled => /\ status = 101 ~> status # 101
                    /\ Following ~> ~Following
=============================================================================
