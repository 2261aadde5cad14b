\* Headers of three bytes; a text of one or two bytes makes a length that looks
\* like a stream type, and a line of four bytes is too long for the scanner.
CONSTANTS
    Ids = {"web", "logstash", "logs", "stats"}
    LogsNames = {"logs", "logstash"}
    HeaderLen = 3
    MaxToken = 3
    Payloads <- TestPayloads
    MaxFrames = 2
SPECIFICATION FairSpec
INVARIANTS
    TypeOK
    DocumentedPathsWork
    FetchIsExact
    LiveViewKeepsText
    LinesAreExact
PROPERTY
    ReadersEnd
CHECK_DEADLOCK FALSE
