\* Four groups of lines (two names, two messages) compete for four characters
\* of prompt; a severe message that is repeated is longer than that alone.
\* Three rows exceed every limit.
CONSTANTS
    Ids = {1, 2}
    Names = {"web", "db"}
    Messages <- TestMessages
    Keep = 1
    SearchDefault = 1
    SearchMax = 2
    MaxTime = 2
    MaxRows = 3
    DefaultHours = 1
    DefaultLimit = 2
    MaxLimit = 2
    Budget = 4
    Suffix = 1
    PromptLines = 2
    Requests <- TestRequests
SPECIFICATION Spec
INVARIANTS
    TypeOK
    SummaryOfOneContainer
    FetchIsBounded
    PromptKeepsWorst
CHECK_DEADLOCK FALSE
