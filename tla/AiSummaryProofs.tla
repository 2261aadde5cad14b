-------------------------- MODULE AiSummaryProofs --------------------------
(***************************************************************************)
(* Proofs about the queries behind the search and the summaries, for any   *)
(* containers, names, messages, limits and requests: how many lines they   *)
(* return, whose lines they are, and what of them the prompt keeps.        *)
(***************************************************************************)
EXTENDS AiSummary, DataInduction

\* A limit that is no negative number bounds what is left of a sequence.
LEMMA LimitedLength ==
  ASSUME NEW S, NEW s \in Seq(S), NEW limit \in Nat
  PROVE  Limited(s, limit) \in Seq(S) /\ Len(Limited(s, limit)) <= limit
<1>1. CASE limit > Len(s)
  BY <1>1 DEF Limited
<1>2. CASE limit <= Len(s)
  <2>1. /\ SubSeq(s, 1, limit) \in Seq(S)
        /\ Len(SubSeq(s, 1, limit)) = limit
    BY <1>2
  <2> QED
    BY <1>2, <2>1 DEF Limited
<1> QED
  BY <1>1, <1>2

\* The answers of a query about finitely many rows are rows, even without a
\* limit.
LEMMA AnswersType ==
  ASSUME NEW rows, IsFiniteSet(rows), NEW limit \in Int,
         NEW a \in Answers(rows, limit)
  PROVE  a \in Seq(rows)
<1>1. PICK s \in NewestFirst(rows) : a = Limited(s, limit)
  BY DEF Answers
<1>2. s \in [1..Cardinality(rows) -> rows]
  BY DEF NewestFirst, SetToSeqs
<1>3. Cardinality(rows) \in Nat
  BY FS_CardinalityType
<1>4. s \in Seq(rows)
  BY <1>2, <1>3
<1>5. CASE limit < 0
  BY <1>1, <1>4, <1>5 DEF Limited
<1>6. CASE limit >= 0
  BY <1>1, <1>4, <1>6, LimitedLength
<1> QED
  BY <1>5, <1>6

\* They keep a limit that is no negative number.
LEMMA AnswersLength ==
  ASSUME NEW rows, IsFiniteSet(rows), NEW limit \in Nat,
         NEW a \in Answers(rows, limit)
  PROVE  a \in Seq(rows) /\ Len(a) <= limit
<1>1. PICK s \in NewestFirst(rows) : a = Limited(s, limit)
  BY DEF Answers
<1>2. s \in [1..Cardinality(rows) -> rows]
  BY DEF NewestFirst, SetToSeqs
<1>3. Cardinality(rows) \in Nat
  BY FS_CardinalityType
<1>4. s \in Seq(rows)
  BY <1>2, <1>3
<1> QED
  BY <1>1, <1>4, LimitedLength

\* The two limits, as far as a client's limit is no negative number.
LEMMA LimitsAreBounds ==
  ASSUME NEW l \in Int
  PROVE  /\ SearchLimit(l) \in 0..SearchMax
         /\ l >= 0 => Limit(l) \in 0..MaxLimit
BY LimitsAssumption, SummaryAssumption DEF SearchLimit, Limit

-----------------------------------------------------------------------------
\* The table is finite, nothing is in it from the future, and a request under
\* way is what it was when it arrived.
StoreInv ==
    /\ now \in Nat
    /\ DOMAIN containers \subseteq Ids /\ IsFiniteSet(DOMAIN containers)
    /\ IsFiniteSet(logEntries)
    /\ \A r \in logEntries : /\ r.message \in Messages
                             /\ r.at \in Nat /\ r.at <= now
RequestInv ==
    /\ rpc = "idle" => logs = <<>>
    /\ rpc # "idle" => request \in Requests
    /\ rpc \in {"lookup", "fetch"} => request.kind = "container"

\* The store stays finite and without rows from the future.
LEMMA StoreInvariant == Spec => []StoreInv
<1>1. Init => StoreInv
  BY FS_EmptySet DEF Init, StoreInit, StoreInv
<1>2. StoreInv /\ [Next]_vars => StoreInv'
  <2> SUFFICES ASSUME StoreInv, [Next]_vars PROVE StoreInv'
    OBVIOUS
  <2> USE DEF StoreInv
  <2>1. CASE UNCHANGED store
    BY <2>1 DEF store
  <2>2. CASE Tick
    BY <2>2 DEF Tick
  <2>3. CASE Retention
    <3>1. logEntries' \in SUBSET logEntries
      BY <2>3 DEF Retention
    <3>2. IsFiniteSet(logEntries')
      BY <3>1, FS_Subset
    <3> QED
      BY <2>3, <3>1, <3>2 DEF Retention
  <2>4. ASSUME NEW i \in Ids, NEW n \in Names, Upsert(i, n)
        PROVE  StoreInv'
    <3>1. DOMAIN containers' = DOMAIN containers \union {i}
      BY <2>4 DEF Upsert
    <3>2. IsFiniteSet(DOMAIN containers')
      BY <3>1, FS_AddElement
    <3> QED
      BY <2>4, <3>1, <3>2 DEF Upsert
  <2>5. ASSUME NEW i \in Ids, NEW m \in Messages, InsertLog(i, m)
        PROVE  StoreInv'
    <3> DEFINE row == [id |-> nextId, container |-> i, message |-> m,
                       at |-> now]
    <3>1. logEntries' = logEntries \union {row} /\ now' = now
          /\ containers' = containers
      BY <2>5 DEF InsertLog
    <3>2. row.message = m /\ row.at = now
      OBVIOUS
    <3> HIDE DEF row
    <3>3. IsFiniteSet(logEntries')
      BY <3>1, FS_AddElement
    <3> QED
      BY <3>1, <3>2, <3>3
  <2> QED
    BY <2>1, <2>2, <2>3, <2>4, <2>5
       DEF Next, StoreNext, Arrive, Query, LookUp, Fetch, QueryFails,
           BuildPrompt, CallReturns, CallTimesOut, vars
<1> QED
  BY <1>1, <1>2, PTL DEF Spec

\* A request stays what it was when it arrived.
LEMMA RequestInvariant == Spec => []RequestInv
<1>1. Init => RequestInv
  BY DEF Init, RequestInv
<1>2. RequestInv /\ [Next]_vars => RequestInv'
  <2> SUFFICES ASSUME RequestInv, [Next]_vars PROVE RequestInv'
    OBVIOUS
  <2> USE DEF RequestInv, Respond, Goto
  <2>1. CASE Arrive
    <3>1. request' \in Requests /\ rpc' # "idle"
      BY <2>1, RequestsAssumption DEF Arrive
    <3>2. rpc' \in {"lookup", "fetch"} => request'.kind = "container"
      BY <2>1, <3>1 DEF Arrive
    <3> QED
      BY <3>1, <3>2
  <2>2. CASE Query \/ LookUp \/ Fetch \/ QueryFails
    BY <2>2 DEF Query, LookUp, Fetch, QueryFails
  <2>3. CASE BuildPrompt \/ CallReturns \/ CallTimesOut
    BY <2>3 DEF BuildPrompt, CallReturns, CallTimesOut
  <2>4. CASE UNCHANGED <<request, rpc, logs>>
    BY <2>4
  <2> QED
    BY <2>1, <2>2, <2>3, <2>4 DEF Next, vars
<1> QED
  BY <1>1, <1>2, PTL DEF Spec

\* No query returns more lines than its limit allows, unless a client of a
\* summary asks with a negative one.
THEOREM FetchesAreBounded == Spec => []FetchIsBounded
<1>1. Init => FetchIsBounded
  <2>1. Init => Len(logs) = 0
    BY DEF Init
  <2> QED
    BY <2>1, LimitsAssumption, SummaryAssumption
       DEF Init, FetchIsBounded
<1>2. StoreInv /\ RequestInv /\ FetchIsBounded /\ [Next]_vars
        => FetchIsBounded'
  <2> SUFFICES ASSUME StoreInv, RequestInv, FetchIsBounded, [Next]_vars
               PROVE  FetchIsBounded'
    OBVIOUS
  <2> USE DEF RequestInv, FetchIsBounded, Respond, Goto
  <2>1. CASE Arrive
    <3>1. logs' = <<>> /\ Len(logs') = 0
      BY <2>1 DEF Arrive
    <3> QED
      BY <3>1, LimitsAssumption, SummaryAssumption
  <2>2. CASE Query
    <3>1. request \in Requests /\ request.limit \in Int
          /\ request' = request /\ rpc' \in {"done", "prompt"}
      BY <2>2, RequestsAssumption DEF Query
    <3>2. ASSUME NEW rows, IsFiniteSet(rows), NEW l \in Nat,
                 NEW a \in Answers(rows, l)
          PROVE  Len(Lines(a)) <= l
      <4>1. a \in Seq(rows) /\ Len(a) <= l
        BY <3>2, AnswersLength
      <4>2. Len(Lines(a)) = Len(a)
        BY <4>1 DEF Lines
      <4> QED
        BY <4>1, <4>2
    <3>3. CASE request.kind = "search"
      <4> DEFINE rows == Found(request.word, request.name, request.from,
                               request.to)
      <4>1. PICK a \in Answers(rows, SearchLimit(request.limit)) :
              logs' = Lines(a)
        BY <2>2, <3>3 DEF Query, SearchLogs
      <4>2. IsFiniteSet(rows)
        BY FS_Subset DEF StoreInv, Found, Joined
      <4>3. SearchLimit(request.limit) \in 0..SearchMax
        BY <3>1, LimitsAreBounds
      <4> HIDE DEF rows
      <4>4. Len(logs') <= SearchLimit(request.limit)
        BY <3>2, <4>1, <4>2, <4>3
      <4>5. SearchLimit(request.limit) <= SearchMax
            /\ SearchLimit(request.limit) \in Int /\ SearchMax \in Int
        BY <4>3, LimitsAssumption
      <4>6. Len(logs') \in Int
        BY <4>1, <4>2, <4>3, AnswersLength DEF Lines
      <4> QED
        BY <3>1, <3>3, <4>4, <4>5, <4>6
    <3>4. CASE request.kind = "all" /\ request.limit >= 0
      <4> DEFINE rows == {r \in Joined : r.at >= since}
      <4>1. PICK a \in Answers(rows, Limit(request.limit)) : logs' = Lines(a)
        BY <2>2, <3>4 DEF Query, GetLogsSince
      <4>2. IsFiniteSet(rows)
        BY FS_Subset DEF StoreInv, Joined
      <4>3. Limit(request.limit) \in 0..MaxLimit
        BY <3>1, <3>4, LimitsAreBounds
      <4> HIDE DEF rows
      <4>4. Len(logs') <= Limit(request.limit)
        BY <3>2, <4>1, <4>2, <4>3
      <4>5. Limit(request.limit) <= MaxLimit
            /\ Limit(request.limit) \in Int /\ MaxLimit \in Int
        BY <4>3, SummaryAssumption
      <4>6. Len(logs') \in Int
        BY <4>1, <4>2, <4>3, AnswersLength DEF Lines
      <4> QED
        BY <3>1, <3>4, <4>4, <4>5, <4>6
    <3>5. CASE request.kind = "all" /\ request.limit < 0
      BY <3>1, <3>5
    <3> QED
      BY <2>2, <3>1, <3>3, <3>4, <3>5 DEF Query
  <2>3. CASE LookUp
    BY <2>3 DEF LookUp
  <2>4. CASE Fetch
    <3>1. request \in Requests /\ request.limit \in Int
          /\ request.kind = "container"
          /\ request' = request /\ rpc' \in {"done", "prompt"}
      BY <2>4, RequestsAssumption DEF Fetch
    <3>2. CASE request.limit >= 0
      <4> DEFINE rows == OfContainer(found, since)
      <4>1. PICK a \in Answers(rows, Limit(request.limit)) :
              logs' = [i \in DOMAIN a |-> [name |-> request.name,
                                           message |-> a[i].message]]
        BY <2>4 DEF Fetch, SelectById
      <4>2. IsFiniteSet(rows)
        BY FS_Subset DEF StoreInv, OfContainer
      <4>3. Limit(request.limit) \in 0..MaxLimit
        BY <3>1, <3>2, LimitsAreBounds
      <4> HIDE DEF rows
      <4>4. a \in Seq(rows) /\ Len(a) <= Limit(request.limit)
        BY <4>1, <4>2, <4>3, AnswersLength
      <4>5. Len(logs') = Len(a)
        BY <4>1, <4>4
      <4>6. Len(logs') <= MaxLimit
        BY <4>3, <4>4, <4>5, SummaryAssumption
      <4>7. Len(logs') \in Int /\ MaxLimit \in Int
        BY <4>4, <4>5, SummaryAssumption
      <4> QED
        BY <3>1, <4>6, <4>7
    <3>3. CASE request.limit < 0
      BY <3>1, <3>3
    <3> QED
      BY <3>1, <3>2, <3>3
  <2>5. CASE QueryFails
    BY <2>5 DEF QueryFails
  <2>6. CASE BuildPrompt
    BY <2>6 DEF BuildPrompt
  <2>7. CASE CallReturns \/ CallTimesOut
    BY <2>7 DEF CallReturns, CallTimesOut
  <2>8. CASE UNCHANGED <<request, rpc, logs>>
    BY <2>8
  <2> QED
    BY <2>1, <2>2, <2>3, <2>4, <2>5, <2>6, <2>7, <2>8 DEF Next, vars
<1> QED
  BY <1>1, <1>2, StoreInvariant, RequestInvariant, PTL DEF Spec

-----------------------------------------------------------------------------
\* First finds a row whenever there is one.
LEMMA FirstIsNamed ==
  ASSUME NEW S, S \subseteq Nat, S # {}
  PROVE  Min(S) \in S
<1>1. PICK x \in S : \A y \in S : x <= y
  BY LeastElement
<1> QED
  BY <1>1 DEF Min

\* The answer of a query is the newest of its rows, each once, and all of them
\* unless its limit cuts them.
LEMMA AnswerIsNewest ==
  ASSUME NEW R, IsFiniteSet(R), NEW limit \in Int, NEW a \in Answers(R, limit)
  PROVE  /\ a \in Seq(R)
         /\ ShowsNewest(a, R, limit)
<1> DEFINE n == Cardinality(R)
<1>1. PICK s \in NewestFirst(R) : a = Limited(s, limit)
  BY DEF Answers
<1>2. /\ s \in [1..n -> R]
      /\ \A i, j \in 1..n : i # j => s[i] # s[j]
      /\ \A i, j \in 1..n : i < j => s[i].at >= s[j].at
  BY DEF NewestFirst, SetToSeqs
<1>3. n \in Nat /\ IsFiniteSet(1..n) /\ Cardinality(1..n) = n
  <2>1. n \in Nat
    BY FS_CardinalityType
  <2> HIDE DEF n
  <2> QED
    BY <2>1, FS_Interval
<1>4. \A g \in R : \E i \in 1..n : s[i] = g
  <2>1. s \in Injection(1..n, R)
    BY <1>2 DEF Injection, IsInjective
  <2>2. s \in Surjection(1..n, R)
    BY <1>3, <2>1, FS_Injection DEF n
  <2> QED
    BY <2>2 DEF Surjection
<1> HIDE DEF n
<1>5. s \in Seq(R) /\ Len(s) = n
  BY <1>2, <1>3
<1> DEFINE k == Len(a)
<1>6. /\ a \in Seq(R) /\ k \in 0..n /\ DOMAIN a = 1..k
      /\ \A i \in 1..k : a[i] = s[i]
      /\ k = n \/ k = limit
  <2>1. CASE limit < 0 \/ limit > n
    BY <1>1, <1>3, <1>5, <2>1 DEF Limited
  <2>2. CASE limit \in 0..n
    <3>1. a = SubSeq(s, 1, limit)
      <4>1. ~(limit < 0 \/ limit > Len(s))
        BY <1>3, <1>5, <2>2
      <4> QED
        BY <1>1, <4>1 DEF Limited
    <3>2. /\ SubSeq(s, 1, limit) \in Seq(R)
          /\ Len(SubSeq(s, 1, limit)) = limit
          /\ \A i \in 1..limit : SubSeq(s, 1, limit)[i] = s[i]
      BY <1>3, <1>5, <2>2
    <3> QED
      BY <1>3, <2>2, <3>1, <3>2
  <2> QED
    BY <1>3, <2>1, <2>2
<1> HIDE DEF k
<1> DEFINE newest == {s[i] : i \in 1..k}
<1>7. k \in Nat /\ \A i \in 1..k : i \in 1..n
  BY <1>3, <1>6
<1>8. newest \in SUBSET R
  BY <1>2, <1>7
<1>9. ASSUME NEW m \in Messages
      PROVE  Cardinality({i \in DOMAIN a : a[i].message = m})
             = Cardinality({r \in newest : r.message = m})
  <2> DEFINE A == {i \in 1..k : s[i].message = m}
             B == {r \in newest : r.message = m}
             f == [i \in A |-> s[i]]
  <2>1. {i \in DOMAIN a : a[i].message = m} = A
    BY <1>6
  <2>2. f \in Bijection(A, B)
    <3>1. f \in [A -> B]
      OBVIOUS
    <3>2. \A i, j \in A : f[i] = f[j] => i = j
      BY <1>2, <1>7
    <3>3. \A r \in B : \E i \in A : f[i] = r
      OBVIOUS
    <3> HIDE DEF A, B, f
    <3> QED
      BY <3>1, <3>2, <3>3 DEF Bijection, Injection, Surjection, IsInjective
  <2>3. IsFiniteSet(A)
    <3>1. IsFiniteSet(1..k)
      BY <1>7, FS_Interval
    <3> QED
      BY <3>1, FS_Subset
  <2> HIDE DEF A, B, f
  <2>4. ExistsBijection(A, B)
    BY <2>2 DEF ExistsBijection
  <2>5. Cardinality(A) = Cardinality(B)
    BY <2>3, <2>4, FS_Bijection
  <2> QED
    BY <2>1, <2>5 DEF B
<1>10. ASSUME NEW r \in newest, NEW q \in R \ newest
       PROVE  r.at >= q.at
  <2>1. PICK i \in 1..k : s[i] = r
    OBVIOUS
  <2>2. PICK j \in 1..n : s[j] = q
    BY <1>4
  <2>3. j \notin 1..k
    BY <2>2
  <2> HIDE DEF newest
  <2>4. i \in 1..n /\ i < j
    BY <1>3, <1>7, <2>3
  <2> QED
    BY <1>2, <2>1, <2>2, <2>4
<1>11. newest = R \/ k = limit
  <2>1. CASE k = n
    BY <1>4, <1>8, <2>1
  <2> QED
    BY <1>6, <2>1
<1> HIDE DEF newest
<1> QED
  BY <1>6, <1>8, <1>9, <1>10, <1>11 DEF k, ShowsNewest

\* Fetch works on a container that had the name, and an answer ends a request.
LookUpInv ==
    /\ rpc = "fetch" => found \in namesakes
    /\ reply = "noLogs" => rpc = "done"

\* A summary is about one container that had the name when it was looked up, its
\* newest lines, each as often as it was logged, and all of them unless the
\* limit cuts them: whatever is renamed between the two queries, and however
\* many containers have the name.
THEOREM SummariesAreOfOneContainer == Spec => []SummaryOfOneContainer
<1>1. Init => LookUpInv /\ SummaryOfOneContainer
  <2> SUFFICES ASSUME Init PROVE LookUpInv /\ SummaryOfOneContainer
    OBVIOUS
  <2>1. rpc = "idle" /\ reply = "none"
    BY DEF Init
  <2> QED
    BY <2>1 DEF LookUpInv, SummaryOfOneContainer, ContainerFetched
<1>2. StoreInv /\ RequestInv /\ LookUpInv /\ SummaryOfOneContainer
      /\ [Next]_vars
        => LookUpInv' /\ SummaryOfOneContainer'
  <2> SUFFICES ASSUME StoreInv, RequestInv, LookUpInv, SummaryOfOneContainer,
                      [Next]_vars
               PROVE  LookUpInv' /\ SummaryOfOneContainer'
    OBVIOUS
  <2>1. ASSUME ~ContainerFetched' PROVE SummaryOfOneContainer'
    BY <2>1 DEF SummaryOfOneContainer
  <2>2. ASSUME UNCHANGED <<logEntries, request, since, namesakes, logs>>,
               ContainerFetched' => ContainerFetched
        PROVE  SummaryOfOneContainer'
    <3>1. logEntries' = logEntries /\ request' = request /\ since' = since
          /\ namesakes' = namesakes /\ logs' = logs
      BY <2>2
    <3> DEFINE Shown(names, rows, from, lines, limit) ==
                 \E i \in names :
                   ShowsNewest(lines,
                               {r \in rows : r.container = i /\ r.at >= from},
                               limit)
               Limit0(l) == IF l = 0 \/ l > MaxLimit THEN DefaultLimit ELSE l
    <3>2. ContainerFetched =>
            Shown(namesakes, logEntries, since, logs, Limit0(request.limit))
      BY Zenon DEF SummaryOfOneContainer, OfContainer, Limit
    <3>3. Shown(namesakes', logEntries', since', logs', Limit0(request'.limit))
            => SummaryOfOneContainer'
      BY Zenon DEF SummaryOfOneContainer, OfContainer, Limit
    <3> HIDE DEF Shown, Limit0
    <3> QED
      BY <2>1, <2>2, <3>1, <3>2, <3>3
  <2>3. CASE Arrive
    <3>1. rpc' \in {"done", "lookup", "query"} /\ reply' # "noLogs"
      BY <2>3 DEF Arrive, Respond, Goto, LookUpInv
    <3> QED
      BY <2>1, <3>1 DEF LookUpInv, ContainerFetched
  <2>4. CASE Query
    <3>1. request'.kind # "container" /\ rpc' # "fetch"
          /\ (reply' = "noLogs" => rpc' = "done")
      BY <2>4 DEF Query, Respond, Goto, LookUpInv
    <3> QED
      BY <2>1, <3>1 DEF LookUpInv, ContainerFetched
  <2>5. CASE LookUp
    <3>1. rpc' \in {"done", "fetch"} /\ reply' # "noLogs"
      BY <2>5 DEF LookUp, Respond, Goto, LookUpInv
    <3>2. rpc' = "fetch" => found' \in namesakes'
      <4>1. SUFFICES ASSUME rpc' = "fetch" PROVE found' \in namesakes'
        OBVIOUS
      <4>2. /\ Named(request.name) # {} /\ namesakes' = Named(request.name)
            /\ found' = FirstByName(request.name)
        BY <2>5, <4>1 DEF LookUp, Respond, Goto
      <4>3. Named(request.name) \subseteq Nat
        BY IdsAssumption DEF Named, StoreInv
      <4> QED
        BY <4>2, <4>3, FirstIsNamed DEF FirstByName
    <3> QED
      BY <2>1, <3>1, <3>2 DEF LookUpInv, ContainerFetched
  <2>6. CASE Fetch
    <3> DEFINE all == OfContainer(found, since)
               limit == Limit(request.limit)
    <3>1. PICK a \in Answers(all, limit) :
            logs' = [i \in DOMAIN a |-> [name |-> request.name,
                                         message |-> a[i].message]]
      BY <2>6 DEF Fetch, SelectById
    <3>2. /\ found \in namesakes /\ request \in Requests
          /\ UNCHANGED <<logEntries, request, since, found, namesakes>>
      BY <2>6 DEF Fetch, LookUpInv, RequestInv, store, lookup
    <3>3. limit \in Int
      BY <3>2, RequestsAssumption, SummaryAssumption DEF Limit
    <3>4. IsFiniteSet(all)
      BY FS_Subset DEF StoreInv, OfContainer
    <3>5. all' = all /\ limit' = limit
      BY <3>2 DEF OfContainer, Limit
    <3> HIDE DEF all, limit
    <3>6. a \in Seq(all) /\ ShowsNewest(a, all, limit)
      BY <3>1, <3>3, <3>4, AnswerIsNewest, Zenon
    <3>7. DOMAIN logs' = DOMAIN a /\ Len(logs') = Len(a)
          /\ \A k \in DOMAIN a : logs'[k].message = a[k].message
      BY <3>1, <3>6
    <3>8. \A m : {k \in DOMAIN logs' : logs'[k].message = m}
                = {k \in DOMAIN a : a[k].message = m}
      BY <3>7
    <3>9. ShowsNewest(logs', all, limit)
      <4>1. PICK newest \in SUBSET all :
              /\ \A m \in Messages :
                   Cardinality({k \in DOMAIN a : a[k].message = m})
                   = Cardinality({r \in newest : r.message = m})
              /\ \A r \in newest, q \in all \ newest : r.at >= q.at
              /\ newest = all \/ Len(a) = limit
        BY <3>6, Zenon DEF ShowsNewest
      <4>2. \A m \in Messages :
              Cardinality({k \in DOMAIN logs' : logs'[k].message = m})
              = Cardinality({r \in newest : r.message = m})
        BY <3>8, <4>1
      <4>3. newest = all \/ Len(logs') = limit
        BY <3>7, <4>1
      <4> QED
        BY <4>1, <4>2, <4>3, Zenon DEF ShowsNewest
    <3>10. all' = OfContainer(found, since)' /\ limit' = Limit(request.limit)'
      BY DEF all, limit
    <3>11. SummaryOfOneContainer'
      BY <3>2, <3>5, <3>9, <3>10 DEF SummaryOfOneContainer
    <3>12. LookUpInv'
      BY <2>6 DEF Fetch, Respond, Goto, LookUpInv
    <3> QED
      BY <3>11, <3>12
  <2>7. CASE QueryFails
    <3>1. rpc' = "done" /\ reply' = "error"
      BY <2>7 DEF QueryFails, Respond
    <3> QED
      BY <2>1, <3>1 DEF LookUpInv, ContainerFetched
  <2>8. CASE BuildPrompt
    <3>1. /\ rpc = "prompt" /\ rpc' = "call" /\ reply' = reply
          /\ UNCHANGED <<logEntries, request, since, namesakes, logs>>
      BY <2>8 DEF BuildPrompt, Goto, store, lookup
    <3> QED
      BY <2>2, <3>1 DEF LookUpInv, ContainerFetched
  <2>9. CASE CallReturns \/ CallTimesOut
    <3>1. rpc' = "done" /\ reply' # "noLogs"
      BY <2>9 DEF CallReturns, CallTimesOut, Respond
    <3> QED
      BY <2>1, <3>1 DEF LookUpInv, ContainerFetched
  <2>10. CASE /\ rpc \in {"idle", "query", "lookup", "fetch"}
              /\ UNCHANGED <<request, rpc, since, lookup, logs, prompt, reply>>
    BY <2>1, <2>10 DEF LookUpInv, ContainerFetched, lookup
  <2>11. CASE UNCHANGED vars
    BY <2>2, <2>11 DEF vars, store, lookup, LookUpInv, ContainerFetched
  <2> QED
    BY <2>3, <2>4, <2>5, <2>6, <2>7, <2>8, <2>9, <2>10, <2>11 DEF Next
<1> QED
  BY <1>1, <1>2, StoreInvariant, RequestInvariant, PTL DEF Spec

-----------------------------------------------------------------------------
(* The loop over the ranked groups, for any set G of groups whose lengths are *)
(* naturals.                                                                  *)

\* What the loop keeps: the lines so far, their length, and whether it goes on.
Loops(G) == [lines : Seq(G), length : Nat, open : BOOLEAN]

\* A turn of the loop stays in Loops(G).
LEMMA TakeType ==
  ASSUME NEW G, \A g \in G : LineLength(g) \in Nat,
         NEW acc \in Loops(G), NEW g \in G
  PROVE  Take(acc, g) \in Loops(G)
<1>1. LineLength(g) \in Nat /\ acc.lines \in Seq(G) /\ acc.length \in Nat
  BY DEF Loops
<1>2. Append(acc.lines, g) \in Seq(G) /\ <<g>> \in Seq(G)
  BY <1>1
<1>3. CASE ~acc.open
  BY <1>3 DEF Take
<1>4. CASE acc.open /\ acc.length + LineLength(g) <= Budget
  <2>1. Take(acc, g) = [acc EXCEPT !.lines = Append(@, g),
                                   !.length = @ + LineLength(g)]
    BY <1>4 DEF Take
  <2>2. acc.length + LineLength(g) \in Nat
    BY <1>1
  <2> QED
    BY <1>2, <2>1, <2>2 DEF Loops
<1>5. CASE acc.open /\ ~(acc.length + LineLength(g) <= Budget)
  <2> DEFINE last == IF acc.lines = <<>> /\ Severity(g.message) >= 3
                       THEN [acc EXCEPT !.lines = <<g>>] ELSE acc
  <2>1. Take(acc, g) = [last EXCEPT !.open = FALSE]
    BY <1>5 DEF Take, StopHere
  <2>2. last \in Loops(G)
    BY <1>2 DEF Loops
  <2> HIDE DEF last
  <2> QED
    BY <2>1, <2>2 DEF Loops
<1> QED
  BY <1>3, <1>4, <1>5

\* The loop takes the groups one by one.
LEMMA PreparedSteps ==
  ASSUME NEW G, \A g \in G : LineLength(g) \in Nat, NEW s \in Seq(G)
  PROVE  \E f : /\ f[0] = TakeNothing
                /\ \A i \in 1..Len(s) : f[i] = Take(f[i - 1], s[i])
                /\ FoldLeft(Take, TakeNothing, s) = f[Len(s)]
<1> DEFINE n == Len(s)
           Iterates(f) ==
             f = [T \in SUBSET (DOMAIN s) |->
                    IF T = {} THEN TakeNothing
                    ELSE Take(f[T \ {Max(T)}], s[Max(T)])]
           iter == CHOOSE f : Iterates(f)
<1>1. FoldLeft(Take, TakeNothing, s) = iter[DOMAIN s]
  BY DEF FoldLeft, MapThenFoldSet
<1>2. DOMAIN s = 1..n /\ n \in Nat
  OBVIOUS
<1>3. \E f : Iterates(f)
  <2> DEFINE step == [p \in Loops(G) \X (1..n) |-> Take(p[1], s[p[2]])]
  <2>1. n \in Nat /\ \A i \in 1..n : s[i] \in G
    OBVIOUS
  <2>2. step \in [Loops(G) \X (1..n) -> Loops(G)]
    BY <2>1, TakeType
  <2>3. TakeNothing \in Loops(G)
    BY DEF TakeNothing, Loops
  <2> HIDE DEF step, n
  <2>4. PICK f : IsFold(f, n, Loops(G), TakeNothing, step)
    BY <2>1, <2>2, <2>3, FoldExists
  <2>5. ASSUME NEW T \in SUBSET (1..n), T # {}
        PROVE  f[T] = Take(f[T \ {Max(T)}], s[Max(T)])
    <3>1. Max(T) \in 1..n
      <4>1. T \in SUBSET (0..n)
        OBVIOUS
      <4> QED
        BY <2>1, <2>5, <4>1, GreatestElement
    <3>2. f[T \ {Max(T)}] \in Loops(G)
      BY <2>4 DEF IsFold
    <3> QED
      BY <2>4, <2>5, <3>1, <3>2 DEF step, IsFold
  <2>6. Iterates(f)
    BY <1>2, <2>4, <2>5 DEF IsFold
  <2> QED
    BY <2>6
<1>4. Iterates(iter)
  BY <1>3
<1> HIDE DEF iter
<1> DEFINE g == [i \in 0..n |-> iter[1..i]]
<1>5. g[0] = TakeNothing
  BY <1>2, <1>4
<1>6. ASSUME NEW i \in 1..n
      PROVE  g[i] = Take(g[i - 1], s[i])
  <2>1. Max(1..i) = i /\ (1..i) \ {i} = 1..(i - 1)
    BY GreatestOfInterval
  <2>2. 1..i \in SUBSET (DOMAIN s) /\ 1..i # {}
    <3>1. i \in 1..i /\ 1..i \subseteq 1..n
      BY <1>2
    <3> QED
      BY <1>2, <3>1
  <2>3. iter[1..i] = Take(iter[1..(i - 1)], s[i])
    BY <1>4, <2>1, <2>2
  <2> QED
    BY <2>3
<1>7. iter[DOMAIN s] = g[n]
  BY <1>2
<1> HIDE DEF g
<1> QED
  BY <1>1, <1>5, <1>6, <1>7

\* The length of lines is a sum, line by line.
LEMMA TotalLengthSteps ==
  ASSUME NEW G, \A g \in G : LineLength(g) \in Nat, NEW s \in Seq(G)
  PROVE  \E f : /\ f[0] = 0
                /\ \A i \in 1..Len(s) : f[i] = f[i - 1] + LineLength(s[i])
                /\ TotalLength(s) = f[Len(s)]
<1> DEFINE n == Len(s)
           Iterates(f) ==
             f = [T \in SUBSET (DOMAIN s) |->
                    IF T = {} THEN 0
                    ELSE f[T \ {Max(T)}] + LineLength(s[Max(T)])]
           iter == CHOOSE f : Iterates(f)
<1>1. TotalLength(s) = iter[DOMAIN s]
  BY DEF TotalLength, FoldLeft, MapThenFoldSet
<1>2. DOMAIN s = 1..n /\ n \in Nat
  OBVIOUS
<1>3. \E f : Iterates(f)
  <2> DEFINE step == [p \in Nat \X (1..n) |-> p[1] + LineLength(s[p[2]])]
  <2>1. n \in Nat /\ \A i \in 1..n : s[i] \in G
    OBVIOUS
  <2>2. step \in [Nat \X (1..n) -> Nat]
    <3>1. \A i \in 1..n : LineLength(s[i]) \in Nat
      BY <2>1
    <3> QED
      BY <3>1
  <2> HIDE DEF step, n
  <2>3. PICK f : IsFold(f, n, Nat, 0, step)
    BY <2>1, <2>2, FoldExists
  <2>4. ASSUME NEW T \in SUBSET (1..n), T # {}
        PROVE  f[T] = f[T \ {Max(T)}] + LineLength(s[Max(T)])
    <3>1. Max(T) \in 1..n
      <4>1. T \in SUBSET (0..n)
        OBVIOUS
      <4> QED
        BY <2>1, <2>4, <4>1, GreatestElement
    <3>2. f[T \ {Max(T)}] \in Nat
      BY <2>3 DEF IsFold
    <3> QED
      BY <2>3, <2>4, <3>1, <3>2 DEF step, IsFold
  <2>5. Iterates(f)
    BY <1>2, <2>3, <2>4 DEF IsFold
  <2> QED
    BY <2>5
<1>4. Iterates(iter)
  BY <1>3
<1> HIDE DEF iter
<1> DEFINE g == [i \in 0..n |-> iter[1..i]]
<1>5. g[0] = 0
  BY <1>2, <1>4
<1>6. ASSUME NEW i \in 1..n
      PROVE  g[i] = g[i - 1] + LineLength(s[i])
  <2>1. Max(1..i) = i /\ (1..i) \ {i} = 1..(i - 1)
    BY GreatestOfInterval
  <2>2. 1..i \in SUBSET (DOMAIN s) /\ 1..i # {}
    <3>1. i \in 1..i /\ 1..i \subseteq 1..n
      BY <1>2
    <3> QED
      BY <1>2, <3>1
  <2>3. iter[1..i] = iter[1..(i - 1)] + LineLength(s[i])
    BY <1>4, <2>1, <2>2
  <2> QED
    BY <2>3
<1>7. iter[DOMAIN s] = g[n]
  BY <1>2
<1> HIDE DEF g
<1> QED
  BY <1>1, <1>5, <1>6, <1>7

\* No lines have no length, and a line appended counts for its own.
LEMMA TotalLengthAppend ==
  ASSUME NEW G, \A g \in G : LineLength(g) \in Nat,
         NEW s \in Seq(G), NEW x \in G
  PROVE  /\ TotalLength(<<>>) = 0
         /\ TotalLength(Append(s, x)) = TotalLength(s) + LineLength(x)
<1>1. TotalLength(<<>>) = 0
  <2>1. <<>> \in Seq(G) /\ Len(<<>>) = 0
    OBVIOUS
  <2> QED
    BY <2>1, TotalLengthSteps
<1> DEFINE t == Append(s, x)
           n == Len(s)
<1>2. /\ t \in Seq(G)
      /\ Len(t) = n + 1 /\ t[n + 1] = x
      /\ \A i \in 1..n : t[i] = s[i]
      /\ n \in Nat
  OBVIOUS
<1>3. PICK f : /\ f[0] = 0
               /\ \A i \in 1..n : f[i] = f[i - 1] + LineLength(s[i])
               /\ TotalLength(s) = f[n]
  BY TotalLengthSteps
<1> HIDE DEF t
<1>4. PICK g : /\ g[0] = 0
               /\ \A i \in 1..Len(t) : g[i] = g[i - 1] + LineLength(t[i])
               /\ TotalLength(t) = g[Len(t)]
  BY <1>2, TotalLengthSteps
<1>5. \A i \in 1..n : f[i - 1] = g[i - 1] => f[i] = g[i]
  BY <1>2, <1>3, <1>4
<1>6. f[n] = g[n]
  <2>1. n \in Nat /\ f[0] = g[0]
    BY <1>2, <1>3, <1>4
  <2> HIDE DEF n
  <2> QED
    BY <1>5, <2>1, SameSteps
<1>7. g[n + 1] = g[n] + LineLength(x)
  BY <1>2, <1>4
<1> QED
  BY <1>1, <1>2, <1>3, <1>4, <1>6, <1>7 DEF t

-----------------------------------------------------------------------------
(* What the loop returns. *)

\* The lines keep the budget, or are a single severe one.
Budgeted(lines) ==
    \/ TotalLength(lines) <= Budget
    \/ Len(lines) = 1 /\ Severity(lines[1].message) > 2

\* After i turns over s: the lines are the first of s, all i as long as the loop
\* goes on, and they keep the budget.
LoopInv(s, i, acc) ==
    /\ acc.open => /\ acc.lines = SubSeq(s, 1, i)
                   /\ acc.length = TotalLength(acc.lines)
    /\ \E k \in 0..i : acc.lines = SubSeq(s, 1, k)
    /\ Budgeted(acc.lines)

\* A turn of the loop keeps LoopInv.
LEMMA TakeKeepsLoopInv ==
  ASSUME NEW G, \A g \in G : LineLength(g) \in Nat, NEW s \in Seq(G),
         NEW i \in 0..(Len(s) - 1),
         NEW acc \in Loops(G), LoopInv(s, i, acc)
  PROVE  LoopInv(s, i + 1, Take(acc, s[i + 1]))
<1> DEFINE g == s[i + 1]
           new == Take(acc, g)
<1>1. /\ g \in G /\ LineLength(g) \in Nat /\ i \in Nat
      /\ acc.lines \in Seq(G) /\ acc.length \in Nat
  BY DEF Loops
<1>2. Append(SubSeq(s, 1, i), g) = SubSeq(s, 1, i + 1)
  OBVIOUS
<1>3. \E k \in 0..(i + 1) : acc.lines = SubSeq(s, 1, k)
  <2>1. PICK k \in 0..i : acc.lines = SubSeq(s, 1, k)
    BY DEF LoopInv
  <2>2. k \in 0..(i + 1)
    BY <1>1
  <2> QED
    BY <2>1, <2>2
<1>6. CASE ~acc.open
  <2>1. new = acc
    BY <1>6 DEF Take
  <2> QED
    BY <1>3, <1>6, <2>1 DEF LoopInv
<1>4. CASE acc.open /\ acc.length + LineLength(g) <= Budget
  <2>1. new = [acc EXCEPT !.lines = Append(@, g),
                          !.length = @ + LineLength(g)]
    BY <1>4 DEF Take
  <2> HIDE DEF g, new
  <2>2. /\ new.lines = Append(acc.lines, g)
        /\ new.length = acc.length + LineLength(g)
    BY <2>1 DEF Loops
  <2>3. TotalLength(Append(acc.lines, g)) = TotalLength(acc.lines)
                                            + LineLength(g)
    BY <1>1, TotalLengthAppend
  <2>4. /\ new.lines = SubSeq(s, 1, i + 1)
        /\ new.length = TotalLength(new.lines)
        /\ TotalLength(new.lines) <= Budget
    BY <1>2, <1>4, <2>2, <2>3 DEF LoopInv, g
  <2>5. i + 1 \in 0..(i + 1)
    BY <1>1
  <2> QED
    BY <2>4, <2>5 DEF LoopInv, Budgeted, new, g
<1>5. CASE acc.open /\ ~(acc.length + LineLength(g) <= Budget)
  <2> DEFINE last == IF acc.lines = <<>> /\ Severity(g.message) >= 3
                       THEN [acc EXCEPT !.lines = <<g>>] ELSE acc
  <2>1. new = [last EXCEPT !.open = FALSE]
    BY <1>5 DEF Take, StopHere
  <2>2. ~new.open /\ new.lines = last.lines
    BY <1>1, <2>1 DEF Loops
  <2>3. CASE acc.lines = <<>> /\ Severity(g.message) >= 3
    <3>1. new.lines = <<g>>
      BY <2>2, <2>3 DEF Loops
    <3>2. i = 0
      BY <1>5, <2>3 DEF LoopInv
    <3>3. <<g>> = SubSeq(s, 1, 1) /\ 1 \in 0..(i + 1)
      BY <1>1, <3>2
    <3>4. Severity(g.message) > 2
      BY <2>3 DEF Severity
    <3>5. Budgeted(<<g>>)
      BY <3>4 DEF Budgeted
    <3> HIDE DEF new
    <3> QED
      BY <2>2, <3>1, <3>3, <3>5 DEF LoopInv, new
  <2>4. CASE ~(acc.lines = <<>> /\ Severity(g.message) >= 3)
    <3>1. new.lines = acc.lines
      BY <2>2, <2>4
    <3> QED
      BY <1>3, <2>2, <3>1 DEF LoopInv
  <2> QED
    BY <2>3, <2>4
<1> QED
  BY <1>4, <1>5, <1>6 DEF Loops

\* The prompt takes the first k of the ranked groups, within the budget, and
\* mentions how many it leaves out.
LEMMA PreparedIsPrefix ==
  ASSUME NEW G, \A g \in G : LineLength(g) \in Nat, NEW s \in Seq(G)
  PROVE  \E k \in 0..Len(s) : /\ Prepared(s).lines = SubSeq(s, 1, k)
                              /\ Prepared(s).omitted = Len(s) - k
                              /\ Budgeted(Prepared(s).lines)
<1>1. PICK f : /\ f[0] = TakeNothing
               /\ \A i \in 1..Len(s) : f[i] = Take(f[i - 1], s[i])
               /\ FoldLeft(Take, TakeNothing, s) = f[Len(s)]
  BY PreparedSteps
<1> DEFINE n == Len(s)
           P == {i \in Nat : i <= n =>
                   f[i] \in Loops(G) /\ LoopInv(s, i, f[i])}
<1>2. n \in Nat
  OBVIOUS
<1>3. 0 \in P
  <2>1. TakeNothing \in Loops(G)
    BY DEF TakeNothing, Loops
  <2>2. TotalLength(<<>>) = 0
    <3>1. <<>> \in Seq(G) /\ Len(<<>>) = 0
      OBVIOUS
    <3> QED
      BY <3>1, TotalLengthSteps
  <2>3. LoopInv(s, 0, TakeNothing)
    <3>1. <<>> = SubSeq(s, 1, 0) /\ 0 \in 0..0
      OBVIOUS
    <3>2. TakeNothing.lines = <<>> /\ TakeNothing.length = 0
      BY DEF TakeNothing
    <3> QED
      BY <2>2, <3>1, <3>2, SummaryAssumption DEF LoopInv, Budgeted
  <2> QED
    BY <1>1, <2>1, <2>3
<1>4. ASSUME NEW i \in Nat, i \in P
      PROVE  i + 1 \in P
  <2> SUFFICES ASSUME i + 1 <= n
               PROVE  f[i + 1] \in Loops(G) /\ LoopInv(s, i + 1, f[i + 1])
    OBVIOUS
  <2>1. f[i] \in Loops(G) /\ LoopInv(s, i, f[i])
    BY <1>2, <1>4
  <2>2. f[i + 1] = Take(f[i], s[i + 1]) /\ s[i + 1] \in G
        /\ i \in 0..(Len(s) - 1)
    BY <1>1, <1>2
  <2> QED
    BY <2>1, <2>2, TakeType, TakeKeepsLoopInv
<1>5. n \in P
  <2> HIDE DEF P
  <2> QED
    BY <1>2, <1>3, <1>4, SetInduction
<1>6. LoopInv(s, n, f[n])
  BY <1>2, <1>5
<1>7. PICK k \in 0..n : f[n].lines = SubSeq(s, 1, k)
  BY <1>6 DEF LoopInv
<1>8. Prepared(s).lines = f[n].lines
      /\ Prepared(s).omitted = Len(s) - Len(f[n].lines)
  BY <1>1 DEF Prepared, Omitted
<1>9. Len(SubSeq(s, 1, k)) = k
  BY <1>2
<1>10. Budgeted(f[n].lines)
  BY <1>6 DEF LoopInv
<1> QED
  BY <1>7, <1>8, <1>9, <1>10

-----------------------------------------------------------------------------
(* The groups of the lines fetched, and the order they are ranked in. *)

\* What a query has returned is a sequence of lines with messages of containers.
AreLines(lines) ==
    \E n \in Nat : /\ DOMAIN lines = 1..n
                   /\ \A i \in 1..n : lines[i].message \in Messages

\* There are finitely many groups, and each has a length.
LEMMA GroupsType ==
  ASSUME NEW lines, AreLines(lines)
  PROVE  /\ IsFiniteSet(GroupsOf(lines))
         /\ \A g \in GroupsOf(lines) : LineLength(g) \in Nat
<1>1. PICK n \in Nat : /\ DOMAIN lines = 1..n
                       /\ \A i \in 1..n : lines[i].message \in Messages
  BY DEF AreLines
<1> DEFINE Group(l) == [name |-> l.name, message |-> l.message,
             count |-> Cardinality({i \in DOMAIN lines : lines[i] = l})]
           S == 1..n
           T == GroupsOf(lines)
           f == [i \in S |-> Group(lines[i])]
<1>2. T = {Group(l) : l \in {lines[i] : i \in DOMAIN lines}}
  BY DEF GroupsOf, ToSet
<1>3. IsFiniteSet(S)
  BY <1>1, FS_Interval
<1>4. f \in Surjection(S, T)
  <2> HIDE DEF Group
  <2>1. f \in [S -> T] /\ \A t \in T : \E i \in S : f[i] = t
    BY <1>1, <1>2
  <2> QED
    BY <2>1 DEF Surjection
<1>5. IsFiniteSet(T)
  <2> HIDE DEF f, S, T
  <2> QED
    BY <1>3, <1>4, FS_Surjection
<1>6. ASSUME NEW g \in T PROVE LineLength(g) \in Nat
  <2>1. PICK i \in 1..n : g = Group(lines[i])
    BY <1>1, <1>2
  <2>2. g.message \in Messages
    BY <1>1, <2>1
  <2>3. g.message.length \in Nat /\ Suffix \in Nat
    BY <2>2, MessagesAssumption, SummaryAssumption
  <2> QED
    BY <2>3 DEF LineLength
<1> QED
  BY <1>5, <1>6

\* A ranking holds every group exactly once, so what is not among its first k
\* groups is among the others, and there are that many.
LEMMA RankedParts ==
  ASSUME NEW G, IsFiniteSet(G), NEW s \in Ranked(G), NEW k \in 0..Len(s)
  PROVE  LET kept == ToSet(SubSeq(s, 1, k))
         IN  /\ s \in Seq(G)
             /\ kept \subseteq G
             /\ Cardinality(G \ kept) = Len(s) - k
             /\ \A g \in G \ kept, h \in kept : ~Before(g, h)
<1> DEFINE n == Cardinality(G)
           kept == ToSet(SubSeq(s, 1, k))
<1>1. /\ s \in [1..n -> G]
      /\ \A i, j \in 1..n : i # j => s[i] # s[j]
      /\ \A i, j \in 1..n : i < j => ~Before(s[j], s[i])
  BY DEF Ranked, SetToSeqs
<1>2. n \in Nat /\ IsFiniteSet(1..n) /\ Cardinality(1..n) = n
  <2>1. n \in Nat
    BY FS_CardinalityType
  <2> HIDE DEF n
  <2> QED
    BY <2>1, FS_Interval
<1>3. s \in Seq(G) /\ Len(s) = n /\ k \in Nat /\ k <= n
  BY <1>1, <1>2
<1> HIDE DEF n
<1>4. \A g \in G : \E i \in 1..n : s[i] = g
  <2>1. s \in Injection(1..n, G)
    BY <1>1 DEF Injection, IsInjective
  <2>2. s \in Surjection(1..n, G)
    BY <1>2, <2>1, FS_Injection DEF n
  <2> QED
    BY <2>2 DEF Surjection
<1>5. kept = {s[i] : i \in 1..k}
  <2>1. DOMAIN SubSeq(s, 1, k) = 1..k
        /\ \A i \in 1..k : SubSeq(s, 1, k)[i] = s[i]
    BY <1>3
  <2> QED
    BY <2>1 DEF ToSet
<1> HIDE DEF kept
<1>6. kept \subseteq G
  BY <1>1, <1>3, <1>5
<1>7. Cardinality(kept) = k /\ IsFiniteSet(kept)
  <2> DEFINE f == [i \in 1..k |-> s[i]]
  <2>1. f \in Bijection(1..k, kept)
    <3>1. 1..k \subseteq 1..n
      BY <1>2, <1>3
    <3>2. /\ f \in [1..k -> kept]
          /\ \A i, j \in 1..k : f[i] = f[j] => i = j
          /\ \A x \in kept : \E i \in 1..k : f[i] = x
      BY <1>1, <1>5, <3>1
    <3> QED
      BY <3>2 DEF Bijection, Injection, Surjection, IsInjective
  <2>2. ExistsBijection(1..k, kept)
    BY <2>1 DEF ExistsBijection
  <2>3. IsFiniteSet(1..k) /\ Cardinality(1..k) = k
    BY <1>3, FS_Interval
  <2> QED
    BY <2>2, <2>3, FS_Bijection
<1>8. Cardinality(G \ kept) = Len(s) - k
  <2>1. G \cap kept = kept
    BY <1>6
  <2>2. Cardinality(G \ kept) = Cardinality(G) - Cardinality(G \cap kept)
    BY FS_Difference
  <2> QED
    BY <1>3, <1>7, <2>1, <2>2 DEF n
<1>9. ASSUME NEW g \in G \ kept, NEW h \in kept PROVE ~Before(g, h)
  <2>1. PICK j \in 1..n : s[j] = g
    BY <1>4
  <2>2. PICK i \in 1..k : s[i] = h
    BY <1>5
  <2>3. ~(j \in 1..k)
    BY <1>5, <2>1
  <2>4. i \in 1..n /\ i < j
    BY <1>3, <2>3
  <2> QED
    BY <1>1, <2>1, <2>2, <2>4
<1> QED
  BY <1>3, <1>6, <1>8, <1>9 DEF kept

\* When the prompt is built from lines fetched, the lines are there.
Fetched == rpc \in {"prompt", "call"} => AreLines(logs)

\* A query returns lines.
LEMMA FetchedInvariant == Spec => []Fetched
<1>1. Init => Fetched
  BY DEF Init, Fetched
<1>2. StoreInv /\ RequestInv /\ Fetched /\ [Next]_vars => Fetched'
  <2> SUFFICES ASSUME StoreInv, RequestInv, Fetched, [Next]_vars
               PROVE  Fetched'
    OBVIOUS
  <2> USE DEF Fetched, Respond, Goto
  <2>1. ASSUME NEW rows \in SUBSET logEntries, NEW limit \in Int,
               NEW a \in Answers(rows, limit),
               DOMAIN logs' = DOMAIN a,
               \A i \in DOMAIN a : logs'[i].message = a[i].message
        PROVE  AreLines(logs')
    <3>1. a \in Seq(rows)
      BY <2>1, AnswersType, FS_Subset DEF StoreInv
    <3>2. \A i \in 1..Len(a) : a[i].message \in Messages
      BY <3>1 DEF StoreInv
    <3>3. DOMAIN a = 1..Len(a) /\ Len(a) \in Nat
      BY <3>1
    <3> QED
      BY <2>1, <3>2, <3>3 DEF AreLines
  <2>2. CASE Arrive
    BY <2>2 DEF Arrive
  <2>3. CASE Query
    <3>1. request \in Requests /\ request.limit \in Int
      BY <2>3, RequestsAssumption DEF Query, RequestInv
    <3>2. CASE rpc' \in {"prompt", "call"}
      <4> DEFINE rows == {r \in Joined : r.at >= since}
      <4>1. PICK a \in Answers(rows, Limit(request.limit)) : logs' = Lines(a)
        BY <2>3, <3>2 DEF Query, GetLogsSince
      <4>2. rows \in SUBSET logEntries
        BY DEF Joined
      <4>3. Limit(request.limit) \in Int
        BY <3>1, SummaryAssumption DEF Limit
      <4>4. DOMAIN logs' = DOMAIN a
            /\ \A i \in DOMAIN a : logs'[i].message = a[i].message
        BY <4>1 DEF Lines
      <4> HIDE DEF rows
      <4>5. AreLines(logs')
        BY <2>1, <4>1, <4>2, <4>3, <4>4
      <4> QED
        BY <4>5
    <3> QED
      BY <3>2
  <2>4. CASE LookUp
    BY <2>4 DEF LookUp
  <2>5. CASE Fetch
    <3>1. request \in Requests /\ request.limit \in Int
      BY <2>5, RequestsAssumption DEF Fetch, RequestInv
    <3> DEFINE rows == OfContainer(found, since)
    <3>2. PICK a \in Answers(rows, Limit(request.limit)) :
            logs' = [i \in DOMAIN a |-> [name |-> request.name,
                                         message |-> a[i].message]]
      BY <2>5 DEF Fetch, SelectById
    <3>3. rows \in SUBSET logEntries
      BY DEF OfContainer
    <3>4. Limit(request.limit) \in Int
      BY <3>1, SummaryAssumption DEF Limit
    <3>5. DOMAIN logs' = DOMAIN a
          /\ \A i \in DOMAIN a : logs'[i].message = a[i].message
      BY <3>2
    <3> HIDE DEF rows
    <3>6. AreLines(logs')
      BY <2>1, <3>2, <3>3, <3>4, <3>5
    <3> QED
      BY <3>6
  <2>6. CASE QueryFails
    BY <2>6 DEF QueryFails
  <2>7. CASE BuildPrompt
    BY <2>7 DEF BuildPrompt
  <2>8. CASE CallReturns \/ CallTimesOut
    BY <2>8 DEF CallReturns, CallTimesOut
  <2>9. CASE UNCHANGED <<rpc, logs>>
    BY <2>9
  <2> QED
    BY <2>2, <2>3, <2>4, <2>5, <2>6, <2>7, <2>8, <2>9 DEF Next, vars
<1> QED
  BY <1>1, <1>2, StoreInvariant, RequestInvariant, PTL DEF Spec

\* What buildPrompt takes from a ranking of the groups of the lines fetched.
LEMMA PromptOfAll ==
  ASSUME AreLines(logs), NEW s \in Ranked(GroupsOf(logs))
  PROVE  LET groups == GroupsOf(logs)
             p == Prepared(s)
             kept == ToSet(p.lines)
         IN  /\ kept \subseteq groups
             /\ p.omitted \in Nat
             /\ p.omitted = Cardinality(groups \ kept)
             /\ \A g \in groups \ kept, h \in kept : ~Before(g, h)
             /\ Budgeted(p.lines)
<1> DEFINE groups == GroupsOf(logs)
<1>1. IsFiniteSet(groups) /\ \A g \in groups : LineLength(g) \in Nat
  BY GroupsType
<1> HIDE DEF groups
<1>2. s \in Ranked(groups)
  BY DEF groups
<1>3. s \in Seq(groups)
  <2>1. s \in [1..Cardinality(groups) -> groups]
    BY <1>2 DEF Ranked, SetToSeqs
  <2>2. Cardinality(groups) \in Nat
    BY <1>1, FS_CardinalityType
  <2> QED
    BY <2>1, <2>2
<1>4. PICK k \in 0..Len(s) : /\ Prepared(s).lines = SubSeq(s, 1, k)
                             /\ Prepared(s).omitted = Len(s) - k
                             /\ Budgeted(Prepared(s).lines)
  BY <1>1, <1>3, PreparedIsPrefix
<1>5. /\ ToSet(Prepared(s).lines) \subseteq groups
      /\ Cardinality(groups \ ToSet(Prepared(s).lines)) = Len(s) - k
      /\ \A g \in groups \ ToSet(Prepared(s).lines),
            h \in ToSet(Prepared(s).lines) : ~Before(g, h)
  <2> DEFINE kept == ToSet(SubSeq(s, 1, k))
  <2>1. /\ kept \subseteq groups
        /\ Cardinality(groups \ kept) = Len(s) - k
        /\ \A g \in groups \ kept, h \in kept : ~Before(g, h)
    BY <1>1, <1>2, RankedParts
  <2>2. ToSet(Prepared(s).lines) = kept
    BY <1>4
  <2> HIDE DEF kept
  <2> QED
    BY <2>1, <2>2
<1>6. Len(s) - k \in Nat
  BY <1>3
<1> QED
  BY <1>4, <1>5, <1>6 DEF groups

\* The prompt of the general summary holds the worst of what was fetched, within
\* the budget, and mentions how many groups it leaves out: for any messages,
\* however the sort orders groups that rank alike.
THEOREM PromptsKeepWorst == Spec => []PromptKeepsWorst
<1>1. Init => PromptKeepsWorst
  BY DEF Init, PromptKeepsWorst
<1>2. Fetched /\ PromptKeepsWorst /\ [Next]_vars => PromptKeepsWorst'
  <2> SUFFICES ASSUME Fetched, PromptKeepsWorst, [Next]_vars
               PROVE  PromptKeepsWorst'
    OBVIOUS
  <2> USE DEF Respond, Goto
  <2>1. CASE BuildPrompt /\ request.kind = "all"
    <3>1. PICK s \in Ranked(GroupsOf(logs)) : prompt' = Prepared(s)
      BY <2>1 DEF BuildPrompt
    <3>2. AreLines(logs) /\ logs' = logs /\ request' = request
      BY <2>1 DEF BuildPrompt, Fetched
    <3>3. /\ ToSet(prompt'.lines) \subseteq GroupsOf(logs)
          /\ prompt'.omitted =
               Cardinality(GroupsOf(logs) \ ToSet(prompt'.lines))
          /\ \A g \in GroupsOf(logs) \ ToSet(prompt'.lines),
                h \in ToSet(prompt'.lines) : ~Before(g, h)
          /\ Budgeted(prompt'.lines)
      BY <3>1, <3>2, PromptOfAll
    <3> QED
      BY <3>2, <3>3 DEF PromptKeepsWorst, Budgeted
  <2>2. CASE BuildPrompt /\ request.kind # "all"
    BY <2>2 DEF BuildPrompt, PromptKeepsWorst
  <2>3. CASE Arrive
    BY <2>3 DEF Arrive, PromptKeepsWorst
  <2>4. CASE Query \/ LookUp \/ Fetch \/ QueryFails
    BY <2>4 DEF Query, LookUp, Fetch, QueryFails, PromptKeepsWorst
  <2>5. CASE CallReturns \/ CallTimesOut
    BY <2>5 DEF CallReturns, CallTimesOut, PromptKeepsWorst
  <2>6. CASE UNCHANGED <<request, rpc, logs, prompt>>
    BY <2>6 DEF PromptKeepsWorst
  <2> QED
    BY <2>1, <2>2, <2>3, <2>4, <2>5, <2>6 DEF Next, vars
<1> QED
  BY <1>1, <1>2, FetchedInvariant, PTL DEF Spec

\* The tables and the request keep their types: rows get serial numbers within
\* the bound, First returns an id of the table, and the number of omitted groups
\* is never negative.
THEOREM TypeCorrect == Spec => []TypeOK
<1>1. Init => TypeOK
  BY LimitsAssumption DEF Init, StoreInit, TypeOK, StoreTypeOK, NoPrompt
<1>2. StoreInv /\ RequestInv /\ Fetched /\ TypeOK /\ [Next]_vars => TypeOK'
  <2> SUFFICES ASSUME StoreInv, RequestInv, Fetched, TypeOK, [Next]_vars
               PROVE  TypeOK'
    OBVIOUS
  <2> USE DEF Respond, Goto
  <2>1. ASSUME UNCHANGED store PROVE StoreTypeOK'
    BY <2>1 DEF store, TypeOK, StoreTypeOK
  <2>2. CASE Arrive
    <3>1. since' \in Int
      <4>1. CASE BadRequest(request') \/ request'.kind = "search"
        BY <2>2, <4>1 DEF Arrive, TypeOK
      <4>2. CASE ~BadRequest(request') /\ request'.kind # "search"
        <5>1. request' \in Requests /\ since' = now - Hours(request')
          BY <2>2, <4>2 DEF Arrive
        <5>2. Hours(request') \in Int
          BY <4>2, <5>1, RequestsAssumption, SummaryAssumption DEF Hours
        <5> QED
          BY <5>1, <5>2 DEF StoreInv
      <4> QED
        BY <4>1, <4>2
    <3> QED
      BY <2>1, <2>2, <3>1 DEF Arrive, TypeOK, lookup
  <2>3. CASE Query
    BY <2>1, <2>3 DEF Query, TypeOK, lookup
  <2>4. CASE LookUp
    <3>1. CASE Named(request.name) # {}
      <4>1. FirstByName(request.name) \in Named(request.name)
        BY <3>1, FirstIsNamed, IdsAssumption
           DEF FirstByName, Named, TypeOK, StoreTypeOK
      <4>2. FirstByName(request.name) \in Ids
        BY <4>1 DEF Named, TypeOK, StoreTypeOK
      <4> QED
        BY <2>1, <2>4, <3>1, <4>2 DEF LookUp, TypeOK, StoreTypeOK, Named
    <3>2. CASE Named(request.name) = {}
      BY <2>1, <2>4, <3>2 DEF LookUp, TypeOK, lookup
    <3> QED
      BY <3>1, <3>2
  <2>5. CASE Fetch
    BY <2>1, <2>5 DEF Fetch, TypeOK, lookup
  <2>6. CASE QueryFails
    BY <2>1, <2>6 DEF QueryFails, TypeOK, lookup
  <2>7. CASE BuildPrompt
    <3>1. prompt'.omitted \in Nat
      <4>1. CASE request.kind = "all"
        <5>1. AreLines(logs)
          BY <2>7 DEF BuildPrompt, Fetched
        <5> QED
          BY <2>7, <4>1, <5>1, PromptOfAll DEF BuildPrompt
      <4>2. CASE request.kind # "all"
        BY <2>7, <4>2 DEF BuildPrompt
      <4> QED
        BY <4>1, <4>2
    <3> QED
      BY <2>1, <2>7, <3>1 DEF BuildPrompt, TypeOK, lookup
  <2>8. CASE CallReturns \/ CallTimesOut
    BY <2>1, <2>8 DEF CallReturns, CallTimesOut, TypeOK, lookup
  <2>9. CASE /\ StoreNext
             /\ UNCHANGED <<request, rpc, since, lookup, logs, prompt, reply>>
    <3>1. ASSUME Tick PROVE StoreTypeOK'
      BY <3>1, LimitsAssumption DEF Tick, TypeOK, StoreTypeOK
    <3>2. ASSUME Retention PROVE StoreTypeOK'
      BY <3>2 DEF Retention, TypeOK, StoreTypeOK
    <3>3. ASSUME NEW i \in Ids, NEW n \in Names, Upsert(i, n)
          PROVE  StoreTypeOK'
      BY <3>3 DEF Upsert, TypeOK, StoreTypeOK
    <3>4. ASSUME NEW i \in Ids, NEW m \in Messages, InsertLog(i, m)
          PROVE  StoreTypeOK'
      <4>1. [id |-> nextId, container |-> i, message |-> m, at |-> now] \in Rows
        BY <3>4, LimitsAssumption DEF InsertLog, TypeOK, StoreTypeOK, Rows
      <4>2. nextId' \in 1..MaxRows + 1
        BY <3>4, LimitsAssumption DEF InsertLog, TypeOK, StoreTypeOK
      <4> QED
        BY <3>4, <4>1, <4>2 DEF InsertLog, TypeOK, StoreTypeOK
    <3>5. StoreTypeOK'
      BY <2>9, <3>1, <3>2, <3>3, <3>4 DEF StoreNext
    <3> QED
      BY <2>9, <3>5 DEF TypeOK, lookup
  <2>10. CASE UNCHANGED vars
    BY <2>1, <2>10 DEF vars, store, lookup, TypeOK
  <2> QED
    BY <2>2, <2>3, <2>4, <2>5, <2>6, <2>7, <2>8, <2>9, <2>10 DEF Next
<1> QED
  BY <1>1, <1>2, StoreInvariant, RequestInvariant, FetchedInvariant, PTL
     DEF Spec
=============================================================================
