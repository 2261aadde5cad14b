------------------------- MODULE BatchWriterProofs -------------------------
(***************************************************************************)
(* Proofs about the collector's write path, for any followers, any sizes   *)
(* of the batch and the channel, and a database that may refuse inserts:   *)
(* its types, that the drain of a shutdown is complete, and that it        *)
(* neither loses nor doubles a line, and so implements LogDelivery.        *)
(***************************************************************************)
EXTENDS BatchWriter, FiniteSetTheorems, TLAPS

\* What the elements of a sequence are when one is added at its end.
LEMMA AppendElements ==
  ASSUME NEW S, NEW s \in Seq(S), NEW x \in S
  PROVE  /\ Append(s, x) \in Seq(S)
         /\ Len(Append(s, x)) = Len(s) + 1
         /\ ToSet(Append(s, x)) = ToSet(s) \union {x}
<1> DEFINE t == Append(s, x)
<1>1. t \in Seq(S) /\ Len(t) = Len(s) + 1
  OBVIOUS
<1>2. DOMAIN s = 1..Len(s) /\ DOMAIN t = 1..(Len(s) + 1) /\ Len(s) \in Nat
  OBVIOUS
<1>3. t[Len(s) + 1] = x /\ \A i \in 1..Len(s) : t[i] = s[i]
  OBVIOUS
<1>4. ToSet(t) = ToSet(s) \union {x}
  <2> HIDE DEF t
  <2>1. ToSet(t) \subseteq ToSet(s) \union {x}
    BY <1>2, <1>3 DEF ToSet
  <2>2. ToSet(s) \union {x} \subseteq ToSet(t)
    BY <1>2, <1>3 DEF ToSet
  <2> QED
    BY <2>1, <2>2
<1> QED
  BY <1>1, <1>4

\* The first element of a sequence and the rest of it.
LEMMA HeadTail ==
  ASSUME NEW S, NEW s \in Seq(S), s # <<>>
  PROVE  /\ Head(s) \in S
         /\ Tail(s) \in Seq(S)
         /\ Len(Tail(s)) = Len(s) - 1
         /\ Head(s) \in ToSet(s)
         /\ ToSet(Tail(s)) \subseteq ToSet(s)
<1>1. Head(s) \in S /\ Tail(s) \in Seq(S) /\ Len(Tail(s)) = Len(s) - 1
  OBVIOUS
<1>2. Head(s) = s[1] /\ 1 \in DOMAIN s
  OBVIOUS
<1>3. ASSUME NEW i \in DOMAIN Tail(s)
      PROVE  Tail(s)[i] = s[i + 1] /\ i + 1 \in DOMAIN s
  OBVIOUS
<1> QED
  BY <1>1, <1>2, <1>3 DEF ToSet

\* The elements of a sequence over S are in S.
LEMMA Elements ==
  ASSUME NEW S, NEW s \in Seq(S)
  PROVE  ToSet(s) \subseteq S
BY DEF ToSet

\* The outcomes of BatchInsertLogs are well typed.
LEMMA InsertTypes ==
  ASSUME NEW b \in Seq(Entries), stored \in [Entries -> Nat],
         dropped \subseteq Entries, InsertBatch(b)
  PROVE  stored' \in [Entries -> Nat] /\ dropped' \subseteq Entries
<1>1. ToSet(b) \subseteq Entries
  BY Elements
<1> QED
  BY <1>1 DEF InsertBatch

-----------------------------------------------------------------------------
\* The variables keep their types: the channel never holds more than ChanCap
\* lines, the writer's buffer fewer than BatchCap between two steps, and no
\* insert is given more than BatchCap.
THEOREM TypeCorrect == Spec => []TypeOK
<1>1. Init => TypeOK
  <2> SUFFICES ASSUME Init PROVE TypeOK
    OBVIOUS
  <2>1. <<>> \in Seq(Entries) /\ Len(<<>>) = 0
    OBVIOUS
  <2>2. sent \in [Followers -> 0..MaxLines]
    BY SizesAssumption DEF Init
  <2>3. stored \in [Entries -> Nat]
    BY DEF Init
  <2>4. /\ batchCh \in Seq(Entries) /\ Len(batchCh) <= ChanCap
        /\ batch \in Seq(Entries) /\ Len(batch) < BatchCap
        /\ syncInsert \in Seq(Entries) /\ Len(syncInsert) <= BatchCap
    BY <2>1, SizesAssumption DEF Init
  <2> QED
    BY <2>2, <2>3, <2>4 DEF Init, TypeOK
<1>2. TypeOK /\ [Next]_vars => TypeOK'
  <2> SUFFICES ASSUME TypeOK, [Next]_vars PROVE TypeOK'
    OBVIOUS
  <2> USE SizesAssumption DEF TypeOK, follower, writer, main, database
  <2>1. ASSUME NEW f \in Followers, FollowerSend(f) PROVE TypeOK'
    <3>1. <<f, sent[f] + 1>> \in Entries
      BY <2>1 DEF FollowerSend, Entries
    <3>2. batchCh' \in Seq(Entries) /\ Len(batchCh') = Len(batchCh) + 1
      BY <2>1, <3>1, AppendElements DEF FollowerSend
    <3>3. sent' \in [Followers -> 0..MaxLines]
      BY <2>1 DEF FollowerSend
    <3>4. Len(batchCh') <= ChanCap
      BY <2>1, <3>2 DEF FollowerSend
    <3> QED
      BY <2>1, <3>2, <3>3, <3>4 DEF FollowerSend
  <2>2. ASSUME NEW f \in Followers, FollowerQuit(f) PROVE TypeOK'
    BY <2>2 DEF FollowerQuit
  <2>3. CASE WriterRecv
    <3>1. PICK b : /\ b = Append(batch, Head(batchCh))
                   /\ \/ Full(b) /\ FlushAsync(b)
                      \/ ~Full(b) /\ batch' = b /\ UNCHANGED inflight
      BY <2>3 DEF WriterRecv
    <3>2. /\ b \in Seq(Entries) /\ Len(b) <= BatchCap
          /\ batchCh' \in Seq(Entries) /\ Len(batchCh') <= ChanCap
      BY <2>3, <3>1, AppendElements, HeadTail DEF WriterRecv
    <3>3. CASE Full(b) /\ FlushAsync(b)
      <4>1. \A d \in inflight' : d \in Seq(Entries) /\ Len(d) <= BatchCap
        BY <3>2, <3>3 DEF FlushAsync
      <4>2. batch' \in Seq(Entries) /\ Len(batch') < BatchCap
        BY <3>3 DEF FlushAsync
      <4> QED
        BY <2>3, <3>2, <4>1, <4>2 DEF WriterRecv
    <3>4. CASE ~Full(b) /\ batch' = b /\ UNCHANGED inflight
      <4>1. Len(b) < BatchCap
        BY <3>2, <3>4 DEF Full
      <4> QED
        BY <2>3, <3>2, <3>4, <4>1 DEF WriterRecv
    <3> QED
      BY <3>1, <3>3, <3>4
  <2>4. CASE WriterTick
    BY <2>4 DEF WriterTick, FlushAsync
  <2>5. CASE WriterCancelled
    BY <2>5 DEF WriterCancelled
  <2>6. CASE WriterDrain
    <3>1. PICK b : /\ b = Append(batch, Head(batchCh))
                   /\ \/ Full(b) /\ FlushSync(b, "drainInsert", "drain")
                      \/ ~Full(b) /\ batch' = b /\ UNCHANGED <<wpc, syncInsert>>
      BY <2>6 DEF WriterDrain
    <3>2. /\ b \in Seq(Entries) /\ Len(b) <= BatchCap
          /\ batchCh' \in Seq(Entries) /\ Len(batchCh') <= ChanCap
      BY <2>6, <3>1, AppendElements, HeadTail DEF WriterDrain
    <3>3. CASE Full(b) /\ FlushSync(b, "drainInsert", "drain")
      <4>1. /\ batch' \in Seq(Entries) /\ Len(batch') < BatchCap
            /\ syncInsert' \in Seq(Entries) /\ Len(syncInsert') <= BatchCap
            /\ wpc' \in {"drainInsert", "drain"}
        BY <3>2, <3>3 DEF FlushSync
      <4> QED
        BY <2>6, <3>2, <4>1 DEF WriterDrain
    <3>4. CASE ~Full(b) /\ batch' = b /\ UNCHANGED <<wpc, syncInsert>>
      <4>1. Len(b) < BatchCap
        BY <3>2, <3>4 DEF Full
      <4> QED
        BY <2>6, <3>2, <3>4, <4>1 DEF WriterDrain
    <3> QED
      BY <3>1, <3>3, <3>4
  <2>7. CASE WriterDrained
    BY <2>7 DEF WriterDrained, FlushSync
  <2>8. CASE WriterInsert
    <3>1. stored' \in [Entries -> Nat] /\ dropped' \subseteq Entries
      BY <2>8, InsertTypes DEF WriterInsert
    <3> QED
      BY <2>8, <3>1 DEF WriterInsert
  <2>9. CASE SignalDone
    BY <2>9 DEF SignalDone
  <2>10. ASSUME NEW b \in inflight, AsyncInsert(b) PROVE TypeOK'
    <3>1. stored' \in [Entries -> Nat] /\ dropped' \subseteq Entries
      BY <2>10, InsertTypes DEF AsyncInsert
    <3> QED
      BY <2>10, <3>1 DEF AsyncInsert
  <2>11. CASE CtxCancel
    BY <2>11, Elements DEF CtxCancel
  <2>12. CASE MainSignalled
    BY <2>12 DEF MainSignalled
  <2>13. CASE ServersDown
    BY <2>13 DEF ServersDown
  <2>14. CASE Shutdown
    BY <2>14 DEF Shutdown, DoneOrDeadline
  <2>15. CASE Exit
    BY <2>15 DEF Exit
  <2>16. CASE UNCHANGED vars
    BY <2>16 DEF vars
  <2> QED
    BY <2>1, <2>2, <2>3, <2>4, <2>5, <2>6, <2>7, <2>8, <2>9, <2>10, <2>11,
       <2>12, <2>13, <2>14, <2>15, <2>16
       DEF Next, Main, Writer, InsertDone, Follower
<1> QED
  BY <1>1, <1>2, PTL DEF Spec

-----------------------------------------------------------------------------
\* DrainKeepsPromise is not inductive.  What makes it so: only lines already
\* queued are promised, so a line queued later is not one of them; nothing is
\* promised before the cancellation, and the writer leaves its select loop
\* only after it; between the two inserts nothing is left in its hands.
DrainInv ==
    /\ DrainKeepsPromise
    /\ \A e \in ToSet(batchCh) \union ToSet(batch) \union promised : Queued(e)
    /\ wpc # "select" => ctxDone
    /\ wpc \in {"select", "drain", "signal", "done"} => syncInsert = <<>>
    /\ wpc = "finalInsert" =>
         batch = <<>> /\ promised \intersect ToSet(batchCh) = {}

\* DrainInv holds in every reachable state.
THEOREM DrainInvariant == Spec => []DrainInv
<1>1. Init => DrainInv
  BY DEF Init, DrainInv, DrainKeepsPromise, ToSet
<1>2. TypeOK /\ DrainInv /\ [Next]_vars => DrainInv'
  <2> SUFFICES ASSUME TypeOK, DrainInv, [Next]_vars PROVE DrainInv'
    OBVIOUS
  <2> USE DEF DrainInv, DrainKeepsPromise, follower, writer, main, database
  <2>0. /\ batchCh \in Seq(Entries) /\ batch \in Seq(Entries)
        /\ sent \in [Followers -> Nat] /\ promised \subseteq Entries
        /\ ToSet(batchCh) \subseteq Entries /\ ToSet(batch) \subseteq Entries
        /\ ToSet(<<>>) = {}
    BY SizesAssumption, Elements DEF TypeOK, ToSet
  <2>1. ASSUME NEW f \in Followers, FollowerSend(f) PROVE DrainInv'
    <3>0. PICK new : new = <<f, sent[f] + 1>>
      OBVIOUS
    <3>1. /\ ToSet(batchCh') = ToSet(batchCh) \union {new}
          /\ sent' = [sent EXCEPT ![f] = @ + 1]
          /\ UNCHANGED <<batch, wpc, syncInsert, ctxDone, promised>>
      <4>1. new \in Followers \X Nat
        BY <2>0, <3>0
      <4>2. batchCh \in Seq(Followers \X Nat)
        BY <2>0, SizesAssumption DEF Entries
      <4> QED
        <5>1. ToSet(Append(batchCh, new)) = ToSet(batchCh) \union {new}
          BY <4>1, <4>2, AppendElements
        <5> QED
          BY <2>1, <3>0, <5>1 DEF FollowerSend
    <3>2. new \notin promised
      BY <2>0, <3>0 DEF Queued
    <3>3. \A e \in Entries : Queued(e) => Queued(e)'
      BY <2>0, <3>1 DEF Queued, Entries
    <3>4. Queued(new)'
      <4>1. new[1] = f /\ new[2] = sent[f] + 1
        BY <3>0
      <4>2. sent'[f] = sent[f] + 1 /\ sent[f] + 1 \in Nat
        BY <2>0, <3>1
      <4>3. new[2] <= sent'[new[1]]
        BY ONLY <4>1, <4>2
      <4> QED
        BY ONLY <4>3 DEF Queued
    <3>5. \A e \in ToSet(batchCh') \union ToSet(batch') \union promised' :
            Queued(e)'
      <4>1. \A e \in ToSet(batchCh) \union ToSet(batch) \union promised :
              e \in Entries /\ Queued(e)
        BY <2>0
      <4>2. \A e \in ToSet(batchCh) \union ToSet(batch) \union promised :
              Queued(e)'
        BY ONLY <3>3, <4>1
      <4>3. ToSet(batchCh') \union ToSet(batch') \union promised'
            = (ToSet(batchCh) \union ToSet(batch) \union promised)
              \union {new}
        BY <3>1
      <4> HIDE DEF DrainInv
      <4> QED
        BY <3>4, <4>2, <4>3
    <3>6. promised' \intersect ToSet(batchCh')
          = promised \intersect ToSet(batchCh)
      BY <3>1, <3>2
    <3> QED
      BY <3>1, <3>5, <3>6
  <2>2. ASSUME NEW f \in Followers, FollowerQuit(f) PROVE DrainInv'
    BY <2>2 DEF FollowerQuit, Queued
  <2>3. ASSUME batchCh # <<>>, batchCh' = Tail(batchCh),
               batch' = <<>> \/ batch' = Append(batch, Head(batchCh)),
               UNCHANGED <<sent, promised>>
        PROVE  /\ \A e \in ToSet(batchCh') \union ToSet(batch')
                            \union promised' : Queued(e)'
               /\ ToSet(batchCh') \subseteq ToSet(batchCh)
    <3>1. /\ Head(batchCh) \in ToSet(batchCh) \intersect Entries
          /\ ToSet(batchCh') \subseteq ToSet(batchCh)
      BY <2>0, <2>3, HeadTail
    <3>2. ToSet(batch') \subseteq ToSet(batch) \union {Head(batchCh)}
      <4>1. CASE batch' = <<>>
        BY <2>0, <4>1
      <4>2. CASE batch' = Append(batch, Head(batchCh))
        <5>1. ToSet(Append(batch, Head(batchCh)))
              = ToSet(batch) \union {Head(batchCh)}
          BY <2>0, <3>1, AppendElements
        <5> QED
          BY <4>2, <5>1
      <4> QED
        BY <2>3, <4>1, <4>2
    <3> QED
      BY <2>3, <3>1, <3>2 DEF Queued
  <2>4. CASE WriterRecv
    <3>1. batch' = <<>> \/ batch' = Append(batch, Head(batchCh))
      BY <2>4 DEF WriterRecv, FlushAsync
    <3> QED
      BY <2>3, <2>4, <3>1 DEF WriterRecv
  <2>5. CASE WriterTick
    BY <2>0, <2>5 DEF WriterTick, FlushAsync, Queued
  <2>6. CASE WriterCancelled
    BY <2>6 DEF WriterCancelled, Queued
  <2>7. CASE WriterDrain
    <3>1. batch' = <<>> \/ batch' = Append(batch, Head(batchCh))
      BY <2>7 DEF WriterDrain, FlushSync
    <3>2. (wpc' = "drain" /\ syncInsert' = <<>>) \/ wpc' = "drainInsert"
      BY <2>7 DEF WriterDrain, FlushSync
    <3> QED
      BY <2>3, <2>7, <3>1, <3>2 DEF WriterDrain
  <2>8. CASE WriterDrained
    BY <2>0, <2>8 DEF WriterDrained, ChannelEmpty, FlushSync, Queued
  <2>9. CASE WriterInsert
    BY <2>9 DEF WriterInsert, Queued
  <2>10. CASE SignalDone
    BY <2>10 DEF SignalDone, Queued
  <2>11. ASSUME NEW b \in inflight, AsyncInsert(b) PROVE DrainInv'
    BY <2>11 DEF AsyncInsert, Queued
  <2>12. CASE CtxCancel
    BY <2>0, <2>12 DEF CtxCancel, Queued, TypeOK
  <2>13. CASE Main
    BY <2>13 DEF Main, MainSignalled, ServersDown, Shutdown, Exit, Queued
  <2>14. CASE UNCHANGED vars
    BY <2>14 DEF vars, Queued
  <2> QED
    BY <2>1, <2>2, <2>4, <2>5, <2>6, <2>7, <2>8, <2>9, <2>10, <2>11, <2>12,
       <2>13, <2>14
       DEF Next, Writer, InsertDone, Follower
<1> QED
  BY <1>1, <1>2, TypeCorrect, PTL DEF Spec

\* When batchDone is closed, all that was buffered at the cancellation has
\* left the channel and the writer, however much followers queue behind it.
THEOREM DrainIsComplete == Spec => []DrainKeepsPromise
<1>1. DrainInv => DrainKeepsPromise
  BY DEF DrainInv
<1> QED
  BY <1>1, DrainInvariant, PTL

-----------------------------------------------------------------------------
(* Counting the places of a line. *)

\* Taking one element out of a finite set, or none.
LEMMA CountWithout ==
  ASSUME NEW F, IsFiniteSet(F), NEW x
  PROVE  /\ IsFiniteSet(F \ {x})
         /\ Cardinality(F) \in Nat /\ Cardinality(F \ {x}) \in Nat
         /\ Cardinality(F)
            = Cardinality(F \ {x}) + IF x \in F THEN 1 ELSE 0
<1> DEFINE n == Cardinality(F)
           m == Cardinality(F \ {x})
<1>1. IsFiniteSet(F \ {x}) /\ m = IF x \in F THEN n - 1 ELSE n
  BY FS_RemoveElement
<1>2. n \in Nat
  BY FS_CardinalityType
<1>3. m \in Nat
  BY <1>1, FS_CardinalityType
<1> HIDE DEF n, m
<1>4. n = m + IF x \in F THEN 1 ELSE 0
  BY <1>1, <1>2, <1>3
<1> QED
  BY <1>1, <1>2, <1>3, <1>4 DEF n, m

\* A line occurs in a sequence some number of times, 0 if it is no element.
LEMMA OccurrencesType ==
  ASSUME NEW S, NEW s \in Seq(S), NEW e
  PROVE  /\ Occurrences(e, s) \in Nat
         /\ IsFiniteSet({i \in DOMAIN s : s[i] = e})
         /\ Occurrences(e, s) = 0 <=> e \notin ToSet(s)
<1> DEFINE places == {i \in DOMAIN s : s[i] = e}
<1>1. places \in SUBSET (1..Len(s)) /\ Len(s) \in Nat
  OBVIOUS
<1>2. IsFiniteSet(places)
  BY <1>1, FS_Interval, FS_Subset
<1>3. places = {} <=> e \notin ToSet(s)
  BY DEF ToSet
<1> QED
  BY <1>2, <1>3, FS_CardinalityType, FS_EmptySet DEF Occurrences

\* The empty sequence holds nothing.
LEMMA OccurrencesEmpty ==
  ASSUME NEW e
  PROVE  Occurrences(e, <<>>) = 0
<1>1. {i \in DOMAIN <<>> : <<>>[i] = e} = {}
  OBVIOUS
<1> QED
  BY <1>1, FS_EmptySet DEF Occurrences

\* Adding an element at the end counts for that element only.
LEMMA OccurrencesAppend ==
  ASSUME NEW S, NEW s \in Seq(S), NEW x \in S, NEW e
  PROVE  Occurrences(e, Append(s, x))
         = Occurrences(e, s) + IF x = e THEN 1 ELSE 0
<1> DEFINE t == Append(s, x)
           old == {i \in DOMAIN s : s[i] = e}
           new == {i \in DOMAIN t : t[i] = e}
<1>1. /\ DOMAIN s = 1..Len(s) /\ DOMAIN t = 1..(Len(s) + 1) /\ Len(s) \in Nat
      /\ t[Len(s) + 1] = x /\ \A i \in 1..Len(s) : t[i] = s[i]
  OBVIOUS
<1>2. IsFiniteSet(old)
  BY OccurrencesType
<1> HIDE DEF t
<1>3. CASE x = e
  <2>1. new = old \union {Len(s) + 1} /\ Len(s) + 1 \notin old
    BY <1>1, <1>3
  <2>2. Cardinality(old \union {Len(s) + 1}) = Cardinality(old) + 1
    BY <1>2, <2>1, FS_AddElement
  <2>3. Cardinality(new) = Cardinality(old) + 1
    BY <2>1, <2>2
  <2>4. /\ Occurrences(e, t) = Cardinality(new)
        /\ Occurrences(e, s) = Cardinality(old)
    BY DEF Occurrences
  <2> QED
    BY <1>3, <2>3, <2>4 DEF t
<1>4. CASE x # e
  <2>1. new = old
    BY <1>1, <1>4
  <2>2. Cardinality(old) \in Nat
    BY <1>2, FS_CardinalityType
  <2>3. /\ Occurrences(e, t) = Cardinality(new)
        /\ Occurrences(e, s) = Cardinality(old)
    BY DEF Occurrences
  <2>4. Occurrences(e, t) = Occurrences(e, s) /\ Occurrences(e, s) \in Nat
    BY <2>1, <2>2, <2>3
  <2> QED
    BY <1>4, <2>4 DEF t
<1> QED
  BY <1>3, <1>4

\* Taking the first element away counts for that element only.
LEMMA OccurrencesTail ==
  ASSUME NEW S, NEW s \in Seq(S), s # <<>>, NEW e
  PROVE  Occurrences(e, s)
         = Occurrences(e, Tail(s)) + IF Head(s) = e THEN 1 ELSE 0
<1> DEFINE t == Tail(s)
           before == {i \in DOMAIN s : s[i] = e}
           after == {i \in DOMAIN t : t[i] = e}
           shift == [i \in before \ {1} |-> i - 1]
<1>1. /\ DOMAIN s = 1..Len(s) /\ Len(s) \in Nat \ {0}
      /\ DOMAIN t = 1..(Len(s) - 1)
      /\ \A i \in 1..(Len(s) - 1) : t[i] = s[i + 1]
      /\ Head(s) = s[1] /\ t \in Seq(S)
  OBVIOUS
<1>2. IsFiniteSet(before) /\ IsFiniteSet(after)
  <2>1. before \in SUBSET (1..Len(s)) /\ after \in SUBSET (1..(Len(s) - 1))
    BY <1>1
  <2>2. Len(s) \in Nat /\ Len(s) - 1 \in Nat
    BY <1>1
  <2>3. IsFiniteSet(1..Len(s)) /\ IsFiniteSet(1..(Len(s) - 1))
    BY <2>2, FS_Interval
  <2> HIDE DEF before, after, t
  <2> QED
    BY <2>1, <2>3, FS_Subset
<1> HIDE DEF t
<1>3. shift \in Bijection(before \ {1}, after)
  <2>1. shift \in [before \ {1} -> after]
    BY <1>1
  <2>2. \A i, j \in before \ {1} : shift[i] = shift[j] => i = j
    BY <1>1
  <2>3. ASSUME NEW j \in after PROVE \E i \in before \ {1} : shift[i] = j
    <3>1. j + 1 \in before \ {1} /\ (j + 1) - 1 = j
      BY <1>1
    <3> QED
      BY <3>1
  <2> QED
    BY <2>1, <2>2, <2>3
       DEF Bijection, Injection, Surjection, IsInjective
<1>4. IsFiniteSet(before \ {1})
  BY <1>2, FS_RemoveElement
<1>5. Cardinality(after) = Cardinality(before \ {1})
  BY <1>2, <1>3, <1>4, FS_Bijection DEF ExistsBijection
<1>6. Cardinality(before) = Cardinality(before \ {1})
                            + IF 1 \in before THEN 1 ELSE 0
  BY <1>2, CountWithout
<1>7. 1 \in before <=> Head(s) = e
  BY <1>1
<1> QED
  BY <1>5, <1>6, <1>7 DEF Occurrences, t


-----------------------------------------------------------------------------
\* The inserts in the background that hold a line.
Carrying(e, F) == {d \in F : e \in ToSet(d)}

\* Their number, and when it is 0.
LEMMA CarryingType ==
  ASSUME NEW F, IsFiniteSet(F), NEW e
  PROVE  /\ Cardinality(Carrying(e, F)) \in Nat
         /\ Cardinality(Carrying(e, F)) = 0
              => \A d \in F : e \notin ToSet(d)
<1> DEFINE C == Carrying(e, F)
<1>1. IsFiniteSet(C)
  BY FS_Subset DEF Carrying
<1>2. Cardinality(C) \in Nat /\ (Cardinality(C) = 0 <=> C = {})
  BY <1>1, FS_CardinalityType, FS_EmptySet
<1> QED
  BY <1>2 DEF Carrying

\* One insert more is counted for the lines it holds.
LEMMA CarryingGrows ==
  ASSUME NEW F, IsFiniteSet(F), NEW b, b \notin F, NEW e
  PROVE  Cardinality(Carrying(e, F \union {b}))
         = Cardinality(Carrying(e, F)) + IF e \in ToSet(b) THEN 1 ELSE 0
<1> DEFINE big == Carrying(e, F \union {b})
<1>1. IsFiniteSet(F \union {b})
  BY FS_AddElement
<1>2. IsFiniteSet(big)
  BY <1>1, FS_Subset DEF Carrying
<1>3. big \ {b} = Carrying(e, F) /\ (b \in big <=> e \in ToSet(b))
  BY DEF Carrying
<1> HIDE DEF big
<1>4. Cardinality(big) = Cardinality(big \ {b}) + IF b \in big THEN 1 ELSE 0
  BY <1>2, CountWithout
<1> QED
  BY <1>3, <1>4 DEF big

\* ExactlyOnePlace as a sum of natural numbers.
Held(e) ==
    Occurrences(e, batchCh) + Occurrences(e, batch)
    + Occurrences(e, syncInsert) + Cardinality(Carrying(e, inflight))
    + stored[e] + (IF e \in dropped THEN 1 ELSE 0)

\* What makes ExactlyOnePlace inductive, with TypeOK and DrainInv: the inserts
\* in the background are finitely many, so that a batch started or ended
\* counts once, and no insert is empty, so that a new batch differs from each
\* one in flight (it shares no line with them).
PlaceInv ==
    /\ \A e \in Entries : Held(e) = IF Queued(e) THEN 1 ELSE 0
    /\ IsFiniteSet(inflight)
    /\ <<>> \notin inflight
    /\ wpc \in {"drainInsert", "finalInsert"} => syncInsert # <<>>

\* The summands are natural numbers, and an empty part holds nothing.
LEMMA HeldNumbers ==
  ASSUME TypeOK, IsFiniteSet(inflight), NEW e \in Entries
  PROVE  /\ Occurrences(e, batchCh) \in Nat
         /\ Occurrences(e, batch) \in Nat
         /\ Occurrences(e, syncInsert) \in Nat
         /\ Cardinality(Carrying(e, inflight)) \in Nat
         /\ stored[e] \in Nat
         /\ Occurrences(e, <<>>) = 0
<1>1. /\ batchCh \in Seq(Entries) /\ batch \in Seq(Entries)
      /\ syncInsert \in Seq(Entries) /\ stored \in [Entries -> Nat]
  BY DEF TypeOK
<1>2. /\ Occurrences(e, batchCh) \in Nat /\ Occurrences(e, batch) \in Nat
      /\ Occurrences(e, syncInsert) \in Nat
  BY <1>1, OccurrencesType
<1> QED
  BY <1>1, <1>2, OccurrencesEmpty, CarryingType

\* A line that occurs at most once is counted as an element is.
LEMMA OnceIsMembership ==
  ASSUME NEW b \in Seq(Entries), NEW e, Occurrences(e, b) <= 1
  PROVE  Occurrences(e, b) = IF e \in ToSet(b) THEN 1 ELSE 0
<1>1. Occurrences(e, b) \in Nat /\ (Occurrences(e, b) = 0 <=> e \notin ToSet(b))
  BY OccurrencesType
<1> QED
  BY <1>1

\* A batch that shares no line with the inserts in the background is a new one
\* among them, and its lines are counted there from then on.
LEMMA HandOver ==
  ASSUME TypeOK, IsFiniteSet(inflight), NEW b \in Seq(Entries), b # <<>>,
         \A e \in Entries :
           Occurrences(e, b) + Cardinality(Carrying(e, inflight)) <= 1
  PROVE  /\ b \notin inflight
         /\ \A e \in Entries :
              Cardinality(Carrying(e, inflight \union {b}))
              = Cardinality(Carrying(e, inflight)) + Occurrences(e, b)
<1>1. ASSUME NEW e \in Entries
      PROVE  /\ Occurrences(e, b) \in Nat
             /\ Cardinality(Carrying(e, inflight)) \in Nat
             /\ Occurrences(e, b) = IF e \in ToSet(b) THEN 1 ELSE 0
  <2>1. Occurrences(e, b) \in Nat /\ Cardinality(Carrying(e, inflight)) \in Nat
    BY OccurrencesType, CarryingType
  <2> QED
    BY <2>1, OnceIsMembership
<1>2. b \notin inflight
  <2>1. Head(b) \in Entries /\ Head(b) \in ToSet(b)
    BY HeadTail
  <2>2. Cardinality(Carrying(Head(b), inflight)) = 0
    BY <1>1, <2>1
  <2> QED
    BY <2>1, <2>2, CarryingType
<1> QED
  BY <1>1, <1>2, CarryingGrows


\* An insert moves its lines to the table or to the refused ones.
LEMMA InsertCounts ==
  ASSUME TypeOK, NEW b \in Seq(Entries), InsertBatch(b),
         \A e \in ToSet(b) : e \notin dropped
  PROVE  \A e \in Entries :
           stored'[e] + (IF e \in dropped' THEN 1 ELSE 0)
           = stored[e] + (IF e \in dropped THEN 1 ELSE 0)
             + IF e \in ToSet(b) THEN 1 ELSE 0
<1> SUFFICES ASSUME NEW e \in Entries
             PROVE  stored'[e] + (IF e \in dropped' THEN 1 ELSE 0)
                    = stored[e] + (IF e \in dropped THEN 1 ELSE 0)
                      + IF e \in ToSet(b) THEN 1 ELSE 0
  OBVIOUS
<1>1. stored[e] \in Nat
  BY DEF TypeOK
<1> QED
  BY <1>1 DEF InsertBatch

\* An insert of its lines away from one part leaves the sum as it is.
LEMMA SumKept ==
  ASSUME NEW c \in Nat, NEW m \in Nat, NEW i \in Nat, NEW n \in Nat,
         NEW r \in Nat, NEW d \in Nat, NEW i2 \in Nat, NEW n2 \in Nat,
         NEW r2 \in Nat, NEW d2 \in Nat, NEW k \in Nat,
         r2 + d2 = r + d + k, i + n = i2 + n2 + k
  PROVE  c + m + i2 + n2 + r2 + d2 = c + m + i + n + r + d
OBVIOUS

\* PlaceInv holds in every reachable state.
THEOREM PlaceInvariant == Spec => []PlaceInv
<1>1. Init => PlaceInv
  <2> SUFFICES ASSUME Init PROVE PlaceInv
    OBVIOUS
  <2>1. IsFiniteSet(inflight) /\ <<>> \notin inflight /\ wpc = "select"
    BY FS_EmptySet DEF Init
  <2>2. ASSUME NEW e \in Entries
        PROVE  Held(e) = IF Queued(e) THEN 1 ELSE 0
    <3>1. Carrying(e, inflight) = {}
      BY DEF Init, Carrying
    <3>2. Cardinality(Carrying(e, inflight)) = 0
      BY <3>1, FS_EmptySet
    <3>3. ~Queued(e)
      BY SizesAssumption DEF Init, Queued, Entries
    <3>4. Held(e) = 0
      BY <3>2, OccurrencesEmpty DEF Init, Held
    <3> QED
      BY <3>3, <3>4
  <2> QED
    BY <2>1, <2>2 DEF PlaceInv
<1>2. TypeOK /\ DrainInv /\ PlaceInv /\ [Next]_vars => PlaceInv'
  <2> SUFFICES ASSUME TypeOK, DrainInv, PlaceInv, [Next]_vars PROVE PlaceInv'
    OBVIOUS
  <2> USE DEF follower, writer, main, database
  <2>0. /\ batchCh \in Seq(Entries) /\ batch \in Seq(Entries)
        /\ syncInsert \in Seq(Entries)
        /\ \A b \in inflight : b \in Seq(Entries)
        /\ sent \in [Followers -> Nat]
    BY SizesAssumption DEF TypeOK
  <2>a. \A e \in Entries :
          /\ Occurrences(e, batchCh) \in Nat
          /\ Occurrences(e, batch) \in Nat
          /\ Occurrences(e, syncInsert) \in Nat
          /\ Cardinality(Carrying(e, inflight)) \in Nat
          /\ stored[e] \in Nat
          /\ Occurrences(e, <<>>) = 0
          /\ Held(e) = IF Queued(e) THEN 1 ELSE 0
          /\ Held(e) <= 1
    BY HeldNumbers DEF PlaceInv
  \* What the sum says of two of its parts.
  <2>h. ASSUME NEW e \in Entries
        PROVE  /\ Occurrences(e, batchCh) + Occurrences(e, batch)
                    + Cardinality(Carrying(e, inflight)) <= 1
               /\ e \in dropped => /\ Occurrences(e, syncInsert) = 0
                                   /\ Cardinality(Carrying(e, inflight)) = 0
    <3> DEFINE c == Occurrences(e, batchCh)
               m == Occurrences(e, batch)
               i == Occurrences(e, syncInsert)
               n == Cardinality(Carrying(e, inflight))
               r == stored[e]
               d == IF e \in dropped THEN 1 ELSE 0
    <3>1. c \in Nat /\ m \in Nat /\ i \in Nat /\ n \in Nat /\ r \in Nat
      BY <2>a
    <3>2. d \in Nat /\ (e \in dropped => d = 1)
      OBVIOUS
    <3>3. c + m + i + n + r + d <= 1
      BY <2>a DEF Held
    <3> HIDE DEF c, m, i, n, r, d
    <3>4. c + m + n <= 1 /\ (d = 1 => i = 0 /\ n = 0)
      BY <3>1, <3>2, <3>3
    <3> QED
      BY <3>2, <3>4 DEF c, m, i, n, d
  \* What is left to show of a step that queues nothing.
  <2>b. ASSUME \A e \in Entries : Held(e)' = Held(e), sent' = sent,
               IsFiniteSet(inflight'), <<>> \notin inflight',
               wpc' \in {"drainInsert", "finalInsert"} => syncInsert' # <<>>
        PROVE  PlaceInv'
    BY <2>a, <2>b DEF PlaceInv, Queued
  <2>c. ASSUME UNCHANGED <<sent, batchCh, batch, wpc, syncInsert, inflight,
                           stored, dropped>>
        PROVE  PlaceInv'
    BY <2>c DEF PlaceInv, Held, Queued
  \* The head of the channel goes to the end of a batch.
  <2>d. ASSUME batchCh # <<>>
        PROVE  LET b == Append(batch, Head(batchCh))
               IN  /\ b \in Seq(Entries) /\ b # <<>>
                   /\ \A e \in Entries :
                        Occurrences(e, b) + Occurrences(e, Tail(batchCh))
                        = Occurrences(e, batch) + Occurrences(e, batchCh)
    <3> DEFINE b == Append(batch, Head(batchCh))
    <3>1. Head(batchCh) \in Entries /\ Tail(batchCh) \in Seq(Entries)
      BY <2>0, <2>d, HeadTail
    <3>2. b \in Seq(Entries) /\ b # <<>>
      BY <2>0, <3>1, SMTT(30)
    <3>3. ASSUME NEW e \in Entries
          PROVE  Occurrences(e, b) + Occurrences(e, Tail(batchCh))
                 = Occurrences(e, batch) + Occurrences(e, batchCh)
      <4>1. Occurrences(e, b)
            = Occurrences(e, batch) + IF Head(batchCh) = e THEN 1 ELSE 0
        BY <2>0, <3>1, OccurrencesAppend
      <4>2. Occurrences(e, batchCh)
            = Occurrences(e, Tail(batchCh))
              + IF Head(batchCh) = e THEN 1 ELSE 0
        BY <2>0, <2>d, OccurrencesTail
      <4>3. Occurrences(e, Tail(batchCh)) \in Nat
        BY <3>1, OccurrencesType
      <4> HIDE DEF b
      <4> QED
        BY <2>a, <4>1, <4>2, <4>3
    <3> QED
      BY <3>2, <3>3
  <2>1. ASSUME NEW f \in Followers, FollowerSend(f) PROVE PlaceInv'
    <3> DEFINE new == <<f, sent[f] + 1>>
    <3>1. new \in Entries
      <4>1. sent[f] \in Nat /\ sent[f] < MaxLines /\ MaxLines \in Nat
        BY <2>0, <2>1, SizesAssumption DEF FollowerSend
      <4> QED
        BY <4>1 DEF Entries
    <3>2. UNCHANGED <<batch, wpc, syncInsert, inflight, stored, dropped>>
      BY <2>1 DEF FollowerSend
    <3>3. ASSUME NEW e \in Entries
          PROVE  /\ Queued(e)' <=> (Queued(e) \/ new = e)
                 /\ new = e => ~Queued(e)
      <4>1. sent' = [sent EXCEPT ![f] = sent[f] + 1] /\ sent[f] \in Nat
        BY <2>0, <2>1 DEF FollowerSend
      <4>2. e[1] \in Followers /\ e[2] \in Nat /\ e = <<e[1], e[2]>>
        BY <3>3, SizesAssumption DEF Entries
      <4>3. sent'[e[1]] = IF e[1] = f THEN sent[f] + 1 ELSE sent[e[1]]
        BY <2>0, <4>1, <4>2
      <4>4. new = e <=> e[1] = f /\ e[2] = sent[f] + 1
        BY <4>2
      <4> HIDE DEF new
      <4> QED
        BY <2>0, <4>1, <4>2, <4>3, <4>4 DEF Queued
    <3>4. ASSUME NEW e \in Entries
          PROVE  Held(e)' = IF Queued(e)' THEN 1 ELSE 0
      <4>1. batchCh' = Append(batchCh, new)
        BY <2>1 DEF FollowerSend
      <4> HIDE DEF new
      <4>2. Occurrences(e, batchCh')
            = Occurrences(e, batchCh) + IF new = e THEN 1 ELSE 0
        BY <2>0, <3>1, <4>1, OccurrencesAppend
      <4>3. Held(e)' = Held(e) + IF new = e THEN 1 ELSE 0
        BY <2>a, <3>2, <4>2, SMTT(30) DEF Held
      <4> QED
        BY <2>a, <3>3, <4>3
    <3> QED
      BY <3>2, <3>4 DEF PlaceInv
  <2>2. ASSUME NEW f \in Followers, FollowerQuit(f) PROVE PlaceInv'
    BY <2>2, <2>c DEF FollowerQuit

  \* A batch the writer has filled goes to a goroutine of its own.
  <2>e. ASSUME NEW b \in Seq(Entries), b # <<>>, batch' = <<>>,
               inflight' = inflight \union {b},
               UNCHANGED <<sent, wpc, syncInsert, stored, dropped>>,
               \A e \in Entries :
                 /\ Occurrences(e, batchCh') \in Nat
                 /\ Occurrences(e, b) + Occurrences(e, batchCh')
                    = Occurrences(e, batch) + Occurrences(e, batchCh)
        PROVE  PlaceInv'
    <3>1. ASSUME NEW e \in Entries
          PROVE  /\ Occurrences(e, b) \in Nat
                 /\ Occurrences(e, b) + Cardinality(Carrying(e, inflight)) <= 1
      <4>1. Occurrences(e, b) \in Nat
        BY OccurrencesType
      <4> QED
        BY <2>a, <2>e, <2>h, <4>1
    <3>2. /\ IsFiniteSet(inflight) /\ IsFiniteSet(inflight')
          /\ <<>> \notin inflight'
      BY <2>e, FS_AddElement DEF PlaceInv
    <3>3. ASSUME NEW e \in Entries PROVE Held(e)' = Held(e)
      <4>1. Cardinality(Carrying(e, inflight'))
            = Cardinality(Carrying(e, inflight)) + Occurrences(e, b)
        BY <2>e, <3>1, <3>2, HandOver
      <4>2. Occurrences(e, batch') = 0
        BY <2>a, <2>e
      <4> QED
        BY <2>a, <2>e, <3>1, <4>1, <4>2 DEF Held
    <3> QED
      BY <2>b, <2>e, <3>2, <3>3 DEF PlaceInv
  \* A batch goes from the writer's buffer to its own insert.
  <2>f. ASSUME NEW b \in Seq(Entries), batch' = <<>>, syncInsert' = b,
               syncInsert = <<>>,
               wpc' \in {"drainInsert", "finalInsert"} => b # <<>>,
               UNCHANGED <<sent, inflight, stored, dropped>>,
               \A e \in Entries :
                 /\ Occurrences(e, batchCh') \in Nat
                 /\ Occurrences(e, b) + Occurrences(e, batchCh')
                    = Occurrences(e, batch) + Occurrences(e, batchCh)
        PROVE  PlaceInv'
    <3>1. ASSUME NEW e \in Entries PROVE Held(e)' = Held(e)
      <4>1. Occurrences(e, b) \in Nat
        BY OccurrencesType
      <4>2. Occurrences(e, batch') = 0 /\ Occurrences(e, syncInsert) = 0
        BY <2>a, <2>f
      <4> QED
        BY <2>a, <2>f, <4>1, <4>2 DEF Held
    <3> QED
      BY <2>b, <2>f, <3>1 DEF PlaceInv
  \* A line goes from the channel to the writer's buffer.
  <2>g. ASSUME batchCh # <<>>, batchCh' = Tail(batchCh),
               batch' = Append(batch, Head(batchCh)),
               UNCHANGED <<sent, wpc, syncInsert, inflight, stored, dropped>>
        PROVE  PlaceInv'
    <3>1. ASSUME NEW e \in Entries PROVE Held(e)' = Held(e)
      <4>1. Occurrences(e, batch') + Occurrences(e, batchCh')
            = Occurrences(e, batch) + Occurrences(e, batchCh)
        BY <2>d, <2>g
      <4>2. /\ Occurrences(e, batch') \in Nat
            /\ Occurrences(e, batchCh') \in Nat
        <5>1. batchCh' \in Seq(Entries) /\ batch' \in Seq(Entries)
          BY <2>0, <2>d, <2>g, HeadTail
        <5> QED
          BY <5>1, OccurrencesType
      <4> QED
        BY <2>a, <2>g, <4>1, <4>2 DEF Held
    <3> QED
      BY <2>b, <2>g, <3>1 DEF PlaceInv
  <2>3. CASE WriterRecv
    <3> DEFINE b == Append(batch, Head(batchCh))
    <3>1. /\ batchCh # <<>> /\ batchCh' = Tail(batchCh)
          /\ UNCHANGED <<sent, wpc, syncInsert, stored, dropped>>
          /\ \/ FlushAsync(b)
             \/ batch' = b /\ UNCHANGED inflight
      BY <2>3 DEF WriterRecv
    <3>2. b \in Seq(Entries) /\ b # <<>>
      BY <2>d, <3>1
    <3>3. CASE FlushAsync(b)
      <4>1. \A e \in Entries :
              /\ Occurrences(e, batchCh') \in Nat
              /\ Occurrences(e, b) + Occurrences(e, batchCh')
                 = Occurrences(e, batch) + Occurrences(e, batchCh)
        BY <2>0, <2>d, <3>1, HeadTail, OccurrencesType
      <4> HIDE DEF b
      <4> QED
        BY <2>e, <3>1, <3>2, <3>3, <4>1 DEF FlushAsync
    <3>4. CASE batch' = b /\ UNCHANGED inflight
      BY <2>g, <3>1, <3>4
    <3> QED
      BY <3>1, <3>3, <3>4
  <2>4. CASE WriterTick
    <3>1. /\ FlushAsync(batch)
          /\ UNCHANGED <<sent, batchCh, wpc, syncInsert, stored, dropped>>
      BY <2>4 DEF WriterTick
    <3>2. CASE batch = <<>>
      BY <2>c, <3>1, <3>2 DEF FlushAsync
    <3>3. CASE batch # <<>>
      BY <2>0, <2>a, <2>e, <3>1, <3>3 DEF FlushAsync
    <3> QED
      BY <3>2, <3>3
  <2>5. CASE WriterCancelled
    BY <2>5, <2>b DEF WriterCancelled, PlaceInv, Held
  <2>6. CASE WriterDrain
    <3> DEFINE b == Append(batch, Head(batchCh))
    <3>1. /\ batchCh # <<>> /\ batchCh' = Tail(batchCh) /\ wpc = "drain"
          /\ UNCHANGED <<sent, inflight, stored, dropped>>
          /\ \/ FlushSync(b, "drainInsert", "drain")
             \/ batch' = b /\ UNCHANGED <<wpc, syncInsert>>
      BY <2>6 DEF WriterDrain
    <3>2. b \in Seq(Entries) /\ b # <<>>
      BY <2>d, <3>1
    <3>3. CASE FlushSync(b, "drainInsert", "drain")
      <4>1. \A e \in Entries :
              /\ Occurrences(e, batchCh') \in Nat
              /\ Occurrences(e, b) + Occurrences(e, batchCh')
                 = Occurrences(e, batch) + Occurrences(e, batchCh)
        BY <2>0, <2>d, <3>1, HeadTail, OccurrencesType
      <4>2. syncInsert = <<>>
        BY <3>1 DEF DrainInv
      <4> HIDE DEF b
      <4> QED
        BY <2>f, <3>1, <3>2, <3>3, <4>1, <4>2 DEF FlushSync
    <3>4. CASE batch' = b /\ UNCHANGED <<wpc, syncInsert>>
      BY <2>g, <3>1, <3>4
    <3> QED
      BY <3>1, <3>3, <3>4
  <2>7. CASE WriterDrained
    <3>1. syncInsert = <<>>
      BY <2>7 DEF WriterDrained, DrainInv
    <3> QED
      BY <2>0, <2>7, <2>a, <2>f, <3>1 DEF WriterDrained, FlushSync
  <2>8. CASE WriterInsert
    <3>1. /\ InsertBatch(syncInsert) /\ syncInsert' = <<>>
          /\ UNCHANGED <<sent, batchCh, batch, inflight>>
          /\ wpc' \notin {"drainInsert", "finalInsert"}
      BY <2>8 DEF WriterInsert
    <3>2. ASSUME NEW e \in Entries
          PROVE  Occurrences(e, syncInsert)
                 = IF e \in ToSet(syncInsert) THEN 1 ELSE 0
      <4>1. Occurrences(e, syncInsert) <= 1
        BY <2>a DEF Held
      <4> QED
        BY <2>0, <4>1, OnceIsMembership
    <3>3. \A e \in ToSet(syncInsert) : e \notin dropped
      <4>1. ToSet(syncInsert) \subseteq Entries
        BY <2>0, Elements
      <4> QED
        BY <2>a, <3>2, <4>1 DEF Held
    <3>4. ASSUME NEW e \in Entries PROVE Held(e)' = Held(e)
      <4>1. stored'[e] + (IF e \in dropped' THEN 1 ELSE 0)
            = stored[e] + (IF e \in dropped THEN 1 ELSE 0)
              + IF e \in ToSet(syncInsert) THEN 1 ELSE 0
        BY <2>0, <3>1, <3>3, InsertCounts
      <4>2. stored'[e] \in Nat
        BY <2>0, <3>1, InsertTypes DEF TypeOK
      <4>3. Occurrences(e, syncInsert') = 0
        BY <2>a, <3>1
      <4> QED
        <5> DEFINE c == Occurrences(e, batchCh)
                   m == Occurrences(e, batch)
                   i == Occurrences(e, syncInsert)
                   i2 == Occurrences(e, syncInsert')
                   n == Cardinality(Carrying(e, inflight))
                   n2 == Cardinality(Carrying(e, inflight'))
                   r == stored[e]
                   r2 == stored'[e]
                   d == IF e \in dropped THEN 1 ELSE 0
                   d2 == IF e \in dropped' THEN 1 ELSE 0
                   k == IF e \in ToSet(syncInsert) THEN 1 ELSE 0
        <5>1. /\ c \in Nat /\ m \in Nat /\ i \in Nat /\ n \in Nat /\ r \in Nat
              /\ d \in Nat /\ i2 \in Nat /\ n2 \in Nat /\ r2 \in Nat
              /\ d2 \in Nat /\ k \in Nat
          BY <2>a, <3>1, <4>2, <4>3
        <5>2. r2 + d2 = r + d + k
          BY <4>1
        <5>3. i + n = i2 + n2 + k
          BY <2>a, <3>1, <3>2, <4>3
        <5>4. /\ Held(e) = c + m + i + n + r + d
              /\ Held(e)' = c + m + i2 + n2 + r2 + d2
          BY <3>1 DEF Held
        <5> HIDE DEF c, m, i, i2, n, n2, r, r2, d, d2, k
        <5> QED
          BY <5>1, <5>2, <5>3, <5>4, SumKept
    <3> QED
      BY <2>b, <3>1, <3>4 DEF PlaceInv
  <2>9. CASE SignalDone
    BY <2>9, <2>b DEF SignalDone, PlaceInv, Held
  <2>10. ASSUME NEW b \in inflight, AsyncInsert(b) PROVE PlaceInv'
    <3>1. /\ InsertBatch(b) /\ inflight' = inflight \ {b}
          /\ b \in Seq(Entries)
          /\ UNCHANGED <<sent, batchCh, batch, wpc, syncInsert>>
      BY <2>0, <2>10 DEF AsyncInsert
    <3>2. /\ IsFiniteSet(inflight') /\ <<>> \notin inflight'
          /\ inflight = inflight' \union {b} /\ b \notin inflight'
      BY <3>1, FS_RemoveElement DEF PlaceInv
    <3>3. ASSUME NEW e \in Entries
          PROVE  /\ Cardinality(Carrying(e, inflight))
                    = Cardinality(Carrying(e, inflight'))
                      + IF e \in ToSet(b) THEN 1 ELSE 0
                 /\ Cardinality(Carrying(e, inflight')) \in Nat
      BY <3>2, CarryingGrows, CarryingType
    <3>4. \A e \in ToSet(b) : e \notin dropped
      <4>1. ToSet(b) \subseteq Entries
        BY <3>1, Elements
      <4> QED
        BY <2>h, <3>1, <3>3, <4>1, CarryingType DEF PlaceInv
    <3>5. ASSUME NEW e \in Entries PROVE Held(e)' = Held(e)
      <4>1. stored'[e] + (IF e \in dropped' THEN 1 ELSE 0)
            = stored[e] + (IF e \in dropped THEN 1 ELSE 0)
              + IF e \in ToSet(b) THEN 1 ELSE 0
        BY <3>1, <3>4, InsertCounts
      <4>2. stored'[e] \in Nat
        BY <3>1, InsertTypes DEF TypeOK
      <4> QED
        <5> DEFINE c == Occurrences(e, batchCh)
                   m == Occurrences(e, batch)
                   i == Occurrences(e, syncInsert)
                   i2 == Occurrences(e, syncInsert')
                   n == Cardinality(Carrying(e, inflight))
                   n2 == Cardinality(Carrying(e, inflight'))
                   r == stored[e]
                   r2 == stored'[e]
                   d == IF e \in dropped THEN 1 ELSE 0
                   d2 == IF e \in dropped' THEN 1 ELSE 0
                   k == IF e \in ToSet(b) THEN 1 ELSE 0
        <5>1. /\ c \in Nat /\ m \in Nat /\ i \in Nat /\ n \in Nat /\ r \in Nat
              /\ d \in Nat /\ i2 \in Nat /\ n2 \in Nat /\ r2 \in Nat
              /\ d2 \in Nat /\ k \in Nat
          BY <2>a, <3>1, <3>3, <4>2
        <5>2. r2 + d2 = r + d + k
          BY <4>1
        <5>3. i + n = i2 + n2 + k
          <6>1. i2 = i
            BY <3>1
          <6>2. n = n2 + k
            BY <3>3
          <6> HIDE DEF i, i2, n, n2, k
          <6> QED
            BY <5>1, <6>1, <6>2
        <5>4. /\ Held(e) = c + m + i + n + r + d
              /\ Held(e)' = c + m + i2 + n2 + r2 + d2
          BY <3>1 DEF Held
        <5> HIDE DEF c, m, i, i2, n, n2, r, r2, d, d2, k
        <5> QED
          BY <5>1, <5>2, <5>3, <5>4, SumKept
    <3> QED
      BY <2>b, <3>1, <3>2, <3>5 DEF PlaceInv
  <2>11. CASE CtxCancel
    BY <2>11, <2>c DEF CtxCancel
  <2>12. CASE Main
    BY <2>12, <2>c DEF Main, MainSignalled, ServersDown, Shutdown, Exit
  <2>13. CASE UNCHANGED vars
    BY <2>13, <2>c DEF vars
  <2> QED
    BY <2>1, <2>2, <2>3, <2>4, <2>5, <2>6, <2>7, <2>8, <2>9, <2>10, <2>11,
       <2>12, <2>13
       DEF Next, Writer, InsertDone, Follower
<1> QED
  BY <1>1, <1>2, TypeCorrect, DrainInvariant, PTL DEF Spec

\* From the moment it is queued, a line is in exactly one place: the channel,
\* the writer's buffer, one insert, the table or a refused batch.
THEOREM NothingLostOrDoubled == Spec => []ExactlyOnePlace
<1>1. PlaceInv => ExactlyOnePlace
  BY DEF PlaceInv, Held, Carrying, ExactlyOnePlace, Copies
<1> QED
  BY <1>1, PlaceInvariant, PTL


-----------------------------------------------------------------------------
(* The order of the lines that wait. *)

\* The lines of a follower stand in s in the order of their numbers.
Ordered(s) ==
    \A i, j \in DOMAIN s : i < j /\ s[i][1] = s[j][1] => s[i][2] < s[j][2]

\* A follower's lines in s are older than its lines in t.
Before(s, t) ==
    \A l \in ToSet(s), k \in ToSet(t) : l[1] = k[1] => l[2] < k[2]

\* The channel keeps each follower's order and the writer's buffer holds what
\* was queued before it: without this a batch could leave an older line behind.
OrderInv == Ordered(batchCh) /\ Before(batch, batchCh)

\* A line younger than all those of its follower keeps the order.
LEMMA OrderedAppend ==
  ASSUME NEW S, NEW s \in Seq(S), NEW x \in S, Ordered(s),
         \A l \in ToSet(s) : l[1] = x[1] => l[2] < x[2]
  PROVE  Ordered(Append(s, x))
<1> DEFINE t == Append(s, x)
           n == Len(s) + 1
<1>1. /\ DOMAIN s = 1..Len(s) /\ Len(s) \in Nat
      /\ DOMAIN t = 1..n /\ t[n] = x /\ \A i \in 1..Len(s) : t[i] = s[i]
  OBVIOUS
<1>2. \A i \in 1..Len(s) : s[i] \in ToSet(s)
  BY <1>1 DEF ToSet
<1> HIDE DEF t
<1>3. ASSUME NEW i \in DOMAIN t, NEW j \in DOMAIN t, i < j, t[i][1] = t[j][1]
      PROVE  t[i][2] < t[j][2]
  <2>1. i \in 1..Len(s)
    BY <1>1, <1>3
  <2>2. CASE j \in 1..Len(s)
    <3>1. /\ t[i] = s[i] /\ t[j] = s[j] /\ i \in DOMAIN s /\ j \in DOMAIN s
      BY <1>1, <2>1, <2>2
    <3> QED
      BY <1>3, <3>1 DEF Ordered
  <2>3. CASE j = n
    <3>1. t[i] = s[i] /\ t[j] = x /\ s[i] \in ToSet(s)
      BY <1>1, <1>2, <2>1, <2>3
    <3> QED
      BY <1>3, <3>1
  <2>4. j \in 1..Len(s) \/ j = n
    BY <1>1
  <2> QED
    BY <2>2, <2>3, <2>4
<1> QED
  BY <1>3 DEF Ordered, t

\* The head of an ordered sequence is older than the rest, which is ordered.
LEMMA OrderedTail ==
  ASSUME NEW S, NEW s \in Seq(S), s # <<>>, Ordered(s)
  PROVE  /\ Ordered(Tail(s))
         /\ \A k \in ToSet(Tail(s)) : Head(s)[1] = k[1] => Head(s)[2] < k[2]
         /\ ToSet(s) = {Head(s)} \union ToSet(Tail(s))
<1> DEFINE t == Tail(s)
<1>1. /\ DOMAIN s = 1..Len(s) /\ Len(s) \in Nat \ {0}
      /\ DOMAIN t = 1..(Len(s) - 1)
      /\ \A i \in 1..(Len(s) - 1) : t[i] = s[i + 1]
      /\ Head(s) = s[1]
  OBVIOUS
<1> HIDE DEF t
<1>2. Ordered(t)
  <2>1. ASSUME NEW i \in DOMAIN t, NEW j \in DOMAIN t, i < j
        PROVE  /\ t[i] = s[i + 1] /\ t[j] = s[j + 1] /\ i + 1 < j + 1
               /\ i + 1 \in DOMAIN s /\ j + 1 \in DOMAIN s
    BY <1>1, <2>1
  <2> QED
    BY <2>1 DEF Ordered
<1>3. ASSUME NEW k \in ToSet(t), Head(s)[1] = k[1] PROVE Head(s)[2] < k[2]
  <2>1. PICK i \in DOMAIN t : k = t[i]
    BY DEF ToSet
  <2>2. /\ k = s[i + 1] /\ 1 < i + 1
        /\ 1 \in DOMAIN s /\ i + 1 \in DOMAIN s
    BY <1>1, <2>1
  <2> QED
    BY <1>1, <1>3, <2>2 DEF Ordered
<1>4. ToSet(s) = {Head(s)} \union ToSet(t)
  <2>1. ASSUME NEW i \in DOMAIN s
        PROVE  s[i] = Head(s) \/ \E j \in DOMAIN t : s[i] = t[j]
    <3>1. CASE i = 1
      BY <1>1, <3>1
    <3>2. CASE i # 1
      <4>1. i - 1 \in DOMAIN t /\ (i - 1) + 1 = i
        BY <1>1, <3>2
      <4>2. t[i - 1] = s[i]
        BY <1>1, <4>1
      <4> QED
        BY <4>1, <4>2
    <3> QED
      BY <3>1, <3>2
  <2>2. ASSUME NEW j \in DOMAIN t PROVE j + 1 \in DOMAIN s /\ s[j + 1] = t[j]
    BY <1>1
  <2>3. 1 \in DOMAIN s
    BY <1>1
  <2> QED
    BY <1>1, <2>1, <2>2, <2>3 DEF ToSet
<1> QED
  BY <1>2, <1>3, <1>4 DEF t

\* The head of the channel goes to the end of the writer's buffer.
LEMMA OrderMoves ==
  ASSUME OrderInv, batchCh \in Seq(Entries), batch \in Seq(Entries),
         batchCh # <<>>
  PROVE  /\ Ordered(Tail(batchCh))
         /\ Before(Append(batch, Head(batchCh)), Tail(batchCh))
         /\ ToSet(Append(batch, Head(batchCh)))
            = ToSet(batch) \union {Head(batchCh)}
         /\ ToSet(batchCh) = {Head(batchCh)} \union ToSet(Tail(batchCh))
         /\ Append(batch, Head(batchCh)) \in Seq(Entries)
         /\ Len(Append(batch, Head(batchCh))) = Len(batch) + 1
         /\ Append(batch, Head(batchCh)) # <<>>
<1> DEFINE h == Head(batchCh)
           t == Tail(batchCh)
           b == Append(batch, h)
<1>1. h \in Entries
  BY HeadTail
<1>2. /\ b \in Seq(Entries) /\ Len(b) = Len(batch) + 1
      /\ ToSet(b) = ToSet(batch) \union {h}
  BY <1>1, AppendElements
<1>3. b # <<>>
  <2>1. Len(batch) \in Nat
    OBVIOUS
  <2> QED
    BY <1>2, <2>1
<1>4. /\ Ordered(t) /\ ToSet(batchCh) = {h} \union ToSet(t)
      /\ \A k \in ToSet(t) : h[1] = k[1] => h[2] < k[2]
  BY OrderedTail DEF OrderInv
<1>5. Before(b, t)
  <2>1. \A l \in ToSet(batch), k \in ToSet(t) : l[1] = k[1] => l[2] < k[2]
    BY <1>4 DEF OrderInv, Before
  <2> HIDE DEF h, t, b
  <2> QED
    BY <1>2, <1>4, <2>1 DEF Before
<1> QED
  BY <1>2, <1>3, <1>4, <1>5

\* OrderInv holds in every reachable state.
THEOREM OrderInvariant == Spec => []OrderInv
<1>1. Init => OrderInv
  BY DEF Init, OrderInv, Ordered, Before, ToSet
<1>2. TypeOK /\ DrainInv /\ OrderInv /\ [Next]_vars => OrderInv'
  <2> SUFFICES ASSUME TypeOK, DrainInv, OrderInv, [Next]_vars PROVE OrderInv'
    OBVIOUS
  <2> USE DEF follower, writer, main, database
  <2>0. /\ batchCh \in Seq(Entries) /\ batch \in Seq(Entries)
        /\ sent \in [Followers -> Nat]
        /\ ToSet(batchCh) \subseteq Entries /\ ToSet(batch) \subseteq Entries
        /\ \A e \in ToSet(batchCh) \union ToSet(batch) : Queued(e)
        /\ ToSet(<<>>) = {}
    BY SizesAssumption, Elements DEF TypeOK, ToSet, DrainInv
  <2>a. ASSUME UNCHANGED batchCh, batch' = batch \/ batch' = <<>>
        PROVE  OrderInv'
    <3>1. Ordered(batchCh')
      BY <2>a DEF OrderInv
    <3>2. ToSet(batch') \subseteq ToSet(batch)
      BY <2>0, <2>a
    <3>3. Before(batch', batchCh')
      BY <2>a, <3>2 DEF OrderInv, Before
    <3> QED
      BY <3>1, <3>3 DEF OrderInv
  <2>b. ASSUME batchCh # <<>>, batchCh' = Tail(batchCh),
               batch' = Append(batch, Head(batchCh)) \/ batch' = <<>>
        PROVE  OrderInv'
    <3>1. /\ Ordered(Tail(batchCh))
          /\ Before(Append(batch, Head(batchCh)), Tail(batchCh))
      BY <2>0, <2>b, OrderMoves
    <3>2. Before(<<>>, Tail(batchCh))
      BY <2>0 DEF Before
    <3>3. Before(batch', batchCh')
      BY <2>b, <3>1, <3>2
    <3> QED
      BY <2>b, <3>1, <3>3 DEF OrderInv
  <2>1. ASSUME NEW f \in Followers, FollowerSend(f) PROVE OrderInv'
    <3> DEFINE new == <<f, sent[f] + 1>>
    <3>1. new \in Entries
      <4>1. sent[f] \in Nat /\ sent[f] < MaxLines /\ MaxLines \in Nat
        BY <2>0, <2>1, SizesAssumption DEF FollowerSend
      <4> QED
        BY <4>1 DEF Entries
    <3>2. ASSUME NEW l \in ToSet(batchCh) \union ToSet(batch), l[1] = new[1]
          PROVE  l[2] < new[2]
      <4>1. l \in Entries /\ l[2] <= sent[l[1]]
        BY <2>0 DEF Queued
      <4>2. l[2] \in Nat /\ l[1] = f /\ sent[f] \in Nat
        BY <2>0, <3>2, <4>1, SizesAssumption DEF Entries
      <4>3. l[2] <= sent[f] /\ new[2] = sent[f] + 1
        BY <4>1, <4>2
      <4> HIDE DEF new
      <4> QED
        BY <4>2, <4>3
    <3>3. batchCh' = Append(batchCh, new) /\ batch' = batch
      BY <2>1 DEF FollowerSend
    <3> HIDE DEF new
    <3>4. Ordered(batchCh')
      BY <2>0, <3>1, <3>2, <3>3, OrderedAppend DEF OrderInv
    <3>5. ToSet(batchCh') = ToSet(batchCh) \union {new}
      BY <2>0, <3>1, <3>3, AppendElements
    <3>6. Before(batch', batchCh')
      BY <3>2, <3>3, <3>5 DEF OrderInv, Before
    <3> QED
      BY <3>4, <3>6 DEF OrderInv
  <2>2. ASSUME NEW f \in Followers, FollowerQuit(f) PROVE OrderInv'
    BY <2>2, <2>a DEF FollowerQuit
  <2>3. CASE WriterRecv
    BY <2>3, <2>b DEF WriterRecv, FlushAsync
  <2>4. CASE WriterTick
    BY <2>4, <2>a DEF WriterTick, FlushAsync
  <2>5. CASE WriterDrain
    BY <2>5, <2>b DEF WriterDrain, FlushSync
  <2>6. CASE WriterDrained
    BY <2>6, <2>a DEF WriterDrained, FlushSync
  <2>7. CASE WriterCancelled \/ WriterInsert \/ SignalDone \/ CtxCancel
    BY <2>7, <2>a DEF WriterCancelled, WriterInsert, SignalDone, CtxCancel
  <2>8. ASSUME NEW b \in inflight, AsyncInsert(b) PROVE OrderInv'
    BY <2>8, <2>a DEF AsyncInsert
  <2>9. CASE Main
    BY <2>9, <2>a DEF Main, MainSignalled, ServersDown, Shutdown, Exit
  <2>10. CASE UNCHANGED vars
    BY <2>10, <2>a DEF vars
  <2> QED
    BY <2>1, <2>2, <2>3, <2>4, <2>5, <2>6, <2>7, <2>8, <2>9, <2>10
       DEF Next, Writer, InsertDone, Follower
<1> QED
  BY <1>1, <1>2, TypeCorrect, DrainInvariant, PTL DEF Spec

-----------------------------------------------------------------------------
(* The write path implements LogDelivery. *)

\* A sequence has at most as many elements as places.
LEMMA ElementsAreFew ==
  ASSUME NEW S, NEW s \in Seq(S)
  PROVE  /\ Cardinality(ToSet(s)) <= Len(s)
         /\ Cardinality(ToSet(s)) \in Nat
<1>1. s \in [1..Len(s) -> S] /\ Len(s) \in Nat
  OBVIOUS
<1>2. IsFiniteSet(1..Len(s)) /\ Cardinality(1..Len(s)) = Len(s)
  <2>1. Len(s) \in Int /\ 1 \in Int
    BY <1>1
  <2>2. /\ IsFiniteSet(1..Len(s))
        /\ Cardinality(1..Len(s))
           = IF 1 > Len(s) THEN 0 ELSE Len(s) - 1 + 1
    BY <2>1, FS_Interval
  <2> QED
    BY <1>1, <2>2
<1>3. s \in Surjection(1..Len(s), ToSet(s))
  BY <1>1 DEF Surjection, ToSet
<1> QED
  BY <1>2, <1>3, FS_Surjection, FS_CardinalityType

\* No line is in two inserts.
LEMMA InsertsAreDisjoint ==
  ASSUME TypeOK, PlaceInv, NEW e \in Entries, NEW b \in inflight,
         e \in ToSet(b)
  PROVE  /\ \A d \in inflight : e \in ToSet(d) => d = b
         /\ e \notin ToSet(syncInsert)
<1> DEFINE C == Carrying(e, inflight)
           c == Occurrences(e, batchCh)
           m == Occurrences(e, batch)
           i == Occurrences(e, syncInsert)
           n == Cardinality(C)
           r == stored[e]
           x == IF e \in dropped THEN 1 ELSE 0
<1>1. c \in Nat /\ m \in Nat /\ i \in Nat /\ n \in Nat /\ r \in Nat
  BY HeldNumbers DEF PlaceInv
<1>2. x \in Nat
  OBVIOUS
<1>3. c + m + i + n + r + x <= 1
  BY DEF PlaceInv, Held
<1>4. IsFiniteSet(C) /\ b \in C
  BY FS_Subset DEF PlaceInv, Carrying
<1>5. n = Cardinality(C \ {b}) + 1 /\ Cardinality(C \ {b}) \in Nat
      /\ IsFiniteSet(C \ {b})
  BY <1>4, CountWithout
<1>6. i = 0 /\ Cardinality(C \ {b}) = 0
  <2> DEFINE k == Cardinality(C \ {b})
  <2>1. n = k + 1 /\ k \in Nat
    BY <1>5
  <2> HIDE DEF c, m, i, n, r, x, k
  <2>2. i = 0 /\ k = 0
    BY <1>1, <1>2, <1>3, <2>1
  <2> QED
    BY <2>2 DEF k
<1>7. C \ {b} = {}
  BY <1>5, <1>6, FS_EmptySet
<1>8. e \notin ToSet(syncInsert)
  BY <1>6, OccurrencesType DEF TypeOK
<1> QED
  BY <1>7, <1>8 DEF Carrying

\* The lines that wait, as the abstract delivery sees them, are those in the
\* channel and in the writer's buffer.
LEMMA WaitingLines ==
  ASSUME TypeOK, PlaceInv
  PROVE  Delivery!Waiting = ToSet(batch) \union ToSet(batchCh)
<1>1. ToSet(batch) \subseteq Entries /\ ToSet(batchCh) \subseteq Entries
  BY Elements DEF TypeOK
<1>2. ASSUME NEW e \in Entries
      PROVE  (/\ Queued(e) /\ stored[e] = 0 /\ e \notin dropped
              /\ \A B \in Inserting : e \notin B)
             <=> e \in ToSet(batch) \union ToSet(batchCh)
  <2> DEFINE c == Occurrences(e, batchCh)
             m == Occurrences(e, batch)
             i == Occurrences(e, syncInsert)
             n == Cardinality(Carrying(e, inflight))
             r == stored[e]
             x == IF e \in dropped THEN 1 ELSE 0
  <2>1. c \in Nat /\ m \in Nat /\ i \in Nat /\ n \in Nat /\ r \in Nat
    BY HeldNumbers DEF PlaceInv
  <2>2. x \in {0, 1} /\ (x = 0 <=> e \notin dropped)
    OBVIOUS
  <2>3. c + m + i + n + r + x = IF Queued(e) THEN 1 ELSE 0
    BY DEF PlaceInv, Held
  <2>4. /\ c = 0 <=> e \notin ToSet(batchCh)
        /\ m = 0 <=> e \notin ToSet(batch)
        /\ i = 0 <=> e \notin ToSet(syncInsert)
    BY OccurrencesType DEF TypeOK
  <2>5. n = 0 <=> \A d \in inflight : e \notin ToSet(d)
    <3>1. Carrying(e, inflight) = {} <=> \A d \in inflight : e \notin ToSet(d)
      BY DEF Carrying
    <3>2. Carrying(e, inflight) = {} => n = 0
      BY FS_EmptySet
    <3>3. n = 0 => \A d \in inflight : e \notin ToSet(d)
      BY CarryingType DEF PlaceInv
    <3> QED
      BY <3>1, <3>2, <3>3
  <2>6. (\A B \in Inserting : e \notin B) <=> i = 0 /\ n = 0
    BY <2>4, <2>5 DEF Inserting
  <2> HIDE DEF c, m, i, n, r, x
  <2>7. (Queued(e) /\ r = 0 /\ x = 0 /\ i = 0 /\ n = 0) <=> (m # 0 \/ c # 0)
    BY <2>1, <2>2, <2>3
  <2> QED
    BY <2>2, <2>4, <2>6, <2>7 DEF r
<1> QED
  BY <1>1, <1>2 DEF Delivery!Waiting, Delivery!Lines, Entries, Queued

\* A step of BatchWriter as the abstract delivery sees it.
DeliveryStep == [Delivery!Next]_(Delivery!vars)

\* What the writer hands to an insert is one cut of the abstract delivery: no
\* more than BatchCap lines, none before an older one of its follower.
LEMMA HandingOverIsCut ==
  ASSUME TypeOK, PlaceInv, NEW b \in Seq(Entries), b # <<>>,
         Len(b) <= BatchCap, alive, UNCHANGED <<sent, stored, dropped, mpc>>,
         Inserting' = Inserting \union {ToSet(b)},
         ToSet(b) \subseteq ToSet(batch) \union ToSet(batchCh),
         NEW rest \in Seq(Entries), Before(b, rest),
         ToSet(batch) \union ToSet(batchCh) = ToSet(b) \union ToSet(rest)
  PROVE  DeliveryStep
<1> DEFINE B == ToSet(b)
<1>1. B # {}
  BY HeadTail
<1>2. Cardinality(B) <= BatchCap
  <2>1. Cardinality(B) <= Len(b) /\ Cardinality(B) \in Nat /\ Len(b) \in Nat
    BY ElementsAreFew
  <2> HIDE DEF B
  <2> QED
    BY <2>1, SizesAssumption
<1>3. ASSUME NEW l \in B, NEW k \in ToSet(batch) \union ToSet(batchCh),
             k[1] = l[1], k[2] < l[2]
      PROVE  k \in B
  <2>1. CASE k \in ToSet(rest)
    <3>1. l[2] < k[2]
      BY <1>3, <2>1 DEF Before
    <3>2. l \in Entries /\ k \in Entries
      BY <2>1, Elements
    <3>3. l[2] \in Nat /\ k[2] \in Nat
      BY <3>2, SizesAssumption DEF Entries
    <3> QED
      BY <1>3, <3>1, <3>3
  <2>2. CASE k \in B
    BY <2>2
  <2> QED
    BY <2>1, <2>2
<1>4. B \in Delivery!Cuts
  <2>1. Delivery!Waiting = ToSet(batch) \union ToSet(batchCh)
    BY WaitingLines
  <2>2. Delivery!Cardinality(B) = Cardinality(B)
    BY DEF Delivery!Cardinality, Cardinality
  <2>3. B \subseteq Delivery!Waiting
    BY <2>1
  <2>4. \A l \in B, k \in Delivery!Waiting :
          k[1] = l[1] /\ k[2] < l[2] => k \in B
    BY <1>3, <2>1
  <2> HIDE DEF B
  <2> QED
    BY <1>1, <1>2, <2>2, <2>3, <2>4 DEF Delivery!Cuts
<1>5. Delivery!Cut(B)
  BY DEF Delivery!Cut, alive
<1> HIDE DEF B
<1> QED
  BY <1>4, <1>5 DEF DeliveryStep, Delivery!Next

\* The end of an insert is one step of the abstract delivery: every line of
\* its batch gets its row, or the batch is refused as a whole.
LEMMA InsertIsDelivery ==
  ASSUME TypeOK, NEW b \in Seq(Entries), InsertBatch(b), alive,
         UNCHANGED <<sent, mpc>>, ToSet(b) \in Inserting,
         Inserting' = Inserting \ {ToSet(b)},
         \A e \in ToSet(b) : stored[e] = 0
  PROVE  DeliveryStep
<1> DEFINE B == ToSet(b)
<1>1. CASE /\ stored' = [e \in Entries |->
                           stored[e] + IF e \in ToSet(b) THEN 1 ELSE 0]
           /\ UNCHANGED dropped
  <2>1. \A e \in Entries : stored[e] \in Nat
    BY DEF TypeOK
  <2>2. stored' = [e \in Entries |-> IF e \in B THEN 1 ELSE stored[e]]
    BY <1>1, <2>1
  <2>3. Delivery!Store(B)
    BY <1>1, <2>2 DEF Delivery!Store, Delivery!Lines, Entries, alive
  <2> QED
    BY <2>3 DEF DeliveryStep, Delivery!Next
<1>2. CASE /\ InsertsMayFail
           /\ dropped' = dropped \union ToSet(b)
           /\ UNCHANGED stored
  <2>1. Delivery!Refuse(B)
    BY <1>2 DEF Delivery!Refuse, alive
  <2> QED
    BY <2>1 DEF DeliveryStep, Delivery!Next
<1> QED
  BY <1>1, <1>2 DEF InsertBatch

\* The write path implements LogDelivery: a batch is cut in each follower's
\* order, answered once and as a whole, and a line never gets a second row.
THEOREM DeliveryIsImplemented == Spec => DeliversLines
<1>1. Init => Delivery!Init
  <2> SUFFICES ASSUME Init PROVE Delivery!Init
    OBVIOUS
  <2>1. Inserting = {}
    BY DEF Init, Inserting, ToSet
  <2> QED
    BY <2>1 DEF Init, Delivery!Init, Delivery!Lines, Entries, alive
<1>2. TypeOK /\ DrainInv /\ PlaceInv /\ OrderInv /\ [Next]_vars
        => DeliveryStep
  <2> SUFFICES ASSUME TypeOK, DrainInv, PlaceInv, OrderInv, [Next]_vars
               PROVE  DeliveryStep
    OBVIOUS
  <2> USE DEF follower, writer, main, database
  <2>0. /\ batchCh \in Seq(Entries) /\ batch \in Seq(Entries)
        /\ syncInsert \in Seq(Entries) /\ Len(syncInsert) <= BatchCap
        /\ \A b \in inflight : b \in Seq(Entries) /\ Len(b) <= BatchCap
        /\ Len(batch) < BatchCap /\ Len(batch) \in Nat /\ BatchCap \in Nat
        /\ ToSet(<<>>) = {}
    BY SizesAssumption DEF TypeOK, ToSet
  <2>a. ASSUME UNCHANGED <<sent, inflight, syncInsert, stored, dropped>>,
               alive' = alive
        PROVE  DeliveryStep
    BY <2>a DEF DeliveryStep, Delivery!vars, Inserting
  \* A batch goes to an insert, from the select loop or from the drain.
  <2>b. ASSUME NEW b \in Seq(Entries), b # <<>>,
               \/ inflight' = inflight \union {b} /\ UNCHANGED syncInsert
               \/ /\ syncInsert = <<>> /\ syncInsert' = b
                  /\ UNCHANGED inflight
        PROVE  Inserting' = Inserting \union {ToSet(b)}
    <3>1. ToSet(b) # {}
      BY <2>b, HeadTail
    <3> QED
      BY <2>0, <2>b, <3>1 DEF Inserting
  <2>c. ASSUME batchCh # <<>>, Full(Append(batch, Head(batchCh))),
               alive, UNCHANGED <<sent, stored, dropped, mpc>>,
               Inserting' = Inserting
                            \union {ToSet(Append(batch, Head(batchCh)))}
        PROVE  DeliveryStep
    <3> DEFINE b == Append(batch, Head(batchCh))
    <3>1. /\ Before(b, Tail(batchCh)) /\ b \in Seq(Entries) /\ b # <<>>
          /\ Len(b) = Len(batch) + 1
          /\ ToSet(b) = ToSet(batch) \union {Head(batchCh)}
          /\ ToSet(batchCh) = {Head(batchCh)} \union ToSet(Tail(batchCh))
      BY <2>0, <2>c, OrderMoves
    <3>2. Tail(batchCh) \in Seq(Entries)
      BY <2>0, <2>c, HeadTail
    <3> HIDE DEF b
    <3>3. Len(b) <= BatchCap
      BY <2>0, <3>1
    <3>4. /\ ToSet(b) \subseteq ToSet(batch) \union ToSet(batchCh)
          /\ ToSet(batch) \union ToSet(batchCh)
             = ToSet(b) \union ToSet(Tail(batchCh))
      BY <3>1
    <3>5. Inserting' = Inserting \union {ToSet(b)}
      BY <2>c DEF b
    <3> QED
      BY <2>c, <3>1, <3>2, <3>3, <3>4, <3>5, HandingOverIsCut
  <2>d. ASSUME batch # <<>>, alive, UNCHANGED <<sent, stored, dropped, mpc>>,
               Inserting' = Inserting \union {ToSet(batch)}
        PROVE  DeliveryStep
    BY <2>0, <2>d, HandingOverIsCut DEF OrderInv
  <2>1. ASSUME NEW f \in Followers, FollowerSend(f) PROVE DeliveryStep
    <3>1. UNCHANGED Inserting
      BY <2>1 DEF FollowerSend, Inserting
    <3>2. Delivery!Accept(f)
      BY <2>1, <3>1 DEF FollowerSend, Delivery!Accept, alive
    <3> QED
      BY <3>2 DEF DeliveryStep, Delivery!Next
  <2>2. ASSUME NEW f \in Followers, FollowerQuit(f) PROVE DeliveryStep
    BY <2>2, <2>a DEF FollowerQuit, alive
  <2>3. CASE WriterRecv
    <3>1. /\ batchCh # <<>> /\ alive
          /\ UNCHANGED <<sent, syncInsert, stored, dropped, mpc>>
      BY <2>3 DEF WriterRecv
    <3>2. CASE Full(Append(batch, Head(batchCh)))
      <4>1. /\ Append(batch, Head(batchCh)) \in Seq(Entries)
            /\ Append(batch, Head(batchCh)) # <<>>
        BY <2>0, <3>1, OrderMoves
      <4>2. inflight' = inflight \union {Append(batch, Head(batchCh))}
        BY <2>3, <3>2, <4>1 DEF WriterRecv, FlushAsync
      <4> QED
        BY <2>b, <2>c, <3>1, <3>2, <4>1, <4>2
    <3>3. CASE ~Full(Append(batch, Head(batchCh)))
      <4>1. UNCHANGED inflight
        BY <2>3, <3>3 DEF WriterRecv
      <4> QED
        BY <2>a, <3>1, <4>1 DEF alive
    <3> QED
      BY <3>2, <3>3
  <2>4. CASE WriterTick
    <3>1. /\ alive /\ FlushAsync(batch)
          /\ UNCHANGED <<sent, syncInsert, stored, dropped, mpc>>
      BY <2>4 DEF WriterTick
    <3>2. CASE batch = <<>>
      BY <2>a, <3>1, <3>2 DEF FlushAsync, alive
    <3>3. CASE batch # <<>>
      <4>1. inflight' = inflight \union {batch}
        BY <3>1, <3>3 DEF FlushAsync
      <4> QED
        BY <2>0, <2>b, <2>d, <3>1, <3>3, <4>1
    <3> QED
      BY <3>2, <3>3
  <2>5. CASE WriterDrain
    <3>1. /\ batchCh # <<>> /\ alive /\ syncInsert = <<>>
          /\ UNCHANGED <<sent, inflight, stored, dropped, mpc>>
      BY <2>5 DEF WriterDrain, DrainInv
    <3>2. CASE Full(Append(batch, Head(batchCh)))
      <4>1. /\ Append(batch, Head(batchCh)) \in Seq(Entries)
            /\ Append(batch, Head(batchCh)) # <<>>
        BY <2>0, <3>1, OrderMoves
      <4>2. syncInsert' = Append(batch, Head(batchCh))
        BY <2>5, <3>2 DEF WriterDrain, FlushSync
      <4> QED
        BY <2>b, <2>c, <3>1, <3>2, <4>1, <4>2
    <3>3. CASE ~Full(Append(batch, Head(batchCh)))
      <4>1. UNCHANGED syncInsert
        BY <2>5, <3>3 DEF WriterDrain
      <4> QED
        BY <2>a, <3>1, <4>1 DEF alive
    <3> QED
      BY <3>2, <3>3
  <2>6. CASE WriterDrained
    <3>1. /\ alive /\ syncInsert = <<>> /\ syncInsert' = batch
          /\ UNCHANGED <<sent, inflight, stored, dropped, mpc>>
      BY <2>6 DEF WriterDrained, FlushSync, DrainInv
    <3>2. CASE batch = <<>>
      BY <2>a, <3>1, <3>2 DEF alive
    <3>3. CASE batch # <<>>
      BY <2>0, <2>b, <2>d, <3>1, <3>3
    <3> QED
      BY <3>2, <3>3
  <2>7. CASE WriterCancelled \/ SignalDone \/ CtxCancel \/ MainSignalled
             \/ ServersDown \/ Shutdown
    BY <2>7, <2>a DEF WriterCancelled, SignalDone, CtxCancel, MainSignalled,
       ServersDown, Shutdown, alive
  <2>e. ASSUME NEW e \in Entries,
               Occurrences(e, syncInsert) > 0
               \/ Cardinality(Carrying(e, inflight)) > 0
        PROVE  stored[e] = 0
    <3> DEFINE c == Occurrences(e, batchCh)
               m == Occurrences(e, batch)
               i == Occurrences(e, syncInsert)
               n == Cardinality(Carrying(e, inflight))
               r == stored[e]
               x == IF e \in dropped THEN 1 ELSE 0
    <3>1. c \in Nat /\ m \in Nat /\ i \in Nat /\ n \in Nat /\ r \in Nat
      BY HeldNumbers DEF PlaceInv
    <3>2. x \in Nat
      OBVIOUS
    <3>3. c + m + i + n + r + x <= 1 /\ (i > 0 \/ n > 0)
      BY <2>e DEF Held, PlaceInv
    <3> HIDE DEF c, m, i, n, r, x
    <3>4. r = 0
      BY <3>1, <3>2, <3>3
    <3> QED
      BY <3>4 DEF r
  <2>8. CASE WriterInsert
    <3>1. /\ syncInsert # <<>> /\ InsertBatch(syncInsert) /\ alive
          /\ syncInsert' = <<>> /\ UNCHANGED <<sent, mpc, inflight>>
      BY <2>8 DEF WriterInsert, PlaceInv
    <3>2. ASSUME NEW e \in ToSet(syncInsert) PROVE stored[e] = 0
      <4>1. e \in Entries
        BY <2>0, Elements
      <4>2. Occurrences(e, syncInsert) \in Nat /\ Occurrences(e, syncInsert) # 0
        BY <2>0, OccurrencesType
      <4> QED
        BY <2>e, <4>1, <4>2
    <3>3. /\ Head(syncInsert) \in ToSet(syncInsert)
          /\ Head(syncInsert) \in Entries
      BY <2>0, <3>1, HeadTail
    <3>4. \A d \in inflight : Head(syncInsert) \notin ToSet(d)
      BY <3>3, InsertsAreDisjoint
    <3>5. ToSet(syncInsert) \in Inserting
      BY <3>3 DEF Inserting
    <3>6. Inserting' = Inserting \ {ToSet(syncInsert)}
      BY <2>0, <3>1, <3>3, <3>4 DEF Inserting
    <3> QED
      BY <2>0, <3>1, <3>2, <3>5, <3>6, InsertIsDelivery
  <2>9. ASSUME NEW b \in inflight, AsyncInsert(b) PROVE DeliveryStep
    <3>1. /\ InsertBatch(b) /\ alive /\ inflight' = inflight \ {b}
          /\ UNCHANGED <<sent, mpc, syncInsert>>
          /\ b \in Seq(Entries) /\ b # <<>> /\ IsFiniteSet(inflight)
      BY <2>0, <2>9 DEF AsyncInsert, PlaceInv
    <3>2. ASSUME NEW e \in ToSet(b) PROVE stored[e] = 0
      <4>1. e \in Entries
        BY <3>1, Elements
      <4>2. /\ Cardinality(Carrying(e, inflight)) \in Nat
            /\ Cardinality(Carrying(e, inflight)) # 0
        BY <3>1, CarryingType
      <4> QED
        BY <2>e, <4>1, <4>2
    <3>3. Head(b) \in ToSet(b) /\ Head(b) \in Entries
      BY <3>1, HeadTail
    <3>4. /\ \A d \in inflight : Head(b) \in ToSet(d) => d = b
          /\ Head(b) \notin ToSet(syncInsert)
      BY <3>3, InsertsAreDisjoint
    <3>5. ToSet(b) \in Inserting
      BY <3>3 DEF Inserting
    <3>6. Inserting' = Inserting \ {ToSet(b)}
      BY <3>1, <3>3, <3>4 DEF Inserting
    <3> QED
      BY <3>1, <3>2, <3>5, <3>6, InsertIsDelivery
  <2>10. CASE Exit
    <3>1. UNCHANGED Inserting
      BY <2>10 DEF Exit, Inserting
    <3>2. Delivery!End
      BY <2>10, <3>1 DEF Exit, Delivery!End, alive
    <3> QED
      BY <3>2 DEF DeliveryStep, Delivery!Next
  <2>11. CASE UNCHANGED vars
    BY <2>11, <2>a DEF vars, alive
  <2> QED
    BY <2>1, <2>2, <2>3, <2>4, <2>5, <2>6, <2>7, <2>8, <2>9, <2>10, <2>11
       DEF Next, Main, Writer, InsertDone, Follower
<1> QED
  BY <1>1, <1>2, TypeCorrect, DrainInvariant, PlaceInvariant, OrderInvariant,
     PTL DEF Spec, DeliveryStep, DeliversLines, Delivery!Spec
=============================================================================
