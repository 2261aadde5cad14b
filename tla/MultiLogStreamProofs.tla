------------------------ MODULE MultiLogStreamProofs ------------------------
(***************************************************************************)
(* Proofs that, for any set of containers, any number of lines and any     *)
(* sizes of the two channels, MultiLogStream is type correct, never        *)
(* sends on the closed channel, and that it keeps the lines of each        *)
(* container in order until the client is gone.                            *)
(***************************************************************************)
EXTENDS MultiLogStream, DataInduction

\* The first element of a sequence and the rest.
LEMMA FirstAndRest ==
  ASSUME NEW S, NEW s \in Seq(S), s # <<>>, NEW n, Len(s) <= n, n \in Nat
  PROVE  /\ Head(s) \in S
         /\ Tail(s) \in Seq(S)
         /\ Len(Tail(s)) <= n
<1>1. Head(s) \in S /\ Tail(s) \in Seq(S) /\ Len(Tail(s)) = Len(s) - 1
  OBVIOUS
<1>2. Len(s) \in Nat
  OBVIOUS
<1> QED
  BY <1>1, <1>2

\* Appending to the second of two sequences appends to both.
LEMMA AppendComesLast ==
  ASSUME NEW S, NEW v \in Seq(S), NEW w \in Seq(S), NEW m \in S
  PROVE  v \o Append(w, m) = Append(v \o w, m) /\ v \o w \in Seq(S)
OBVIOUS

\* A reader sends only after it has scanned a line, and a fan-in starts once:
\* no container the handler has yet to reach has one.
StartsOnce ==
    /\ \A c \in Containers : reader[c] = "send" => read[c] > 0
    /\ hpc = "list" => \A c \in Containers : fan[c] = "none"
    /\ \A c \in todo : fan[c] = "none"

\* The variables keep their types, the channels stay within their sizes, and a
\* fan-in holds a line exactly while it tries to send it.
THEOREM TypeCorrect == Spec => [](TypeOK /\ StartsOnce)
<1>0. /\ <<>> \in Seq(Lines)
      /\ <<>> \in Seq(Containers \X Lines)
  OBVIOUS
<1>1. Init => TypeOK /\ StartsOnce
  <2> SUFFICES ASSUME Init PROVE TypeOK /\ StartsOnce
    OBVIOUS
  <2>1. /\ output \in [Containers -> Seq(Lines)]
        /\ \A c \in Containers : Len(output[c]) <= OutCap
    BY <1>0, BoundsAssumption DEF Init
  <2>2. /\ merged \in Seq(Containers \X Lines) /\ Len(merged) <= MergedCap
        /\ sending \in Seq(Containers \X Lines) /\ sending = <<>>
        /\ written \in Seq(Containers \X Lines)
    BY <1>0, BoundsAssumption DEF Init
  <2>3. /\ read \in [Containers -> 0..MaxLines]
        /\ hold \in [Containers -> 0..MaxLines]
        /\ \A c \in Containers : fan[c] = "send" <=> hold[c] > 0
    BY BoundsAssumption DEF Init
  <2> QED
    BY <2>1, <2>2, <2>3 DEF Init, TypeOK, StartsOnce
<1>2. TypeOK /\ StartsOnce /\ [Next]_vars => TypeOK' /\ StartsOnce'
  <2> SUFFICES ASSUME TypeOK, StartsOnce, [Next]_vars
               PROVE  TypeOK' /\ StartsOnce'
    OBVIOUS
  <2> USE BoundsAssumption DEF TypeOK, StartsOnce, Lines, readers, fans,
             handler, client
  <2>1. CASE List
    BY <2>1 DEF List
  <2>2. CASE StartCloser
    BY <2>2 DEF StartCloser
  <2>3. CASE TakeMessage
    <3>1. /\ Head(merged) \in Containers \X Lines
          /\ Tail(merged) \in Seq(Containers \X Lines)
          /\ Len(Tail(merged)) <= MergedCap
      <4> HIDE DEF TypeOK, StartsOnce
      <4>1. /\ merged \in Seq(Containers \X Lines) /\ merged # <<>>
            /\ Len(merged) <= MergedCap
        BY <2>3 DEF TakeMessage, TypeOK
      <4> QED
        BY <4>1, FirstAndRest
    <3>2. /\ <<Head(merged)>> \in Seq(Containers \X Lines)
          /\ Len(<<Head(merged)>>) = 1
      BY <3>1
    <3> QED
      BY <2>3, <3>1, <3>2 DEF TakeMessage
  <2>16. CASE WriteMessage
    <3>1. written \o sending \in Seq(Containers \X Lines)
      OBVIOUS
    <3> QED
      BY <1>0, <2>16, <3>1 DEF WriteMessage, WriteFailed
  <2>4. CASE MergedEnds
    BY <2>4 DEF MergedEnds
  <2>5. ASSUME NEW c \in Containers, FollowContainer(c)
        PROVE  TypeOK' /\ StartsOnce'
    BY <2>5 DEF FollowContainer
  <2>6. ASSUME NEW c \in Containers, ScanLine(c)
        PROVE  TypeOK' /\ StartsOnce'
    <3>1. read[c] + 1 \in 1..MaxLines
      BY <2>6 DEF ScanLine
    <3>2. TypeOK'
      <4>1. /\ read' \in [Containers -> 0..MaxLines]
            /\ reader' \in [Containers -> {"none", "scan", "send", "closed"}]
        BY <2>6, <3>1 DEF ScanLine
      <4> QED
        BY <2>6, <4>1 DEF ScanLine
    <3>3. StartsOnce'
      BY <2>6, <3>1 DEF ScanLine
    <3> QED
      BY <3>2, <3>3
  <2>7. ASSUME NEW c \in Containers, PutLine(c)
        PROVE  TypeOK' /\ StartsOnce'
    <3>1. /\ Append(output[c], read[c]) \in Seq(Lines)
          /\ Len(Append(output[c], read[c])) <= OutCap
      BY <2>7 DEF PutLine, HasRoom
    <3>2. /\ output' \in [Containers -> Seq(Lines)]
          /\ \A d \in Containers : Len(output'[d]) <= OutCap
          /\ reader' \in [Containers -> {"none", "scan", "send", "closed"}]
      BY <2>7, <3>1 DEF PutLine
    <3> QED
      BY <2>7, <3>2 DEF PutLine
  <2>8. ASSUME NEW c \in Containers, StreamEnds(c) \/ ReaderCancelled(c)
        PROVE  TypeOK' /\ StartsOnce'
    BY <2>8 DEF StreamEnds, ReaderCancelled, CloseOutput
  <2>9. ASSUME NEW c \in Containers, Receive(c)
        PROVE  TypeOK' /\ StartsOnce'
    <3>1. /\ Head(output[c]) \in Lines
          /\ Tail(output[c]) \in Seq(Lines)
          /\ Len(Tail(output[c])) <= OutCap
      <4> HIDE DEF TypeOK, StartsOnce
      <4>1. /\ output[c] \in Seq(Lines) /\ output[c] # <<>>
            /\ Len(output[c]) <= OutCap
        BY <2>9 DEF Receive, TypeOK
      <4> HIDE DEF Lines
      <4> QED
        BY <4>1, FirstAndRest
    <3>2. /\ output' \in [Containers -> Seq(Lines)]
          /\ \A d \in Containers : Len(output'[d]) <= OutCap
      BY <2>9, <3>1 DEF Receive
    <3>3. /\ fan' \in [Containers -> {"none", "recv", "send", "done"}]
          /\ hold' \in [Containers -> 0..MaxLines]
          /\ \A d \in Containers : fan'[d] = "send" <=> hold'[d] > 0
      <4>1. PICK h \in 1..MaxLines : hold' = [hold EXCEPT ![c] = h]
        BY <2>9, <3>1 DEF Receive
      <4>2. /\ fan \in [Containers -> {"none", "recv", "send", "done"}]
            /\ hold \in [Containers -> 0..MaxLines] /\ MaxLines \in Nat
            /\ \A d \in Containers : fan[d] = "send" <=> hold[d] > 0
            /\ fan' = [fan EXCEPT ![c] = "send"]
        BY <2>9 DEF Receive
      <4> HIDE DEF TypeOK, StartsOnce
      <4> QED
        BY <4>1, <4>2
    <3>4. \A d \in todo : fan'[d] = fan[d]
      BY <2>9 DEF Receive
    <3>5. hpc # "list"
      BY <2>9 DEF Receive
    <3> QED
      BY <2>9, <3>2, <3>3, <3>4, <3>5 DEF Receive
  <2>10. ASSUME NEW c \in Containers, Merge(c)
         PROVE  TypeOK' /\ StartsOnce'
    <3>1. <<c, hold[c]>> \in Containers \X Lines
      BY <2>10 DEF Merge
    <3>2. /\ merged' \in Seq(Containers \X Lines)
          /\ Len(merged') <= MergedCap
      BY <2>10, <3>1 DEF Merge, Send
    <3>3. /\ fan' \in [Containers -> {"none", "recv", "send", "done"}]
          /\ hold' \in [Containers -> 0..MaxLines]
          /\ \A d \in Containers : fan'[d] = "send" <=> hold'[d] > 0
      BY <2>10 DEF Merge
    <3> QED
      BY <2>10, <3>2, <3>3 DEF Merge
  <2>11. ASSUME NEW c \in Containers, FanCancelled(c)
         PROVE  TypeOK' /\ StartsOnce'
    <3>1. /\ fan' \in [Containers -> {"none", "recv", "send", "done"}]
          /\ hold' \in [Containers -> 0..MaxLines]
          /\ \A d \in Containers : fan'[d] = "send" <=> hold'[d] > 0
      BY <2>11 DEF FanCancelled
    <3>2. hpc # "list" /\ \A d \in todo : fan'[d] = fan[d]
      BY <2>11 DEF FanCancelled
    <3> QED
      BY <2>11, <3>1, <3>2 DEF FanCancelled
  <2>12. ASSUME NEW c \in Containers, OutputEnds(c)
         PROVE  TypeOK' /\ StartsOnce'
    BY <2>12 DEF OutputEnds
  <2>13. CASE CloseMerged
    BY <2>13 DEF CloseMerged
  <2>14. CASE ClientGoes \/ ClientStalls
    BY <2>14 DEF ClientGoes, ClientStalls
  <2>15. CASE UNCHANGED vars
    BY <2>15 DEF vars
  <2> QED
    BY <2>1, <2>2, <2>3, <2>4, <2>5, <2>6, <2>7, <2>8, <2>9, <2>10, <2>11,
       <2>12, <2>13, <2>14, <2>15, <2>16 DEF Next, Handler, Reader, FanIn
<1> QED
  BY <1>1, <1>2, PTL DEF Spec

\* The closing goroutine starts after the handler has started the last fan-in.
CloserIsLast == closer # "none" => hpc \in {"write", "done"}

\* merged is never closed while a fan-in may still send to it: the closer waits
\* for all fan-ins, and no fan-in starts after the closer.
THEOREM ClosedMeansNoSender == Spec => []NoSendOnClosed
<1>1. Init => CloserIsLast /\ NoSendOnClosed
  BY DEF Init, CloserIsLast, NoSendOnClosed
<1>2. TypeOK /\ CloserIsLast /\ NoSendOnClosed /\ [Next]_vars
        => CloserIsLast' /\ NoSendOnClosed'
  <2> SUFFICES ASSUME TypeOK, CloserIsLast, NoSendOnClosed, [Next]_vars
               PROVE  CloserIsLast' /\ NoSendOnClosed'
    OBVIOUS
  <2> USE DEF TypeOK, CloserIsLast, NoSendOnClosed, readers, fans, handler,
             client
  <2>1. CASE List
    BY <2>1 DEF List
  <2>2. CASE StartCloser
    BY <2>2 DEF StartCloser
  <2>3. CASE TakeMessage \/ WriteMessage
    BY <2>3 DEF TakeMessage, WriteMessage, WriteFailed
  <2>4. CASE MergedEnds
    BY <2>4 DEF MergedEnds
  <2>5. ASSUME NEW c \in Containers, FollowContainer(c)
        PROVE  CloserIsLast' /\ NoSendOnClosed'
    <3>1. closer = "none" /\ closer' = "none"
      BY <2>5 DEF FollowContainer
    <3> QED
      BY <3>1
  <2>6. ASSUME NEW c \in Containers,
               ScanLine(c) \/ PutLine(c) \/ StreamEnds(c) \/ ReaderCancelled(c)
        PROVE  CloserIsLast' /\ NoSendOnClosed'
    BY <2>6 DEF ScanLine, PutLine, StreamEnds, ReaderCancelled
  <2>7. ASSUME NEW c \in Containers,
               Receive(c) \/ Merge(c) \/ FanCancelled(c) \/ OutputEnds(c)
        PROVE  CloserIsLast' /\ NoSendOnClosed'
    <3>1. closer # "ended" /\ closer' = closer /\ hpc' = hpc
      BY <2>7 DEF Receive, Merge, FanCancelled, OutputEnds
    <3> QED
      BY <3>1
  <2>8. CASE CloseMerged
    BY <2>8 DEF CloseMerged, AllDone
  <2>9. CASE ClientGoes \/ ClientStalls
    BY <2>9 DEF ClientGoes, ClientStalls
  <2>10. CASE UNCHANGED vars
    BY <2>10 DEF vars
  <2> QED
    BY <2>1, <2>2, <2>3, <2>4, <2>5, <2>6, <2>7, <2>8, <2>9, <2>10
       DEF Next, Handler, Reader, FanIn
<1> QED
  BY <1>1, <1>2, TypeCorrect, PTL DEF Spec

-----------------------------------------------------------------------------
(* The lines of one container among the merged ones. *)

\* The step of OfContainer: what m adds to the lines of c.
Keep(c, mine, m) == IF m[1] = c THEN Append(mine, m[2]) ELSE mine

\* OfContainer goes through a sequence line by line.
LEMMA OfContainerSteps ==
  ASSUME NEW c, NEW s \in Seq(Containers \X Lines)
  PROVE  \E f : /\ f[0] = <<>>
                /\ \A i \in 1..Len(s) : f[i] = Keep(c, f[i - 1], s[i])
                /\ OfContainer(c, s) = f[Len(s)]
<1> DEFINE n == Len(s)
           Iterates(f) ==
             f = [T \in SUBSET (DOMAIN s) |->
                    IF T = {} THEN <<>>
                    ELSE IF s[Max(T)][1] = c
                           THEN Append(f[T \ {Max(T)}], s[Max(T)][2])
                           ELSE f[T \ {Max(T)}]]
           iter == CHOOSE f : Iterates(f)
<1>1. OfContainer(c, s) = iter[DOMAIN s]
  BY DEF OfContainer, FoldLeft, MapThenFoldSet
<1>2. DOMAIN s = 1..n /\ n \in Nat
  OBVIOUS
<1>3. \E f : Iterates(f)
  <2> DEFINE step == [p \in Seq(Lines) \X (1..n) |-> Keep(c, p[1], s[p[2]])]
  <2>1. \A i \in 1..n : s[i] \in Containers \X Lines
    OBVIOUS
  <2>2. step \in [Seq(Lines) \X (1..n) -> Seq(Lines)]
    BY <2>1 DEF Keep
  <2>3. <<>> \in Seq(Lines)
    OBVIOUS
  <2>0. n \in Nat
    BY <1>2
  <2> HIDE DEF step, n
  <2>4. PICK f : IsFold(f, n, Seq(Lines), <<>>, step)
    BY <2>0, <2>2, <2>3, FoldExists
  <2>5. ASSUME NEW T \in SUBSET (1..n), T # {}
        PROVE  f[T] = Keep(c, f[T \ {Max(T)}], s[Max(T)])
    <3>1. Max(T) \in 1..n
      <4>1. T \in SUBSET (0..n)
        OBVIOUS
      <4> QED
        BY <1>2, <2>5, <4>1, GreatestElement
    <3>2. f[T \ {Max(T)}] \in Seq(Lines)
      BY <2>4 DEF IsFold
    <3> QED
      BY <2>4, <2>5, <3>1, <3>2 DEF step, IsFold
  <2>6. Iterates(f)
    BY <1>2, <2>4, <2>5 DEF Keep, IsFold
  <2> QED
    BY <2>6
<1>4. Iterates(iter)
  BY <1>3
<1> HIDE DEF iter
<1> DEFINE g == [i \in 0..n |-> iter[1..i]]
<1>5. g[0] = <<>>
  BY <1>2, <1>4
<1>6. ASSUME NEW i \in 1..n
      PROVE  g[i] = Keep(c, g[i - 1], s[i])
  <2>1. /\ Max(1..i) = i /\ (1..i) \ {i} = 1..(i - 1)
    BY GreatestOfInterval
  <2>2. 1..i \in SUBSET (DOMAIN s) /\ 1..i # {}
    BY <1>2, BeginningOfInterval
  <2>3. iter[1..i] = Keep(c, iter[1..(i - 1)], s[i])
    <3> DEFINE T == 1..i
    <3>1. iter[T] = Keep(c, iter[T \ {Max(T)}], s[Max(T)])
      <4> HIDE DEF T
      <4> QED
        BY <1>4, <2>2 DEF Keep, T
    <3> QED
      BY <2>1, <3>1
  <2> QED
    BY <2>3
<1>7. OfContainer(c, s) = g[n]
  BY <1>1, <1>2
<1> HIDE DEF g
<1> QED
  BY <1>5, <1>6, <1>7

\* A line merged last comes last, and only among those of its container.
LEMMA OfContainerAppend ==
  ASSUME NEW c, NEW s \in Seq(Containers \X Lines),
         NEW m \in Containers \X Lines
  PROVE  OfContainer(c, Append(s, m)) = Keep(c, OfContainer(c, s), m)
<1> DEFINE t == Append(s, m)
           n == Len(s)
<1>1. /\ t \in Seq(Containers \X Lines)
      /\ Len(t) = n + 1 /\ t[n + 1] = m
      /\ \A i \in 1..n : t[i] = s[i]
      /\ n \in Nat
  OBVIOUS
<1>2. PICK f : /\ f[0] = <<>>
               /\ \A i \in 1..n : f[i] = Keep(c, f[i - 1], s[i])
               /\ OfContainer(c, s) = f[n]
  BY OfContainerSteps
<1> HIDE DEF t
<1>3. PICK g : /\ g[0] = <<>>
               /\ \A i \in 1..Len(t) : g[i] = Keep(c, g[i - 1], t[i])
               /\ OfContainer(c, t) = g[Len(t)]
  BY <1>1, OfContainerSteps
<1>4. \A i \in 1..n : f[i - 1] = g[i - 1] => f[i] = g[i]
  BY <1>1, <1>2, <1>3
<1>5. f[n] = g[n]
  <2>1. n \in Nat /\ f[0] = g[0]
    BY <1>1, <1>2, <1>3
  <2> HIDE DEF n
  <2> QED
    BY <1>4, <2>1, SameSteps
<1>6. g[n + 1] = Keep(c, g[n], m)
  BY <1>1, <1>3
<1> QED
  BY <1>1, <1>2, <1>3, <1>5, <1>6 DEF t

\* The lines of a container among the merged ones are lines.
LEMMA OfContainerType ==
  ASSUME NEW c, NEW s \in Seq(Containers \X Lines)
  PROVE  OfContainer(c, s) \in Seq(Lines)
<1>1. PICK f : /\ f[0] = <<>>
               /\ \A i \in 1..Len(s) : f[i] = Keep(c, f[i - 1], s[i])
               /\ OfContainer(c, s) = f[Len(s)]
  BY OfContainerSteps
<1> DEFINE P == {n \in Nat : n <= Len(s) => f[n] \in Seq(Lines)}
<1>2. 0 \in P
  <2>1. <<>> \in Seq(Lines)
    OBVIOUS
  <2> QED
    BY <1>1, <2>1
<1>3. ASSUME NEW n \in Nat, n \in P
      PROVE  n + 1 \in P
  <2> SUFFICES ASSUME n + 1 <= Len(s)
               PROVE  f[n + 1] \in Seq(Lines)
    OBVIOUS
  <2>1. /\ f[n] \in Seq(Lines)
        /\ f[n + 1] = Keep(c, f[n], s[n + 1])
    BY <1>1, <1>3
  <2>2. s[n + 1][2] \in Lines
    OBVIOUS
  <2> QED
    BY <2>1, <2>2 DEF Keep
<1>4. Len(s) \in Nat /\ Len(s) \in P
  <2>1. Len(s) \in Nat
    OBVIOUS
  <2> HIDE DEF P
  <2> QED
    BY <1>2, <1>3, <2>1, SetInduction
<1> QED
  BY <1>1, <1>4

-----------------------------------------------------------------------------
\* Reader and fan-in of a container start together.  While the client is there,
\* nobody is cancelled with work left: a fan-in is done only when its reader has
\* closed an empty channel, and the handler only when all fan-ins are.
Settled ==
    /\ \A c \in Containers : fan[c] = "none" <=> reader[c] = "none"
    /\ connUp =>
         /\ \A c \in Containers :
              fan[c] = "done" => reader[c] = "closed" /\ output[c] = <<>>
         /\ hpc = "done" =>
              \A c \in Containers : fan[c] \in {"none", "done"}

\* Nobody leaves work behind while the client is there.
LEMMA SettledInvariant == Spec => []Settled
<1>1. Init => Settled
  BY DEF Init, Settled
<1>2. TypeOK /\ StartsOnce /\ NoSendOnClosed /\ Settled /\ [Next]_vars
        => Settled'
  <2> SUFFICES ASSUME TypeOK, StartsOnce, NoSendOnClosed, Settled, [Next]_vars
               PROVE  Settled'
    OBVIOUS
  <2> USE DEF Settled, readers, fans, handler, client
  <2>1. CASE List
    BY <2>1 DEF List, StartsOnce
  <2>2. CASE StartCloser
    BY <2>2 DEF StartCloser
  <2>3. CASE TakeMessage \/ WriteMessage
    BY <2>3 DEF TakeMessage, WriteMessage, WriteFailed
  <2>4. CASE MergedEnds
    BY <2>4 DEF MergedEnds, NoSendOnClosed, TypeOK
  <2>5. ASSUME NEW c \in Containers, FollowContainer(c)
        PROVE  Settled'
    <3>1. hpc = "follow" /\ UNCHANGED <<hpc, connUp, output>>
      BY <2>5 DEF FollowContainer
    <3>2. \A d \in Containers :
            \/ reader'[d] = reader[d] /\ fan'[d] = fan[d]
            \/ reader'[d] = "scan" /\ fan'[d] = "recv"
      BY <2>5 DEF FollowContainer, TypeOK
    <3> QED
      BY <3>1, <3>2
  <2>6. ASSUME NEW c \in Containers, ScanLine(c) \/ StreamEnds(c)
        PROVE  Settled'
    BY <2>6 DEF ScanLine, StreamEnds, CloseOutput, TypeOK
  <2>7. ASSUME NEW c \in Containers, PutLine(c)
        PROVE  Settled'
    BY <2>7 DEF PutLine, TypeOK
  <2>8. ASSUME NEW c \in Containers, ReaderCancelled(c)
        PROVE  Settled'
    BY <2>8 DEF ReaderCancelled, CloseOutput, TypeOK
  <2>9. ASSUME NEW c \in Containers, Receive(c) \/ Merge(c)
        PROVE  Settled'
    <3>1. /\ fan[c] # "done" /\ fan'[c] # "done"
          /\ fan[c] # "none" /\ fan'[c] # "none"
          /\ \A d \in Containers \ {c} :
               fan'[d] = fan[d] /\ output'[d] = output[d]
          /\ reader' = reader /\ hpc' = hpc /\ connUp' = connUp
      BY <2>9 DEF Receive, Merge, TypeOK
    <3> QED
      BY <3>1
  <2>10. ASSUME NEW c \in Containers, FanCancelled(c) \/ OutputEnds(c)
         PROVE  Settled'
    BY <2>10 DEF FanCancelled, OutputEnds, Cancelled, TypeOK
  <2>11. CASE CloseMerged
    BY <2>11 DEF CloseMerged
  <2>12. CASE ClientGoes \/ ClientStalls
    BY <2>12 DEF ClientGoes, ClientStalls
  <2>13. CASE UNCHANGED vars
    BY <2>13 DEF vars
  <2> QED
    BY <2>1, <2>2, <2>3, <2>4, <2>5, <2>6, <2>7, <2>8, <2>9, <2>10, <2>11,
       <2>12, <2>13 DEF Next, Handler, Reader, FanIn
<1> QED
  BY <1>1, <1>2, TypeCorrect, ClosedMeansNoSender, PTL DEF Spec

\* The parts of InFlight(c): on the client's side of its fan-in, in the fan-in,
\* and in the reader.
Merged(c) == OfContainer(c, written \o sending \o merged)
Held(c) == IF fan[c] = "send" THEN <<hold[c]>> ELSE <<>>
Scanned(c) == IF reader[c] = "send" THEN <<read[c]>> ELSE <<>>
Ordered(c) ==
    ((Merged(c) \o Held(c)) \o output[c]) \o Scanned(c)
      = [i \in 1..read[c] |-> i]

LEMMA PartsAreLines ==
  ASSUME TypeOK, StartsOnce, NEW c \in Containers
  PROVE  /\ Merged(c) \in Seq(Lines) /\ Held(c) \in Seq(Lines)
         /\ output[c] \in Seq(Lines) /\ Scanned(c) \in Seq(Lines)
<1>1. written \o sending \o merged \in Seq(Containers \X Lines)
  BY DEF TypeOK
<1>2. Merged(c) \in Seq(Lines)
  BY <1>1, OfContainerType DEF Merged
<1>3. fan[c] = "send" => hold[c] \in Lines
  BY BoundsAssumption DEF TypeOK, Lines
<1>4. reader[c] = "send" => read[c] \in Lines
  BY BoundsAssumption DEF TypeOK, StartsOnce, Lines
<1> QED
  BY <1>2, <1>3, <1>4 DEF TypeOK, Held, Scanned

\* While the client is there, every line a scanner returned is written or on its
\* way, once and in its container's order: each goroutine hands the first line
\* it has to the next one's end.
THEOREM OrderIsKept == Spec => []LinesInOrder
<1> DEFINE Inv == connUp => \A c \in Containers : Ordered(c)
<1>0. Inv <=> LinesInOrder
  BY DEF Ordered, Merged, Held, Scanned, LinesInOrder, InFlight
<1>1. Init => Inv
  <2> SUFFICES ASSUME Init, NEW c \in Containers
               PROVE  Ordered(c)
    BY DEF Init
  <2>1. <<>> \in Seq(Containers \X Lines) /\ <<>> \o <<>> = <<>>
    OBVIOUS
  <2>2. OfContainer(c, <<>>) = <<>>
    BY <2>1, OfContainerSteps
  <2>3. /\ Merged(c) = <<>> /\ Held(c) = <<>> /\ Scanned(c) = <<>>
        /\ output[c] = <<>> /\ read[c] = 0
    BY <2>1, <2>2 DEF Init, Merged, Held, Scanned
  <2> QED
    BY <2>1, <2>3 DEF Ordered
<1>2. TypeOK /\ StartsOnce /\ Settled /\ Inv /\ TypeOK' /\ [Next]_vars => Inv'
  <2> SUFFICES ASSUME TypeOK, StartsOnce, Settled, Inv, TypeOK', [Next]_vars,
                      connUp', NEW d \in Containers
               PROVE  Ordered(d)'
    OBVIOUS
  <2> USE DEF readers, fans, handler, client
  <2>a. connUp /\ Ordered(d)
    <3>1. connUp
      BY DEF Next, Handler, Reader, FanIn, vars, List, FollowContainer,
             StartCloser, TakeMessage, WriteMessage, MergedEnds, ScanLine,
             PutLine,
             StreamEnds, ReaderCancelled, Receive, Merge, FanCancelled,
             OutputEnds, CloseMerged, ClientGoes, ClientStalls
    <3> QED
      BY <3>1
  <2>b. /\ Merged(d) \in Seq(Lines) /\ Held(d) \in Seq(Lines)
        /\ output[d] \in Seq(Lines) /\ Scanned(d) \in Seq(Lines)
    BY PartsAreLines
  <2>c. ASSUME Merged(d)' = Merged(d), Held(d)' = Held(d),
               output'[d] = output[d], Scanned(d)' = Scanned(d),
               read'[d] = read[d]
        PROVE  Ordered(d)'
    BY <2>a, <2>c DEF Ordered
  <2>d. ASSUME UNCHANGED <<written, sending, merged>>
        PROVE  Merged(d)' = Merged(d)
    BY <2>d DEF Merged
  <2>1. CASE List \/ StartCloser \/ MergedEnds \/ CloseMerged \/ ClientGoes
             \/ ClientStalls \/ UNCHANGED vars
    BY <2>1, <2>c, <2>d DEF List, StartCloser, MergedEnds, CloseMerged,
       ClientGoes, ClientStalls, vars, Held, Scanned
  <2>2. CASE TakeMessage
    <3>1. /\ merged \in Seq(Containers \X Lines) /\ merged # <<>>
          /\ written \in Seq(Containers \X Lines)
          /\ written' = written /\ sending = <<>>
          /\ sending' = <<Head(merged)>> /\ merged' = Tail(merged)
      BY <2>2 DEF TakeMessage, TypeOK
    <3>2. (written \o <<Head(merged)>>) \o Tail(merged)
          = (written \o <<>>) \o merged
      <4>1. written \o <<>> = written
        BY <3>1
      <4>2. written \o <<Head(merged)>> = Append(written, Head(merged))
        BY <3>1
      <4>3. Append(written, Head(merged)) \o Tail(merged) = written \o merged
        BY <3>1
      <4> QED
        BY <4>1, <4>2, <4>3
    <3>3. Merged(d)' = Merged(d)
      BY <3>1, <3>2 DEF Merged
    <3> QED
      BY <2>2, <2>c, <3>3 DEF TakeMessage, Held, Scanned
  <2>11. CASE WriteMessage
    <3>1. /\ merged \in Seq(Containers \X Lines) /\ merged' = merged
          /\ written \in Seq(Containers \X Lines)
          /\ sending \in Seq(Containers \X Lines)
          /\ written' = written \o sending /\ sending' = <<>>
      BY <2>11, <2>a DEF WriteMessage, TypeOK
    <3>2. (written \o sending) \o <<>> = written \o sending
      BY <3>1
    <3>3. Merged(d)' = Merged(d)
      BY <3>1, <3>2 DEF Merged
    <3> QED
      BY <2>11, <2>c, <3>3 DEF WriteMessage, Held, Scanned
  <2>3. ASSUME NEW c \in Containers, FollowContainer(c)
        PROVE  Ordered(d)'
    <3>1. fan[c] = "none" /\ reader[c] = "none"
      BY <2>3 DEF FollowContainer, StartsOnce, Settled
    <3>2. Held(d)' = Held(d) /\ Scanned(d)' = Scanned(d)
      BY <2>3, <3>1 DEF FollowContainer, TypeOK, Held, Scanned
    <3> QED
      BY <2>3, <2>c, <2>d, <3>2 DEF FollowContainer
  <2>4. ASSUME NEW c \in Containers, ScanLine(c)
        PROVE  Ordered(d)'
    <3>1. CASE c = d
      <4>1. /\ Merged(d)' = Merged(d) /\ Held(d)' = Held(d)
            /\ output'[d] = output[d]
            /\ Scanned(d) = <<>> /\ Scanned(d)' = <<read'[d]>>
            /\ read[d] \in Nat /\ read'[d] = read[d] + 1
        BY <2>4, <2>d, <3>1 DEF ScanLine, TypeOK, Held, Scanned
      <4> DEFINE rest == (Merged(d) \o Held(d)) \o output[d]
      <4>2. rest \in Seq(Lines) /\ rest \o <<>> = rest
        BY <2>b
      <4>3. rest = [i \in 1..read[d] |-> i]
        BY <2>a, <4>1, <4>2 DEF Ordered
      <4> HIDE DEF rest
      <4>4. rest \o <<read[d] + 1>> = [i \in 1..(read[d] + 1) |-> i]
        BY <4>1, <4>2, <4>3
      <4> QED
        BY <4>1, <4>4 DEF Ordered, rest
    <3>2. CASE c # d
      BY <2>4, <2>c, <2>d, <3>2 DEF ScanLine, TypeOK, Held, Scanned
    <3> QED
      BY <3>1, <3>2
  <2>5. ASSUME NEW c \in Containers, PutLine(c)
        PROVE  Ordered(d)'
    <3>1. CASE c = d
      <4>1. /\ Merged(d)' = Merged(d) /\ Held(d)' = Held(d)
            /\ output'[d] = Append(output[d], read[d])
            /\ Scanned(d) = <<read[d]>> /\ Scanned(d)' = <<>>
            /\ read'[d] = read[d]
        BY <2>5, <2>d, <3>1 DEF PutLine, TypeOK, Held, Scanned
      <4> DEFINE ahead == Merged(d) \o Held(d)
      <4>2. ahead \in Seq(Lines) /\ <<read[d]>> \in Seq(Lines)
        BY <2>b, <4>1
      <4> HIDE DEF ahead
      <4>3. (ahead \o Append(output[d], read[d])) \o <<>>
              = (ahead \o output[d]) \o <<read[d]>>
        BY <2>b, <4>2
      <4> QED
        BY <2>a, <4>1, <4>3 DEF Ordered, ahead
    <3>2. CASE c # d
      BY <2>5, <2>c, <2>d, <3>2 DEF PutLine, TypeOK, Held, Scanned
    <3> QED
      BY <3>1, <3>2
  <2>6. ASSUME NEW c \in Containers, StreamEnds(c)
        PROVE  Ordered(d)'
    BY <2>6, <2>c, <2>d DEF StreamEnds, CloseOutput, TypeOK, Held, Scanned
  <2>7. ASSUME NEW c \in Containers, ReaderCancelled(c) \/ FanCancelled(c)
        PROVE  Ordered(d)'
    BY <2>7, <2>a DEF ReaderCancelled, FanCancelled, Cancelled, Settled
  <2>8. ASSUME NEW c \in Containers, Receive(c)
        PROVE  Ordered(d)'
    <3>1. CASE c = d
      <4>1. /\ Merged(d)' = Merged(d) /\ Scanned(d)' = Scanned(d)
            /\ output[d] # <<>>
            /\ output'[d] = Tail(output[d])
            /\ Held(d) = <<>> /\ Held(d)' = <<Head(output[d])>>
            /\ read'[d] = read[d]
        BY <2>8, <2>d, <3>1 DEF Receive, TypeOK, Held, Scanned
      <4>2. (Merged(d) \o <<Head(output[d])>>) \o Tail(output[d])
              = (Merged(d) \o <<>>) \o output[d]
        <5>1. Merged(d) \o <<>> = Merged(d)
          BY <2>b
        <5> QED
          BY <2>b, <4>1, <5>1, HandOver
      <4> QED
        BY <2>a, <4>1, <4>2 DEF Ordered
    <3>2. CASE c # d
      BY <2>8, <2>c, <2>d, <3>2 DEF Receive, TypeOK, Held, Scanned
    <3> QED
      BY <3>1, <3>2
  <2>9. ASSUME NEW c \in Containers, Merge(c)
        PROVE  Ordered(d)'
    <3> DEFINE m == <<c, hold[c]>>
    <3>1. /\ m \in Containers \X Lines /\ m[1] = c /\ m[2] = hold[c]
          /\ written \o sending \o merged \in Seq(Containers \X Lines)
          /\ written' \o sending' \o merged'
             = Append(written \o sending \o merged, m)
      <4>1. hold[c] \in Lines
        BY <2>9, BoundsAssumption DEF Merge, TypeOK, Lines
      <4>2. /\ written \o sending \in Seq(Containers \X Lines)
            /\ merged \in Seq(Containers \X Lines)
            /\ written' \o sending' = written \o sending
            /\ merged' = Append(merged, m)
        BY <2>9 DEF Merge, Send, TypeOK
      <4>3. m \in Containers \X Lines /\ m[1] = c /\ m[2] = hold[c]
        BY <4>1
      <4> HIDE DEF m
      <4> DEFINE S == Containers \X Lines
      <4> HIDE DEF S
      <4>4. /\ written \o sending \in Seq(S) /\ merged \in Seq(S)
            /\ m \in S
        BY <4>2, <4>3 DEF S
      <4>5. /\ (written \o sending) \o Append(merged, m)
               = Append((written \o sending) \o merged, m)
            /\ (written \o sending) \o merged \in Seq(S)
        BY <4>4, AppendComesLast
      <4> QED
        BY <4>2, <4>3, <4>5 DEF S
    <3>2. Merged(d)' = Keep(d, Merged(d), m)
      <4> HIDE DEF m
      <4>1. Merged(d)' = OfContainer(d, Append(written \o sending \o merged, m))
        BY <3>1 DEF Merged
      <4> QED
        BY <3>1, <4>1, OfContainerAppend DEF Merged
    <3> HIDE DEF m
    <3>3. CASE c = d
      <4>1. /\ Merged(d)' = Append(Merged(d), hold[d])
            /\ Held(d) = <<hold[d]>> /\ Held(d)' = <<>>
            /\ output'[d] = output[d] /\ Scanned(d)' = Scanned(d)
            /\ read'[d] = read[d]
        BY <2>9, <3>1, <3>2, <3>3 DEF Merge, TypeOK, Held, Scanned, Keep
      <4>2. Append(Merged(d), hold[d]) \o <<>> = Merged(d) \o <<hold[d]>>
        BY <2>b, <4>1
      <4> QED
        BY <2>a, <4>1, <4>2 DEF Ordered
    <3>4. CASE c # d
      <4>1. Merged(d)' = Merged(d)
        BY <3>1, <3>2, <3>4 DEF Keep
      <4> QED
        BY <2>9, <2>c, <3>4, <4>1 DEF Merge, TypeOK, Held, Scanned
    <3> QED
      BY <3>3, <3>4
  <2>10. ASSUME NEW c \in Containers, OutputEnds(c)
         PROVE  Ordered(d)'
    BY <2>10, <2>c, <2>d DEF OutputEnds, TypeOK, Held, Scanned
  <2> QED
    BY <2>1, <2>2, <2>3, <2>4, <2>5, <2>6, <2>7, <2>8, <2>9, <2>10, <2>11
       DEF Next, Handler, Reader, FanIn
<1> QED
  BY <1>0, <1>1, <1>2, TypeCorrect, SettledInvariant, PTL DEF Spec
=============================================================================
