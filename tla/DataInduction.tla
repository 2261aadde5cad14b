--------------------------- MODULE DataInduction ---------------------------
(***************************************************************************)
(* Induction over data for the proofs of the other modules, in a form that *)
(* takes sets and functions and no operators: induction over the naturals, *)
(* the unfolding of a fold over a sequence into its steps, and of a        *)
(* recursive function of a position that looks only at later positions;    *)
(* and how sequences are put together and taken apart.                     *)
(***************************************************************************)
EXTENDS Integers, Sequences, SequencesExt, FiniteSets, FiniteSetsExt,
        FiniteSetTheorems, NaturalsInduction, WellFoundedInduction, TLAPS

\* A set of naturals has a least element.
LEMMA LeastElement ==
  ASSUME NEW T \in SUBSET Nat, T # {}
  PROVE  \E x \in T : \A y \in T : x <= y
<1>1. PICK x \in T : \A y \in T : ~(<<y, x>> \in OpToRel(<, Nat))
  BY NatLessThanWellFounded, WFMin
<1>2. \A m, k \in Nat : <<m, k>> \in OpToRel(<, Nat) <=> m < k
  BY Zenon DEF OpToRel
<1>3. ASSUME NEW y \in T PROVE x <= y
  <2>1. ~(y < x)
    BY <1>1, <1>2
  <2> QED
    BY <2>1
<1> QED
  BY <1>3

\* Induction over the naturals, for the set P of those that have a property.
LEMMA SetInduction ==
  ASSUME NEW P, 0 \in P, \A n \in Nat : n \in P => n + 1 \in P
  PROVE  \A n \in Nat : n \in P
<1> DEFINE T == {n \in Nat : n \notin P}
<1> SUFFICES ASSUME T # {} PROVE FALSE
  OBVIOUS
<1>1. PICK x \in T : \A y \in T : x <= y
  BY LeastElement
<1>2. x # 0
  BY <1>1
<1>3. x - 1 \in Nat /\ x - 1 \in P
  BY <1>1, <1>2
<1> QED
  BY <1>1, <1>3

\* A non-empty set of naturals below a bound has a greatest element.
LEMMA GreatestElement ==
  ASSUME NEW n \in Nat, NEW T \in SUBSET (0..n), T # {}
  PROVE  Max(T) \in T /\ \A y \in T : y <= Max(T)
<1> DEFINE U == {m \in Nat : n - m \in T}
<1>1. PICK u \in U : \A v \in U : u <= v
  <2>1. PICK y \in T : TRUE
    OBVIOUS
  <2>2. n - y \in U
    BY <2>1
  <2> QED
    BY <2>2, LeastElement
<1>2. ASSUME NEW y \in T PROVE y <= n - u
  <2>1. n - y \in U
    OBVIOUS
  <2> QED
    BY <1>1, <2>1
<1>3. n - u \in T
  BY <1>1
<1> QED
  BY <1>2, <1>3 DEF Max

\* The greatest element of an interval.
LEMMA GreatestOfInterval ==
  ASSUME NEW n \in Nat, n > 0
  PROVE  Max(1..n) = n /\ (1..n) \ {n} = 1..(n - 1)
<1>1. 1..n \in SUBSET (0..n) /\ n \in 1..n
  OBVIOUS
<1>2. /\ Max(1..n) \in 1..n
      /\ \A y \in 1..n : y <= Max(1..n)
  BY <1>1, GreatestElement
<1> QED
  BY <1>1, <1>2

\* The beginning of an interval.
LEMMA BeginningOfInterval ==
  ASSUME NEW n \in Nat, NEW i \in 1..n
  PROVE  1..i \in SUBSET (1..n) /\ 1..i # {}
<1>1. i \in 1..i
  OBVIOUS
<1> QED
  BY <1>1

\* FoldLeft is a recursive function f of sets of positions: from base, by step,
\* the greatest position last.
IsFold(f, n, A, base, step) ==
    /\ f \in [SUBSET (1..n) -> A]
    /\ \A T \in SUBSET (1..n) :
         f[T] = IF T = {} THEN base ELSE step[<<f[T \ {Max(T)}], Max(T)>>]

\* Such a function exists for every step that stays in a set A.
LEMMA FoldExists ==
  ASSUME NEW n \in Nat, NEW A, NEW base \in A,
         NEW step \in [A \X (1..n) -> A]
  PROVE  \E f : IsFold(f, n, A, base, step)
<1> DEFINE Folds(f, m) == IsFold(f, m, A, base, step)
           P == {m \in Nat : m <= n => \E f : Folds(f, m)}
<1>1. 0 \in P
  <2>1. Folds([T \in SUBSET (1..0) |-> base], 0)
    BY DEF IsFold
  <2> QED
    BY <2>1
<1>2. ASSUME NEW m \in Nat, m \in P
      PROVE  m + 1 \in P
  <2> SUFFICES ASSUME m + 1 <= n
               PROVE  \E f : Folds(f, m + 1)
    OBVIOUS
  <2>1. PICK f : Folds(f, m)
    BY <1>2
  <2> DEFINE g == [T \in SUBSET (1..(m + 1)) |->
                     IF m + 1 \in T
                       THEN step[<<f[T \ {m + 1}], m + 1>>] ELSE f[T]]
  <2>2. ASSUME NEW T \in SUBSET (1..(m + 1)), m + 1 \in T
        PROVE  Max(T) = m + 1 /\ T \ {m + 1} \in SUBSET (1..m)
    <3>1. T \in SUBSET (0..(m + 1)) /\ T # {}
      BY <2>2
    <3>2. Max(T) \in T /\ \A y \in T : y <= Max(T)
      <4>1. m + 1 \in Nat
        OBVIOUS
      <4> QED
        BY <3>1, <4>1, GreatestElement
    <3>3. Max(T) = m + 1
      <4>1. Max(T) \in 1..(m + 1) /\ m + 1 <= Max(T)
        BY <2>2, <3>2
      <4> QED
        BY <4>1
    <3> QED
      BY <3>3
  <2>3. ASSUME NEW T \in SUBSET (1..(m + 1)), m + 1 \notin T
        PROVE  T \in SUBSET (1..m)
    BY <2>3
  <2>4. ASSUME NEW T \in SUBSET (1..(m + 1))
        PROVE  /\ g[T] \in A
               /\ g[T] = IF T = {} THEN base
                         ELSE step[<<g[T \ {Max(T)}], Max(T)>>]
    <3>1. CASE m + 1 \in T
      <4>1. f[T \ {m + 1}] \in A /\ g[T \ {m + 1}] = f[T \ {m + 1}]
        BY <2>1, <2>2, <3>1 DEF IsFold
      <4>2. g[T] = step[<<f[T \ {m + 1}], m + 1>>]
        BY <3>1
      <4>3. step[<<f[T \ {m + 1}], m + 1>>] \in A
        BY <4>1
      <4>4. T # {} /\ Max(T) = m + 1
        BY <2>2, <3>1
      <4> HIDE DEF g
      <4> QED
        BY <4>1, <4>2, <4>3, <4>4
    <3>2. CASE m + 1 \notin T
      <4>1. g[T] = f[T] /\ f[T] \in A
        BY <2>1, <2>3, <3>2 DEF IsFold
      <4>2. /\ T \ {Max(T)} \in SUBSET (1..m)
            /\ g[T \ {Max(T)}] = f[T \ {Max(T)}]
        BY <2>3, <3>2
      <4>3. f[T] = IF T = {} THEN base
                   ELSE step[<<f[T \ {Max(T)}], Max(T)>>]
        BY <2>1, <2>3, <3>2 DEF IsFold
      <4> HIDE DEF g
      <4> QED
        BY <4>1, <4>2, <4>3
    <3> QED
      BY <3>1, <3>2
  <2>5. g \in [SUBSET (1..(m + 1)) -> A]
    BY <2>4
  <2> HIDE DEF g
  <2>6. Folds(g, m + 1)
    BY <2>4, <2>5 DEF IsFold
  <2> QED
    BY <2>6
<1>3. n \in P
  <2> HIDE DEF P
  <2> QED
    BY <1>1, <1>2, SetInduction
<1>4. PICK f : Folds(f, n)
  BY <1>3
<1> QED
  BY <1>4

\* Two functions that start alike and step alike are equal at the end: so a fold
\* over a sequence does the same on a longer one that begins alike.
LEMMA SameSteps ==
  ASSUME NEW n \in Nat, NEW f, NEW g, f[0] = g[0],
         \A i \in 1..n : f[i - 1] = g[i - 1] => f[i] = g[i]
  PROVE  f[n] = g[n]
<1> DEFINE P == {m \in Nat : m <= n => f[m] = g[m]}
<1>1. 0 \in P
  OBVIOUS
<1>2. ASSUME NEW m \in Nat, m \in P
      PROVE  m + 1 \in P
  <2>1. CASE m + 1 <= n
    <3>1. f[m] = g[m] /\ m + 1 \in 1..n /\ (m + 1) - 1 = m
      BY <1>2, <2>1
    <3> QED
      BY <3>1
  <2>2. CASE ~(m + 1 <= n)
    BY <2>2
  <2> QED
    BY <2>1, <2>2
<1> HIDE DEF P
<1>3. n \in P
  BY <1>1, <1>2, SetInduction
<1> QED
  BY <1>3 DEF P

\* A recursive function of a position that looks only at greater positions: it
\* is leaf where it stops, and elsewhere comes from its value at next.
LooksForward(f, n, stop, leaf, next, step) ==
    \A i \in 1..n : f[i] = IF i \in stop THEN leaf[i]
                           ELSE step[<<i, f[next[i]]>>]

\* Such a function exists.
LEMMA ForwardLooking ==
  ASSUME NEW n \in Nat, NEW A, NEW stop \in SUBSET (1..n),
         NEW leaf \in [1..n -> A], NEW step \in [(1..n) \X A -> A],
         NEW next, \A i \in (1..n) \ stop : next[i] \in (i + 1)..n
  PROVE  \E f \in [1..n -> A] : LooksForward(f, n, stop, leaf, next, step)
<1> DEFINE From(f, m) ==
             \A i \in 1..n : i > n - m =>
               f[i] = IF i \in stop THEN leaf[i] ELSE step[<<i, f[next[i]]>>]
           P == {m \in Nat : m <= n => \E f \in [1..n -> A] : From(f, m)}
<1>1. 0 \in P
  <2>1. From(leaf, 0)
    OBVIOUS
  <2> QED
    BY <2>1
<1>2. ASSUME NEW m \in Nat, m \in P
      PROVE  m + 1 \in P
  <2> SUFFICES ASSUME m + 1 <= n
               PROVE  \E f \in [1..n -> A] : From(f, m + 1)
    OBVIOUS
  <2>1. PICK f \in [1..n -> A] : From(f, m)
    BY <1>2
  <2> DEFINE k == n - m
             value == IF k \in stop THEN leaf[k] ELSE step[<<k, f[next[k]]>>]
             g == [f EXCEPT ![k] = value]
  <2>2. k \in 1..n
    OBVIOUS
  <2>3. value \in A
    <3>1. CASE k \in stop
      BY <2>2, <3>1
    <3>2. CASE k \notin stop
      <4>1. next[k] \in 1..n
        BY <2>2, <3>2
      <4>2. f[next[k]] \in A
        BY <4>1
      <4> QED
        BY <2>2, <3>2, <4>2
    <3> QED
      BY <3>1, <3>2
  <2>4. g \in [1..n -> A]
    BY <2>2, <2>3
  <2>5. ASSUME NEW i \in 1..n, i > n - (m + 1)
        PROVE  g[i] = IF i \in stop THEN leaf[i] ELSE step[<<i, g[next[i]]>>]
    <3>1. CASE i = k
      <4>1. g[k] = value
        BY <2>2
      <4>2. k \notin stop => g[next[k]] = f[next[k]]
        BY <2>2
      <4> QED
        BY <3>1, <4>1, <4>2
    <3>2. CASE i # k
      <4>1. i > k /\ g[i] = f[i]
        BY <2>2, <2>5, <3>2
      <4>2. i \notin stop => g[next[i]] = f[next[i]]
        BY <4>1
      <4>3. f[i] = IF i \in stop THEN leaf[i] ELSE step[<<i, f[next[i]]>>]
        BY <2>1, <4>1
      <4> QED
        BY <4>1, <4>2, <4>3
    <3> QED
      BY <3>1, <3>2
  <2> HIDE DEF g
  <2> QED
    BY <2>4, <2>5
<1>3. n \in P
  <2> HIDE DEF P
  <2> QED
    BY <1>1, <1>2, SetInduction
<1>4. PICK f \in [1..n -> A] : From(f, n)
  BY <1>3
<1>5. \A i \in 1..n : i > n - n
  OBVIOUS
<1> QED
  BY <1>4, <1>5 DEF LooksForward

\* Two functions of a position agree where they stop, and elsewhere if they
\* agree at next.
AgreeForward(f, g, n, stop, next) ==
    /\ \A i \in 1..n : i \in stop => f[i] = g[i]
    /\ \A i \in (1..n) \ stop : /\ next[i] \in (i + 1)..n
                                /\ f[next[i]] = g[next[i]] => f[i] = g[i]

\* Then they are equal.
LEMMA SameForward ==
  ASSUME NEW n \in Nat, NEW f, NEW g, NEW stop, NEW next,
         AgreeForward(f, g, n, stop, next)
  PROVE  \A i \in 1..n : f[i] = g[i]
<1> USE DEF AgreeForward
<1> DEFINE P == {m \in Nat : \A i \in 1..n : i > n - m => f[i] = g[i]}
<1>1. 0 \in P
  OBVIOUS
<1>2. ASSUME NEW m \in Nat, m \in P
      PROVE  m + 1 \in P
  <2> SUFFICES ASSUME NEW i \in 1..n, i > n - (m + 1)
               PROVE  f[i] = g[i]
    OBVIOUS
  <2>1. CASE i \in stop
    BY <2>1
  <2>2. CASE i \notin stop
    <3>1. next[i] \in 1..n /\ next[i] > n - m
      BY <2>2
    <3> QED
      BY <1>2, <2>2, <3>1
  <2> QED
    BY <2>1, <2>2
<1>3. n \in P
  <2> HIDE DEF P
  <2> QED
    BY <1>1, <1>2, SetInduction
<1>4. \A i \in 1..n : i > n - n
  OBVIOUS
<1> QED
  BY <1>3, <1>4

-----------------------------------------------------------------------------
(* Sequences put together and taken apart. *)

\* How putting together, adding at the end and taking parts go together.
LEMMA ConcatAssociates ==
  ASSUME NEW S, NEW a \in Seq(S), NEW b \in Seq(S), NEW c \in Seq(S)
  PROVE  (a \o b) \o c = a \o (b \o c)
OBVIOUS

\* The head of s may be taken over by what stands before s.
LEMMA HandOver ==
  ASSUME NEW S, NEW r \in Seq(S), NEW s \in Seq(S), s # <<>>
  PROVE  (r \o <<Head(s)>>) \o Tail(s) = r \o s
<1>1. /\ <<Head(s)>> \in Seq(S) /\ Tail(s) \in Seq(S)
      /\ <<Head(s)>> \o Tail(s) = s
  OBVIOUS
<1> DEFINE h == <<Head(s)>>
           t == Tail(s)
<1> HIDE DEF h, t
<1>2. (r \o h) \o t = r \o (h \o t)
  BY <1>1, ConcatAssociates DEF h, t
<1> QED
  BY <1>1, <1>2 DEF h, t

LEMMA ConcatEmpty ==
  ASSUME NEW S, NEW a \in Seq(S)
  PROVE  a \o <<>> = a /\ <<>> \o a = a
OBVIOUS

LEMMA AppendLast ==
  ASSUME NEW S, NEW a \in Seq(S), NEW b \in Seq(S), NEW x \in S
  PROVE  /\ Append(a \o b, x) = a \o Append(b, x)
         /\ Append(b, x) \in Seq(S)
         /\ Append(a, x) \o b = a \o (<<x>> \o b)
<1>1. Append(b, x) \in Seq(S) /\ Len(Append(b, x)) = Len(b) + 1
  OBVIOUS
<1>2. Append(a \o b, x) = a \o Append(b, x)
  OBVIOUS
<1>3. Append(a, x) \o b = a \o (<<x>> \o b)
  <2>1. <<x>> \in Seq(S) /\ Append(a, x) = a \o <<x>>
    OBVIOUS
  <2> QED
    BY <2>1, ConcatAssociates
<1> QED
  BY <1>1, <1>2, <1>3

LEMMA OneMore ==
  ASSUME NEW S, NEW s \in Seq(S), NEW i \in Nat, i >= 1,
         NEW k \in 1..Len(s), i <= k
  PROVE  /\ SubSeq(s, i, k - 1) \in Seq(S) /\ s[k] \in S
         /\ SubSeq(s, i, k) = Append(SubSeq(s, i, k - 1), s[k])
OBVIOUS

LEMMA TwoParts ==
  ASSUME NEW S, NEW s \in Seq(S), NEW i \in 0..Len(s)
  PROVE  /\ SubSeq(s, 1, i) \in Seq(S) /\ Len(SubSeq(s, 1, i)) = i
         /\ SubSeq(s, i + 1, Len(s)) \in Seq(S)
         /\ SubSeq(s, 1, i) \o SubSeq(s, i + 1, Len(s)) = s
<1> DEFINE a == SubSeq(s, 1, i)
           b == SubSeq(s, i + 1, Len(s))
<1>0. i \in Nat /\ Len(s) \in Nat /\ i <= Len(s)
  OBVIOUS
<1>1. /\ a \in Seq(S) /\ Len(a) = i /\ b \in Seq(S) /\ Len(b) = Len(s) - i
      /\ \A j \in 1..i : a[j] = s[j]
      /\ \A j \in 1..(Len(s) - i) : b[j] = s[i + j]
  BY <1>0
<1> HIDE DEF a, b
<1>2. Len(a \o b) = Len(s) /\ a \o b \in Seq(S) /\ i \in Nat /\ Len(s) \in Nat
  BY <1>0, <1>1
<1>3. ASSUME NEW j \in 1..Len(s)
      PROVE  (a \o b)[j] = s[j]
  <2>1. CASE j <= i
    BY <1>1, <1>2, <2>1
  <2>2. CASE j > i
    <3>1. (a \o b)[j] = b[j - i] /\ j - i \in 1..(Len(s) - i) /\ i + (j - i) = j
      BY <1>1, <1>2, <2>2
    <3> QED
      BY <1>1, <3>1
  <2> QED
    BY <1>2, <2>1, <2>2
<1>4. a \o b = s
  <2> DEFINE c == a \o b
  <2>1. c \in Seq(S) /\ Len(c) = Len(s) /\ \A j \in 1..Len(s) : c[j] = s[j]
    BY <1>2, <1>3
  <2> HIDE DEF c
  <2>2. /\ c = [j \in 1..Len(s) |-> c[j]]
        /\ s = [j \in 1..Len(s) |-> s[j]]
    BY <2>1
  <2>3. c = s
    BY <2>1, <2>2
  <2> QED
    BY <2>3 DEF c
<1> QED
  BY <1>1, <1>4 DEF a, b

LEMMA SameEnd ==
  ASSUME NEW S, NEW a \in Seq(S), NEW b \in Seq(S), NEW c \in Seq(S),
         a \o b = a \o c
  PROVE  b = c
<1>1. /\ Len(a \o b) = Len(a) + Len(b) /\ Len(a) \in Nat
      /\ Len(a \o c) = Len(a) + Len(c) /\ Len(b) \in Nat /\ Len(c) \in Nat
  OBVIOUS
<1>2. Len(b) = Len(c)
  BY <1>1
<1>3. /\ \A i \in 1..Len(b) : b[i] = (a \o b)[Len(a) + i]
      /\ \A i \in 1..Len(c) : c[i] = (a \o c)[Len(a) + i]
  OBVIOUS
<1>4. \A i \in 1..Len(b) : b[i] = c[i]
  BY <1>2, <1>3
<1>5. /\ b = [i \in 1..Len(b) |-> b[i]]
      /\ c = [i \in 1..Len(c) |-> c[i]]
  OBVIOUS
<1> QED
  BY <1>2, <1>4, <1>5

\* The same laws, for the sets whose sequences a proof is about.
Associates(S) == \A a, b, c \in Seq(S) : (a \o b) \o c = a \o (b \o c)
AppendsLast(S) ==
    \A a, b \in Seq(S), x \in S : Append(a \o b, x) = a \o Append(b, x)
OneLonger(S) ==
    \A s \in Seq(S) : \A k \in 1..Len(s) :
      SubSeq(s, 1, k) = Append(SubSeq(s, 1, k - 1), s[k])
CutInTwo(S) ==
    \A s \in Seq(S) : \A i \in 0..Len(s) :
      SubSeq(s, 1, i) \o SubSeq(s, i + 1, Len(s)) = s
Cancels(S) == \A a, b, c \in Seq(S) : a \o b = a \o c => b = c

LEMMA SequencesJoin ==
  \A S : /\ Associates(S) /\ AppendsLast(S) /\ OneLonger(S)
        /\ CutInTwo(S) /\ Cancels(S)
<1> SUFFICES ASSUME NEW S
             PROVE  Associates(S) /\ AppendsLast(S) /\ OneLonger(S)
                    /\ CutInTwo(S) /\ Cancels(S)
  OBVIOUS
<1>1. Associates(S)
  BY ConcatAssociates DEF Associates
<1>2. AppendsLast(S)
  BY AppendLast DEF AppendsLast
<1>3. OneLonger(S)
  BY OneMore DEF OneLonger
<1>4. CutInTwo(S)
  BY TwoParts DEF CutInTwo
<1>5. Cancels(S)
  BY SameEnd DEF Cancels
<1> QED
  BY <1>1, <1>2, <1>3, <1>4, <1>5

\* A sequence of bounded length is a sequence.
LEMMA BoundedIsSeq ==
  ASSUME NEW S, NEW n, NEW s \in BoundedSeq(S, n)
  PROVE  s \in Seq(S)
<1>1. PICK m \in 0..n : s \in [1..m -> S]
  BY DEF BoundedSeq, SeqOf
<1> QED
  BY <1>1

\* FlattenSeq puts the sequences together one after the other.
LEMMA FlattenSteps ==
  ASSUME NEW S, NEW seqs \in Seq(Seq(S))
  PROVE  \E g \in [0..Len(seqs) -> Seq(S)] :
           /\ g[0] = <<>>
           /\ \A i \in 1..Len(seqs) : g[i] = g[i - 1] \o seqs[i]
           /\ FlattenSeq(seqs) = g[Len(seqs)]
<1> DEFINE n == Len(seqs)
           Flattens(f) ==
             f = [i \in 1..Len(seqs) |->
                    IF i = 1 THEN seqs[i] ELSE f[i - 1] \o seqs[i]]
           flatten == CHOOSE f : Flattens(f)
<1>1. FlattenSeq(seqs) = IF n = 0 THEN seqs ELSE flatten[n]
  BY DEF FlattenSeq
<1>2. n \in Nat /\ <<>> \in Seq(S) /\ \A i \in 1..n : seqs[i] \in Seq(S)
  OBVIOUS
<1>3. CASE n = 0
  <2> DEFINE g == [i \in 0..0 |-> <<>>]
  <2>1. g \in [0..n -> Seq(S)] /\ g[0] = <<>> /\ seqs = <<>>
    BY <1>2, <1>3
  <2>2. \A i \in 1..n : g[i] = g[i - 1] \o seqs[i]
    BY <1>3
  <2> HIDE DEF g
  <2> QED
    BY <1>1, <1>3, <2>1, <2>2
<1>4. CASE n > 0
  <2> DEFINE step == [p \in Seq(S) \X (1..n) |-> p[1] \o seqs[p[2]]]
  <2>1. step \in [Seq(S) \X (1..n) -> Seq(S)]
    BY <1>2
  <2> HIDE DEF n, step
  <2>2. PICK f : IsFold(f, n, Seq(S), <<>>, step)
    BY <1>2, <2>1, FoldExists
  <2> DEFINE g == [i \in 0..n |-> f[1..i]]
  <2>3. ASSUME NEW i \in 0..n
        PROVE  g[i] \in Seq(S)
    <3>1. 1..i \in SUBSET (1..n)
      BY <1>2
    <3> QED
      BY <2>2, <3>1 DEF IsFold
  <2>4. g[0] = <<>>
    <3>1. 1..0 = {} /\ 0 \in 0..n
      BY <1>2
    <3> QED
      BY <2>2, <3>1 DEF IsFold
  <2>5. ASSUME NEW i \in 1..n
        PROVE  g[i] = g[i - 1] \o seqs[i]
    <3>1. /\ Max(1..i) = i /\ (1..i) \ {i} = 1..(i - 1)
          /\ i \in 0..n /\ i - 1 \in 0..n
      BY <1>2, GreatestOfInterval
    <3>2. 1..i \in SUBSET (1..n) /\ 1..i # {}
      BY <1>2, BeginningOfInterval
    <3>3. f[1..i] = step[<<f[1..(i - 1)], i>>]
      BY <2>2, <3>1, <3>2 DEF IsFold
    <3>4. f[1..(i - 1)] \in Seq(S)
      BY <2>3, <3>1
    <3>5. step[<<f[1..(i - 1)], i>>] = f[1..(i - 1)] \o seqs[i]
      BY <3>4 DEF step
    <3> QED
      BY <3>1, <3>3, <3>5
  <2>6. g \in [0..n -> Seq(S)]
    BY <2>3
  <2> HIDE DEF g
  <2> DEFINE h == [i \in 1..n |-> g[i]]
  <2>7. Flattens(h)
    <3>1. ASSUME NEW i \in 1..n
          PROVE  g[i] = IF i = 1 THEN seqs[i] ELSE h[i - 1] \o seqs[i]
      <4>1. CASE i = 1
        <5>1. 1 \in 1..n /\ 1 - 1 = 0
          BY <4>1
        <5>2. g[1] = <<>> \o seqs[1]
          BY <2>4, <2>5, <5>1
        <5>3. <<>> \o seqs[1] = seqs[1]
          BY <1>2, <5>1
        <5> QED
          BY <4>1, <5>2, <5>3
      <4>2. CASE i # 1
        <5>1. h[i - 1] = g[i - 1]
          BY <1>2, <4>2
        <5> QED
          BY <2>5, <4>2, <5>1
      <4> QED
        BY <4>1, <4>2
    <3> QED
      BY <3>1 DEF n
  <2>8. Flattens(flatten)
    <3> HIDE DEF Flattens
    <3> QED
      BY <2>7
  <2>9. \A i \in 1..n : flatten[i] = IF i = 1 THEN seqs[i]
                                     ELSE flatten[i - 1] \o seqs[i]
    <3> HIDE DEF flatten
    <3> QED
      BY <2>8 DEF n
  <2>10. flatten[n] = g[n]
    <3> HIDE DEF flatten
    <3> DEFINE u == [i \in 0..n |-> IF i = 0 THEN <<>> ELSE flatten[i]]
    <3>1. u[0] = g[0]
      BY <1>2, <2>4
    <3>2. ASSUME NEW i \in 1..n, u[i - 1] = g[i - 1]
          PROVE  u[i] = g[i]
      <4>1. u[i] = flatten[i]
        BY <1>2
      <4>2. CASE i = 1
        <5>1. 1 \in 1..n /\ 1 - 1 = 0
          BY <4>2
        <5>2. <<>> \o seqs[1] = seqs[1]
          BY <1>2, <5>1
        <5>3. g[1] = seqs[1]
          BY <2>4, <2>5, <5>1, <5>2
        <5>4. flatten[1] = seqs[1]
          BY <2>9, <5>1
        <5> QED
          BY <4>1, <4>2, <5>3, <5>4
      <4>3. CASE i # 1
        <5>1. u[i - 1] = flatten[i - 1]
          BY <1>2, <4>3
        <5> QED
          BY <2>5, <2>9, <3>2, <4>1, <4>3, <5>1
      <4> QED
        BY <4>2, <4>3
    <3>3. u[n] = flatten[n]
      BY <1>2, <1>4
    <3> HIDE DEF u
    <3>4. u[n] = g[n]
      BY <1>2, <3>1, <3>2, SameSteps
    <3> QED
      BY <3>3, <3>4
  <2> HIDE DEF flatten, Flattens
  <2>11. FlattenSeq(seqs) = g[n]
    BY <1>1, <1>4, <2>10
  <2> USE DEF n
  <2> QED
    BY <2>4, <2>5, <2>6, <2>11
<1>5. n = 0 \/ n > 0
  OBVIOUS
<1> QED
  BY <1>3, <1>4, <1>5, Zenon
=============================================================================
