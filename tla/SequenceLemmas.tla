--------------------------- MODULE SequenceLemmas ---------------------------
(***************************************************************************)
(* What the proofs keep needing about sequences: the set of values of a    *)
(* queue under Append and Tail, queues without duplicates, the queue that  *)
(* two halves form together, and induction over the naturals with what it  *)
(* says of recursive functions.                                            *)
(***************************************************************************)
EXTENDS Integers, Sequences, SequencesExt, SequenceTheorems, WellFoundedInduction, TLAPS

\* No value is in a queue twice.
NoDuplicates(s) == \A i, j \in DOMAIN s : s[i] = s[j] => i = j

-----------------------------------------------------------------------------

\* A value is in the range of a queue when it is at one of its places.
LEMMA InRange ==
    ASSUME NEW S, NEW s \in Seq(S), NEW x
    PROVE x \in Range(s) <=> \E i \in 1..Len(s) : s[i] = x
  BY DEF Range

\* The range of a queue of S is in S; an empty queue has an empty range.
LEMMA RangeType ==
    ASSUME NEW S, NEW s \in Seq(S)
    PROVE Range(s) \subseteq S /\ (s = <<>> <=> Range(s) = {})
<1>1. DOMAIN s = 1..Len(s)
  BY LenProperties
<1>2. s = <<>> => Range(s) = {}
  BY DEF Range
<1>3. ASSUME s # <<>>
      PROVE Range(s) # {}
  <2>1. 1 \in DOMAIN s
    BY <1>1, <1>3
  <2> QED
    BY <2>1 DEF Range
<1> QED
  BY <1>2, <1>3, RangeOfSeq

\* push_back adds one value.
LEMMA RangeAppend ==
    ASSUME NEW S, NEW s \in Seq(S), NEW e \in S
    PROVE Range(Append(s, e)) = Range(s) \cup {e}
<1>1. Append(s, e) \in Seq(S) /\ Len(Append(s, e)) = Len(s) + 1
  BY AppendProperties
<1>2. Range(Append(s, e)) \subseteq Range(s) \cup {e}
  BY <1>1, AppendProperties DEF Range
<1>3. ASSUME NEW x \in Range(s) \cup {e}
      PROVE x \in Range(Append(s, e))
  <2>1. CASE x = e
    <3>1. Len(s) + 1 \in 1..Len(Append(s, e)) /\ Append(s, e)[Len(s) + 1] = x
      BY <2>1, <1>1, AppendProperties, LenProperties
    <3> QED
      BY <3>1, <1>1, InRange
  <2>2. CASE x \in Range(s)
    <3>1. PICK i \in 1..Len(s) : s[i] = x
      BY <2>2, InRange
    <3>2. Append(s, e)[i] = x /\ i \in 1..Len(Append(s, e))
      BY <1>1, <3>1, AppendProperties
    <3> QED
      BY <3>2, <1>1, InRange
  <2> QED
    BY <1>3, <2>1, <2>2
<1> QED
  BY <1>2, <1>3

\* pop_front takes the first value away and leaves the others.
LEMMA RangeTail ==
    ASSUME NEW S, NEW s \in Seq(S), s # <<>>
    PROVE Head(s) \in S /\ Tail(s) \in Seq(S) /\ Range(s) = {Head(s)} \cup Range(Tail(s))
<1>1. Head(s) \in S /\ Tail(s) \in Seq(S) /\ Len(Tail(s)) = Len(s) - 1
      /\ \A i \in 1..Len(Tail(s)) : Tail(s)[i] = s[i + 1]
  BY HeadTailProperties
<1>2. Len(s) \in Nat \ {0} /\ Head(s) = s[1]
  BY EmptySeq
<1>3. ASSUME NEW x \in Range(s)
      PROVE x = Head(s) \/ x \in Range(Tail(s))
  <2>1. PICK i \in 1..Len(s) : s[i] = x
    BY InRange
  <2>2. CASE i = 1
    BY <2>1, <2>2, <1>2
  <2>3. CASE i # 1
    <3>1. i - 1 \in 1..Len(Tail(s)) /\ Tail(s)[i - 1] = x
      BY <2>1, <2>3, <1>1, <1>2
    <3> QED
      BY <3>1, <1>1, InRange
  <2> QED
    BY <2>2, <2>3
<1>4. ASSUME NEW x \in Range(Tail(s))
      PROVE x \in Range(s)
  <2>1. PICK i \in 1..Len(Tail(s)) : Tail(s)[i] = x
    BY <1>1, InRange
  <2>2. i + 1 \in 1..Len(s) /\ s[i + 1] = x
    BY <2>1, <1>1, <1>2
  <2> QED
    BY <2>2, InRange
<1>5. Head(s) \in Range(s)
  BY <1>2, InRange
<1> QED
  BY <1>1, <1>3, <1>4, <1>5

\* Behind the front of a queue with two values there is another.
LEMMA TailOfTwo ==
    ASSUME NEW S, NEW s \in Seq(S), s # <<>>, Len(s) # 1
    PROVE Tail(s) # <<>>
<1>1. Len(s) \in Nat /\ Tail(s) \in Seq(S) /\ Len(Tail(s)) = Len(s) - 1
  BY LenProperties, HeadTailProperties
<1>2. Len(Tail(s)) # 0
  BY <1>1
<1>3. Len(<<>>) = 0
  OBVIOUS
<1> QED
  BY <1>2, <1>3, Zenon

\* A queue without duplicates stays one when a new value is put at its end.
LEMMA NoDuplicatesAppend ==
    ASSUME NEW S, NEW s \in Seq(S), NEW e \in S, NoDuplicates(s), e \notin Range(s)
    PROVE NoDuplicates(Append(s, e))
<1>1. Append(s, e) \in Seq(S) /\ Len(Append(s, e)) = Len(s) + 1
      /\ Append(s, e)[Len(s) + 1] = e
      /\ \A i \in 1..Len(s) : Append(s, e)[i] = s[i]
  BY AppendProperties
<1>2. DOMAIN Append(s, e) = 1..(Len(s) + 1) /\ DOMAIN s = 1..Len(s) /\ Len(s) \in Nat
  BY <1>1, LenProperties
<1>3. \A i \in 1..Len(s) : s[i] # e
  BY InRange
<1> QED
  BY <1>1, <1>2, <1>3 DEF NoDuplicates

\* The front of a queue without duplicates is gone once it is taken.
LEMMA NoDuplicatesTail ==
    ASSUME NEW S, NEW s \in Seq(S), s # <<>>, NoDuplicates(s)
    PROVE NoDuplicates(Tail(s)) /\ Head(s) \notin Range(Tail(s))
<1>1. Tail(s) \in Seq(S) /\ Len(Tail(s)) = Len(s) - 1
      /\ \A i \in 1..Len(Tail(s)) : Tail(s)[i] = s[i + 1]
  BY HeadTailProperties
<1>2. DOMAIN Tail(s) = 1..(Len(s) - 1) /\ DOMAIN s = 1..Len(s) /\ Len(s) \in Nat \ {0}
      /\ Head(s) = s[1]
  BY <1>1, LenProperties, EmptySeq
<1>3. NoDuplicates(Tail(s))
  BY <1>1, <1>2 DEF NoDuplicates
<1>4. \A i \in 1..Len(Tail(s)) : Tail(s)[i] # Head(s)
  BY <1>1, <1>2 DEF NoDuplicates
<1> QED
  BY <1>1, <1>3, <1>4, InRange

\* The front of two queues in a row is the front of the first.
LEMMA TakeFromFirst ==
    ASSUME NEW S, NEW s \in Seq(S), NEW t \in Seq(S), s # <<>>
    PROVE /\ s \o t # <<>>
          /\ Head(s \o t) = Head(s)
          /\ Tail(s \o t) = Tail(s) \o t
<1>1. s \o t \in Seq(S) /\ Len(s \o t) = Len(s) + Len(t)
      /\ \A i \in 1..(Len(s) + Len(t)) : (s \o t)[i] = IF i <= Len(s) THEN s[i] ELSE t[i - Len(s)]
  BY ConcatProperties
<1>2. Len(s) \in Nat \ {0} /\ Len(t) \in Nat
  BY EmptySeq, LenProperties
<1>3. s \o t # <<>> /\ Head(s \o t) = Head(s)
  BY <1>1, <1>2
<1>4. Tail(s \o t) \in Seq(S) /\ Len(Tail(s \o t)) = Len(s) + Len(t) - 1
      /\ \A i \in 1..(Len(s) + Len(t) - 1) : Tail(s \o t)[i] = (s \o t)[i + 1]
  BY <1>1, <1>3, HeadTailProperties
<1>5. Tail(s) \in Seq(S) /\ Len(Tail(s)) = Len(s) - 1
      /\ \A i \in 1..(Len(s) - 1) : Tail(s)[i] = s[i + 1]
  BY HeadTailProperties
<1>6. Tail(s) \o t \in Seq(S) /\ Len(Tail(s) \o t) = Len(s) - 1 + Len(t)
      /\ \A i \in 1..(Len(s) - 1 + Len(t)) :
           (Tail(s) \o t)[i] = IF i <= Len(s) - 1 THEN Tail(s)[i] ELSE t[i - (Len(s) - 1)]
  BY <1>5, ConcatProperties
<1>7. \A i \in 1..(Len(s) + Len(t) - 1) : Tail(s \o t)[i] = (Tail(s) \o t)[i]
  BY <1>1, <1>2, <1>4, <1>5, <1>6
<1> QED
  BY <1>2, <1>3, <1>4, <1>6, <1>7, SeqEqual

\* Behind a queue, Append works on the last part.
LEMMA AppendToSecond ==
    ASSUME NEW S, NEW s \in Seq(S), NEW t \in Seq(S), NEW e \in S
    PROVE s \o Append(t, e) = Append(s \o t, e)
<1>1. <<e>> \in Seq(S)
  OBVIOUS
<1>2. s \o Append(t, e) = s \o (t \o <<e>>)
  BY AppendIsConcat
<1>3. s \o t \in Seq(S)
  BY ConcatProperties
<1>4. Append(s \o t, e) = (s \o t) \o <<e>>
  BY <1>3, AppendIsConcat
<1> QED
  BY <1>1, <1>2, <1>4, ConcatAssociative

\* Moving the front of the second queue to the end of the first changes nothing.
LEMMA MoveFront ==
    ASSUME NEW S, NEW s \in Seq(S), NEW t \in Seq(S), t # <<>>
    PROVE Append(s, Head(t)) \o Tail(t) = s \o t
<1>1. Head(t) \in S /\ Tail(t) \in Seq(S) /\ Len(Tail(t)) = Len(t) - 1
      /\ \A i \in 1..(Len(t) - 1) : Tail(t)[i] = t[i + 1]
  BY HeadTailProperties
<1>2. Len(s) \in Nat /\ Len(t) \in Nat \ {0} /\ Head(t) = t[1]
  BY EmptySeq, LenProperties
<1> DEFINE u == Append(s, Head(t))
<1>3. u \in Seq(S) /\ Len(u) = Len(s) + 1 /\ u[Len(s) + 1] = Head(t)
      /\ \A i \in 1..Len(s) : u[i] = s[i]
  BY <1>1, AppendProperties
<1> HIDE DEF u
<1>4. u \o Tail(t) \in Seq(S) /\ Len(u \o Tail(t)) = Len(s) + Len(t)
      /\ \A i \in 1..(Len(s) + Len(t)) :
           (u \o Tail(t))[i] = IF i <= Len(s) + 1 THEN u[i] ELSE Tail(t)[i - (Len(s) + 1)]
  <2>1. u \o Tail(t) \in Seq(S) /\ Len(u \o Tail(t)) = Len(u) + Len(Tail(t))
        /\ \A i \in 1..(Len(u) + Len(Tail(t))) :
             (u \o Tail(t))[i] = IF i <= Len(u) THEN u[i] ELSE Tail(t)[i - Len(u)]
    BY <1>1, <1>3, ConcatProperties
  <2>2. Len(u) + Len(Tail(t)) = Len(s) + Len(t)
    BY <1>1, <1>2, <1>3
  <2> QED
    BY <1>3, <2>1, <2>2
<1>5. s \o t \in Seq(S) /\ Len(s \o t) = Len(s) + Len(t)
      /\ \A i \in 1..(Len(s) + Len(t)) : (s \o t)[i] = IF i <= Len(s) THEN s[i] ELSE t[i - Len(s)]
  BY ConcatProperties
<1>6. \A i \in 1..(Len(s) + Len(t)) : (u \o Tail(t))[i] = (s \o t)[i]
  BY <1>1, <1>2, <1>3, <1>4, <1>5
<1>7. u \o Tail(t) = s \o t
  BY <1>2, <1>4, <1>5, <1>6, SeqEqual
<1> QED
  BY <1>7 DEF u

\* Two queues in a row without a value in common have no duplicates.
LEMMA NoDuplicatesConcat ==
    ASSUME NEW S, NEW s \in Seq(S), NEW t \in Seq(S), NoDuplicates(s), NoDuplicates(t),
           \A x \in Range(s) : x \notin Range(t)
    PROVE NoDuplicates(s \o t)
<1>1. s \o t \in Seq(S) /\ Len(s \o t) = Len(s) + Len(t)
      /\ \A i \in 1..(Len(s) + Len(t)) : (s \o t)[i] = IF i <= Len(s) THEN s[i] ELSE t[i - Len(s)]
  BY ConcatProperties
<1>2. DOMAIN (s \o t) = 1..(Len(s) + Len(t)) /\ DOMAIN s = 1..Len(s) /\ DOMAIN t = 1..Len(t)
      /\ Len(s) \in Nat /\ Len(t) \in Nat
  BY <1>1, LenProperties
<1>3. \A i \in 1..Len(s), j \in 1..Len(t) : s[i] # t[j]
  BY InRange
<1> SUFFICES ASSUME NEW i \in 1..(Len(s) + Len(t)), NEW j \in 1..(Len(s) + Len(t)),
                    (s \o t)[i] = (s \o t)[j]
             PROVE i = j
  BY <1>2 DEF NoDuplicates
<1>4. CASE i <= Len(s) /\ j <= Len(s)
  BY <1>1, <1>2, <1>4 DEF NoDuplicates
<1>5. CASE i <= Len(s) /\ ~(j <= Len(s))
  <2>1. i \in 1..Len(s) /\ j - Len(s) \in 1..Len(t)
    BY <1>2, <1>5
  <2> QED
    BY <1>1, <1>3, <1>5, <2>1
<1>6. CASE ~(i <= Len(s)) /\ j <= Len(s)
  <2>1. j \in 1..Len(s) /\ i - Len(s) \in 1..Len(t)
    BY <1>2, <1>6
  <2> QED
    BY <1>1, <1>3, <1>6, <2>1
<1>7. CASE ~(i <= Len(s)) /\ ~(j <= Len(s))
  <2>1. i - Len(s) \in 1..Len(t) /\ j - Len(s) \in 1..Len(t)
    BY <1>2, <1>7
  <2>2. t[i - Len(s)] = t[j - Len(s)]
    BY <1>1, <1>7
  <2>3. i - Len(s) = j - Len(s)
    BY <1>2, <2>1, <2>2 DEF NoDuplicates
  <2> QED
    BY <1>2, <2>3
<1> QED
  BY <1>4, <1>5, <1>6, <1>7

\* Reverse keeps the values of a queue and that there are no duplicates.
LEMMA ReverseProperties ==
    ASSUME NEW S, NEW s \in Seq(S)
    PROVE /\ Reverse(s) \in Seq(S)
          /\ Range(Reverse(s)) = Range(s)
          /\ NoDuplicates(s) => NoDuplicates(Reverse(s))
          /\ s = <<>> => Reverse(s) = <<>>
<1>1. Len(s) \in Nat /\ DOMAIN s = 1..Len(s)
  BY LenProperties
<1>2. \A i \in 1..Len(s) : Len(s) - i + 1 \in 1..Len(s) /\ s[Len(s) - i + 1] \in S
  BY <1>1
<1>3. Reverse(s) \in Seq(S) /\ Len(Reverse(s)) = Len(s) /\ DOMAIN Reverse(s) = 1..Len(s)
      /\ \A i \in 1..Len(s) : Reverse(s)[i] = s[Len(s) - i + 1]
  BY <1>1, <1>2 DEF Reverse
<1>4. ASSUME NEW x \in Range(Reverse(s))
      PROVE x \in Range(s)
  <2>1. PICK i \in 1..Len(s) : Reverse(s)[i] = x
    BY <1>3, InRange
  <2> QED
    BY <1>2, <1>3, <2>1, InRange
<1>5. ASSUME NEW x \in Range(s)
      PROVE x \in Range(Reverse(s))
  <2>1. PICK i \in 1..Len(s) : s[i] = x
    BY InRange
  <2>2. Len(s) - i + 1 \in 1..Len(s) /\ Len(s) - (Len(s) - i + 1) + 1 = i
    BY <1>1
  <2>3. Reverse(s)[Len(s) - i + 1] = x
    BY <1>3, <2>1, <2>2
  <2> QED
    BY <1>3, <2>2, <2>3, InRange
<1>6. ASSUME NoDuplicates(s)
      PROVE NoDuplicates(Reverse(s))
  <2> SUFFICES ASSUME NEW i \in 1..Len(s), NEW j \in 1..Len(s), Reverse(s)[i] = Reverse(s)[j]
               PROVE i = j
    BY <1>3 DEF NoDuplicates
  <2>1. Len(s) - i + 1 = Len(s) - j + 1
    BY <1>1, <1>2, <1>3, <1>6 DEF NoDuplicates
  <2> QED
    BY <1>1, <2>1
<1>7. ASSUME s = <<>>
      PROVE Reverse(s) = <<>>
  BY <1>3, <1>7, EmptySeq
<1> QED
  BY <1>3, <1>4, <1>5, <1>6, <1>7

\* What is put before a newest-first list comes last when it is read oldest first.
LEMMA ReverseOfPush ==
    ASSUME NEW S, NEW s \in Seq(S), NEW t \in Seq(S)
    PROVE Reverse(Reverse(s) \o t) = Reverse(t) \o s
<1> DEFINE r == Reverse(s)
           u == r \o t
           v == Reverse(t)
           m == Len(s)
           n == Len(t)
<1>1. m \in Nat /\ n \in Nat
  BY LenProperties
<1>2. /\ r \in Seq(S) /\ Len(r) = m /\ \A i \in 1..m : r[i] = s[m - i + 1]
      /\ v \in Seq(S) /\ Len(v) = n /\ \A i \in 1..n : v[i] = t[n - i + 1]
  BY <1>1, ReverseProperties DEF Reverse
<1>3. /\ u \in Seq(S) /\ Len(u) = m + n
      /\ \A i \in 1..(m + n) : u[i] = IF i <= m THEN r[i] ELSE t[i - m]
      /\ v \o s \in Seq(S) /\ Len(v \o s) = n + m
      /\ \A i \in 1..(n + m) : (v \o s)[i] = IF i <= n THEN v[i] ELSE s[i - n]
  <2> HIDE DEF r, v
  <2>1. u \in Seq(S) /\ Len(u) = Len(r) + Len(t)
        /\ \A i \in 1..(Len(r) + Len(t)) : u[i] = IF i <= Len(r) THEN r[i] ELSE t[i - Len(r)]
    BY <1>2, ConcatProperties
  <2>2. v \o s \in Seq(S) /\ Len(v \o s) = Len(v) + Len(s)
        /\ \A i \in 1..(Len(v) + Len(s)) :
             (v \o s)[i] = IF i <= Len(v) THEN v[i] ELSE s[i - Len(v)]
    BY <1>2, ConcatProperties
  <2> QED
    BY <1>2, <2>1, <2>2
<1>4. Reverse(u) \in Seq(S) /\ Len(Reverse(u)) = m + n
      /\ \A i \in 1..(m + n) : Reverse(u)[i] = u[m + n - i + 1]
  BY <1>1, <1>3, ReverseProperties DEF Reverse
<1>5. ASSUME NEW i \in 1..(m + n)
      PROVE Reverse(u)[i] = (v \o s)[i]
  <2> HIDE DEF r, u, v
  <2>1. CASE i <= n
    <3>1. m + n - i + 1 \in 1..(m + n) /\ ~(m + n - i + 1 <= m) /\ (m + n - i + 1) - m = n - i + 1
          /\ i \in 1..n
      BY <1>1, <2>1
    <3>2. u[m + n - i + 1] = t[n - i + 1]
      <4> DEFINE k == m + n - i + 1
      <4>1. k \in 1..(m + n) /\ ~(k <= m) /\ k - m = n - i + 1
        BY <3>1
      <4>2. u[k] = IF k <= m THEN r[k] ELSE t[k - m]
        <5> HIDE DEF k
        <5> QED
          BY <1>3, <4>1
      <4> HIDE DEF k
      <4>3. u[k] = t[n - i + 1]
        BY <4>1, <4>2
      <4> QED
        BY <4>3 DEF k
    <3> QED
      BY <1>1, <1>2, <1>3, <1>4, <3>1, <3>2, <2>1
  <2>2. CASE ~(i <= n)
    <3>1. m + n - i + 1 \in 1..m /\ m + n - i + 1 \in 1..(m + n) /\ m + n - i + 1 <= m
          /\ m - (m + n - i + 1) + 1 = i - n /\ i \in 1..(n + m)
      BY <1>1, <2>2
    <3>2. u[m + n - i + 1] = s[i - n]
      BY <1>2, <1>3, <3>1
    <3> QED
      BY <1>3, <1>4, <3>1, <3>2, <2>2
  <2> QED
    BY <2>1, <2>2
<1>6. m + n = n + m
  BY <1>1
<1> QED
  BY <1>3, <1>4, <1>5, <1>6, SeqEqual

\* A queue is a prefix of itself and of itself with something behind it.
LEMMA PrefixOfConcat ==
    ASSUME NEW S, NEW s \in Seq(S), NEW t \in Seq(S)
    PROVE IsPrefix(s, s) /\ IsPrefix(s, s \o t)
<1>1. Len(s) \in Nat /\ Len(t) \in Nat
  BY LenProperties
<1>2. s \o t \in Seq(S) /\ Len(s \o t) = Len(s) + Len(t)
  BY ConcatProperties
<1>3. SubSeq(s, 1, Len(s)) = s /\ SubSeq(s \o t, 1, Len(s)) = s
  BY SubSeqFull, SubSeqOfConcat1, ConcatSimplifications
<1> QED
  BY <1>1, <1>2, <1>3 DEF IsPrefix

\* 1, 2, ..., n followed by n + 1.
LEMMA CountOn ==
    ASSUME NEW n \in Nat
    PROVE Append([i \in 1..n |-> i], n + 1) = [i \in 1..(n + 1) |-> i]
<1> DEFINE s == [i \in 1..n |-> i]
           t == [i \in 1..(n + 1) |-> i]
<1>1. s \in Seq(Nat) /\ Len(s) = n /\ t \in Seq(Nat) /\ Len(t) = n + 1
  OBVIOUS
<1>2. Append(s, n + 1) \in Seq(Nat) /\ Len(Append(s, n + 1)) = n + 1
      /\ Append(s, n + 1)[n + 1] = n + 1
      /\ \A i \in 1..n : Append(s, n + 1)[i] = s[i]
  BY <1>1, AppendProperties
<1>3. \A i \in 1..(n + 1) : Append(s, n + 1)[i] = t[i]
  BY <1>2
<1> QED
  BY <1>1, <1>2, <1>3, SeqEqual
-----------------------------------------------------------------------------

\* Induction over the naturals, about a set of them: the least number that is
\* missing cannot be 0 and has a predecessor that is not missing.
LEMMA SetInduction ==
    ASSUME NEW T \in SUBSET Nat, 0 \in T, \A n \in T : n + 1 \in T
    PROVE T = Nat
<1> DEFINE R == {ss \in Nat \X Nat : ss[1] < ss[2]}
<1>1. \A x, y \in Nat : <<x, y>> \in R <=> x < y
  OBVIOUS
<1>2. IsWellFoundedOn(R, Nat)
  BY NatLessThanWellFounded DEF OpToRel
<1> HIDE DEF R
<1> SUFFICES ASSUME Nat \ T # {}
             PROVE FALSE
  OBVIOUS
<1>3. PICK x \in Nat \ T : \A y \in Nat \ T : <<y, x>> \notin R
  BY <1>2, WFMin
<1>4. x # 0 /\ x - 1 \in Nat /\ x - 1 < x /\ (x - 1) + 1 = x
  OBVIOUS
<1>5. x - 1 \in T
  BY <1>1, <1>3, <1>4
<1> QED
  BY <1>4, <1>5

\* The same for the numbers up to n.
LEMMA InductionUpTo ==
    ASSUME NEW n \in Nat, NEW T, 0 \in T, \A k \in 0..(n - 1) : k \in T => k + 1 \in T
    PROVE 0..n \subseteq T
<1> DEFINE U == {k \in Nat : k <= n => k \in T}
<1>1. U \in SUBSET Nat /\ 0 \in U
  OBVIOUS
<1>2. \A k \in U : k + 1 \in U
  OBVIOUS
<1> HIDE DEF U
<1>3. U = Nat
  BY <1>1, <1>2, SetInduction
<1> QED
  BY <1>3 DEF U

\* f is the recursive function over 0..n that starts with v0 and applies step i to
\* the value before.
Iterates(f, V, v0, n, g) ==
    f \in [0..n -> V] /\ f[0] = v0 /\ \A i \in 1..n : f[i] = g[i][f[i - 1]]

\* There is one.
LEMMA Iteration ==
    ASSUME NEW V, NEW v0 \in V, NEW n \in Nat, NEW g, \A i \in 1..n : \A v \in V : g[i][v] \in V
    PROVE \E f : Iterates(f, V, v0, n, g)
<1> DEFINE Good(k, f) == f \in [0..k -> V] /\ f[0] = v0 /\ \A i \in 1..k : f[i] = g[i][f[i - 1]]
           T == {k \in 0..n : \E f : Good(k, f)}
<1>1. 0 \in T
  <2>1. Good(0, [i \in 0..0 |-> v0])
    OBVIOUS
  <2> HIDE DEF Good
  <2> QED
    BY <2>1
<1>2. ASSUME NEW k \in 0..(n - 1), k \in T
      PROVE k + 1 \in T
  <2>1. PICK f : Good(k, f)
    BY <1>2
  <2> DEFINE h == [i \in 0..(k + 1) |-> IF i <= k THEN f[i] ELSE g[i][f[k]]]
  <2>2. k \in Nat /\ k \in 0..k /\ k + 1 \in 1..n /\ k + 1 \in 0..n /\ f[k] \in V
    BY <2>1
  <2>3. g[k + 1][f[k]] \in V
    BY <2>2
  <2>4. \A i \in 0..(k + 1) : h[i] \in V
    BY <2>1, <2>2, <2>3
  <2>5. h \in [0..(k + 1) -> V] /\ h[0] = v0
    BY <2>1, <2>4
  <2>6. ASSUME NEW i \in 1..(k + 1)
        PROVE h[i] = g[i][h[i - 1]]
    <3>1. CASE i <= k
      BY <2>1, <3>1
    <3>2. CASE ~(i <= k)
      <4>1. i = k + 1 /\ i - 1 = k /\ ~(k + 1 <= k) /\ k <= k /\ k \in 0..(k + 1) /\ k + 1 \in 0..(k + 1)
        BY <2>2, <3>2
      <4>2. h[k + 1] = g[k + 1][f[k]] /\ h[k] = f[k]
        BY <4>1
      <4> QED
        BY <4>1, <4>2
    <3> QED
      BY <3>1, <3>2
  <2>7. Good(k + 1, h)
    BY <2>5, <2>6
  <2> HIDE DEF Good, h
  <2> QED
    BY <2>2, <2>7
<1> HIDE DEF T
<1>3. \A k \in 0..(n - 1) : k \in T => k + 1 \in T
  BY <1>2
<1>4. 0..n \subseteq T
  BY <1>1, <1>3, InductionUpTo
<1>5. n \in T
  BY <1>4
<1> QED
  BY <1>5 DEF T, Iterates
=============================================================================
