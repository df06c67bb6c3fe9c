---------------------------- MODULE SequenceLemmas -----------------------------
(***************************************************************************)
(* Facts about sequences, least members, iterations and FlattenSeq, for    *)
(* the proofs.                                                             *)
(***************************************************************************)
EXTENDS SequencesExt, SequenceTheorems, WellFoundedInduction, TLAPS

\* The range of an Append, of a head and a tail, and of a concatenation of three.
LEMMA RangeAppend ==
    ASSUME NEW S, NEW s \in Seq(S), NEW e \in S
    PROVE  Range(Append(s, e)) = Range(s) \cup {e}
<1>1. <<e>> \in Seq(S)
  OBVIOUS
<1>2. Range(<<e>>) = {e}
  BY DEF Range
<1>3. Append(s, e) = s \o <<e>>
  BY AppendIsConcat
<1>4. Range(s \o <<e>>) = Range(s) \cup Range(<<e>>)
  BY <1>1, RangeConcatenation, Zenon
<1> QED BY <1>2, <1>3, <1>4

LEMMA SplitHead ==
    ASSUME NEW S, NEW s \in Seq(S), s # <<>>
    PROVE  /\ Head(s) \in S /\ Tail(s) \in Seq(S)
           /\ Range(s) = {Head(s)} \cup Range(Tail(s))
           /\ Len(s) = Len(Tail(s)) + 1
           /\ s = <<Head(s)>> \o Tail(s)
<1>1. /\ Head(s) \in S /\ Tail(s) \in Seq(S)
      /\ Len(Tail(s)) = Len(s) - 1 /\ Len(s) \in Nat
  BY HeadTailProperties, LenProperties
<1>2. <<Head(s)>> \in Seq(S)
  BY <1>1
<1>3. Range(<<Head(s)>>) = {Head(s)}
  BY DEF Range
<1>4. s = <<Head(s)>> \o Tail(s)
  BY <1>1, <1>2
<1>5. Range(<<Head(s)>> \o Tail(s)) = Range(<<Head(s)>>) \cup Range(Tail(s))
  BY <1>1, <1>2, RangeConcatenation, Zenon
<1>6. Range(s) = {Head(s)} \cup Range(Tail(s))
  BY <1>3, <1>4, <1>5
<1> QED BY <1>1, <1>4, <1>6

LEMMA RangeOfThree ==
    ASSUME NEW S, NEW s \in Seq(S), NEW t \in Seq(S), NEW u \in Seq(S)
    PROVE  Range(s \o t \o u) = Range(s) \cup Range(t) \cup Range(u)
<1>1. s \o t \in Seq(S)
  BY ConcatProperties
<1>2. Range(s \o t) = Range(s) \cup Range(t)
  BY RangeConcatenation, Zenon
<1>3. Range(s \o t \o u) = Range(s \o t) \cup Range(u)
  BY <1>1, RangeConcatenation, Zenon
<1> QED BY <1>2, <1>3

LEMMA LenOfThree ==
    ASSUME NEW S, NEW s \in Seq(S), NEW t \in Seq(S), NEW u \in Seq(S)
    PROVE  Len(s \o t \o u) = Len(s) + Len(t) + Len(u)
<1>1. s \o t \in Seq(S) /\ Len(s \o t) = Len(s) + Len(t)
  BY ConcatProperties
<1> QED BY <1>1, ConcatProperties

\* What a prefix is, and that it repeats nothing if the sequence does not.
LEMMA PrefixProperties ==
    ASSUME NEW S, NEW s \in Seq(S), NEW n \in 0 .. Len(s)
    PROVE  /\ SubSeq(s, 1, n) \in Seq(S) /\ Len(SubSeq(s, 1, n)) = n
           /\ \A i \in 1 .. n : SubSeq(s, 1, n)[i] = s[i]
           /\ Range(SubSeq(s, 1, n)) \subseteq Range(s)
           /\ IsInjective(s) => IsInjective(SubSeq(s, 1, n))
<1>1. /\ SubSeq(s, 1, n) \in Seq(S) /\ Len(SubSeq(s, 1, n)) = n
      /\ \A i \in 1 .. n : SubSeq(s, 1, n)[i] = s[i]
  BY SubSeqProperties, LenProperties
<1>2. DOMAIN SubSeq(s, 1, n) = 1 .. n /\ DOMAIN s = 1 .. Len(s) /\ 1 .. n \subseteq 1 .. Len(s)
  BY <1>1, LenProperties
<1> QED BY <1>1, <1>2 DEF Range, IsInjective

\* A sequence without repetition stays one when something new is appended.
LEMMA InjectiveAppend ==
    ASSUME NEW S, NEW s \in Seq(S), NEW e \in S, IsInjective(s), e \notin Range(s)
    PROVE  IsInjective(Append(s, e))
<1>1. /\ Len(s) \in Nat /\ DOMAIN s = 1 .. Len(s)
      /\ DOMAIN Append(s, e) = 1 .. Len(s) + 1
      /\ \A i \in 1 .. Len(s) : Append(s, e)[i] = s[i]
      /\ Append(s, e)[Len(s) + 1] = e
  BY AppendProperties, LenProperties
<1>2. \A i \in 1 .. Len(s) + 1 : i \in 1 .. Len(s) \/ i = Len(s) + 1
  BY <1>1
<1>3. \A i \in 1 .. Len(s) : s[i] # e
  BY <1>1 DEF Range
<1> QED BY <1>1, <1>2, <1>3 DEF IsInjective

\* The head of such a sequence is not in its tail, which is one too.
LEMMA InjectiveTail ==
    ASSUME NEW S, NEW s \in Seq(S), s # <<>>, IsInjective(s)
    PROVE  IsInjective(Tail(s)) /\ Head(s) \notin Range(Tail(s))
<1>1. /\ Len(s) \in Nat /\ Len(s) >= 1 /\ DOMAIN s = 1 .. Len(s) /\ Head(s) = s[1]
      /\ Tail(s) \in Seq(S) /\ Len(Tail(s)) = Len(s) - 1
      /\ \A i \in 1 .. Len(Tail(s)) : Tail(s)[i] = s[i + 1]
  BY HeadTailProperties, LenProperties, EmptySeq
<1>2. DOMAIN Tail(s) = 1 .. Len(s) - 1
  BY <1>1, LenProperties
<1>3. \A i \in 1 .. Len(s) - 1 : i + 1 \in 1 .. Len(s) /\ i + 1 # 1 /\ Tail(s)[i] = s[i + 1]
  BY <1>1
<1>4. \A i, j \in 1 .. Len(s) - 1 : Tail(s)[i] = Tail(s)[j] => i = j
  BY <1>1, <1>3 DEF IsInjective
<1>5. \A i \in 1 .. Len(s) - 1 : Tail(s)[i] # Head(s)
  BY <1>1, <1>3 DEF IsInjective
<1> QED BY <1>2, <1>4, <1>5 DEF IsInjective, Range

\* Nor is anything repeated by two such sequences that have nothing in common.
LEMMA InjectiveConcat ==
    ASSUME NEW S, NEW s \in Seq(S), NEW t \in Seq(S), IsInjective(s), IsInjective(t),
           Range(s) \cap Range(t) = {}
    PROVE  IsInjective(s \o t)
<1>1. /\ s \o t \in Seq(S) /\ Len(s \o t) = Len(s) + Len(t)
      /\ \A i \in 1 .. Len(s) + Len(t) : (s \o t)[i] = IF i <= Len(s) THEN s[i] ELSE t[i - Len(s)]
  BY ConcatProperties
<1>2. /\ Len(s) \in Nat /\ Len(t) \in Nat /\ DOMAIN s = 1 .. Len(s) /\ DOMAIN t = 1 .. Len(t)
      /\ DOMAIN (s \o t) = 1 .. Len(s) + Len(t)
  BY <1>1, LenProperties
<1>3. \A i \in 1 .. Len(s), j \in 1 .. Len(t) : s[i] # t[j]
  BY <1>2 DEF Range
<1>4. ASSUME NEW i \in 1 .. Len(s) + Len(t), NEW j \in 1 .. Len(s) + Len(t),
             (s \o t)[i] = (s \o t)[j]
      PROVE  i = j
  <2>1. CASE i <= Len(s) /\ j <= Len(s)
    <3>1. i \in 1 .. Len(s) /\ j \in 1 .. Len(s) /\ s[i] = s[j]
      BY <1>1, <1>2, <1>4, <2>1
    <3> QED BY <1>2, <3>1 DEF IsInjective
  <2>2. CASE i > Len(s) /\ j > Len(s)
    <3>1. i - Len(s) \in 1 .. Len(t) /\ j - Len(s) \in 1 .. Len(t)
          /\ t[i - Len(s)] = t[j - Len(s)]
      BY <1>1, <1>2, <1>4, <2>2
    <3>2. i - Len(s) = j - Len(s)
      BY <1>2, <3>1 DEF IsInjective
    <3> QED BY <1>2, <3>2
  <2>3. CASE i <= Len(s) /\ j > Len(s)
    <3>1. i \in 1 .. Len(s) /\ j - Len(s) \in 1 .. Len(t) /\ s[i] = t[j - Len(s)]
      BY <1>1, <1>2, <1>4, <2>3
    <3> QED BY <1>3, <3>1
  <2>4. CASE i > Len(s) /\ j <= Len(s)
    <3>1. j \in 1 .. Len(s) /\ i - Len(s) \in 1 .. Len(t) /\ t[i - Len(s)] = s[j]
      BY <1>1, <1>2, <1>4, <2>4
    <3> QED BY <1>3, <3>1
  <2> QED BY <1>2, <2>1, <2>2, <2>3, <2>4
<1> QED BY <1>2, <1>4 DEF IsInjective

LEMMA EmptySequence == Range(<<>>) = {} /\ IsInjective(<<>>)
BY DEF Range, IsInjective

\* A sequence is its first n elements and the others.
LEMMA SplitAt ==
    ASSUME NEW S, NEW s \in Seq(S), NEW n \in 0 .. Len(s)
    PROVE  /\ SubSeq(s, 1, n) \in Seq(S) /\ SubSeq(s, n + 1, Len(s)) \in Seq(S)
           /\ Len(SubSeq(s, 1, n)) = n
           /\ s = SubSeq(s, 1, n) \o SubSeq(s, n + 1, Len(s))
           /\ Range(s) = Range(SubSeq(s, 1, n)) \cup Range(SubSeq(s, n + 1, Len(s)))
<1>1. Len(s) \in Nat
  BY LenProperties
<1>2. SubSeq(s, 1, n) \in Seq(S) /\ Len(SubSeq(s, 1, n)) = n
  BY PrefixProperties
<1>3. SubSeq(s, n + 1, Len(s)) \in Seq(S)
  <2>1. \A i \in n + 1 .. Len(s) : s[i] \in S
    <3>1. \A i \in n + 1 .. Len(s) : i \in 1 .. Len(s)
      BY <1>1
    <3> QED BY <3>1, ElementOfSeq
  <2> QED BY <1>1, <2>1, SubSeqProperties
<1>4. SubSeq(s, 1, n) \o SubSeq(s, n + 1, Len(s)) = SubSeq(s, 1, Len(s))
  <2>1. 1 \in 1 .. Len(s) + 1 /\ n \in 1 - 1 .. Len(s) /\ Len(s) \in n .. Len(s)
    BY <1>1
  <2> QED BY <2>1, ConcatAdjacentSubSeq, Zenon
<1>5. s = SubSeq(s, 1, n) \o SubSeq(s, n + 1, Len(s))
  BY <1>4, SubSeqFull
<1>6. Range(SubSeq(s, 1, n) \o SubSeq(s, n + 1, Len(s)))
      = Range(SubSeq(s, 1, n)) \cup Range(SubSeq(s, n + 1, Len(s)))
  BY <1>2, <1>3, RangeConcatenation, Zenon
<1> QED BY <1>2, <1>3, <1>5, <1>6

\* A sequence that is put together of two or three falls apart again.
LEMMA SplitTwo ==
    ASSUME NEW S, NEW s \in Seq(S), NEW t \in Seq(S)
    PROVE  /\ Len(s \o t) = Len(s) + Len(t)
           /\ SubSeq(s \o t, 1, Len(s)) = s
           /\ SubSeq(s \o t, Len(s) + 1, Len(s \o t)) = t
<1> DEFINE u == s \o t
<1>1. /\ u \in Seq(S) /\ Len(u) = Len(s) + Len(t) /\ Len(s) \in Nat /\ Len(t) \in Nat
      /\ \A i \in 1 .. Len(s) + Len(t) : u[i] = IF i <= Len(s) THEN s[i] ELSE t[i - Len(s)]
  BY ConcatProperties, LenProperties
<1>2. \A i \in 1 .. Len(s) + Len(t) : u[i] \in S
  BY <1>1, ElementOfSeq
<1> HIDE DEF u
<1>3. SubSeq(u, 1, Len(s)) = s
  <2>1. /\ SubSeq(u, 1, Len(s)) \in Seq(S) /\ Len(SubSeq(u, 1, Len(s))) = Len(s)
        /\ \A i \in 1 .. Len(s) : SubSeq(u, 1, Len(s))[i] = u[i]
    BY <1>1, <1>2, SubSeqProperties
  <2>2. \A i \in 1 .. Len(s) : SubSeq(u, 1, Len(s))[i] = s[i]
    BY <1>1, <2>1
  <2> QED BY <1>1, <2>1, <2>2, SeqEqual
<1>4. SubSeq(u, Len(s) + 1, Len(u)) = t
  <2> DEFINE v == SubSeq(u, Len(s) + 1, Len(s) + Len(t))
  <2>1. /\ v \in Seq(S) /\ Len(v) = Len(t)
        /\ \A i \in 1 .. Len(t) : v[i] = u[Len(s) + 1 + i - 1]
    BY <1>1, <1>2, SubSeqProperties
  <2> HIDE DEF v
  <2>2. \A i \in 1 .. Len(t) : v[i] = t[i]
    <3> SUFFICES ASSUME NEW i \in 1 .. Len(t) PROVE v[i] = t[i]
      OBVIOUS
    <3>1. PICK k \in 1 .. Len(s) + Len(t) : k = Len(s) + i
      BY <1>1
    <3>2. k = Len(s) + 1 + i - 1 /\ k > Len(s) /\ k - Len(s) = i
      BY <1>1, <3>1
    <3>3. v[i] = u[k]
      BY <2>1, <3>2, Zenon
    <3> QED BY <1>1, <3>2, <3>3
  <2>3. v = t
    BY <2>1, <2>2, SeqEqual
  <2> QED BY <1>1, <2>3 DEF v
<1> QED BY <1>1, <1>3, <1>4 DEF u

LEMMA SplitThree ==
    ASSUME NEW S, NEW s \in Seq(S), NEW t \in Seq(S), NEW u \in Seq(S),
           NEW w, w = (s \o t) \o u
    PROVE  /\ Len(w) = Len(s) + Len(t) + Len(u)
           /\ SubSeq(w, 1, Len(s)) = s
           /\ SubSeq(w, Len(s) + 1, Len(s) + Len(t)) = t
           /\ SubSeq(w, Len(s) + Len(t) + 1, Len(w)) = u
<1>1. /\ s \o t \in Seq(S) /\ Len(s \o t) = Len(s) + Len(t)
      /\ t \o u \in Seq(S) /\ Len(t \o u) = Len(t) + Len(u)
      /\ Len(s) \in Nat /\ Len(t) \in Nat /\ Len(u) \in Nat
  BY ConcatProperties, LenProperties
<1>2. w = s \o (t \o u)
  BY ConcatAssociative
<1>3. Len(w) = Len(s) + Len(t) + Len(u) /\ SubSeq(w, Len(s) + Len(t) + 1, Len(w)) = u
  BY <1>1, SplitTwo
<1>4. SubSeq(w, 1, Len(s)) = s
  BY <1>1, <1>2, SplitTwo
<1>5. SubSeq(w, Len(s) + 1, Len(s) + Len(t)) = t
  <2> DEFINE v == SubSeq(w, Len(s) + 1, Len(s) + Len(t))
  <2>1. \A i \in 1 .. Len(s) + Len(t) : w[i] = IF i <= Len(s) THEN s[i] ELSE t[i - Len(s)]
    <3>1. \A i \in 1 .. Len(s) + Len(t) : w[i] = (s \o t)[i]
      BY <1>1, ConcatProperties
    <3> QED BY <1>1, <3>1, ConcatProperties
  <2>2. \A i \in Len(s) + 1 .. Len(s) + Len(t) : w[i] \in S
    <3> SUFFICES ASSUME NEW i \in Len(s) + 1 .. Len(s) + Len(t) PROVE w[i] \in S
      OBVIOUS
    <3>1. i \in 1 .. Len(s) + Len(t) /\ i > Len(s) /\ i - Len(s) \in 1 .. Len(t)
      BY <1>1
    <3> QED BY <1>1, <2>1, <3>1, ElementOfSeq
  <2>3. /\ v \in Seq(S) /\ Len(v) = Len(t)
        /\ \A i \in 1 .. Len(t) : v[i] = w[Len(s) + 1 + i - 1]
    BY <1>1, <2>2, SubSeqProperties
  <2> HIDE DEF v
  <2>4. \A i \in 1 .. Len(t) : v[i] = t[i]
    <3> SUFFICES ASSUME NEW i \in 1 .. Len(t) PROVE v[i] = t[i]
      OBVIOUS
    <3>1. PICK k \in 1 .. Len(s) + Len(t) : k = Len(s) + i
      BY <1>1
    <3>2. k = Len(s) + 1 + i - 1 /\ k > Len(s) /\ k - Len(s) = i
      BY <1>1, <3>1
    <3>3. v[i] = w[k]
      BY <2>3, <3>2, Zenon
    <3> QED BY <1>1, <2>1, <3>2, <3>3
  <2>5. v = t
    BY <2>3, <2>4, SeqEqual
  <2> QED BY <2>5 DEF v
<1> QED BY <1>3, <1>4, <1>5

\* An element appended to a concatenation.
LEMMA ConcatAppend ==
    ASSUME NEW S, NEW s \in Seq(S), NEW t \in Seq(S), NEW e \in S
    PROVE  s \o Append(t, e) = Append(s \o t, e)
<1>1. s \o t \in Seq(S) /\ <<e>> \in Seq(S)
  BY ConcatProperties
<1>2. Append(t, e) = t \o <<e>> /\ Append(s \o t, e) = (s \o t) \o <<e>>
  BY <1>1, AppendIsConcat
<1> QED BY <1>1, <1>2, ConcatAssociative

\* The parts of a sequence without repetition have nothing in common.
LEMMA InjectiveParts ==
    ASSUME NEW S, NEW s \in Seq(S), NEW t \in Seq(S), IsInjective(s \o t)
    PROVE  Range(s) \cap Range(t) = {}
<1> DEFINE u == s \o t
<1>1. /\ u \in Seq(S) /\ Len(u) = Len(s) + Len(t) /\ Len(s) \in Nat /\ Len(t) \in Nat
      /\ DOMAIN u = 1 .. Len(s) + Len(t) /\ DOMAIN s = 1 .. Len(s) /\ DOMAIN t = 1 .. Len(t)
      /\ \A i \in 1 .. Len(s) + Len(t) : u[i] = IF i <= Len(s) THEN s[i] ELSE t[i - Len(s)]
  BY ConcatProperties, LenProperties
<1> HIDE DEF u
<1>2. SUFFICES ASSUME NEW i \in 1 .. Len(s), NEW j \in 1 .. Len(t), s[i] = t[j] PROVE FALSE
  BY <1>1 DEF Range
<1>3. PICK k \in 1 .. Len(s) + Len(t) : k = Len(s) + j
  BY <1>1
<1>4. k > Len(s) /\ k - Len(s) = j
  BY <1>1, <1>3
<1>5. u[k] = t[j] /\ i \in 1 .. Len(s) + Len(t) /\ u[i] = s[i] /\ i # k
  BY <1>1, <1>4
<1> QED BY <1>1, <1>2, <1>5 DEF IsInjective, u

LEMMA LeastMember ==
    ASSUME NEW S \in SUBSET Nat, S # {}
    PROVE  \E x \in S : \A y \in S : x <= y
<1>1. PICK x \in S : \A y \in S : ~ (<<y, x>> \in OpToRel(<, Nat))
  BY NatLessThanWellFounded, WFMin, Zenon
<1>2. ASSUME NEW y \in S PROVE x <= y
  <2>1. ~ (y < x)
    BY <1>1 DEF OpToRel
  <2> QED BY <2>1
<1> QED BY <1>2

-------------------------------------------------------------------------------
Repeats(g, a, n, f) == f = [i \in 0 .. n |-> IF i = 0 THEN a ELSE g[f[i - 1]]]

\* What a function gives when it is applied n times over: the equation defines a function,
\* and its values stay in the set.
LEMMA Iterated ==
    ASSUME NEW S, NEW a \in S, NEW g \in [S -> S], NEW n \in Nat
    PROVE  \E f \in [0 .. n -> S] : Repeats(g, a, n, f)
<1> DEFINE Is(m, f) == Repeats(g, a, m, f)
           None == {m \in Nat : ~\E f \in [0 .. m -> S] : Is(m, f)}
<1>1. SUFFICES ASSUME None # {} PROVE FALSE
  OBVIOUS
<1>2. PICK m \in None : \A k \in None : m <= k
  BY <1>1, LeastMember
<1>3. m # 0
  <2> SUFFICES ASSUME m = 0 PROVE FALSE
    OBVIOUS
  <2> DEFINE f == [i \in 0 .. 0 |-> a]
  <2>1. f \in [0 .. 0 -> S] /\ Is(0, f)
    BY DEF Repeats
  <2> QED BY <2>1, <1>2
<1>4. m - 1 \in Nat /\ m - 1 \notin None
  BY <1>2, <1>3
<1>5. PICK f \in [0 .. m - 1 -> S] : Is(m - 1, f)
  BY <1>4
<1> DEFINE h == [i \in 0 .. m |-> IF i = m THEN g[f[m - 1]] ELSE f[i]]
<1>6. h \in [0 .. m -> S] 
  BY <1>4
<1>7. \A i \in 0 .. m : h[i] = IF i = 0 THEN a ELSE g[h[i - 1]]
  <2> SUFFICES ASSUME NEW i \in 0 .. m PROVE h[i] = IF i = 0 THEN a ELSE g[h[i - 1]]
    OBVIOUS
  <2>1. CASE i = m
    BY <1>3, <1>4, <2>1
  <2>2. CASE i # m
    <3>1. i \in 0 .. m - 1 /\ h[i] = f[i] /\ (i # 0 => h[i - 1] = f[i - 1])
      BY <1>4, <2>2
    <3> QED BY <1>5, <3>1 DEF Repeats
  <2> QED BY <2>1, <2>2
<1>8. Is(m, h)
  BY <1>6, <1>7 DEF Repeats
<1> QED BY <1>2, <1>6, <1>8

\* A claim about the steps of an iteration that holds at the start and is kept by each step
\* holds for all of them; the claim is given as the set of steps where it holds.
LEMMA UpTo ==
    ASSUME NEW n \in Nat, NEW T, 0 \in T, \A i \in 1 .. n : i - 1 \in T => i \in T
    PROVE  0 .. n \subseteq T
<1> DEFINE Bad == {i \in 0 .. n : i \notin T}
<1>1. SUFFICES ASSUME Bad # {} PROVE FALSE
  OBVIOUS
<1>2. PICK i \in Bad : \A k \in Bad : i <= k
  <2>1. Bad \in SUBSET Nat
    OBVIOUS
  <2> HIDE DEF Bad
  <2> QED BY <1>1, <2>1, LeastMember
<1>3. i # 0 /\ i \in 1 .. n /\ i - 1 \notin Bad
  BY <1>2
<1> QED BY <1>2, <1>3

\* What holds of the empty sequence and is kept by Append holds of every sequence; the claim
\* is given as the set of sequences of which it holds.
LEMMA ByAppend ==
    ASSUME NEW S, NEW T, <<>> \in T, \A s \in Seq(S), e \in S : s \in T => Append(s, e) \in T
    PROVE  Seq(S) \subseteq T
<1> DEFINE Bad == {n \in Nat : \E s \in Seq(S) : Len(s) = n /\ s \notin T}
<1>1. SUFFICES ASSUME Bad # {} PROVE FALSE
  BY LenProperties
<1>2. PICK n \in Bad : \A k \in Bad : n <= k
  <2>1. Bad \in SUBSET Nat
    OBVIOUS
  <2> HIDE DEF Bad
  <2> QED BY <1>1, <2>1, LeastMember
<1>3. PICK s \in Seq(S) : Len(s) = n /\ s \notin T
  BY <1>2
<1>4. PICK r \in Seq(S), e \in S : s = Append(r, e)
  BY <1>3, SequenceEmptyOrAppend
<1>5. Len(r) \in Nat /\ Len(s) = Len(r) + 1
  BY <1>4, AppendProperties, LenProperties
<1>6. Len(r) \notin Bad
  <2> HIDE DEF Bad
  <2> QED BY <1>2, <1>3, <1>5
<1>7. r \in T
  BY <1>5, <1>6
<1> QED BY <1>3, <1>4, <1>7

-------------------------------------------------------------------------------
(* FlattenSeq.                                                             *)

Joins(ss, n, f) == f = [i \in 1 .. n |-> IF i = 1 THEN ss[i] ELSE f[i - 1] \o ss[i]]

\* The equation of FlattenSeq defines a function ...
LEMMA JoinExists ==
    ASSUME NEW S, NEW ss \in Seq(Seq(S)), NEW n \in Nat, n <= Len(ss)
    PROVE  \E f \in [1 .. n -> Seq(S)] : Joins(ss, n, f)
<1> DEFINE None == {m \in Nat : m <= Len(ss) /\ ~\E f \in [1 .. m -> Seq(S)] : Joins(ss, m, f)}
<1>1. SUFFICES ASSUME None # {} PROVE FALSE
  OBVIOUS
<1>2. PICK m \in None : \A k \in None : m <= k
  <2>1. None \in SUBSET Nat
    OBVIOUS
  <2> HIDE DEF None
  <2> QED BY <1>1, <2>1, LeastMember
<1>3. m # 0
  <2> SUFFICES ASSUME m = 0 PROVE FALSE
    OBVIOUS
  <2> DEFINE f == [i \in 1 .. 0 |-> <<>>]
  <2>1. f \in [1 .. 0 -> Seq(S)] /\ Joins(ss, 0, f)
    BY DEF Joins
  <2> QED BY <2>1, <1>2
<1>4. m - 1 \in Nat /\ m - 1 \notin None /\ m <= Len(ss) /\ m \in 1 .. Len(ss)
  <2>1. m \in Nat /\ m <= Len(ss) /\ m - 1 < m /\ m - 1 \in Nat
    BY <1>2, <1>3
  <2>2. m - 1 \notin None
    <3> HIDE DEF None
    <3> QED BY <1>2, <2>1
  <2>3. Len(ss) \in Nat
    BY LenProperties
  <2> QED BY <1>3, <2>1, <2>2, <2>3
<1>5. PICK f \in [1 .. m - 1 -> Seq(S)] : Joins(ss, m - 1, f)
  BY <1>4, LenProperties
<1>6. \A i \in 1 .. m : ss[i] \in Seq(S)
  BY <1>4, LenProperties
<1> DEFINE last == IF m = 1 THEN ss[m] ELSE f[m - 1] \o ss[m]
           h == [i \in 1 .. m |-> IF i = m THEN last ELSE f[i]]
<1>7. last \in Seq(S)
  BY <1>4, <1>6, ConcatProperties
<1> HIDE DEF last
<1>8. h \in [1 .. m -> Seq(S)]
  BY <1>4, <1>7
<1>9. \A i \in 1 .. m : h[i] = IF i = 1 THEN ss[i] ELSE h[i - 1] \o ss[i]
  <2> SUFFICES ASSUME NEW i \in 1 .. m
               PROVE  h[i] = IF i = 1 THEN ss[i] ELSE h[i - 1] \o ss[i]
    OBVIOUS
  <2>1. CASE i = m
    BY <1>3, <1>4, <2>1 DEF last
  <2>2. CASE i # m
    <3>1. i \in 1 .. m - 1 /\ h[i] = f[i] /\ (i # 1 => h[i - 1] = f[i - 1])
      BY <1>4, <2>2
    <3> QED BY <1>5, <3>1 DEF Joins
  <2> QED BY <2>1, <2>2
<1>10. Joins(ss, m, h)
  BY <1>8, <1>9 DEF Joins
<1> QED BY <1>2, <1>8, <1>10

\* ... and one whose values up to n depend on the first n sequences only.
Same(f, g, n) == \A i \in 1 .. n : f[i] = g[i]

LEMMA JoinUnique ==
    ASSUME NEW S, NEW ss \in Seq(Seq(S)), NEW tt \in Seq(Seq(S)), NEW m \in Nat, NEW k \in Nat,
           NEW f, NEW g, Joins(ss, m, f), Joins(tt, k, g), NEW n \in Nat, n <= m, n <= k,
           Same(ss, tt, n)
    PROVE  Same(f, g, n)
<1> DEFINE T == {i \in 0 .. n : i = 0 \/ f[i] = g[i]}
<1>1. 0 \in T
  OBVIOUS
<1>2. ASSUME NEW i \in 1 .. n, i - 1 \in T PROVE i \in T
  <2>1. /\ f[i] = IF i = 1 THEN ss[i] ELSE f[i - 1] \o ss[i]
        /\ g[i] = IF i = 1 THEN tt[i] ELSE g[i - 1] \o tt[i]
    <3>1. i \in 1 .. m /\ i \in 1 .. k
      OBVIOUS
    <3> QED BY <3>1 DEF Joins
  <2>2. ss[i] = tt[i]
    BY DEF Same
  <2> QED BY <1>2, <2>1, <2>2
<1>3. 0 .. n \subseteq T
  <2> HIDE DEF T
  <2> QED BY <1>1, <1>2, UpTo
<1> QED BY <1>3 DEF Same

LEMMA FlattenValue ==
    ASSUME NEW S, NEW ss \in Seq(Seq(S)), Len(ss) # 0, NEW f, Joins(ss, Len(ss), f)
    PROVE  FlattenSeq(ss) = f[Len(ss)]
<1> DEFINE g == CHOOSE h : Joins(ss, Len(ss), h)
<1>1. Joins(ss, Len(ss), g)
  OBVIOUS
<1>2. FlattenSeq(ss) = g[Len(ss)]
  BY DEF FlattenSeq, Joins
<1> HIDE DEF g
<1>3. Len(ss) \in Nat /\ Len(ss) \in 1 .. Len(ss)
  BY LenProperties
<1>4. Same(f, g, Len(ss))
  <2>1. Same(ss, ss, Len(ss)) /\ Len(ss) <= Len(ss)
    BY <1>3 DEF Same
  <2> QED BY <1>1, <1>3, <2>1, JoinUnique
<1> QED BY <1>2, <1>3, <1>4 DEF Same

LEMMA FlattenEmpty == FlattenSeq(<<>>) = <<>>
BY DEF FlattenSeq

LEMMA FlattenType ==
    ASSUME NEW S, NEW ss \in Seq(Seq(S))
    PROVE  FlattenSeq(ss) \in Seq(S)
<1>1. CASE Len(ss) = 0
  <2>1. ss = <<>>
    BY <1>1, EmptySeq
  <2> QED BY <2>1, FlattenEmpty, EmptySeq
<1>2. CASE Len(ss) # 0
  <2>1. Len(ss) \in Nat /\ Len(ss) \in 1 .. Len(ss) /\ Len(ss) <= Len(ss)
    BY <1>2, LenProperties
  <2>2. PICK f \in [1 .. Len(ss) -> Seq(S)] : Joins(ss, Len(ss), f)
    BY <2>1, JoinExists
  <2> QED BY <1>2, <2>1, <2>2, FlattenValue
<1> QED BY <1>1, <1>2

LEMMA FlattenAppend ==
    ASSUME NEW S, NEW ss \in Seq(Seq(S)), NEW e \in Seq(S)
    PROVE  FlattenSeq(Append(ss, e)) = FlattenSeq(ss) \o e
<1> DEFINE n == Len(ss)
           tt == Append(ss, e)
<1>1. /\ n \in Nat /\ tt \in Seq(Seq(S)) /\ Len(tt) = n + 1 /\ tt[n + 1] = e
      /\ \A i \in 1 .. n : tt[i] = ss[i]
  BY AppendProperties, LenProperties
<1>2. PICK f \in [1 .. n -> Seq(S)] : Joins(ss, n, f)
  BY <1>1, JoinExists
<1> HIDE DEF tt
<1>3. PICK g \in [1 .. n + 1 -> Seq(S)] : Joins(tt, n + 1, g)
  <2>1. n + 1 \in Nat /\ n + 1 <= Len(tt)
    BY <1>1
  <2> QED BY <1>1, <2>1, JoinExists
<1>4. FlattenSeq(tt) = g[n + 1]
  <2>1. Len(tt) # 0 /\ Joins(tt, Len(tt), g)
    BY <1>1, <1>3
  <2> QED BY <1>1, <2>1, FlattenValue
<1>5. g[n + 1] = IF n = 0 THEN e ELSE g[n] \o e
  <2>1. PICK k \in 1 .. n + 1 : k = n + 1
    BY <1>1
  <2>2. g[k] = IF k = 1 THEN tt[k] ELSE g[k - 1] \o tt[k]
    BY <1>3 DEF Joins
  <2>3. k - 1 = n /\ (k = 1 <=> n = 0)
    BY <1>1, <2>1
  <2> QED BY <1>1, <2>1, <2>2, <2>3
<1>6. CASE n = 0
  <2>1. ss = <<>>
    BY <1>6, EmptySeq
  <2>2. FlattenSeq(ss) \o e = e
    BY <2>1, FlattenEmpty, ConcatEmptySeq
  <2> QED BY <1>4, <1>5, <1>6, <2>2 DEF tt
<1>7. CASE n # 0
  <2>1. Same(f, g, n)
    <3>1. n + 1 \in Nat /\ n <= n /\ n <= n + 1 /\ Same(ss, tt, n)
      BY <1>1 DEF Same
    <3> HIDE DEF n
    <3> QED BY <1>1, <1>2, <1>3, <3>1, JoinUnique
  <2>2. FlattenSeq(ss) = f[n] /\ n \in 1 .. n
    BY <1>1, <1>2, <1>7, FlattenValue
  <2> QED BY <1>4, <1>5, <1>7, <2>1, <2>2 DEF tt, Same
<1> QED BY <1>6, <1>7

LEMMA FlattenConcat ==
    ASSUME NEW S, NEW ss \in Seq(Seq(S)), NEW tt \in Seq(Seq(S))
    PROVE  FlattenSeq(ss \o tt) = FlattenSeq(ss) \o FlattenSeq(tt)
<1> DEFINE T == {uu \in Seq(Seq(S)) : FlattenSeq(ss \o uu) = FlattenSeq(ss) \o FlattenSeq(uu)}
<1>1. <<>> \in T
  BY FlattenEmpty, FlattenType, ConcatEmptySeq, EmptySeq
<1>2. ASSUME NEW uu \in Seq(Seq(S)), NEW e \in Seq(S), uu \in T PROVE Append(uu, e) \in T
  <2>1. Append(uu, e) \in Seq(Seq(S)) /\ ss \o uu \in Seq(Seq(S))
    BY AppendProperties, ConcatProperties
  <2>2. ss \o Append(uu, e) = Append(ss \o uu, e)
    <3>1. <<e>> \in Seq(Seq(S)) /\ Append(uu, e) = uu \o <<e>>
          /\ Append(ss \o uu, e) = (ss \o uu) \o <<e>>
      BY <2>1, AppendIsConcat
    <3> QED BY <3>1, ConcatAssociative
  <2>3. FlattenSeq(ss \o Append(uu, e)) = FlattenSeq(ss \o uu) \o e
    BY <2>1, <2>2, FlattenAppend
  <2>4. FlattenSeq(Append(uu, e)) = FlattenSeq(uu) \o e
    BY FlattenAppend
  <2>5. (FlattenSeq(ss) \o FlattenSeq(uu)) \o e = FlattenSeq(ss) \o (FlattenSeq(uu) \o e)
    <3>1. FlattenSeq(ss) \in Seq(S) /\ FlattenSeq(uu) \in Seq(S)
      BY FlattenType
    <3>2. \A x, y, z \in Seq(S) : (x \o y) \o z = x \o (y \o z)
      BY ConcatAssociative
    <3> QED BY <3>1, <3>2, Zenon
  <2> QED BY <1>2, <2>1, <2>3, <2>4, <2>5
<1>3. Seq(Seq(S)) \subseteq T
  <2> HIDE DEF T
  <2> QED BY <1>1, <1>2, ByAppend
<1> QED BY <1>3

\* The elements of a flattened sequence are those of its parts.
LEMMA FlattenRange ==
    ASSUME NEW S, NEW ss \in Seq(Seq(S))
    PROVE  Range(FlattenSeq(ss)) = UNION {Range(ss[i]) : i \in DOMAIN ss}
<1> DEFINE All(uu) == UNION {Range(uu[i]) : i \in DOMAIN uu}
           T == {uu \in Seq(Seq(S)) : Range(FlattenSeq(uu)) = All(uu)}
<1>1. <<>> \in T
  BY FlattenEmpty, EmptySeq DEF Range
<1>2. ASSUME NEW uu \in Seq(Seq(S)), NEW e \in Seq(S), uu \in T PROVE Append(uu, e) \in T
  <2> DEFINE vv == Append(uu, e)
             n == Len(uu)
  <2>1. /\ vv \in Seq(Seq(S)) /\ n \in Nat /\ DOMAIN uu = 1 .. n /\ DOMAIN vv = 1 .. n + 1
        /\ vv[n + 1] = e /\ \A i \in 1 .. n : vv[i] = uu[i]
    BY AppendProperties, LenProperties
  <2>2. FlattenSeq(vv) = FlattenSeq(uu) \o e
    BY FlattenAppend
  <2>3. FlattenSeq(uu) \in Seq(S)
    BY FlattenType
  <2>4. Range(FlattenSeq(vv)) = Range(FlattenSeq(uu)) \cup Range(e)
    BY <2>2, <2>3, RangeConcatenation, Zenon
  <2> HIDE DEF vv, n
  <2>5. All(vv) = All(uu) \cup Range(e)
    <3>1. \A i \in 1 .. n + 1 : i \in 1 .. n \/ i = n + 1
      BY <2>1
    <3>2. \A i \in 1 .. n : i \in 1 .. n + 1
      BY <2>1
    <3>3. n + 1 \in 1 .. n + 1
      BY <2>1
    <3>4. ASSUME NEW x, x \in All(vv) PROVE x \in All(uu) \cup Range(e)
      <4>1. PICK i \in 1 .. n + 1 : x \in Range(vv[i])
        BY <2>1, <3>4
      <4> QED BY <2>1, <3>1, <4>1
    <3>5. ASSUME NEW x, x \in All(uu) \cup Range(e) PROVE x \in All(vv)
      <4>1. CASE x \in All(uu)
        <5>1. PICK i \in 1 .. n : x \in Range(uu[i])
          BY <2>1, <4>1
        <5> QED BY <2>1, <3>2, <5>1
      <4>2. CASE x \in Range(e)
        BY <2>1, <3>3, <4>2
      <4> QED BY <3>5, <4>1, <4>2
    <3> HIDE DEF All
    <3> QED BY <3>4, <3>5
  <2> QED BY <1>2, <2>1, <2>4, <2>5 DEF vv
<1>3. Seq(Seq(S)) \subseteq T
  <2> HIDE DEF T
  <2> QED BY <1>1, <1>2, ByAppend
<1> QED BY <1>3

\* If the parts have c elements at least, the whole has c times their number.
LEMMA FlattenLength ==
    ASSUME NEW S, NEW c \in Nat, NEW ss \in Seq(Seq(S)), \A i \in 1 .. Len(ss) : Len(ss[i]) >= c
    PROVE  Len(FlattenSeq(ss)) >= Len(ss) * c
<1> DEFINE T == {uu \in Seq(Seq(S)) :
                   (\A i \in 1 .. Len(uu) : Len(uu[i]) >= c) => Len(FlattenSeq(uu)) >= Len(uu) * c}
<1>1. <<>> \in T
  BY FlattenEmpty, EmptySeq
<1>2. ASSUME NEW uu \in Seq(Seq(S)), NEW e \in Seq(S), uu \in T PROVE Append(uu, e) \in T
  <2>1. /\ Append(uu, e) \in Seq(Seq(S)) /\ Len(uu) \in Nat /\ Len(Append(uu, e)) = Len(uu) + 1
        /\ Append(uu, e)[Len(uu) + 1] = e /\ \A i \in 1 .. Len(uu) : Append(uu, e)[i] = uu[i]
    BY AppendProperties, LenProperties
  <2>2. SUFFICES ASSUME \A i \in 1 .. Len(uu) + 1 : Len(Append(uu, e)[i]) >= c
                 PROVE  Len(FlattenSeq(Append(uu, e))) >= (Len(uu) + 1) * c
    BY <2>1
  <2>3. Len(FlattenSeq(uu)) >= Len(uu) * c
    <3>1. \A i \in 1 .. Len(uu) : Len(uu[i]) >= c
      BY <2>1, <2>2
    <3> QED BY <1>2, <3>1
  <2>4. Len(e) >= c
    BY <2>1, <2>2
  <2>5. Len(FlattenSeq(Append(uu, e))) = Len(FlattenSeq(uu)) + Len(e)
        /\ Len(FlattenSeq(uu)) \in Nat /\ Len(e) \in Nat
    BY FlattenAppend, FlattenType, ConcatProperties, LenProperties
  <2>6. (Len(uu) + 1) * c = Len(uu) * c + c /\ Len(uu) * c \in Nat
    BY <2>1
  <2> QED BY <2>3, <2>4, <2>5, <2>6
<1>3. Seq(Seq(S)) \subseteq T
  <2> HIDE DEF T
  <2> QED BY <1>1, <1>2, ByAppend
<1> QED BY <1>3
-------------------------------------------------------------------------------
(* Where the parts of a sequence are found in it.                          *)

\* s stands in w after the first p of its elements.
Reads(w, p, s) == p + Len(s) <= Len(w) /\ \A i \in 1 .. Len(s) : w[p + i] = s[i]

\* Each part of a concatenation stands in it.
LEMMA ReadsConcat ==
    ASSUME NEW S, NEW s \in Seq(S), NEW t \in Seq(S)
    PROVE  /\ s \o t \in Seq(S) /\ Len(s \o t) = Len(s) + Len(t)
           /\ Reads(s \o t, 0, s) /\ Reads(s \o t, Len(s), t)
<1> DEFINE w == s \o t
<1>1. /\ w \in Seq(S) /\ Len(w) = Len(s) + Len(t) /\ Len(s) \in Nat /\ Len(t) \in Nat
      /\ \A i \in 1 .. Len(s) + Len(t) : w[i] = IF i <= Len(s) THEN s[i] ELSE t[i - Len(s)]
  BY ConcatProperties, LenProperties
<1> HIDE DEF w
<1>2. \A i \in 1 .. Len(s) : w[0 + i] = s[i]
  BY <1>1
<1>3. ASSUME NEW i \in 1 .. Len(t) PROVE w[Len(s) + i] = t[i]
  <2>1. PICK k \in 1 .. Len(s) + Len(t) : k = Len(s) + i
    BY <1>1
  <2>2. ~(k <= Len(s)) /\ k - Len(s) = i
    BY <1>1, <2>1
  <2> QED BY <1>1, <2>1, <2>2
<1>4. Reads(w, 0, s) /\ Reads(w, Len(s), t)
  BY <1>1, <1>2, <1>3 DEF Reads
<1> QED BY <1>1, <1>4 DEF w

\* What stands in a part stands in the whole.
LEMMA ReadsWithin ==
    ASSUME NEW S, NEW w \in Seq(S), NEW s \in Seq(S), NEW t \in Seq(S), NEW p \in Nat, NEW q \in Nat,
           Reads(w, p, s), Reads(s, q, t), NEW x, x = p + q
    PROVE  Reads(w, x, t)
<1>1. Len(w) \in Nat /\ Len(s) \in Nat /\ Len(t) \in Nat
  BY LenProperties
<1>2. p + q + Len(t) <= Len(w)
  BY <1>1 DEF Reads
<1>3. ASSUME NEW i \in 1 .. Len(t) PROVE w[p + q + i] = t[i]
  <2>1. PICK k \in 1 .. Len(s) : k = q + i
    BY <1>1 DEF Reads
  <2>2. s[k] = t[i]
    BY <2>1 DEF Reads
  <2>3. w[p + k] = s[k] /\ p + k = p + q + i
    BY <1>1, <2>1 DEF Reads
  <2> QED BY <2>2, <2>3
<1> QED BY <1>2, <1>3 DEF Reads

\* The length of the first k parts of a sequence that is to be flattened.
LenFirst(ss, k) == Len(FlattenSeq(SubSeq(ss, 1, k)))

\* Each part of a flattened sequence stands in it, after those before it.
LEMMA ReadsFlatten ==
    ASSUME NEW S, NEW ss \in Seq(Seq(S))
    PROVE  /\ LenFirst(ss, 0) = 0 /\ LenFirst(ss, Len(ss)) = Len(FlattenSeq(ss))
           /\ \A k \in 0 .. Len(ss) : LenFirst(ss, k) \in Nat /\ LenFirst(ss, k) <= Len(FlattenSeq(ss))
           /\ \A k \in 1 .. Len(ss) : /\ LenFirst(ss, k) = LenFirst(ss, k - 1) + Len(ss[k])
                                      /\ Reads(FlattenSeq(ss), LenFirst(ss, k - 1), ss[k])
<1>0. Len(ss) \in Nat
  BY LenProperties
<1>1. LenFirst(ss, 0) = 0
  <2>1. SubSeq(ss, 1, 0) = <<>>
    BY SubSeqEmpty
  <2> QED BY <2>1, FlattenEmpty, EmptySeq DEF LenFirst
<1>2. LenFirst(ss, Len(ss)) = Len(FlattenSeq(ss))
  <2>1. SubSeq(ss, 1, Len(ss)) = ss
    BY SubSeqFull
  <2> QED BY <2>1 DEF LenFirst
<1>3. ASSUME NEW k \in 0 .. Len(ss)
      PROVE  LenFirst(ss, k) \in Nat /\ LenFirst(ss, k) <= Len(FlattenSeq(ss))
  <2> DEFINE front == SubSeq(ss, 1, k)
             back == SubSeq(ss, k + 1, Len(ss))
  <2>1. front \in Seq(Seq(S)) /\ back \in Seq(Seq(S)) /\ ss = front \o back
    BY SplitAt
  <2> HIDE DEF front, back
  <2>2. FlattenSeq(ss) = FlattenSeq(front) \o FlattenSeq(back)
    BY <2>1, FlattenConcat
  <2>3. FlattenSeq(front) \in Seq(S) /\ FlattenSeq(back) \in Seq(S)
    BY <2>1, FlattenType
  <2>4. Len(FlattenSeq(ss)) = Len(FlattenSeq(front)) + Len(FlattenSeq(back))
    BY <2>2, <2>3, ConcatProperties
  <2>5. Len(FlattenSeq(front)) \in Nat /\ Len(FlattenSeq(back)) \in Nat
    BY <2>3, LenProperties
  <2>6. LenFirst(ss, k) = Len(FlattenSeq(front))
    BY DEF LenFirst, front
  <2> QED BY <2>4, <2>5, <2>6
<1>4. ASSUME NEW k \in 1 .. Len(ss)
      PROVE  /\ LenFirst(ss, k) = LenFirst(ss, k - 1) + Len(ss[k])
             /\ Reads(FlattenSeq(ss), LenFirst(ss, k - 1), ss[k])
  <2> DEFINE front == SubSeq(ss, 1, k - 1)
             next == SubSeq(ss, 1, k)
             back == SubSeq(ss, k + 1, Len(ss))
  <2>0. k - 1 \in 0 .. Len(ss) /\ k \in 0 .. Len(ss) /\ ss[k] \in Seq(S)
    BY <1>0, LenProperties
  <2>1. front \in Seq(Seq(S)) /\ Len(front) = k - 1 /\ \A i \in 1 .. k - 1 : front[i] = ss[i]
    BY <2>0, PrefixProperties
  <2>2. next \in Seq(Seq(S)) /\ back \in Seq(Seq(S)) /\ ss = next \o back /\ Len(next) = k
        /\ \A i \in 1 .. k : next[i] = ss[i]
    BY <2>0, SplitAt, PrefixProperties
  <2> HIDE DEF front, next, back
  <2>3. next = Append(front, ss[k])
    <3> DEFINE app == Append(front, ss[k])
    <3>1. app \in Seq(Seq(S)) /\ Len(app) = Len(front) + 1 /\ app[Len(front) + 1] = ss[k]
          /\ \A i \in 1 .. Len(front) : app[i] = front[i]
      BY <2>0, <2>1, AppendProperties, LenProperties
    <3> HIDE DEF app
    <3>2. k - 1 + 1 = k /\ Len(app) = k
      BY <2>1, <3>1
    <3>3. ASSUME NEW i \in 1 .. k PROVE next[i] = app[i]
      <4>1. CASE i = k
        BY <2>1, <2>2, <3>1, <3>2, <4>1
      <4>2. CASE i # k
        <5>1. i \in 1 .. k - 1
          BY <4>2
        <5> QED BY <2>1, <2>2, <3>1, <5>1
      <4> QED BY <4>1, <4>2
    <3>4. next = app
      BY <2>2, <3>1, <3>2, <3>3, SeqEqual
    <3> QED BY <3>4 DEF app
  <2>4. FlattenSeq(next) = FlattenSeq(front) \o ss[k]
    BY <2>0, <2>1, <2>3, FlattenAppend
  <2>5. FlattenSeq(ss) = FlattenSeq(next) \o FlattenSeq(back)
    BY <2>2, FlattenConcat
  <2> DEFINE f == FlattenSeq(front)
             g == FlattenSeq(next)
             h == FlattenSeq(back)
             w == FlattenSeq(ss)
  <2>6. f \in Seq(S) /\ g \in Seq(S) /\ h \in Seq(S) /\ w \in Seq(S)
    BY <2>1, <2>2, FlattenType
  <2>7. LenFirst(ss, k) = Len(g) /\ LenFirst(ss, k - 1) = Len(f)
    BY DEF LenFirst, front, next
  <2>8. g = f \o ss[k] /\ w = g \o h
    BY <2>4, <2>5
  <2> HIDE DEF f, g, h, w
  <2>9. Len(g) = Len(f) + Len(ss[k]) /\ Reads(g, Len(f), ss[k]) /\ Reads(w, 0, g)
    BY <2>0, <2>6, <2>8, ReadsConcat
  <2>10. Len(f) \in Nat /\ 0 + Len(f) = Len(f)
    BY <2>6, LenProperties
  <2>11. Reads(w, Len(f), ss[k])
    BY <2>0, <2>6, <2>9, <2>10, ReadsWithin
  <2> QED BY <2>7, <2>9, <2>11 DEF w
<1> QED BY <1>1, <1>2, <1>3, <1>4
===============================================================================
