--------------------------- MODULE StreamLemmas ---------------------------
(***************************************************************************)
(* Sequences of bytes: how they are cut and joined, what they contain and  *)
(* when they ascend.                                                       *)
(***************************************************************************)
EXTENDS SequenceTheorems, FiniteSetTheorems, TLAPS

\* Concatenation under a name of its own: with \o itself in sight the provers
\* look into the sequences.
Cat(s, t) == s \o t

LEMMA Associative ==
    ASSUME NEW S
    PROVE  \A a, b, c \in Seq(S) : Cat(Cat(a, b), c) = Cat(a, Cat(b, c))
  BY ConcatAssociative, SMTT(60) DEF Cat

LEMMA PrefixOfConcat ==
    ASSUME NEW S, NEW s \in Seq(S), NEW t \in Seq(S)
    PROVE  SubSeq(s \o t, 1, Len(s)) = s
<1> DEFINE u == s \o t
           r == SubSeq(u, 1, Len(s))
<1>1. /\ Len(s) \in Nat /\ Len(t) \in Nat /\ u \in Seq(S) /\ Len(u) = Len(s) + Len(t)
      /\ \A i \in 1..(Len(s) + Len(t)) : u[i] = IF i <= Len(s) THEN s[i] ELSE t[i - Len(s)]
  BY ConcatProperties, LenProperties
<1> HIDE DEF u
<1>2. \A i \in 1..Len(s) : u[i] = s[i] /\ u[i] \in S
  BY <1>1, ElementOfSeq
<1>3. r \in Seq(S) /\ Len(r) = Len(s) /\ \A i \in 1..Len(s) : r[i] = u[i]
  BY <1>1, <1>2, SubSeqProperties
<1> HIDE DEF r
<1>4. r = s
  BY <1>2, <1>3, SeqEqual
<1>5. QED
  BY <1>4 DEF r, u

LEMMA SuffixOfConcat ==
    ASSUME NEW S, NEW s \in Seq(S), NEW t \in Seq(S)
    PROVE  SubSeq(s \o t, Len(s) + 1, Len(s \o t)) = t
<1> DEFINE u == s \o t
           r == SubSeq(u, Len(s) + 1, Len(u))
<1>1. /\ Len(s) \in Nat /\ Len(t) \in Nat /\ u \in Seq(S) /\ Len(u) = Len(s) + Len(t)
      /\ \A i \in 1..(Len(s) + Len(t)) : u[i] = IF i <= Len(s) THEN s[i] ELSE t[i - Len(s)]
  BY ConcatProperties, LenProperties
<1> HIDE DEF u
<1>2. \A i \in (Len(s) + 1)..Len(u) : u[i] = t[i - Len(s)] /\ u[i] \in S
  BY <1>1, ElementOfSeq
<1>3. r \in Seq(S) /\ Len(r) = Len(t) /\ \A i \in 1..Len(t) : r[i] = u[Len(s) + i]
  <2>1. Len(s) + 1 \in Int /\ Len(u) \in Int
    BY <1>1
  <2>2. /\ r \in Seq(S)
        /\ Len(r) = IF Len(s) + 1 <= Len(u) THEN Len(u) - (Len(s) + 1) + 1 ELSE 0
        /\ \A i \in 1..(Len(u) - (Len(s) + 1) + 1) : r[i] = u[Len(s) + 1 + i - 1]
    BY <1>2, <2>1, SubSeqProperties
  <2> HIDE DEF r
  <2>3. Len(r) = Len(t)
    BY <1>1, <2>2
  <2>4. \A i \in 1..Len(t) : Len(s) + 1 + i - 1 = Len(s) + i
    BY <1>1
  <2>5. Len(u) - (Len(s) + 1) + 1 = Len(t)
    BY <1>1
  <2>6. QED
    BY <2>2, <2>3, <2>4, <2>5
<1> HIDE DEF r
<1>4. \A i \in 1..Len(t) : Len(s) + i \in (Len(s) + 1)..Len(u) /\ (Len(s) + i) - Len(s) = i
  BY <1>1
<1>5. \A i \in 1..Len(t) : r[i] = t[i]
  BY <1>2, <1>3, <1>4
<1>6. r = t
  BY <1>3, <1>5, SeqEqual
<1>7. QED
  BY <1>6 DEF r, u

\* Moving the first element of the second sequence to the end of the first.
LEMMA MoveFirst ==
    ASSUME NEW S, NEW s \in Seq(S), NEW t \in Seq(S), NEW m \in 1..Len(t)
    PROVE  Append(s, t[m]) \o SubSeq(t, m + 1, Len(t)) = s \o SubSeq(t, m, Len(t))
<1>1. Len(t) \in Nat /\ t[m] \in S /\ Len(t) \in m..Len(t)
  BY ElementOfSeq, LenProperties
<1>2. \A i \in (m + 1)..Len(t) : t[i] \in S
  BY <1>1, ElementOfSeq
<1>3. SubSeq(t, m + 1, Len(t)) \in Seq(S) /\ <<t[m]>> \in Seq(S)
  <2>1. m + 1 \in Int /\ Len(t) \in Int
    BY <1>1
  <2>2. SubSeq(t, m + 1, Len(t)) \in Seq(S)
    BY <1>2, <2>1, SubSeqProperties
  <2>3. QED
    BY <1>1, <2>2
<1>4. SubSeq(t, m, Len(t)) = <<t[m]>> \o SubSeq(t, m + 1, Len(t))
  BY <1>1, SubSeqRecursiveFirst
<1>5. Append(s, t[m]) = s \o <<t[m]>>
  BY <1>1, AppendIsConcat
<1>6. (s \o <<t[m]>>) \o SubSeq(t, m + 1, Len(t)) = s \o (<<t[m]>> \o SubSeq(t, m + 1, Len(t)))
  <2> DEFINE e == <<t[m]>>
             r == SubSeq(t, m + 1, Len(t))
  <2>1. e \in Seq(S) /\ r \in Seq(S)
    BY <1>3
  <2> HIDE DEF e, r
  <2>2. Cat(Cat(s, e), r) = Cat(s, Cat(e, r))
    BY <2>1, Associative
  <2>3. QED
    BY <2>2 DEF e, r, Cat
<1>7. QED
  BY <1>4, <1>5, <1>6, Zenon

\* What is between the first and the last of three.
LEMMA MiddleOfConcat ==
    ASSUME NEW S, NEW s \in Seq(S), NEW t \in Seq(S), NEW w \in Seq(S)
    PROVE  SubSeq((s \o t) \o w, Len(s) + 1, Len(s \o t)) = t
<1> DEFINE u == s \o t
<1>1. u \in Seq(S) /\ Len(u) = Len(s) + Len(t) /\ Len(s) \in Nat /\ Len(t) \in Nat
  BY ConcatProperties, LenProperties
<1>2. SubSeq(u, Len(s) + 1, Len(u)) = t
  BY SuffixOfConcat
<1> HIDE DEF u
<1>3. CASE Len(t) = 0
  <2>1. t = <<>> /\ Len(u) < Len(s) + 1 /\ Len(u) \in Int /\ Len(s) + 1 \in Int
    BY <1>1, <1>3, EmptySeq
  <2>2. SubSeq(u \o w, Len(s) + 1, Len(u)) = <<>>
    BY <2>1, SubSeqEmpty
  <2>3. QED
    BY <2>1, <2>2 DEF u
<1>4. CASE Len(t) # 0
  <2>1. Len(s) + 1 \in 1..Len(u) /\ Len(u) \in 1..Len(u)
    BY <1>1, <1>4
  <2>2. SubSeq(u \o w, Len(s) + 1, Len(u)) = SubSeq(u, Len(s) + 1, Len(u))
    BY <1>1, <2>1, SubSeqOfConcat1
  <2>3. QED
    BY <1>2, <2>2 DEF u
<1>5. QED
  BY <1>3, <1>4

\* Moving a run from the front of the second sequence to the end of the first.
LEMMA MoveRun ==
    ASSUME NEW S, NEW s \in Seq(S), NEW t \in Seq(S), NEW r \in 0..Len(t)
    PROVE  /\ SubSeq(t, 1, r) \in Seq(S) /\ SubSeq(t, r + 1, Len(t)) \in Seq(S)
           /\ (s \o SubSeq(t, 1, r)) \o SubSeq(t, r + 1, Len(t)) = s \o t
<1> DEFINE a == SubSeq(t, 1, r)
           b == SubSeq(t, r + 1, Len(t))
<1>1. Len(t) \in Nat /\ r \in Nat
  BY LenProperties
<1>2. a \in Seq(S) /\ b \in Seq(S)
  <2>1. r + 1 \in Int /\ Len(t) \in Int /\ 1 \in Int /\ r \in Int
    BY <1>1
  <2>2. /\ \A i \in 1..r : t[i] \in S
        /\ \A i \in (r + 1)..Len(t) : t[i] \in S
    BY <1>1, ElementOfSeq
  <2>3. QED
    BY <2>1, <2>2, SubSeqProperties
<1>3. a \o b = t
  <2>1. 1 \in 1..(Len(t) + 1) /\ r \in (1 - 1)..Len(t) /\ Len(t) \in r..Len(t)
    BY <1>1
  <2>2. a \o b = SubSeq(t, 1, Len(t))
    BY <2>1, ConcatAdjacentSubSeq
  <2>3. QED
    BY <2>2, SubSeqFull
<1> HIDE DEF a, b
<1>4. Cat(Cat(s, a), b) = Cat(s, Cat(a, b))
  BY <1>2, Associative
<1>5. (s \o a) \o b = s \o t
  BY <1>3, <1>4, Zenon DEF Cat
<1>6. QED
  BY <1>2, <1>5 DEF a, b

-----------------------------------------------------------------------------
(* What a stream contains, and its order.                                  *)

Elements(s) == {s[i] : i \in 1..Len(s)}

\* Every byte is smaller than those behind it, and none is beyond n.
Ascends(s, n) ==
    /\ \A i, j \in 1..Len(s) : i < j => s[i] < s[j]
    /\ \A i \in 1..Len(s) : s[i] <= n

LEMMA ElementsOfConcat ==
    ASSUME NEW s \in Seq(Nat), NEW t \in Seq(Nat)
    PROVE  Elements(s \o t) = Elements(s) \cup Elements(t)
<1> DEFINE u == s \o t
           m == Len(s)
           n == Len(t)
<1>1. /\ m \in Nat /\ n \in Nat /\ Len(u) = m + n
      /\ \A i \in 1..(m + n) : u[i] = IF i <= m THEN s[i] ELSE t[i - m]
  BY ConcatProperties, LenProperties
<1>2. /\ Elements(u) = {u[i] : i \in 1..(m + n)}
      /\ Elements(s) = {s[i] : i \in 1..m} /\ Elements(t) = {t[i] : i \in 1..n}
  BY <1>1 DEF Elements
<1> HIDE DEF u, m, n
<1>3. \A x \in Elements(u) : x \in Elements(s) \/ x \in Elements(t)
  <2> SUFFICES ASSUME NEW i \in 1..(m + n)
               PROVE  u[i] \in Elements(s) \/ u[i] \in Elements(t)
    BY <1>2
  <2>1. CASE i <= m
    BY <1>1, <1>2, <2>1
  <2>2. CASE i > m
    <3>1. i - m \in 1..n /\ u[i] = t[i - m]
      BY <1>1, <2>2
    <3>2. QED
      BY <1>2, <3>1
  <2>3. QED
    BY <1>1, <2>1, <2>2
<1>4. \A i \in 1..m : s[i] \in Elements(u)
  <2> TAKE i \in 1..m
  <2>1. i \in 1..(m + n) /\ u[i] = s[i]
    BY <1>1
  <2>2. QED
    BY <1>2, <2>1
<1>5. \A i \in 1..n : t[i] \in Elements(u)
  <2> TAKE i \in 1..n
  <2>1. m + i \in 1..(m + n) /\ (m + i) - m = i /\ ~(m + i <= m)
    BY <1>1
  <2>2. u[m + i] = t[i]
    BY <1>1, <2>1
  <2>3. QED
    BY <1>2, <2>1, <2>2
<1>6. Elements(u) = Elements(s) \cup Elements(t)
  BY <1>2, <1>3, <1>4, <1>5
<1>7. QED
  BY <1>6 DEF u

\* A stream has no more different bytes than its length.
LEMMA ElementsCount ==
    ASSUME NEW s \in Seq(Nat)
    PROVE  IsFiniteSet(Elements(s)) /\ Cardinality(Elements(s)) <= Len(s)
<1> DEFINE f == [i \in 1..Len(s) |-> s[i]]
<1>1. Len(s) \in Nat
  BY LenProperties
<1>2. f \in Surjection(1..Len(s), Elements(s))
  <2>1. f \in [1..Len(s) -> Elements(s)]
    BY DEF Elements
  <2>2. \A e \in Elements(s) : \E i \in 1..Len(s) : f[i] = e
    BY DEF Elements
  <2> HIDE DEF f
  <2>3. QED
    BY <2>1, <2>2 DEF Surjection
<1> HIDE DEF f
<1>3. IsFiniteSet(1..Len(s)) /\ Cardinality(1..Len(s)) = Len(s)
  <2> DEFINE n == Len(s)
  <2>1. n \in Nat /\ n \in Int /\ 1 \in Int
    BY <1>1
  <2> HIDE DEF n
  <2>2. IsFiniteSet(1..n) /\ Cardinality(1..n) = IF 1 > n THEN 0 ELSE n - 1 + 1
    BY <2>1, FS_Interval
  <2>3. QED
    BY <2>1, <2>2 DEF n
<1> DEFINE domain == 1..Len(s)
           image == Elements(s)
<1>4. f \in Surjection(domain, image) /\ IsFiniteSet(domain) /\ Cardinality(domain) = Len(s)
  BY <1>2, <1>3
<1> HIDE DEF domain, image
<1>5. IsFiniteSet(image) /\ Cardinality(image) <= Cardinality(domain)
  BY <1>4, FS_Surjection, Zenon
<1>6. QED
  BY <1>4, <1>5 DEF image

\* The next bytes of the stream, behind those received so far.
LEMMA AscendsConcat ==
    ASSUME NEW s \in Seq(Nat), NEW t \in Seq(Nat), NEW k \in Nat, Ascends(s, k),
           \A i \in 1..Len(t) : t[i] = k + i
    PROVE  Ascends(s \o t, k + Len(t))
<1> DEFINE u == s \o t
           m == Len(s)
           n == Len(t)
<1>1. /\ m \in Nat /\ n \in Nat /\ Len(u) = m + n
      /\ \A i \in 1..(m + n) : u[i] = IF i <= m THEN s[i] ELSE t[i - m]
  BY ConcatProperties, LenProperties
<1>2. /\ \A i, j \in 1..m : i < j => s[i] < s[j]
      /\ \A i \in 1..m : s[i] <= k /\ s[i] \in Nat
      /\ \A i \in 1..n : t[i] = k + i
  BY ElementOfSeq DEF Ascends
<1> HIDE DEF u, m, n
<1>3. \A i \in 1..(m + n) : i <= m => i \in 1..m /\ u[i] = s[i]
  BY <1>1
<1>4. \A i \in 1..(m + n) : i > m => u[i] = k + (i - m) /\ i - m \in 1..n
  <2> SUFFICES ASSUME NEW i \in 1..(m + n), i > m
               PROVE  u[i] = k + (i - m) /\ i - m \in 1..n
    OBVIOUS
  <2>1. i - m \in 1..n /\ u[i] = t[i - m]
    BY <1>1
  <2>2. QED
    BY <1>2, <2>1
<1>5. \A i \in 1..(m + n) : u[i] <= k + n
  <2> TAKE i \in 1..(m + n)
  <2>1. CASE i <= m
    <3>1. u[i] <= k /\ u[i] \in Nat
      BY <1>2, <1>3, <2>1
    <3>2. QED
      BY <1>1, <3>1
  <2>2. CASE i > m
    BY <1>1, <1>4, <2>2
  <2>3. QED
    BY <1>1, <2>1, <2>2
<1>6. \A i, j \in 1..(m + n) : i < j => u[i] < u[j]
  <2> SUFFICES ASSUME NEW i \in 1..(m + n), NEW j \in 1..(m + n), i < j PROVE u[i] < u[j]
    OBVIOUS
  <2>1. CASE j <= m
    <3>1. i <= m
      BY <1>1, <2>1
    <3>2. i \in 1..m /\ u[i] = s[i] /\ j \in 1..m /\ u[j] = s[j]
      BY <1>3, <2>1, <3>1
    <3>3. s[i] < s[j]
      BY <1>2, <3>2
    <3>4. QED
      BY <3>2, <3>3
  <2>2. CASE i <= m /\ j > m
    <3>1. u[i] <= k /\ u[i] \in Nat
      BY <1>2, <1>3, <2>2
    <3>2. u[j] = k + (j - m) /\ j - m >= 1
      BY <1>1, <1>4, <2>2
    <3>3. QED
      BY <1>1, <3>1, <3>2
  <2>3. CASE i > m
    <3>1. u[i] = k + (i - m) /\ u[j] = k + (j - m)
      BY <1>1, <1>4, <2>3
    <3>2. QED
      BY <1>1, <3>1
  <2>4. QED
    BY <1>1, <2>1, <2>2, <2>3
<1>7. QED
  BY <1>1, <1>5, <1>6 DEF Ascends, u, n

\* Dropping a run in the middle keeps the order.
LEMMA AscendsDrop ==
    ASSUME NEW s \in Seq(Nat), NEW t \in Seq(Nat), NEW w \in Seq(Nat), NEW k \in Nat,
           Ascends((s \o t) \o w, k)
    PROVE  Ascends(s \o w, k)
<1> DEFINE a == s \o t
           u == a \o w
           v == s \o w
           m == Len(s)
           n == Len(t)
           l == Len(w)
<1>1. /\ m \in Nat /\ n \in Nat /\ l \in Nat /\ a \in Seq(Nat) /\ Len(a) = m + n
      /\ \A i \in 1..(m + n) : a[i] = IF i <= m THEN s[i] ELSE t[i - m]
  BY ConcatProperties, LenProperties
<1>2. /\ Len(v) = m + l
      /\ \A i \in 1..(m + l) : v[i] = IF i <= m THEN s[i] ELSE w[i - m]
  BY ConcatProperties
<1> HIDE DEF a
<1>3. /\ Len(u) = (m + n) + l
      /\ \A i \in 1..((m + n) + l) : u[i] = IF i <= m + n THEN a[i] ELSE w[i - (m + n)]
  BY <1>1, ConcatProperties, SMTT(30)
<1>4. /\ \A i, j \in 1..((m + n) + l) : i < j => u[i] < u[j]
      /\ \A i \in 1..((m + n) + l) : u[i] <= k
  BY <1>3 DEF Ascends, a
<1> DEFINE f(i) == IF i <= m THEN i ELSE i + n
<1> HIDE DEF u, v, m, n, l
<1>5. \A i \in 1..(m + l) : f(i) \in 1..((m + n) + l) /\ v[i] = u[f(i)]
  <2> TAKE i \in 1..(m + l)
  <2>1. CASE i <= m
    <3>1. i \in 1..(m + n) /\ i \in 1..((m + n) + l) /\ f(i) = i
      BY <1>1, <2>1
    <3>2. v[i] = s[i] /\ u[i] = s[i]
      BY <1>1, <1>2, <1>3, <2>1, <3>1
    <3>3. QED
      BY <3>1, <3>2
  <2>2. CASE i > m
    <3>1. i + n \in 1..((m + n) + l) /\ ~(i + n <= m + n) /\ (i + n) - (m + n) = i - m /\ f(i) = i + n
      BY <1>1, <2>2
    <3>2. u[i + n] = w[i - m] /\ v[i] = w[i - m]
      BY <1>1, <1>2, <1>3, <2>2, <3>1
    <3>3. QED
      BY <3>1, <3>2
  <2>3. QED
    BY <1>1, <2>1, <2>2
<1>6. \A i, j \in 1..(m + l) : i < j => f(i) < f(j)
  BY <1>1
<1> HIDE DEF f
<1>7. /\ \A i, j \in 1..(m + l) : i < j => v[i] < v[j]
      /\ \A i \in 1..(m + l) : v[i] <= k
  BY <1>4, <1>5, <1>6
<1>8. QED
  BY <1>2, <1>7 DEF Ascends, v
=============================================================================
