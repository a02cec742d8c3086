----------------------------- MODULE BasicFacts -----------------------------
(***************************************************************************)
(* Facts about numbers, sets and sequences that several proofs use.        *)
(***************************************************************************)
EXTENDS Integers, Sequences, FiniteSets, SequenceTheorems, FiniteSetTheorems, TLAPS

\* A sum of three.
LEMMA SumOfThree ==
    \A a, b, c \in Int : a + b + c = a + (b + c)
    OBVIOUS

\* A position after a piece of length l, counted from behind the piece and
\* from its start.
LEMMA PositionBehind ==
    ASSUME NEW s \in Nat, NEW t \in Nat, NEW l \in Nat, NEW j \in Nat, 1 <= j, t + l <= s
    PROVE  /\ s - (t + l) + j \in Nat /\ 1 <= s - (t + l) + j
           /\ s - t + j = (s - (t + l) + j) + l
    OBVIOUS

\* Shortening the first of two pieces by l moves their common end no nearer.
LEMMA PieceBehind ==
    ASSUME NEW i \in Int, NEW l \in Int, NEW x \in Int, NEW r \in Int, NEW p \in Int, x = i + l
    PROVE  (i <= r - l) = (x <= r) /\ p + l + i = p + x /\ i - (r - l) = x - r
<1>1. (i <= r - l) <=> (x <= r)
    OBVIOUS
<1>2. p + l + i = p + x /\ i - (r - l) = x - r
    OBVIOUS
<1> QED BY <1>1, <1>2

\* A set of naturals that is not empty has a least element.
LEMMA HasLeast ==
    ASSUME NEW S \in SUBSET Nat, S # {}
    PROVE  \E m \in S : \A x \in S : m <= x
<1>1. PICK m \in S : \A x \in S : ~(<<x, m>> \in OpToRel(<, Nat))
    BY NatLessThanWellFounded, WFMin
<1>2. \A x \in S : ~(x < m)
    BY <1>1 DEF OpToRel
<1> QED BY <1>2

\* One that is bounded has a largest element.
LEMMA HasLargest ==
    ASSUME NEW S \in SUBSET Nat, S # {}, NEW b \in Nat, \A x \in S : x <= b
    PROVE  \E m \in S : \A x \in S : x <= m
<1> DEFINE T == {x \in Nat : \A y \in S : y <= x}
<1>1. T \in SUBSET Nat /\ T # {}
    BY DEF T
<1>2. PICK m \in T : \A x \in T : m <= x
    BY <1>1, HasLeast
<1>3. m \in S
    <2> SUFFICES ASSUME m \notin S PROVE FALSE
        OBVIOUS
    <2>1. \A y \in S : y < m
        BY <1>2 DEF T
    <2>2. PICK z \in S : z < m
        BY <2>1
    <2>3. m \in Nat /\ z \in Nat
        BY <1>2
    <2>4. m - 1 \in Nat
        BY <2>2, <2>3
    <2>5. \A y \in S : y <= m - 1
        BY <2>1, <2>3
    <2> QED BY <1>2, <2>3, <2>4, <2>5 DEF T
<1> QED BY <1>2, <1>3 DEF T

-----------------------------------------------------------------------------
(* Queues, by the messages they hold.                                      *)

\* An element is at some place.
LEMMA RangeOf ==
    ASSUME NEW S, NEW q \in Seq(S)
    PROVE  /\ \A i \in 1 .. Len(q) : q[i] \in Range(q)
           /\ \A x \in Range(q) : x \in S /\ \E i \in 1 .. Len(q) : q[i] = x
BY RangeEquality

\* A queue that is not empty has a head, and a tail that holds nothing new.
LEMMA RangeTail ==
    ASSUME NEW S, NEW q \in Seq(S), q # <<>>
    PROVE  Head(q) \in Range(q) /\ Head(q) \in S /\ Tail(q) \in Seq(S) /\ Range(Tail(q)) \subseteq Range(q)
<1>1. /\ Len(q) \in Nat \ {0} /\ Head(q) = q[1] /\ Head(q) \in S /\ Tail(q) \in Seq(S)
      /\ Len(Tail(q)) = Len(q) - 1 /\ \A i \in 1 .. Len(Tail(q)) : Tail(q)[i] = q[i + 1]
    BY HeadTailProperties, EmptySeq
<1>2. Head(q) \in Range(q)
    BY <1>1, RangeEquality
<1>3. ASSUME NEW x \in Range(Tail(q)) PROVE x \in Range(q)
    <2>1. PICK i \in 1 .. Len(Tail(q)) : Tail(q)[i] = x
        <3>1. Range(Tail(q)) = {Tail(q)[i] : i \in 1 .. Len(Tail(q))}
            BY <1>1, RangeEquality
        <3> QED BY <1>3, <3>1
    <2>2. i + 1 \in 1 .. Len(q) /\ q[i + 1] = x
        BY <1>1, <2>1
    <2> QED BY <2>2, RangeEquality
<1> QED BY <1>1, <1>2, <1>3

\* Appending adds one element.
LEMMA RangeAppend ==
    ASSUME NEW S, NEW q \in Seq(S), NEW m \in S
    PROVE  Append(q, m) \in Seq(S) /\ Range(Append(q, m)) = Range(q) \cup {m}
<1> DEFINE r == Append(q, m)
<1>1. /\ r \in Seq(S) /\ Len(r) = Len(q) + 1 /\ Len(q) \in Nat
      /\ \A i \in 1 .. Len(q) : r[i] = q[i]
      /\ r[Len(q) + 1] = m
    BY AppendProperties
<1> HIDE DEF r
<1>2. Range(r) = {r[i] : i \in 1 .. Len(r)} /\ Range(q) = {q[i] : i \in 1 .. Len(q)}
    BY <1>1, RangeEquality
<1>3. \A i \in 1 .. Len(r) : i \in 1 .. Len(q) \/ i = Len(q) + 1
    BY <1>1
<1>4. Range(r) = Range(q) \cup {m}
    BY <1>1, <1>2, <1>3
<1> QED BY <1>1, <1>4 DEF r

\* Nothing but the head goes when the tail is taken.
LEMMA RangeSplit ==
    ASSUME NEW S, NEW q \in Seq(S), q # <<>>
    PROVE  \A x \in Range(q) : x = Head(q) \/ x \in Range(Tail(q))
<1>1. /\ Len(q) \in Nat \ {0} /\ Head(q) = q[1] /\ Tail(q) \in Seq(S)
      /\ Len(Tail(q)) = Len(q) - 1 /\ \A i \in 1 .. Len(Tail(q)) : Tail(q)[i] = q[i + 1]
    BY HeadTailProperties, EmptySeq
<1> SUFFICES ASSUME NEW x \in Range(q), x # Head(q) PROVE x \in Range(Tail(q))
    OBVIOUS
<1>2. PICK i \in 1 .. Len(q) : q[i] = x
    BY RangeOf
<1>3. i - 1 \in 1 .. Len(Tail(q)) /\ (i - 1) + 1 = i
    BY <1>1, <1>2
<1>4. Tail(q)[i - 1] = x
    BY <1>1, <1>2, <1>3
<1> QED BY <1>1, <1>3, <1>4, RangeOf

\* Two queues one after the other hold what each of them holds.
LEMMA RangeConcat ==
    ASSUME NEW S, NEW q \in Seq(S), NEW r \in Seq(S)
    PROVE  /\ q \o r \in Seq(S) /\ Len(q \o r) = Len(q) + Len(r)
           /\ Range(q \o r) = Range(q) \cup Range(r)
<1> DEFINE w == q \o r
<1>1. /\ w \in Seq(S) /\ Len(w) = Len(q) + Len(r) /\ Len(q) \in Nat /\ Len(r) \in Nat
      /\ \A i \in 1 .. Len(w) : w[i] = IF i <= Len(q) THEN q[i] ELSE r[i - Len(q)]
    BY ConcatProperties
<1> HIDE DEF w
<1>2. ASSUME NEW x \in Range(w) PROVE x \in Range(q) \cup Range(r)
    <2>1. PICK i \in 1 .. Len(w) : w[i] = x
        BY <1>1, RangeOf
    <2>2. i \in 1 .. Len(q) \/ (~(i <= Len(q)) /\ i - Len(q) \in 1 .. Len(r))
        BY <1>1, <2>1
    <2>3. i \in 1 .. Len(q) => q[i] = x
        BY <1>1, <2>1
    <2>4. ~(i <= Len(q)) => r[i - Len(q)] = x
        BY <1>1, <2>1
    <2> QED BY <2>2, <2>3, <2>4, RangeOf
<1>3. ASSUME NEW x \in Range(q) PROVE x \in Range(w)
    <2>1. PICK i \in 1 .. Len(q) : q[i] = x
        BY RangeOf
    <2>2. i \in 1 .. Len(w) /\ i <= Len(q)
        BY <1>1, <2>1
    <2>3. w[i] = x
        BY <1>1, <2>1, <2>2
    <2> QED BY <1>1, <2>2, <2>3, RangeOf
<1>4. ASSUME NEW x \in Range(r) PROVE x \in Range(w)
    <2>1. PICK i \in 1 .. Len(r) : r[i] = x
        BY RangeOf
    <2>2. Len(q) + i \in 1 .. Len(w) /\ ~(Len(q) + i <= Len(q)) /\ (Len(q) + i) - Len(q) = i
        BY <1>1, <2>1
    <2>3. w[Len(q) + i] = x
        BY <1>1, <2>1, <2>2
    <2> QED BY <1>1, <2>2, <2>3, RangeOf
<1>5. Range(w) = Range(q) \cup Range(r)
    BY <1>2, <1>3, <1>4
<1> QED BY <1>1, <1>5 DEF w

\* A part of a queue holds nothing else.
LEMMA RangeSub ==
    ASSUME NEW S, NEW q \in Seq(S), NEW m \in Nat \ {0}, NEW n \in 0 .. Len(q)
    PROVE  /\ SubSeq(q, m, n) \in Seq(S) /\ Range(SubSeq(q, m, n)) \subseteq Range(q)
           /\ Len(SubSeq(q, m, n)) = IF m <= n THEN (n - m) + 1 ELSE 0
<1> DEFINE w == SubSeq(q, m, n)
<1>1. Len(q) \in Nat
    OBVIOUS
<1>2. /\ w \in Seq(S) /\ Len(w) = IF m <= n THEN (n - m) + 1 ELSE 0
      /\ \A i \in 1 .. Len(w) : w[i] = q[(m + i) - 1]
    <2>1. w = [i \in 1 .. (1 + n) - m |-> q[(i + m) - 1]]
        BY <1>1
    <2>2. \A i \in 1 .. (1 + n) - m : (i + m) - 1 \in 1 .. Len(q) /\ (i + m) - 1 = (m + i) - 1
        BY <1>1
    <2>3. \A i \in 1 .. (1 + n) - m : q[(i + m) - 1] \in S
        BY <2>2
    <2>4. (1 + n) - m = (n - m) + 1
        OBVIOUS
    <2> HIDE DEF w
    <2>5. CASE m <= n
        <3>1. (1 + n) - m \in Nat
            BY <2>5
        <3>2. w \in [1 .. (1 + n) - m -> S]
            BY <2>1, <2>3
        <3>3. w \in Seq(S) /\ Len(w) = (1 + n) - m
            BY <3>1, <3>2
        <3> QED BY <2>1, <2>2, <2>4, <2>5, <3>3
    <2>6. CASE ~(m <= n)
        <3>1. 1 .. (1 + n) - m = {}
            BY <2>6
        <3>2. w = <<>>
            BY <1>1, <2>6 DEF w
        <3> QED BY <2>6, <3>2
    <2> QED BY <2>5, <2>6
<1> HIDE DEF w
<1>3. ASSUME NEW x \in Range(w) PROVE x \in Range(q)
    <2>1. PICK i \in 1 .. Len(w) : w[i] = x
        BY <1>2, RangeOf
    <2>2. (m + i) - 1 \in 1 .. Len(q)
        BY <1>1, <1>2, <2>1
    <2> QED BY <1>2, <2>1, <2>2, RangeOf
<1> QED BY <1>2, <1>3 DEF w

\* A list without repetition has as many elements as entries.
LEMMA OnceCounts ==
    ASSUME NEW S, NEW q \in Seq(S), \A i, j \in 1 .. Len(q) : q[i] = q[j] => i = j
    PROVE  Cardinality({q[k] : k \in DOMAIN q}) = Len(q)
<1> DEFINE D == 1 .. Len(q)
           T == {q[k] : k \in D}
<1>1. Len(q) \in Nat /\ DOMAIN q = D /\ q \in [D -> T]
    OBVIOUS
<1>2. q \in Bijection(D, T)
    BY <1>1 DEF Bijection, Injection, Surjection, IsInjective
<1>3. IsFiniteSet(D) /\ Cardinality(D) = Len(q)
    <2>1. PICK n \in Int : n = Len(q)
        BY <1>1
    <2>2. IsFiniteSet(1 .. n) /\ Cardinality(1 .. n) = IF 1 > n THEN 0 ELSE n - 1 + 1
        BY FS_Interval
    <2>3. (IF 1 > n THEN 0 ELSE n - 1 + 1) = n
        BY <1>1, <2>1
    <2> QED BY <2>1, <2>2, <2>3
<1>4. ExistsBijection(D, T)
    BY <1>2 DEF ExistsBijection
<1> HIDE DEF D, T
<1>5. Cardinality(T) = Cardinality(D)
    BY <1>3, <1>4, FS_Bijection
<1> QED BY <1>1, <1>3, <1>5 DEF T

\* A list stays without repetition when a new element is put behind it.
LEMMA OnceAppend ==
    ASSUME NEW S, NEW q \in Seq(S), NEW p \in S, p \notin Range(q),
           \A i, j \in 1 .. Len(q) : q[i] = q[j] => i = j
    PROVE  \A i, j \in 1 .. Len(Append(q, p)) : Append(q, p)[i] = Append(q, p)[j] => i = j
<1> DEFINE r == Append(q, p)
<1>1. Len(q) \in Nat /\ Len(r) = Len(q) + 1 /\ r[Len(q) + 1] = p /\ \A i \in 1 .. Len(q) : r[i] = q[i]
    BY AppendProperties
<1>2. \A i \in 1 .. Len(q) : q[i] # p
    BY RangeOf
<1> HIDE DEF r
<1> SUFFICES ASSUME NEW i \in 1 .. Len(r), NEW j \in 1 .. Len(r), r[i] = r[j] PROVE i = j
    BY DEF r
<1>3. (i \in 1 .. Len(q) \/ i = Len(q) + 1) /\ (j \in 1 .. Len(q) \/ j = Len(q) + 1)
    BY <1>1
<1> QED BY <1>1, <1>2, <1>3

\* So it does when its head is taken off.
LEMMA OnceTail ==
    ASSUME NEW S, NEW q \in Seq(S), q # <<>>,
           \A i, j \in 1 .. Len(q) : q[i] = q[j] => i = j
    PROVE  /\ \A i, j \in 1 .. Len(Tail(q)) : Tail(q)[i] = Tail(q)[j] => i = j
           /\ Head(q) \notin Range(Tail(q))
<1>1. /\ Len(q) \in Nat \ {0} /\ Head(q) = q[1] /\ Tail(q) \in Seq(S)
      /\ Len(Tail(q)) = Len(q) - 1 /\ \A i \in 1 .. Len(Tail(q)) : Tail(q)[i] = q[i + 1]
    BY HeadTailProperties, EmptySeq
<1>2. \A i \in 1 .. Len(Tail(q)) : i + 1 \in 1 .. Len(q) /\ i + 1 # 1 /\ 1 \in 1 .. Len(q)
    BY <1>1
<1>3. \A i \in 1 .. Len(Tail(q)) : Tail(q)[i] # Head(q)
    BY <1>1, <1>2
<1>4. Head(q) \notin Range(Tail(q))
    <2> DEFINE r == Tail(q)
    <2> SUFFICES ASSUME Head(q) \in Range(r) PROVE FALSE
        OBVIOUS
    <2>1. r \in Seq(S)
        BY <1>1
    <2> HIDE DEF r
    <2>2. PICK i \in 1 .. Len(r) : r[i] = Head(q)
        BY <2>1, RangeOf
    <2> QED BY <1>3, <2>2 DEF r
<1>5. ASSUME NEW i \in 1 .. Len(Tail(q)), NEW j \in 1 .. Len(Tail(q)), Tail(q)[i] = Tail(q)[j]
      PROVE  i = j
    <2>1. i + 1 = j + 1
        BY <1>1, <1>2, <1>5
    <2> QED BY <1>1, <2>1
<1> QED BY <1>4, <1>5
=============================================================================
