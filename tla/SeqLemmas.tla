------------------------------ MODULE SeqLemmas ------------------------------
(***************************************************************************)
(* What the sequence operators the models use return, stated once.         *)
(***************************************************************************)
EXTENDS Naturals, Sequences, SequencesExt, SequenceTheorems, TLAPS

\* Appending adds one element, at the end.
LEMMA AppendIs ==
  ASSUME NEW S, NEW s \in Seq(S), NEW e \in S
  PROVE  /\ Append(s, e) \in Seq(S)
         /\ Len(Append(s, e)) = Len(s) + 1
         /\ DOMAIN Append(s, e) = 1..(Len(s) + 1)
         /\ DOMAIN s = 1..Len(s) /\ Len(s) \in Nat
         /\ \A k \in 1..Len(s) : Append(s, e)[k] = s[k]
         /\ Append(s, e)[Len(s) + 1] = e
  OBVIOUS

\* Deleting the i-th element shifts the later ones down.
LEMMA RemoveAtIs ==
  ASSUME NEW S, NEW s \in Seq(S), NEW i \in DOMAIN s
  PROVE  /\ RemoveAt(s, i) \in Seq(S)
         /\ DOMAIN RemoveAt(s, i) = 1..(Len(s) - 1)
         /\ DOMAIN s = 1..Len(s) /\ Len(s) \in Nat
         /\ \A k \in 1..(Len(s) - 1) :
              RemoveAt(s, i)[k] = IF k < i THEN s[k] ELSE s[k + 1]
<1> DEFINE a == SubSeq(s, 1, i - 1)
           b == SubSeq(s, i + 1, Len(s))
<1>1. i \in 1..Len(s) /\ Len(s) \in Nat
  OBVIOUS
<1>2. a \in Seq(S) /\ Len(a) = i - 1 /\ \A k \in 1..(i - 1) : a[k] = s[k]
  BY <1>1, SubSeqProperties
<1>3. b \in Seq(S) /\ Len(b) = Len(s) - i /\ \A k \in 1..(Len(s) - i) : b[k] = s[i + k]
  BY <1>1, SubSeqProperties
<1>. HIDE DEF a, b
<1>4. /\ a \o b \in Seq(S)
      /\ Len(a \o b) = Len(s) - 1
      /\ \A k \in 1..(Len(s) - 1) : (a \o b)[k] = IF k <= i - 1 THEN a[k] ELSE b[k - (i - 1)]
  <2>1. a \o b \in Seq(S) /\ Len(a \o b) = Len(a) + Len(b)
    BY <1>2, <1>3, ConcatProperties
  <2>2. Len(a) + Len(b) = Len(s) - 1
    BY <1>1, <1>2, <1>3
  <2>3. \A k \in 1..(Len(a) + Len(b)) :
          (a \o b)[k] = IF k <= Len(a) THEN a[k] ELSE b[k - Len(a)]
    BY <1>2, <1>3, ConcatProperties
  <2>. QED
    BY <2>1, <2>2, <2>3, <1>2
<1>5. RemoveAt(s, i) = a \o b
  BY DEF RemoveAt, a, b
<1>6. DOMAIN (a \o b) = 1..(Len(s) - 1)
  BY <1>4
<1>7. ASSUME NEW k \in 1..(Len(s) - 1)
      PROVE  (a \o b)[k] = IF k < i THEN s[k] ELSE s[k + 1]
  <2>1. CASE k < i
    BY <2>1, <1>1, <1>2, <1>4
  <2>2. CASE ~(k < i)
    <3>1. k - (i - 1) \in 1..(Len(s) - i) /\ i + (k - (i - 1)) = k + 1
      BY <2>2, <1>1
    <3>2. b[k - (i - 1)] = s[k + 1]
      BY <3>1, <1>3
    <3>3. ~(k <= i - 1)
      BY <2>2, <1>1
    <3>4. (a \o b)[k] = b[k - (i - 1)]
      BY <3>3, <1>4
    <3>. QED
      BY <2>2, <3>2, <3>4
  <2>. QED
    BY <2>1, <2>2
<1>. QED
  BY <1>1, <1>4, <1>5, <1>6, <1>7

\* Removing an element that occurs once deletes it at its place.
LEMMA RemoveFirstIs ==
  ASSUME NEW S, NEW s \in Seq(S), NEW e,
         \A i, k \in DOMAIN s : s[i] = e /\ s[k] = e => i = k
  PROVE  \/ e \notin ToSet(s) /\ RemoveFirst(s, e) = s
         \/ \E i \in DOMAIN s : s[i] = e /\ RemoveFirst(s, e) = RemoveAt(s, i)
<1>1. CASE e \notin ToSet(s)
  <2>1. ~(\E k \in 1..Len(s) : s[k] = e)
    BY <1>1 DEF ToSet
  <2>2. RemoveFirst(s, e) = s
    BY <2>1, Zenon DEF RemoveFirst
  <2>. QED
    BY <1>1, <2>2
<1>2. CASE e \in ToSet(s)
  <2>1. PICK i \in DOMAIN s : s[i] = e
    BY <1>2 DEF ToSet
  <2>2. DOMAIN s = 1..Len(s) /\ i \in Nat
    OBVIOUS
  <2>3. {k \in 1..Len(s) : s[k] = e} = {i}
    BY <2>1, <2>2
  <2>4. Min({i}) = i
    BY <2>2 DEF Min
  <2>5. SelectInSeq(s, LAMBDA v : v = e) = i
    BY <2>3, <2>4 DEF SelectInSeq
  <2>6. RemoveFirst(s, e) = RemoveAt(s, i)
    BY <2>1, <2>2, <2>5 DEF RemoveFirst
  <2>. QED
    BY <2>1, <2>6
<1>. QED
  BY <1>1, <1>2

(* The same, as facts about the set of elements of a list without repeats. *)

LEMMA AppendSet ==
  ASSUME NEW S, NEW s \in Seq(S), NEW e \in S
  PROVE  /\ Append(s, e) \in Seq(S)
         /\ ToSet(Append(s, e)) = ToSet(s) \cup {e}
         /\ IsInjective(s) /\ e \notin ToSet(s) => IsInjective(Append(s, e))
<1> DEFINE t == Append(s, e)
           n == Len(s)
<1>1. /\ t \in Seq(S) /\ DOMAIN t = 1..(n + 1) /\ DOMAIN s = 1..n /\ n \in Nat
      /\ \A k \in 1..n : t[k] = s[k]
      /\ t[n + 1] = e
  BY AppendIs
<1>. HIDE DEF t, n
<1>2. ToSet(t) = ToSet(s) \cup {e}
  BY <1>1 DEF ToSet
<1>3. IsInjective(s) /\ e \notin ToSet(s) => IsInjective(t)
  BY <1>1 DEF ToSet, IsInjective
<1>. QED
  BY <1>1, <1>2, <1>3 DEF t

LEMMA RemoveAtSet ==
  ASSUME NEW S, NEW s \in Seq(S), NEW i \in DOMAIN s, IsInjective(s)
  PROVE  /\ RemoveAt(s, i) \in Seq(S)
         /\ ToSet(RemoveAt(s, i)) = ToSet(s) \ {s[i]}
         /\ IsInjective(RemoveAt(s, i))
<1> DEFINE t == RemoveAt(s, i)
           n == Len(s)
<1>1. /\ t \in Seq(S) /\ DOMAIN t = 1..(n - 1) /\ DOMAIN s = 1..n /\ n \in Nat
      /\ \A k \in 1..(n - 1) : t[k] = IF k < i THEN s[k] ELSE s[k + 1]
  BY RemoveAtIs
<1>. HIDE DEF t, n
<1>2. \A k, m \in 1..n : s[k] = s[m] => k = m
  BY <1>1 DEF IsInjective
<1>3. ASSUME NEW k \in 1..(n - 1)
      PROVE  t[k] \in ToSet(s) /\ t[k] # s[i]
  <2>1. PICK m \in 1..n : t[k] = s[m] /\ m # i
    <3>1. CASE k < i
      BY <3>1, <1>1
    <3>2. CASE ~(k < i)
      <4>1. k + 1 \in 1..n /\ k + 1 # i /\ t[k] = s[k + 1]
        BY <3>2, <1>1
      <4>. QED
        BY <4>1
    <3>. QED
      BY <3>1, <3>2
  <2>2. s[m] # s[i]
    BY <2>1, <1>1, <1>2
  <2>. QED
    BY <2>1, <2>2, <1>1 DEF ToSet
<1>4. ASSUME NEW k \in 1..n, s[k] # s[i]
      PROVE  s[k] \in ToSet(t)
  <2>1. CASE k < i
    <3>1. k \in 1..(n - 1) /\ t[k] = s[k]
      BY <2>1, <1>1
    <3>. QED
      BY <3>1, <1>1 DEF ToSet
  <2>2. CASE i < k
    <3>1. k - 1 \in 1..(n - 1) /\ t[k - 1] = s[k]
      BY <2>2, <1>1
    <3>. QED
      BY <3>1, <1>1 DEF ToSet
  <2>. QED
    BY <2>1, <2>2, <1>1, <1>4
<1>5. ToSet(t) = ToSet(s) \ {s[i]}
  BY <1>1, <1>3, <1>4 DEF ToSet
<1>6. IsInjective(t)
  BY <1>1, <1>2 DEF IsInjective
<1>. QED
  BY <1>1, <1>5, <1>6 DEF t

LEMMA RemoveFirstSet ==
  ASSUME NEW S, NEW s \in Seq(S), NEW e, IsInjective(s)
  PROVE  /\ RemoveFirst(s, e) \in Seq(S)
         /\ ToSet(RemoveFirst(s, e)) = ToSet(s) \ {e}
         /\ IsInjective(RemoveFirst(s, e))
<1>1. \A i, k \in DOMAIN s : s[i] = e /\ s[k] = e => i = k
  BY DEF IsInjective
<1>2. CASE e \notin ToSet(s) /\ RemoveFirst(s, e) = s
  BY <1>2
<1>3. ASSUME NEW i \in DOMAIN s, s[i] = e, RemoveFirst(s, e) = RemoveAt(s, i)
      PROVE  /\ RemoveFirst(s, e) \in Seq(S)
             /\ ToSet(RemoveFirst(s, e)) = ToSet(s) \ {e}
             /\ IsInjective(RemoveFirst(s, e))
  BY <1>3, RemoveAtSet
<1>. QED
  BY <1>1, <1>2, <1>3, RemoveFirstIs

(* Heads, tails, suffixes and concatenations, element by element. *)

\* The tail of a sequence is the sequence one place further on.
LEMMA TailIs ==
  ASSUME NEW S, NEW s \in Seq(S), s # <<>>
  PROVE  /\ Head(s) = s[1] /\ Head(s) \in S
         /\ Tail(s) \in Seq(S)
         /\ Len(Tail(s)) = Len(s) - 1
         /\ DOMAIN s = 1..Len(s) /\ Len(s) \in Nat \ {0}
         /\ DOMAIN Tail(s) = 1..(Len(s) - 1)
         /\ \A k \in 1..(Len(s) - 1) : Tail(s)[k] = s[k + 1]
<1>1. Len(s) \in Nat \ {0} /\ DOMAIN s = 1..Len(s)
  BY EmptySeq, LenProperties
<1>. QED
  BY <1>1, HeadTailProperties

\* A concatenation is the first sequence, then the second.
LEMMA ConcatIs ==
  ASSUME NEW S, NEW s \in Seq(S), NEW t \in Seq(S)
  PROVE  /\ s \o t \in Seq(S)
         /\ Len(s) \in Nat /\ Len(t) \in Nat
         /\ DOMAIN s = 1..Len(s) /\ DOMAIN t = 1..Len(t)
         /\ DOMAIN (s \o t) = 1..(Len(s) + Len(t))
         /\ \A k \in 1..Len(s) : (s \o t)[k] = s[k]
         /\ \A k \in 1..Len(t) : (s \o t)[Len(s) + k] = t[k]
<1>1. /\ s \o t \in Seq(S) /\ Len(s \o t) = Len(s) + Len(t)
      /\ \A k \in 1..(Len(s) + Len(t)) : (s \o t)[k] = IF k <= Len(s) THEN s[k] ELSE t[k - Len(s)]
  BY ConcatProperties
<1>2. Len(s) \in Nat /\ Len(t) \in Nat /\ DOMAIN s = 1..Len(s) /\ DOMAIN t = 1..Len(t)
  BY LenProperties
<1>3. DOMAIN (s \o t) = 1..(Len(s) + Len(t))
  BY <1>1, LenProperties
<1>4. ASSUME NEW k \in 1..Len(t) PROVE (s \o t)[Len(s) + k] = t[k]
  <2>1. Len(s) + k \in 1..(Len(s) + Len(t)) /\ ~(Len(s) + k <= Len(s)) /\ (Len(s) + k) - Len(s) = k
    BY <1>2
  <2>. QED
    BY <1>1, <2>1
<1>. QED
  BY <1>1, <1>2, <1>3, <1>4

\* A sequence that equals the end of another one is its suffix.
LEMMA SuffixIs ==
  ASSUME NEW S, NEW s \in Seq(S), NEW t \in Seq(S), Len(s) <= Len(t),
         \A i \in 1..Len(s) : s[i] = t[(Len(t) - Len(s)) + i]
  PROVE  IsSuffix(s, t)
<1> DEFINE m == Len(s)
           n == Len(t)
           r == Reverse(s)
           q == Reverse(t)
<1>1. m \in Nat /\ n \in Nat /\ m <= n
  OBVIOUS
<1>2. r \in Seq(S) /\ Len(r) = m /\ \A i \in 1..m : r[i] = s[(m - i) + 1]
  BY <1>1, IsASeq DEF Reverse
<1>3. q \in Seq(S) /\ Len(q) = n /\ \A i \in 1..n : q[i] = t[(n - i) + 1]
  BY <1>1, IsASeq DEF Reverse
<1>4. \A i \in 1..m : s[i] = t[(n - m) + i]
  OBVIOUS
<1>. HIDE DEF m, n, r, q
<1>5. ASSUME NEW i \in 1..m PROVE r[i] = q[i]
  <2>1. (m - i) + 1 \in 1..m /\ (n - m) + ((m - i) + 1) = (n - i) + 1 /\ i \in 1..n
    BY <1>1
  <2>2. r[i] = s[(m - i) + 1] /\ q[i] = t[(n - i) + 1]
    BY <2>1, <1>2, <1>3
  <2>3. s[(m - i) + 1] = t[(n - m) + ((m - i) + 1)]
    BY <2>1, <1>4
  <2>. QED
    BY <2>1, <2>2, <2>3
<1>6. SubSeq(r, 1, m) = SubSeq(q, 1, m)
  <2>1. /\ SubSeq(r, 1, m) = [i \in 1..m |-> r[(1 + i) - 1]]
        /\ SubSeq(q, 1, m) = [i \in 1..m |-> q[(1 + i) - 1]]
    BY <1>1, <1>2, <1>3
  <2>2. \A i \in 1..m : (1 + i) - 1 = i
    BY <1>1
  <2>. QED
    BY <2>1, <2>2, <1>5
<1>7. IsPrefix(r, q)
  BY <1>1, <1>2, <1>3, <1>6 DEF IsPrefix
<1>. QED
  BY <1>7 DEF IsSuffix, r, q

(* The same, as facts about the set of elements, and about their order. *)

LEMMA TailSet ==
  ASSUME NEW S, NEW s \in Seq(S), s # <<>>
  PROVE  /\ Head(s) \in S /\ Tail(s) \in Seq(S)
         /\ ToSet(s) = {Head(s)} \cup ToSet(Tail(s))
         /\ IsInjective(s) => IsInjective(Tail(s))
<1> DEFINE t == Tail(s)
           n == Len(s)
<1>1. /\ Head(s) = s[1] /\ Head(s) \in S /\ t \in Seq(S)
      /\ DOMAIN s = 1..n /\ n \in Nat \ {0} /\ DOMAIN t = 1..(n - 1)
      /\ \A k \in 1..(n - 1) : t[k] = s[k + 1]
  BY TailIs
<1>. HIDE DEF t, n
<1>2. ASSUME NEW k \in 2..n PROVE s[k] \in ToSet(t)
  <2>1. k - 1 \in 1..(n - 1) /\ t[k - 1] = s[k]
    BY <1>1
  <2>. QED
    BY <1>1, <2>1 DEF ToSet
<1>3. \A k \in 1..(n - 1) : t[k] \in ToSet(s)
  BY <1>1 DEF ToSet
<1>4. ToSet(s) = {Head(s)} \cup ToSet(t)
  <2>1. \A k \in 1..n : s[k] \in {Head(s)} \cup ToSet(t)
    BY <1>1, <1>2
  <2>2. Head(s) \in ToSet(s)
    BY <1>1 DEF ToSet
  <2>. QED
    BY <1>1, <1>3, <2>1, <2>2 DEF ToSet
<1>5. ASSUME IsInjective(s), NEW a \in 1..(n - 1), NEW b \in 1..(n - 1), t[a] = t[b]
      PROVE  a = b
  <2>1. a + 1 \in 1..n /\ b + 1 \in 1..n /\ s[a + 1] = s[b + 1]
    BY <1>1, <1>5
  <2>2. a + 1 = b + 1
    BY <1>1, <1>5, <2>1 DEF IsInjective
  <2>. QED
    BY <2>2
<1>6. IsInjective(s) => IsInjective(t)
  BY <1>1, <1>5 DEF IsInjective
<1>. QED
  BY <1>1, <1>4, <1>6 DEF t

LEMMA ConcatSet ==
  ASSUME NEW S, NEW s \in Seq(S), NEW t \in Seq(S)
  PROVE  ToSet(s \o t) = ToSet(s) \cup ToSet(t)
<1> DEFINE m == Len(s)
           n == Len(t)
           r == s \o t
<1>1. /\ m \in Nat /\ n \in Nat /\ DOMAIN s = 1..m /\ DOMAIN t = 1..n /\ DOMAIN r = 1..(m + n)
      /\ \A k \in 1..m : r[k] = s[k]
      /\ \A k \in 1..n : r[m + k] = t[k]
  BY ConcatIs
<1>. HIDE DEF m, n, r
<1>2. ASSUME NEW k \in 1..(m + n) PROVE r[k] \in ToSet(s) \cup ToSet(t)
  <2>1. CASE k \in 1..m
    BY <2>1, <1>1 DEF ToSet
  <2>2. CASE ~(k \in 1..m)
    <3>1. k - m \in 1..n /\ m + (k - m) = k
      BY <2>2, <1>1
    <3>2. r[m + (k - m)] = t[k - m]
      BY <3>1, <1>1
    <3>. QED
      BY <3>1, <3>2, <1>1 DEF ToSet
  <2>. QED
    BY <2>1, <2>2
<1>3. \A k \in 1..m : s[k] \in ToSet(r)
  BY <1>1 DEF ToSet
<1>4. ASSUME NEW k \in 1..n PROVE t[k] \in ToSet(r)
  <2>1. m + k \in 1..(m + n) /\ r[m + k] = t[k]
    BY <1>1
  <2>. QED
    BY <2>1, <1>1 DEF ToSet
<1>. QED
  BY <1>1, <1>2, <1>3, <1>4 DEF ToSet, r

LEMMA EmptyIs == ToSet(<<>>) = {} /\ IsInjective(<<>>) /\ \A S : <<>> \in Seq(S)
BY DEF ToSet, IsInjective

\* A sequence of numbers that only grow.
Increasing(s) == \A i, k \in DOMAIN s : i < k => s[i] < s[k]

LEMMA AppendIncreasing ==
  ASSUME NEW s \in Seq(Nat), NEW e \in Nat, Increasing(s), \A x \in ToSet(s) : x < e
  PROVE  Increasing(Append(s, e))
<1> DEFINE t == Append(s, e)
           n == Len(s)
<1>1. /\ DOMAIN t = 1..(n + 1) /\ DOMAIN s = 1..n /\ n \in Nat
      /\ \A k \in 1..n : t[k] = s[k]
      /\ t[n + 1] = e
  BY AppendIs
<1>. HIDE DEF t, n
<1>2. \A k \in 1..n : s[k] < e
  BY <1>1 DEF ToSet
<1>3. Increasing(t)
  BY <1>1, <1>2 DEF Increasing
<1>. QED
  BY <1>3 DEF t

LEMMA TailIncreasing ==
  ASSUME NEW s \in Seq(Nat), s # <<>>, Increasing(s)
  PROVE  Increasing(Tail(s)) /\ \A x \in ToSet(Tail(s)) : Head(s) < x
<1> DEFINE t == Tail(s)
           n == Len(s)
<1>1. /\ Head(s) = s[1]
      /\ DOMAIN s = 1..n /\ n \in Nat \ {0} /\ DOMAIN t = 1..(n - 1)
      /\ \A k \in 1..(n - 1) : t[k] = s[k + 1]
  BY TailIs
<1>. HIDE DEF t, n
<1>2. ASSUME NEW i \in 1..(n - 1), NEW k \in 1..(n - 1), i < k
      PROVE  t[i] < t[k]
  <2>1. i + 1 \in 1..n /\ k + 1 \in 1..n /\ i + 1 < k + 1
    BY <1>1, <1>2
  <2>. QED
    BY <1>1, <2>1 DEF Increasing
<1>3. ASSUME NEW k \in 1..(n - 1)
      PROVE  Head(s) < t[k]
  <2>1. 1 \in 1..n /\ k + 1 \in 1..n /\ 1 < k + 1
    BY <1>1
  <2>. QED
    BY <1>1, <2>1 DEF Increasing
<1>. QED
  BY <1>1, <1>2, <1>3 DEF ToSet, Increasing, t

\* A sequence over a set is one over every larger set.
LEMMA SeqSubset ==
  ASSUME NEW S, NEW T, S \subseteq T, NEW s \in Seq(S)
  PROVE  s \in Seq(T) /\ ToSet(s) \subseteq S
<1>1. Len(s) \in Nat /\ s = [i \in 1..Len(s) |-> s[i]] /\ \A i \in 1..Len(s) : s[i] \in S
  BY LenProperties, ElementOfSeq
<1>2. [i \in 1..Len(s) |-> s[i]] \in Seq(T)
  BY <1>1, IsASeq
<1>. QED
  BY <1>1, <1>2 DEF ToSet
=============================================================================
