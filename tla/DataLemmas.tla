------------------------------ MODULE DataLemmas ------------------------------
(***************************************************************************)
(* Lemmas about numbers and sequences that the proofs of several modules   *)
(* use.  Induction and recursion on numbers are stated about sets and      *)
(* functions rather than predicates, so that they can be cited with a      *)
(* comprehension {i \in 0 .. n : P(i)} or a function in the place of an    *)
(* operator.                                                               *)
(***************************************************************************)
EXTENDS Integers, SequencesExt, FiniteSetsExt, SequenceTheorems, WellFoundedInduction, TLAPS

\* A set of natural numbers with an element has a least one.
LEMMA LeastNumber ==
  ASSUME NEW T, T \subseteq Nat, T # {}
  PROVE  \E m \in T : \A k \in T : m <= k
<1> DEFINE R == OpToRel(<, Nat)
<1>1. IsWellFoundedOn(R, Nat)
  BY NatLessThanWellFounded
<1>2. \A k, m \in Nat : <<k, m>> \in R <=> k < m
  BY DEF OpToRel
<1> HIDE DEF R
<1>3. PICK m \in T : \A k \in T : <<k, m>> \notin R
  BY <1>1, WFMin
<1>4. ASSUME NEW k \in T PROVE m <= k
  <2>1. <<k, m>> \notin R /\ k \in Nat /\ m \in Nat
    BY <1>3
  <2>2. ~(k < m)
    BY <1>2, <2>1, Zenon
  <2> QED BY <2>1, <2>2
<1> QED BY <1>4

\* Min of FiniteSetsExt, for sets of natural numbers.
LEMMA MinOfNats ==
  ASSUME NEW T, T \subseteq Nat, T # {}
  PROVE  Min(T) \in T /\ \A k \in T : Min(T) <= k
<1>1. \E m \in T : \A k \in T : m <= k
  BY LeastNumber
<1> QED BY <1>1 DEF Min

\* Induction up to n: a set that has 0, and i whenever it has i - 1, has them all.
LEMMA Upward ==
  ASSUME NEW n \in Nat, NEW T, 0 \in T, \A i \in 1 .. n : i - 1 \in T => i \in T
  PROVE  0 .. n \subseteq T
<1> DEFINE Bad == (0 .. n) \ T
<1>1. SUFFICES ASSUME Bad # {} PROVE FALSE
  OBVIOUS
<1>2. PICK m \in Bad : \A k \in Bad : m <= k
  <2>1. Bad \subseteq Nat
    OBVIOUS
  <2> HIDE DEF Bad
  <2> QED BY <1>1, <2>1, LeastNumber
<1>3. m \in 1 .. n /\ m - 1 \in 0 .. n
  BY <1>2
<1>4. m - 1 \in T
  BY <1>2, <1>3
<1> QED BY <1>2, <1>3, <1>4

\* The values g[0] to g[n] in V start with v, and g[i] is step[i] of the one before.
Iterates(g, n, V, v, step) ==
  g \in [0 .. n -> V] /\ g[0] = v /\ \A i \in 1 .. n : g[i] = step[i][g[i - 1]]

\* Recursion up to n: such values exist.
LEMMA Recursion ==
  ASSUME NEW n \in Nat, NEW V, NEW v \in V, NEW step \in [1 .. n -> [V -> V]]
  PROVE  \E g : Iterates(g, n, V, v, step)
<1> DEFINE Ok(g, m) == g \in [0 .. m -> V] /\ g[0] = v /\ \A i \in 1 .. m : g[i] = step[i][g[i - 1]]
           T == {m \in 0 .. n : \E g : Ok(g, m)}
<1>1. 0 \in T
  <2> DEFINE h == [i \in 0 .. 0 |-> v]
  <2>1. Ok(h, 0)
    OBVIOUS
  <2> HIDE DEF h, Ok
  <2> QED BY <2>1
<1>2. ASSUME NEW m \in 1 .. n, m - 1 \in T PROVE m \in T
  <2>1. PICK g : Ok(g, m - 1)
    BY <1>2
  <2> DEFINE h == [i \in 0 .. m |-> IF i = m THEN step[m][g[m - 1]] ELSE g[i]]
  <2>2. g[m - 1] \in V /\ step[m] \in [V -> V]
    BY <2>1
  <2>3. h \in [0 .. m -> V]
    BY <2>1, <2>2
  <2>4. h[0] = v
    BY <2>1
  <2>5. ASSUME NEW i \in 1 .. m PROVE h[i] = step[i][h[i - 1]]
    <3>1. CASE i = m
      BY <3>1
    <3>2. CASE i # m
      <4>1. i \in 1 .. (m - 1) /\ i - 1 \in 0 .. m /\ i - 1 # m
        BY <3>2
      <4> QED BY <2>1, <3>2, <4>1
    <3> QED BY <3>1, <3>2
  <2>6. Ok(h, m)
    BY <2>3, <2>4, <2>5
  <2> HIDE DEF h, Ok
  <2> QED BY <2>6
<1>3. n \in T
  <2> HIDE DEF T
  <2>1. 0 .. n \subseteq T
    BY <1>1, <1>2, Upward
  <2> QED BY <2>1
<1> QED BY <1>3 DEF Iterates

-------------------------------------------------------------------------------
\* No element is twice in the sequence.
Distinct(s) == \A i, j \in DOMAIN s : s[i] = s[j] => i = j

\* RemoveAt of SequencesExt: the elements that are left.
LEMMA RemoveAtElements ==
  ASSUME NEW S, NEW s \in Seq(S), NEW i \in DOMAIN s
  PROVE  /\ RemoveAt(s, i) \in Seq(S) /\ Len(RemoveAt(s, i)) = Len(s) - 1
         /\ ToSet(RemoveAt(s, i)) \subseteq ToSet(s)
         /\ ToSet(s) \subseteq ToSet(RemoveAt(s, i)) \cup {s[i]}
         /\ Distinct(s) => Distinct(RemoveAt(s, i)) /\ s[i] \notin ToSet(RemoveAt(s, i))
<1> DEFINE n == Len(s)
           a == SubSeq(s, 1, i - 1)
           b == SubSeq(s, i + 1, n)
           r == a \o b
<1>1. n \in Nat /\ DOMAIN s = 1 .. n /\ i \in 1 .. n /\ \A j \in 1 .. n : s[j] \in S
  BY LenProperties
<1>2. a \in Seq(S) /\ Len(a) = i - 1 /\ \A j \in 1 .. (i - 1) : a[j] = s[j]
  BY <1>1
<1>3. b \in Seq(S) /\ Len(b) = n - i /\ \A j \in 1 .. (n - i) : b[j] = s[i + j]
  <2>1. /\ i + 1 \in Int /\ n \in Int /\ n - (i + 1) + 1 = n - i
        /\ \A j \in (i + 1) .. n : s[j] \in S
    BY <1>1
  <2>2. b \in Seq(S) /\ Len(b) = n - i
    BY <1>1, <2>1, SubSeqProperties
  <2>3. \A j \in 1 .. (n - i) : b[j] = s[i + 1 + j - 1]
    BY <1>1, <2>1, SubSeqProperties
  <2> QED BY <1>1, <2>2, <2>3
<1>4. RemoveAt(s, i) = r
  BY DEF RemoveAt
<1> HIDE DEF a, b, n
<1>5. /\ r \in Seq(S) /\ Len(r) = n - 1 /\ DOMAIN r = 1 .. (n - 1)
      /\ \A j \in 1 .. (n - 1) : r[j] = IF j <= i - 1 THEN s[j] ELSE s[j + 1]
  <2>4. r \in Seq(S) /\ Len(r) = Len(a) + Len(b)
    BY <1>2, <1>3, ConcatProperties
  <2>1. r \in Seq(S) /\ Len(r) = n - 1
    BY <1>1, <1>2, <1>3, <2>4
  <2>2. ASSUME NEW j \in 1 .. (n - 1) PROVE r[j] = IF j <= i - 1 THEN s[j] ELSE s[j + 1]
    <3>1. r[j] = IF j <= i - 1 THEN a[j] ELSE b[j - (i - 1)]
      BY <1>1, <1>2, <1>3, ConcatProperties
    <3>2. CASE j <= i - 1
      BY <1>1, <1>2, <3>1, <3>2
    <3>3. CASE ~(j <= i - 1)
      <4>1. j - (i - 1) \in 1 .. (n - i) /\ i + (j - (i - 1)) = j + 1
        BY <1>1, <3>3
      <4> QED BY <1>3, <3>1, <3>3, <4>1
    <3> QED BY <3>2, <3>3
  <2>3. DOMAIN r = 1 .. (n - 1)
    <3> HIDE DEF r
    <3> QED BY <2>1, LenProperties
  <2> QED BY <2>1, <2>2, <2>3
<1> HIDE DEF r
<1>6. ToSet(r) \subseteq ToSet(s)
  <2>1. \A j \in 1 .. (n - 1) : \E k \in 1 .. n : r[j] = s[k]
    BY <1>1, <1>5
  <2>2. \A j \in DOMAIN r : \E k \in DOMAIN s : r[j] = s[k]
    BY <1>1, <1>5, <2>1
  <2> QED BY <2>2, Zenon DEF ToSet
<1>7. ASSUME NEW k \in 1 .. n, k # i PROVE s[k] \in ToSet(r)
  <2>1. CASE k < i
    <3>1. k \in 1 .. (n - 1) /\ r[k] = s[k]
      BY <1>1, <1>5, <2>1
    <3> QED BY <1>5, <3>1 DEF ToSet
  <2>2. CASE k > i
    <3>1. k - 1 \in 1 .. (n - 1) /\ r[k - 1] = s[k]
      BY <1>1, <1>5, <2>2
    <3> QED BY <1>5, <3>1 DEF ToSet
  <2> QED BY <1>1, <1>7, <2>1, <2>2
<1>8. ToSet(s) \subseteq ToSet(r) \cup {s[i]}
  BY <1>1, <1>7 DEF ToSet
<1>9. ASSUME Distinct(s) PROVE Distinct(r) /\ s[i] \notin ToSet(r)
  <2> DEFINE At(j) == IF j <= i - 1 THEN j ELSE j + 1
  <2>1. \A j \in DOMAIN r : r[j] = s[At(j)] /\ At(j) \in DOMAIN s /\ At(j) # i
    BY <1>1, <1>5
  <2>2. \A j, k \in DOMAIN r : At(j) = At(k) => j = k
    BY <1>1, <1>5
  <2> HIDE DEF At
  <2>3. Distinct(r)
    BY <1>9, <2>1, <2>2 DEF Distinct
  <2>4. \A j \in DOMAIN r : r[j] # s[i]
    BY <1>9, <2>1 DEF Distinct
  <2> QED BY <2>3, <2>4 DEF ToSet
<1> QED BY <1>4, <1>5, <1>6, <1>8, <1>9 DEF n

\* RemoveFirst of SequencesExt.
LEMMA RemoveFirstElements ==
  ASSUME NEW S, NEW s \in Seq(S), NEW e
  PROVE  /\ RemoveFirst(s, e) \in Seq(S)
         /\ ToSet(RemoveFirst(s, e)) \subseteq ToSet(s)
         /\ ToSet(s) \subseteq ToSet(RemoveFirst(s, e)) \cup {e}
         /\ Distinct(s) => Distinct(RemoveFirst(s, e)) /\ e \notin ToSet(RemoveFirst(s, e))
<1>1. DOMAIN s = 1 .. Len(s) /\ Len(s) \in Nat
  BY LenProperties
<1>2. CASE \E i \in 1 .. Len(s) : s[i] = e
  <2> DEFINE I == {i \in 1 .. Len(s) : s[i] = e}
  <2>1. I \subseteq Nat /\ I # {}
    BY <1>1, <1>2
  <2>2. RemoveFirst(s, e) = RemoveAt(s, Min(I))
    BY <1>2, <2>1 DEF RemoveFirst, SelectInSeq
  <2>3. Min(I) \in 1 .. Len(s) /\ s[Min(I)] = e
    <3>1. Min(I) \in I
      <4> HIDE DEF I
      <4> QED BY <2>1, MinOfNats
    <3> QED BY <3>1
  <2> DEFINE m == Min(I)
             r == RemoveAt(s, m)
  <2> HIDE DEF m, I
  <2>4. m \in DOMAIN s /\ s[m] = e
    BY <1>1, <2>3 DEF m
  <2>5. /\ r \in Seq(S) /\ ToSet(r) \subseteq ToSet(s) /\ ToSet(s) \subseteq ToSet(r) \cup {e}
        /\ Distinct(s) => Distinct(r) /\ e \notin ToSet(r)
    BY <2>4, RemoveAtElements
  <2> QED BY <2>2, <2>5 DEF m
<1>3. CASE ~ \E i \in 1 .. Len(s) : s[i] = e
  <2>1. RemoveFirst(s, e) = s
    BY <1>3 DEF RemoveFirst
  <2>2. e \notin ToSet(s)
    BY <1>1, <1>3 DEF ToSet
  <2> QED BY <2>1, <2>2
<1> QED BY <1>2, <1>3

-------------------------------------------------------------------------------
\* A sequence with an element put in front of it.
LEMMA Push ==
  ASSUME NEW S, NEW s \in Seq(S), NEW e \in S
  PROVE  /\ <<e>> \o s \in Seq(S) /\ Len(<<e>> \o s) = Len(s) + 1 /\ <<e>> \o s # <<>>
         /\ (<<e>> \o s)[1] = e /\ \A i \in 1 .. Len(s) : (<<e>> \o s)[i + 1] = s[i]
         /\ Head(<<e>> \o s) = e /\ Tail(<<e>> \o s) = s
         /\ ToSet(<<e>> \o s) = ToSet(s) \cup {e}
<1> DEFINE r == <<e>> \o s
<1>1. <<e>> \in Seq(S) /\ Len(s) \in Nat /\ DOMAIN s = 1 .. Len(s) /\ Len(<<e>>) = 1 /\ <<e>>[1] = e
  BY LenProperties
<1>2. /\ r \in Seq(S) /\ Len(r) = 1 + Len(s)
      /\ \A i \in 1 .. (1 + Len(s)) : r[i] = IF i <= 1 THEN <<e>>[i] ELSE s[i - 1]
  BY <1>1, ConcatProperties
<1> HIDE DEF r
<1>3. r[1] = e /\ (\A i \in 1 .. Len(s) : r[i + 1] = s[i]) /\ DOMAIN r = 1 .. (Len(s) + 1) /\ r # <<>>
  <2>1. r[1] = e
    BY <1>1, <1>2
  <2>2. \A i \in 1 .. Len(s) : r[i + 1] = s[i]
    BY <1>1, <1>2
  <2>3. DOMAIN r = 1 .. Len(r)
    BY <1>2, LenProperties
  <2> QED BY <1>1, <1>2, <2>1, <2>2, <2>3
<1>4. Head(r) = e
  BY <1>2, <1>3
<1>5. Tail(r) = s
  <2>1. Tail(r) \in Seq(S) /\ Len(Tail(r)) = Len(s) /\ \A i \in 1 .. Len(s) : Tail(r)[i] = r[i + 1]
    BY <1>1, <1>2, <1>3, HeadTailProperties
  <2> QED BY <1>3, <2>1, SeqEqual
<1>6. ToSet(r) = ToSet(s) \cup {e}
  <2>1. \A i \in DOMAIN r : r[i] = e \/ r[i] \in ToSet(s)
    <3> SUFFICES ASSUME NEW i \in DOMAIN r, i # 1 PROVE r[i] \in ToSet(s)
      BY <1>3
    <3>1. i - 1 \in 1 .. Len(s) /\ r[(i - 1) + 1] = s[i - 1] /\ (i - 1) + 1 = i
      BY <1>1, <1>3
    <3> QED BY <1>1, <3>1 DEF ToSet
  <2>2. \A i \in DOMAIN s : s[i] \in ToSet(r)
    <3>1. \A i \in DOMAIN s : i + 1 \in DOMAIN r /\ r[i + 1] = s[i]
      BY <1>1, <1>3
    <3> QED BY <3>1 DEF ToSet
  <2>3. e \in ToSet(r)
    <3>1. 1 \in DOMAIN r
      BY <1>1, <1>3
    <3> QED BY <1>3, <3>1 DEF ToSet
  <2> QED BY <2>1, <2>2, <2>3 DEF ToSet
<1> QED BY <1>1, <1>2, <1>3, <1>4, <1>5, <1>6 DEF r

\* A sequence without its first element.
LEMMA Pop ==
  ASSUME NEW S, NEW s \in Seq(S), s # <<>>
  PROVE  /\ Len(s) \in Nat \ {0} /\ DOMAIN s = 1 .. Len(s)
         /\ Head(s) = s[1] /\ s[1] \in S
         /\ Tail(s) \in Seq(S) /\ Len(Tail(s)) = Len(s) - 1
         /\ DOMAIN Tail(s) = 1 .. (Len(s) - 1)
         /\ \A i \in 1 .. (Len(s) - 1) : Tail(s)[i] = s[i + 1]
         /\ ToSet(s) = ToSet(Tail(s)) \cup {s[1]}
<1>1. Len(s) \in Nat /\ DOMAIN s = 1 .. Len(s) /\ Len(s) # 0
  BY EmptySeq, LenProperties
<1>2. Head(s) = s[1] /\ s[1] \in S
  BY <1>1
<1>3. /\ Tail(s) \in Seq(S) /\ Len(Tail(s)) = Len(s) - 1
      /\ \A i \in 1 .. (Len(s) - 1) : Tail(s)[i] = s[i + 1]
  BY HeadTailProperties
<1>4. DOMAIN Tail(s) = 1 .. (Len(s) - 1)
  BY <1>3, LenProperties
<1>5. ToSet(s) = ToSet(Tail(s)) \cup {s[1]}
  <2>1. \A i \in DOMAIN s : s[i] = s[1] \/ s[i] \in ToSet(Tail(s))
    <3> SUFFICES ASSUME NEW i \in DOMAIN s, i # 1 PROVE s[i] \in ToSet(Tail(s))
      OBVIOUS
    <3>1. i - 1 \in DOMAIN Tail(s) /\ Tail(s)[i - 1] = s[(i - 1) + 1] /\ (i - 1) + 1 = i
      BY <1>1, <1>3, <1>4
    <3> QED BY <3>1 DEF ToSet
  <2>2. \A i \in DOMAIN Tail(s) : Tail(s)[i] \in ToSet(s)
    <3>1. \A i \in DOMAIN Tail(s) : i + 1 \in DOMAIN s /\ Tail(s)[i] = s[i + 1]
      BY <1>1, <1>3, <1>4
    <3> QED BY <3>1 DEF ToSet
  <2>3. s[1] \in ToSet(s)
    <3>1. 1 \in DOMAIN s
      BY <1>1
    <3> QED BY <3>1 DEF ToSet
  <2> QED BY <2>1, <2>2, <2>3 DEF ToSet
<1> QED BY <1>1, <1>2, <1>3, <1>4, <1>5

\* Two elements in front.
LEMMA PushTwo ==
  ASSUME NEW S, NEW s \in Seq(S), NEW d \in S, NEW e \in S
  PROVE  <<d, e>> \o s = <<d>> \o (<<e>> \o s)
<1>1. <<d>> \in Seq(S) /\ <<e>> \in Seq(S) /\ <<d, e>> = <<d>> \o <<e>>
  <2> DEFINE a == <<d, e>>
             b == <<d>> \o <<e>>
  <2>1. <<d>> \in Seq(S) /\ <<e>> \in Seq(S) /\ Len(<<e>>) = 1 /\ <<e>>[1] = e
    OBVIOUS
  <2>2. a \in Seq(S) /\ Len(a) = 2 /\ a[1] = d /\ a[2] = e
    OBVIOUS
  <2>3. b \in Seq(S) /\ Len(b) = 2 /\ b[1] = d /\ b[1 + 1] = e
    BY <2>1, Push
  <2> HIDE DEF a, b
  <2>4. \A i \in 1 .. Len(a) : a[i] = b[i]
    BY <2>2, <2>3
  <2>5. a = b
    BY <2>2, <2>3, <2>4, SeqEqual
  <2> QED BY <2>1, <2>5 DEF a, b
<1>2. (<<d>> \o <<e>>) \o s = <<d>> \o (<<e>> \o s)
  BY <1>1, ConcatAssociative
<1> QED BY <1>1, <1>2

\* The elements of two sequences one after the other.
LEMMA ConcatElements ==
  ASSUME NEW S, NEW a \in Seq(S), NEW b \in Seq(S)
  PROVE  /\ a \o b \in Seq(S) /\ Len(a \o b) = Len(a) + Len(b)
         /\ \A i \in 1 .. Len(a) : (a \o b)[i] = a[i]
         /\ \A i \in 1 .. Len(b) : (a \o b)[Len(a) + i] = b[i]
         /\ ToSet(a \o b) = ToSet(a) \cup ToSet(b)
<1> DEFINE r == a \o b
<1>1. /\ Len(a) \in Nat /\ DOMAIN a = 1 .. Len(a)
      /\ Len(b) \in Nat /\ DOMAIN b = 1 .. Len(b)
  BY LenProperties
<1>2. /\ r \in Seq(S) /\ Len(r) = Len(a) + Len(b)
      /\ \A i \in 1 .. (Len(a) + Len(b)) : r[i] = IF i <= Len(a) THEN a[i] ELSE b[i - Len(a)]
  BY ConcatProperties
<1>3. DOMAIN r = 1 .. (Len(a) + Len(b))
  BY <1>2, LenProperties
<1> HIDE DEF r
<1>4. ASSUME NEW i \in 1 .. Len(a) PROVE i \in DOMAIN r /\ r[i] = a[i]
  BY <1>1, <1>2, <1>3
<1>5. ASSUME NEW i \in 1 .. Len(b) PROVE Len(a) + i \in DOMAIN r /\ r[Len(a) + i] = b[i]
  <2> DEFINE j == Len(a) + i
  <2>1. j \in 1 .. (Len(a) + Len(b)) /\ ~(j <= Len(a)) /\ j - Len(a) = i
    BY <1>1
  <2> HIDE DEF j
  <2>2. r[j] = b[j - Len(a)]
    BY <1>2, <2>1
  <2> QED BY <1>3, <2>1, <2>2 DEF j
<1>6. ASSUME NEW i \in DOMAIN r PROVE r[i] \in ToSet(a) \cup ToSet(b)
  <2>1. CASE i <= Len(a)
    <3>1. i \in DOMAIN a /\ r[i] = a[i]
      BY <1>1, <1>2, <1>3, <2>1
    <3> QED BY <3>1 DEF ToSet
  <2>2. CASE ~(i <= Len(a))
    <3> DEFINE j == i - Len(a)
    <3>1. j \in DOMAIN b /\ r[i] = b[j]
      BY <1>1, <1>2, <1>3, <2>2
    <3> QED BY <3>1 DEF ToSet
  <2> QED BY <2>1, <2>2
<1>7. ToSet(r) \subseteq ToSet(a) \cup ToSet(b)
  BY <1>6 DEF ToSet
<1>8. ToSet(a) \subseteq ToSet(r)
  BY <1>1, <1>4 DEF ToSet
<1>9. ToSet(b) \subseteq ToSet(r)
  BY <1>1, <1>5 DEF ToSet
<1> QED BY <1>2, <1>4, <1>5, <1>7, <1>8, <1>9 DEF r

\* A sequence cut in two.
LEMMA Cut ==
  ASSUME NEW S, NEW s \in Seq(S), NEW k \in 0 .. Len(s)
  PROVE  LET a == SubSeq(s, 1, k)
             b == SubSeq(s, k + 1, Len(s))
         IN a \in Seq(S) /\ b \in Seq(S) /\ a \o b = s
<1> DEFINE n == Len(s)
           a == SubSeq(s, 1, k)
           b == SubSeq(s, k + 1, n)
<1>1. n \in Nat /\ DOMAIN s = 1 .. n /\ \A i \in 1 .. n : s[i] \in S
  BY LenProperties, ElementOfSeq
<1>2. a \in Seq(S) /\ b \in Seq(S)
  <2>1. \A i \in 1 .. k : s[i] \in S
    BY <1>1
  <2>2. \A i \in (k + 1) .. n : s[i] \in S
    BY <1>1
  <2> QED BY <1>1, <2>1, <2>2
<1>3. 1 \in 1 .. (n + 1) /\ k \in (1 - 1) .. n /\ n \in k .. n
  BY <1>1
<1>4. a \o b = SubSeq(s, 1, n)
  BY <1>3, ConcatAdjacentSubSeq
<1>5. SubSeq(s, 1, n) = s
  BY SubSeqFull
<1> QED BY <1>2, <1>4, <1>5
===============================================================================
