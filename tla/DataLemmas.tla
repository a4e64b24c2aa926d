--------------------------- MODULE DataLemmas ------------------------------
(***************************************************************************)
(* What dropping, removing and adding do to a sequence, in particular to    *)
(* one that holds nothing twice, such as the keys of a JavaScript Map or    *)
(* the members of a Set in insertion order; and, before that, that there is *)
(* a least natural number, from which induction over a set follows.         *)
(***************************************************************************)
EXTENDS Integers, Sequences, SequencesExt, SequenceTheorems, FiniteSetTheorems, TLAPS

\* A set of natural numbers has a least one: otherwise adding one would map the
\* numbers below all of them, finitely many, injectively into themselves.
LEMMA LeastElement ==
  ASSUME NEW T, T \subseteq Nat, T # {}
  PROVE  \E m \in T : \A k \in T : m <= k
<1> SUFFICES ASSUME \A m \in T : \E k \in T : k < m PROVE FALSE
  OBVIOUS
<1> DEFINE U == {x \in Nat : \A k \in T : x < k}
           f == [x \in U |-> x + 1]
<1>1. PICK n \in T : n \in Nat
  OBVIOUS
<1>2. IsFiniteSet(U)
  <2>1. U \in SUBSET Nat /\ \A x \in U : x <= n
    BY <1>1
  <2>. QED BY <1>1, <2>1, FS_BoundedSetOfNaturals
<1>3. \A x \in U : x + 1 \in U
  OBVIOUS
<1>4. 0 \in U
  OBVIOUS
<1>5. f \in Injection(U, U)
  <2>1. f \in [U -> U]
    BY <1>3
  <2>2. \A x, y \in U : f[x] = f[y] => x = y
    OBVIOUS
  <2>. QED BY <2>1, <2>2 DEF Injection, IsInjective
<1>6. f \in Surjection(U, U)
  <2> HIDE DEF U, f
  <2>. QED BY <1>2, <1>5, FS_Injection
<1>7. PICK x \in U : f[x] = 0
  <2> HIDE DEF f, U
  <2>. QED BY <1>4, <1>6 DEF Surjection
<1>. QED BY <1>7

\* What holds for 0 and, with every number, for the next one, holds for all.
LEMMA Induct ==
  ASSUME NEW T, 0 \in T, \A n \in Nat : n \in T => n + 1 \in T
  PROVE  Nat \subseteq T
<1> DEFINE U == {n \in Nat : n \notin T}
<1>1. SUFFICES ASSUME U # {} PROVE FALSE
  OBVIOUS
<1>2. PICK m \in U : \A k \in U : m <= k
  <2>1. U \subseteq Nat
    OBVIOUS
  <2> HIDE DEF U
  <2>. QED BY <1>1, <2>1, LeastElement
<1>3. m \in Nat /\ m \notin T /\ m # 0
  OBVIOUS
<1>4. m - 1 \in Nat /\ ~(m <= m - 1)
  BY <1>3
<1>5. m - 1 \in T
  BY <1>2, <1>4
<1>6. m - 1 + 1 \in T
  BY <1>4, <1>5
<1>. QED BY <1>3, <1>6

-----------------------------------------------------------------------------
\* Dropping the first k of a sequence leaves the others, k places further up.
LEMMA DropFirst ==
  ASSUME NEW T, NEW s \in Seq(T), NEW k \in 0 .. Len(s)
  PROVE  /\ SubSeq(s, k + 1, Len(s)) \in Seq(T)
         /\ Len(SubSeq(s, k + 1, Len(s))) = Len(s) - k
         /\ \A i \in 1 .. Len(s) - k : SubSeq(s, k + 1, Len(s))[i] = s[i + k]
<1>1. Len(s) \in Nat /\ k \in Nat
  BY LenProperties
<1>2. \A i \in k + 1 .. Len(s) : s[i] \in T
  BY <1>1, LenProperties
<1>3. /\ SubSeq(s, k + 1, Len(s)) \in Seq(T)
      /\ Len(SubSeq(s, k + 1, Len(s))) = IF k + 1 <= Len(s) THEN Len(s) - (k + 1) + 1 ELSE 0
      /\ \A i \in 1 .. Len(s) - (k + 1) + 1 :
            SubSeq(s, k + 1, Len(s))[i] = s[(k + 1) + i - 1]
  BY <1>1, <1>2, SubSeqProperties
<1>4. Len(SubSeq(s, k + 1, Len(s))) = Len(s) - k
  BY <1>1, <1>3
<1>5. ASSUME NEW i \in 1 .. Len(s) - k PROVE SubSeq(s, k + 1, Len(s))[i] = s[i + k]
  <2>1. i \in 1 .. Len(s) - (k + 1) + 1 /\ (k + 1) + i - 1 = i + k
    BY <1>1
  <2>. QED BY <1>3, <2>1
<1>. QED BY <1>3, <1>4, <1>5

\* Removing one place leaves the others, those behind it one place further up.
LEMMA RemoveOne ==
  ASSUME NEW T, NEW s \in Seq(T), NEW p \in DOMAIN s
  PROVE  /\ RemoveAt(s, p) \in Seq(T) /\ Len(RemoveAt(s, p)) = Len(s) - 1
         /\ \A i \in 1 .. Len(s) - 1 : RemoveAt(s, p)[i] = s[IF i < p THEN i ELSE i + 1]
<1> DEFINE a == SubSeq(s, 1, p - 1)
           b == SubSeq(s, p + 1, Len(s))
<1>1. Len(s) \in Nat /\ DOMAIN s = 1 .. Len(s) /\ p \in 1 .. Len(s)
  BY LenProperties
<1>2. a \in Seq(T) /\ Len(a) = p - 1 /\ \A i \in 1 .. p - 1 : a[i] = s[i]
  BY <1>1, SubSeqProperties
<1>3. b \in Seq(T) /\ Len(b) = Len(s) - p /\ \A i \in 1 .. Len(s) - p : b[i] = s[i + p]
  <2>1. p \in 0 .. Len(s)
    BY <1>1
  <2>. QED BY <2>1, DropFirst
<1>4. RemoveAt(s, p) = a \o b
  BY DEF RemoveAt
<1> HIDE DEF a, b
<1>5. /\ a \o b \in Seq(T) /\ Len(a \o b) = Len(s) - 1
      /\ \A i \in 1 .. Len(s) - 1 : (a \o b)[i] = IF i <= p - 1 THEN a[i] ELSE b[i - (p - 1)]
  <2>1. /\ a \o b \in Seq(T) /\ Len(a \o b) = Len(a) + Len(b)
        /\ \A i \in 1 .. Len(a) + Len(b) :
              (a \o b)[i] = IF i <= Len(a) THEN a[i] ELSE b[i - Len(a)]
    BY <1>2, <1>3, ConcatProperties
  <2>2. Len(a) + Len(b) = Len(s) - 1
    BY <1>1, <1>2, <1>3
  <2>. QED BY <1>2, <2>1, <2>2
<1>6. ASSUME NEW i \in 1 .. Len(s) - 1
      PROVE  (a \o b)[i] = s[IF i < p THEN i ELSE i + 1]
  <2>1. CASE i < p
    BY <1>1, <1>2, <1>5, <2>1
  <2>2. CASE ~(i < p)
    <3> DEFINE j == i - (p - 1)
    <3>1. j \in 1 .. Len(s) - p /\ j + p = i + 1 /\ ~(i <= p - 1)
      BY <1>1, <2>2
    <3>2. (a \o b)[i] = b[j]
      BY <1>5, <3>1
    <3> HIDE DEF j
    <3>3. b[j] = s[j + p]
      BY <1>3, <3>1
    <3>. QED BY <2>2, <3>1, <3>2, <3>3
  <2>. QED BY <2>1, <2>2
<1>. QED BY <1>4, <1>5, <1>6

\* The last k places further up of a sequence without duplicates.
LEMMA DropDistinct ==
  ASSUME NEW T, NEW s \in Seq(T), IsInjective(s), NEW k \in 0 .. Len(s),
         NEW r, r = SubSeq(s, k + 1, Len(s))
  PROVE  IsInjective(r) /\ ToSet(r) = ToSet(s) \ {s[i] : i \in 1 .. k}
<1> DEFINE n == Len(s)
<1>1. n \in Nat /\ DOMAIN s = 1 .. n /\ k \in Nat /\ k <= n
  BY LenProperties
<1>2. r \in Seq(T) /\ Len(r) = n - k /\ \A i \in 1 .. n - k : r[i] = s[i + k]
  BY DropFirst
<1>3. DOMAIN r = 1 .. n - k
  BY <1>2, LenProperties
<1>4. \A i \in 1 .. n - k : i + k \in 1 .. n
  BY <1>1
<1>5. ASSUME NEW i \in DOMAIN r, NEW j \in DOMAIN r, r[i] = r[j] PROVE i = j
  <2>1. i + k = j + k
    BY <1>1, <1>2, <1>3, <1>4, <1>5 DEF IsInjective
  <2>. QED BY <1>1, <1>3, <2>1
<1>6. ASSUME NEW i \in DOMAIN r PROVE r[i] \in ToSet(s) \ {s[j] : j \in 1 .. k}
  <2>1. i + k \in DOMAIN s /\ r[i] = s[i + k]
    BY <1>1, <1>2, <1>3, <1>4
  <2>2. ASSUME NEW j \in 1 .. k, s[j] = s[i + k] PROVE FALSE
    <3>1. j \in DOMAIN s
      BY <1>1
    <3>2. j = i + k
      BY <2>1, <2>2, <3>1 DEF IsInjective
    <3>. QED BY <1>1, <1>3, <3>2
  <2>. QED BY <2>1, <2>2 DEF ToSet
<1>7. ASSUME NEW j \in DOMAIN s, s[j] \notin {s[i] : i \in 1 .. k}
      PROVE  \E i \in DOMAIN r : r[i] = s[j]
  <2>1. j - k \in DOMAIN r /\ (j - k) + k = j
    BY <1>1, <1>3, <1>7
  <2>. QED BY <1>2, <1>3, <2>1
<1>8. ToSet(r) \subseteq ToSet(s) \ {s[i] : i \in 1 .. k}
  BY <1>6 DEF ToSet
<1>9. ToSet(s) \ {s[i] : i \in 1 .. k} \subseteq ToSet(r)
  BY <1>7 DEF ToSet
<1>. QED BY <1>5, <1>8, <1>9 DEF IsInjective

LEMMA RemoveDistinct ==
  ASSUME NEW T, NEW s \in Seq(T), IsInjective(s), NEW p \in DOMAIN s,
         NEW r, r = RemoveAt(s, p)
  PROVE  IsInjective(r) /\ ToSet(r) = ToSet(s) \ {s[p]}
<1> DEFINE n == Len(s)
           old(i) == IF i < p THEN i ELSE i + 1
<1>1. n \in Nat /\ DOMAIN s = 1 .. n /\ p \in 1 .. n
  BY LenProperties
<1>2. r \in Seq(T) /\ Len(r) = n - 1 /\ \A i \in 1 .. n - 1 : r[i] = s[old(i)]
  BY RemoveOne
<1>3. DOMAIN r = 1 .. n - 1
  BY <1>2, LenProperties
<1>4. \A i \in 1 .. n - 1 : old(i) \in 1 .. n /\ old(i) # p
  BY <1>1
<1>5. \A i, j \in 1 .. n - 1 : old(i) = old(j) => i = j
  BY <1>1
<1>6. ASSUME NEW q \in 1 .. n, q # p PROVE \E i \in 1 .. n - 1 : old(i) = q
  <2>1. CASE q < p
    BY <1>1, <2>1
  <2>2. CASE q > p
    <3>1. q - 1 \in 1 .. n - 1 /\ old(q - 1) = q
      BY <1>1, <2>2
    <3>. QED BY <3>1
  <2>. QED BY <1>1, <1>6, <2>1, <2>2
<1> HIDE DEF old
<1>7. ASSUME NEW i \in DOMAIN r, NEW j \in DOMAIN r, r[i] = r[j] PROVE i = j
  <2>1. old(i) = old(j)
    BY <1>1, <1>2, <1>3, <1>4, <1>7 DEF IsInjective
  <2>. QED BY <1>3, <1>5, <2>1
<1>8. ASSUME NEW i \in DOMAIN r PROVE r[i] \in ToSet(s) \ {s[p]}
  <2>1. old(i) \in DOMAIN s /\ old(i) # p /\ r[i] = s[old(i)]
    BY <1>1, <1>2, <1>3, <1>4
  <2>. QED BY <2>1 DEF IsInjective, ToSet
<1>9. ASSUME NEW q \in DOMAIN s, s[q] # s[p] PROVE \E i \in DOMAIN r : r[i] = s[q]
  <2>1. PICK i \in 1 .. n - 1 : old(i) = q
    BY <1>1, <1>6, <1>9
  <2>. QED BY <1>2, <1>3, <2>1
<1>10. ToSet(r) \subseteq ToSet(s) \ {s[p]}
  BY <1>8 DEF ToSet
<1>11. ToSet(s) \ {s[p]} \subseteq ToSet(r)
  BY <1>9 DEF ToSet
<1>. QED BY <1>7, <1>10, <1>11 DEF IsInjective

\* RemoveFirst removes what a sequence without duplicates holds, and leaves the
\* sequence alone when it does not hold it.
LEMMA RemoveFirstDistinct ==
  ASSUME NEW T, NEW s \in Seq(T), IsInjective(s), NEW e,
         NEW r, r = RemoveFirst(s, e)
  PROVE  /\ r \in Seq(T) /\ IsInjective(r) /\ ToSet(r) = ToSet(s) \ {e}
         /\ Len(r) = IF e \in ToSet(s) THEN Len(s) - 1 ELSE Len(s)
<1>1. Len(s) \in Nat /\ DOMAIN s = 1 .. Len(s)
  BY LenProperties
<1>2. CASE e \notin ToSet(s)
  <2>1. r = s
    BY <1>1, <1>2 DEF RemoveFirst, ToSet
  <2>. QED BY <1>2, <2>1
<1>3. CASE e \in ToSet(s)
  <2> DEFINE I == {i \in 1 .. Len(s) : s[i] = e}
  <2>1. PICK q \in 1 .. Len(s) : s[q] = e
    BY <1>1, <1>3 DEF ToSet
  <2>2. I = {q}
    BY <1>1, <2>1 DEF IsInjective
  <2>3. Min(I) = q
    <3>1. \A x \in I : x = q
      BY <2>2
    <3>. QED BY <2>1, <2>2, <3>1 DEF Min
  <2>4. r = RemoveAt(s, q)
    BY <2>1, <2>2, <2>3 DEF RemoveFirst, SelectInSeq
  <2>5. q \in DOMAIN s
    BY <1>1, <2>1
  <2>. QED BY <1>3, <2>1, <2>4, <2>5, RemoveOne, RemoveDistinct
<1>. QED BY <1>2, <1>3

LEMMA AppendDistinct ==
  ASSUME NEW T, NEW s \in Seq(T), IsInjective(s), NEW e \in T, e \notin ToSet(s),
         NEW r, r = Append(s, e)
  PROVE  IsInjective(r) /\ ToSet(r) = ToSet(s) \union {e}
<1>1. Len(s) \in Nat /\ DOMAIN s = 1 .. Len(s)
  BY LenProperties
<1>2. /\ r \in Seq(T) /\ Len(r) = Len(s) + 1 /\ r[Len(s) + 1] = e
      /\ \A i \in 1 .. Len(s) : r[i] = s[i]
  BY AppendProperties
<1>3. DOMAIN r = 1 .. Len(s) + 1
  BY <1>2, LenProperties
<1>4. \A i \in 1 .. Len(s) + 1 : i \in 1 .. Len(s) \/ i = Len(s) + 1
  BY <1>1
<1>5. Len(s) + 1 \in DOMAIN r /\ \A i \in 1 .. Len(s) : i \in DOMAIN r
  BY <1>1, <1>3
<1>6. \A i \in 1 .. Len(s) : r[i] # e
  BY <1>1, <1>2 DEF ToSet
<1>7. IsInjective(r)
  BY <1>1, <1>2, <1>3, <1>4, <1>6 DEF IsInjective
<1>8. ToSet(r) = ToSet(s) \union {e}
  BY <1>1, <1>2, <1>3, <1>4, <1>5 DEF ToSet
<1>. QED BY <1>7, <1>8
=============================================================================
