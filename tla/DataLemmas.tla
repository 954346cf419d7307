----------------------------- MODULE DataLemmas -----------------------------
(***************************************************************************)
(* Remainders, induction over the natural numbers stated for a set instead *)
(* of a predicate, and with it what the folds of the models compute.       *)
(***************************************************************************)
EXTENDS Integers, SequencesExt, SequenceTheorems, WellFoundedInduction, TLAPS

\* A remainder lies below its modulus.
LEMMA ModuloBound ==
  ASSUME NEW a \in Int, NEW m \in Nat \ {0}
  PROVE  a % m \in 0 .. m - 1
  OBVIOUS

\* A remainder is determined by any decomposition.
LEMMA RemainderUnique ==
  ASSUME NEW m \in Nat \ {0}, NEW q \in Int, NEW p \in Int, NEW r \in Int, NEW s \in Int,
         m * q + r = m * p + s, 0 <= r, r < m, 0 <= s, s < m
  PROVE  r = s
<1>1. m * (q - p) = s - r
  OBVIOUS
<1>2. CASE q - p >= 1
  <2>1. m * (q - p) >= m
    BY <1>2
  <2>2. QED
    BY <1>1, <2>1
<1>3. CASE q - p <= -1
  <2>1. m * (q - p) <= -m
    BY <1>3
  <2>2. QED
    BY <1>1, <2>1
<1>4. CASE q - p = 0
  BY <1>1, <1>4
<1>5. QED
  BY <1>2, <1>3, <1>4

\* Counting modulo m: the successor of a remainder, back to zero at m.
LEMMA SuccessorModulo ==
  ASSUME NEW u \in Nat, NEW m \in Nat \ {0}
  PROVE  (u + 1) % m = IF (u % m) + 1 < m THEN (u % m) + 1 ELSE 0
<1> DEFINE q == u \div m
           r == u % m
           p == (u + 1) \div m
           s == (u + 1) % m
<1>1. /\ u = m * q + r /\ u + 1 = m * p + s
      /\ q \in Int /\ r \in 0 .. m - 1 /\ p \in Int /\ s \in 0 .. m - 1
  OBVIOUS
<1> HIDE DEF q, r, p, s
<1>2. CASE r + 1 < m
  <2>1. m * q + (r + 1) = m * p + s
    BY <1>1
  <2>2. r + 1 = s
    BY <1>1, <1>2, <2>1, RemainderUnique
  <2>3. QED
    BY <1>2, <2>2 DEF r, s
<1>3. CASE ~(r + 1 < m)
  <2>1. r + 1 = m /\ q + 1 \in Int /\ m * (q + 1) = m * q + m
    BY <1>1, <1>3
  <2>2. m * (q + 1) + 0 = m * p + s
    BY <1>1, <2>1
  <2>3. 0 = s
    BY <1>1, <2>1, <2>2, RemainderUnique
  <2>4. QED
    BY <1>3, <2>3 DEF r, s
<1>4. QED
  BY <1>2, <1>3

\* A number is its modulus times its quotient and its remainder.
LEMMA Division ==
  ASSUME NEW a \in Int, NEW m \in Nat \ {0}, NEW q, NEW r, q = a \div m, r = a % m
  PROVE  q \in Int /\ r \in Int /\ a = m * q + r /\ 0 <= r /\ r < m
  OBVIOUS

\* Numbers that differ by a multiple of the modulus have the same remainder.
LEMMA SameRemainder ==
  ASSUME NEW m \in Nat \ {0}, NEW a \in Int, NEW b \in Int, NEW k \in Int, a = b + m * k
  PROVE  a % m = b % m
<1> DEFINE q == a \div m
           r == a % m
           p == b \div m
           s == b % m
<1>0. q \in Int /\ r \in Int /\ a = m * q + r /\ 0 <= r /\ r < m
  BY Division
<1>1. p \in Int /\ s \in Int /\ b = m * p + s /\ 0 <= s /\ s < m
  BY Division
<1> HIDE DEF q, r, p, s
<1>2. m * (p + k) = m * p + m * k /\ p + k \in Int /\ m * p \in Int /\ m * k \in Int /\ m * q \in Int
  BY <1>0, <1>1
<1>3. m * q + r = m * (p + k) + s
  BY <1>0, <1>1, <1>2
<1>4. r = s
  BY <1>0, <1>1, <1>2, <1>3, RemainderUnique
<1>5. QED
  BY <1>4 DEF r, s

\* A number below the modulus is its own remainder.
LEMMA SmallRemainder ==
  ASSUME NEW m \in Nat \ {0}, NEW a \in Int, 0 <= a, a < m
  PROVE  a % m = a
<1> DEFINE q == a \div m
           r == a % m
<1>1. q \in Int /\ r \in Int /\ a = m * q + r /\ 0 <= r /\ r < m
  BY Division
<1> HIDE DEF q, r
<1>2. m * 0 + a = m * q + r
  BY <1>1
<1>3. a = r
  BY <1>1, <1>2, RemainderUnique
<1>4. QED
  BY <1>3 DEF r

\* Adding to a remainder.
LEMMA AddToRemainder ==
  ASSUME NEW m \in Nat \ {0}, NEW a \in Int, NEW b \in Int
  PROVE  ((a % m) + b) % m = (a + b) % m
<1> DEFINE q == a \div m
           r == a % m
<1>1. q \in Int /\ r \in Int /\ a = m * q + r
  BY Division
<1> HIDE DEF q, r
<1>2. -q \in Int /\ m * (-q) = -(m * q) /\ m * q \in Int
  BY <1>1
<1>3. r + b = (a + b) + m * (-q) /\ r + b \in Int /\ a + b \in Int
  BY <1>1, <1>2
<1>4. (r + b) % m = (a + b) % m
  BY <1>2, <1>3, SameRemainder
<1>5. QED
  BY <1>4 DEF r

\* The distance from e to a number o further on, counted modulo m.
LEMMA DistanceModulo ==
  ASSUME NEW m \in Nat \ {0}, NEW e \in Int, NEW o \in Int, 0 <= o, o < m
  PROVE  (((e + o) % m) - e) % m = o
<1> DEFINE x == (e + o) % m
<1>1. e + o \in Int /\ -e \in Int /\ x \in Int
  BY Division
<1>2. (((e + o) % m) + (-e)) % m = ((e + o) + (-e)) % m
  BY <1>1, AddToRemainder
<1>3. (e + o) + (-e) = o /\ x + (-e) = x - e
  BY <1>1
<1>4. o % m = o
  BY SmallRemainder
<1>5. QED
  BY <1>2, <1>3, <1>4

\* Going that distance leads to the number.
LEMMA DistanceLeads ==
  ASSUME NEW m \in Nat \ {0}, NEW e \in Int, NEW x \in 0 .. m - 1
  PROVE  /\ (x - e) % m \in 0 .. m - 1
         /\ x = (e + ((x - e) % m)) % m
<1> DEFINE d == (x - e) % m
<1>1. x - e \in Int /\ x \in Int /\ 0 <= x /\ x < m
  OBVIOUS
<1>2. d \in 0 .. m - 1
  BY <1>1, ModuloBound
<1>3. (((x - e) % m) + e) % m = ((x - e) + e) % m
  BY <1>1, AddToRemainder
<1>4. (x - e) + e = x /\ d + e = e + d
  BY <1>1, <1>2
<1>5. x % m = x
  BY <1>1, SmallRemainder
<1>6. QED
  BY <1>2, <1>3, <1>4, <1>5

\* Going on by a and back by b.
LEMMA ForthAndBack ==
  ASSUME NEW m \in Nat \ {0}, NEW x \in Int, NEW a \in Int, NEW b \in Int
  PROVE  (((x + a) % m) - b) % m = (x + (a - b)) % m
<1> DEFINE z == x + a
           c == -b
<1>1. z \in Int /\ c \in Int /\ z + c = x + (a - b)
  OBVIOUS
<1> HIDE DEF z, c
<1>2. ((z % m) + c) % m = (z + c) % m
  BY <1>1, AddToRemainder
<1>3. z % m \in Int
  BY <1>1, Division
<1>4. (z % m) + c = (z % m) - b
  BY <1>3 DEF c
<1>5. QED
  BY <1>1, <1>2, <1>4 DEF z

\* A quotient is below any bound the product respects.
LEMMA QuotientBound ==
  ASSUME NEW m \in Nat \ {0}, NEW n \in Nat, NEW a \in Int, 0 <= a, a < m * n
  PROVE  a \div m \in 0 .. n - 1
<1> DEFINE q == a \div m
           r == a % m
<1>1. q \in Int /\ r \in Int /\ a = m * q + r /\ 0 <= r /\ r < m
  BY Division
<1> HIDE DEF q, r
<1>2. q < n
  <2>1. SUFFICES ASSUME n <= q PROVE FALSE
    BY <1>1
  <2>2. PICK k \in Nat : q = n + k
    BY <1>1, <2>1, q - n \in Nat
  <2>3. m * q = m * n + m * k /\ m * k >= 0 /\ m * n \in Int /\ m * k \in Int
    BY <2>2
  <2>4. QED
    BY <1>1, <2>3
<1>3. 0 <= q
  <2>1. SUFFICES ASSUME q < 0 PROVE FALSE
    BY <1>1
  <2>2. PICK k \in Nat : q = -1 - k
    BY <1>1, <2>1, -1 - q \in Nat
  <2>3. m * q = -m - m * k /\ m * k >= 0 /\ m * k \in Int
    BY <2>2
  <2>4. QED
    BY <1>1, <2>3
<1>4. q \in 0 .. n - 1
  BY <1>1, <1>2, <1>3
<1>5. QED
  BY <1>4 DEF q

\* Every set of natural numbers has a least element.
LEMMA LeastNatural ==
  ASSUME NEW T, T \subseteq Nat, T # {}
  PROVE  \E x \in T : \A y \in T : x <= y
<1> DEFINE R == {ss \in Nat \X Nat : ss[1] < ss[2]}
<1>1. IsWellFoundedOn(R, Nat)
  BY NatLessThanWellFounded DEF OpToRel
<1>2. \E x \in T : \A y \in T : ~(<<y, x>> \in R)
  <2> HIDE DEF R
  <2> QED
    BY <1>1, WFMin
<1>3. \A x, y \in T : ~(<<y, x>> \in R) => x <= y
  OBVIOUS
<1>4. QED
  BY <1>2, <1>3

\* A set that holds zero, and the successor of each natural number in it, holds all.
LEMMA SetInduction ==
  ASSUME NEW T, 0 \in T, \A n \in Nat : n \in T => n + 1 \in T
  PROVE  \A n \in Nat : n \in T
<1> SUFFICES ASSUME ~(Nat \subseteq T) PROVE FALSE
  OBVIOUS
<1>1. PICK x \in Nat \ T : \A y \in Nat \ T : x <= y
  BY LeastNatural, Nat \ T \subseteq Nat, Nat \ T # {}
<1>2. x # 0 /\ x - 1 \in Nat
  BY <1>1
<1>3. x - 1 \in T
  BY <1>1, <1>2
<1>4. x \in T
  BY <1>2, <1>3
<1>5. QED
  BY <1>1, <1>4

-----------------------------------------------------------------------------
(* Sequences *)

\* A sequence is its first n elements followed by the others.
LEMMA SplitSeq ==
  ASSUME NEW S, NEW s \in Seq(S), NEW n \in 0 .. Len(s)
  PROVE  /\ SubSeq(s, 1, n) \in Seq(S) /\ Len(SubSeq(s, 1, n)) = n
         /\ SubSeq(s, n + 1, Len(s)) \in Seq(S)
         /\ Len(SubSeq(s, n + 1, Len(s))) = Len(s) - n
         /\ s = SubSeq(s, 1, n) \o SubSeq(s, n + 1, Len(s))
         /\ \A i \in 1 .. n : SubSeq(s, 1, n)[i] = s[i]
<1>1. Len(s) \in Nat
  BY LenProperties
<1>2. \A i \in 1 .. Len(s) : s[i] \in S
  BY ElementOfSeq
<1>3. /\ \A i \in 1 .. n : s[i] \in S
      /\ \A i \in n + 1 .. Len(s) : s[i] \in S
  BY <1>1, <1>2
<1>4. /\ SubSeq(s, 1, n) \in Seq(S)
      /\ Len(SubSeq(s, 1, n)) = IF 1 <= n THEN n - 1 + 1 ELSE 0
      /\ \A i \in 1 .. n - 1 + 1 : SubSeq(s, 1, n)[i] = s[1 + i - 1]
  BY <1>1, <1>3, SubSeqProperties
<1>5. /\ SubSeq(s, n + 1, Len(s)) \in Seq(S)
      /\ Len(SubSeq(s, n + 1, Len(s))) = IF n + 1 <= Len(s) THEN Len(s) - (n + 1) + 1 ELSE 0
  BY <1>1, <1>3, SubSeqProperties
<1>6. Len(SubSeq(s, 1, n)) = n /\ \A i \in 1 .. n : SubSeq(s, 1, n)[i] = s[i]
  <2>1. n - 1 + 1 = n /\ \A i \in 1 .. n : 1 + i - 1 = i
    BY <1>1
  <2>2. QED
    BY <1>1, <1>4, <2>1
<1>7. Len(SubSeq(s, n + 1, Len(s))) = Len(s) - n
  BY <1>1, <1>5
<1>8. s = SubSeq(s, 1, n) \o SubSeq(s, n + 1, Len(s))
  <2>1. SubSeq(s, 1, n) \o SubSeq(s, n + 1, Len(s)) = SubSeq(s, 1, Len(s))
    <3>1. 1 \in 1 .. Len(s) + 1 /\ n \in 1 - 1 .. Len(s) /\ Len(s) \in n .. Len(s)
      BY <1>1
    <3>2. QED
      BY <3>1, ConcatAdjacentSubSeq
  <2>2. QED
    BY <2>1, SubSeqFull
<1>9. QED
  BY <1>4, <1>5, <1>6, <1>7, <1>8

\* Concatenation, however it is grouped.
LEMMA ConcatGroups == \A S : \A a, b, c \in Seq(S) : (a \o b) \o c = a \o (b \o c)
<1> SUFFICES ASSUME NEW S, NEW a \in Seq(S), NEW b \in Seq(S), NEW c \in Seq(S)
             PROVE  (a \o b) \o c = a \o (b \o c)
  OBVIOUS
<1> QED
  BY ConcatAssociative

\* Two ways to cut the same sequence at the same place.
LEMMA SameCut ==
  ASSUME NEW S, NEW a \in Seq(S), NEW b \in Seq(S), NEW c \in Seq(S), NEW d \in Seq(S),
         a \o b = c \o d, Len(a) = Len(c)
  PROVE  a = c /\ b = d
<1>1. Len(a) \in Nat /\ Len(b) \in Nat /\ Len(d) \in Nat
  BY LenProperties
<1>2. /\ Len(a \o b) = Len(a) + Len(b) /\ Len(c \o d) = Len(c) + Len(d)
      /\ \A i \in 1 .. Len(a) + Len(b) : (a \o b)[i] = IF i <= Len(a) THEN a[i] ELSE b[i - Len(a)]
      /\ \A i \in 1 .. Len(c) + Len(d) : (c \o d)[i] = IF i <= Len(c) THEN c[i] ELSE d[i - Len(c)]
  BY ConcatProperties
<1>3. \A i \in 1 .. Len(a) : a[i] = c[i]
  BY <1>1, <1>2
<1>4. a = c
  BY <1>3, SeqEqual
<1>5. Len(b) = Len(d)
  BY <1>1, <1>2
<1>6. b = d
  BY <1>4, ConcatSimplifications
<1>7. QED
  BY <1>4, <1>6

-----------------------------------------------------------------------------
(* FlattenSeq *)

\* f[i] is the concatenation of the first i elements of ss, for i up to n.
IsFlat(f, ss, n) == f = [i \in 1 .. n |-> IF i = 1 THEN ss[i] ELSE f[i - 1] \o ss[i]]

LEMMA FlatExists == ASSUME NEW ss PROVE \A n \in Nat : \E f : IsFlat(f, ss, n)
<1> DEFINE T == {n \in Nat : \E f : IsFlat(f, ss, n)}
<1>1. 0 \in T
  <2>1. IsFlat([i \in 1 .. 0 |-> 0], ss, 0)
    BY DEF IsFlat
  <2>2. QED
    BY <2>1
<1>2. ASSUME NEW n \in Nat, n \in T PROVE n + 1 \in T
  <2>1. PICK f : IsFlat(f, ss, n)
    BY <1>2
  <2> DEFINE last == IF n + 1 = 1 THEN ss[n + 1] ELSE f[n] \o ss[n + 1]
             g == [i \in 1 .. n + 1 |-> IF i <= n THEN f[i] ELSE last]
  <2>2. \A i \in 1 .. n : f[i] = IF i = 1 THEN ss[i] ELSE f[i - 1] \o ss[i]
    BY <2>1 DEF IsFlat
  <2>3. ASSUME NEW i \in 1 .. n + 1
        PROVE  g[i] = IF i = 1 THEN ss[i] ELSE g[i - 1] \o ss[i]
    <3>1. CASE i <= n
      <4>1. g[i] = f[i] /\ i \in 1 .. n /\ (i # 1 => g[i - 1] = f[i - 1])
        BY <3>1
      <4>2. QED
        BY <2>2, <4>1
    <3>2. CASE ~(i <= n)
      <4>1. i = n + 1 /\ g[i] = last /\ (i # 1 => g[i - 1] = f[n])
        BY <3>2
      <4>2. QED
        BY <4>1
    <3>3. QED
      BY <3>1, <3>2
  <2>4. IsFlat(g, ss, n + 1)
    <3>1. g = [i \in 1 .. n + 1 |-> g[i]]
      OBVIOUS
    <3> HIDE DEF g
    <3>2. QED
      BY <2>3, <3>1 DEF IsFlat
  <2>5. QED
    BY <2>4
<1> HIDE DEF T
<1>3. \A n \in Nat : n \in T
  BY <1>1, <1>2, SetInduction
<1>4. QED
  BY <1>3 DEF T

Flat(ss) == CHOOSE f : IsFlat(f, ss, Len(ss))

LEMMA FlatEquations ==
  ASSUME NEW ss, Len(ss) \in Nat
  PROVE  /\ \A i \in 1 .. Len(ss) :
              Flat(ss)[i] = IF i = 1 THEN ss[i] ELSE Flat(ss)[i - 1] \o ss[i]
         /\ FlattenSeq(ss) = IF Len(ss) = 0 THEN ss ELSE Flat(ss)[Len(ss)]
<1>1. \E f : IsFlat(f, ss, Len(ss))
  BY FlatExists
<1>2. IsFlat(Flat(ss), ss, Len(ss))
  BY <1>1 DEF Flat
<1>3. FlattenSeq(ss) = IF Len(ss) = 0 THEN ss ELSE Flat(ss)[Len(ss)]
  BY DEF FlattenSeq, Flat, IsFlat
<1>4. QED
  BY <1>2, <1>3 DEF IsFlat

LEMMA FlatType ==
  ASSUME NEW S, NEW ss \in Seq(Seq(S))
  PROVE  /\ \A i \in 1 .. Len(ss) : Flat(ss)[i] \in Seq(S)
         /\ FlattenSeq(ss) \in Seq(S)
<1> DEFINE T == {n \in Nat : n \in 1 .. Len(ss) => Flat(ss)[n] \in Seq(S)}
<1>1. Len(ss) \in Nat /\ \A i \in 1 .. Len(ss) : ss[i] \in Seq(S)
  BY LenProperties, ElementOfSeq
<1>2. 0 \in T
  BY <1>1
<1>3. ASSUME NEW n \in Nat, n \in T PROVE n + 1 \in T
  <2> SUFFICES ASSUME n + 1 \in 1 .. Len(ss) PROVE Flat(ss)[n + 1] \in Seq(S)
    OBVIOUS
  <2>1. Flat(ss)[n + 1] = IF n = 0 THEN ss[n + 1] ELSE Flat(ss)[n] \o ss[n + 1]
    <3>1. n + 1 = 1 <=> n = 0
      OBVIOUS
    <3>2. n + 1 - 1 = n
      OBVIOUS
    <3>3. QED
      BY <1>1, <3>1, <3>2, FlatEquations
  <2>2. ss[n + 1] \in Seq(S)
    BY <1>1
  <2>3. n # 0 => Flat(ss)[n] \in Seq(S)
    BY <1>1, <1>3
  <2>4. QED
    BY <2>1, <2>2, <2>3, ConcatProperties
<1> HIDE DEF T
<1>4. \A n \in Nat : n \in T
  BY <1>2, <1>3, SetInduction
<1>5. \A i \in 1 .. Len(ss) : Flat(ss)[i] \in Seq(S)
  BY <1>1, <1>4 DEF T
<1>6. FlattenSeq(ss) \in Seq(S)
  <2>1. CASE Len(ss) = 0
    <3>1. ss = <<>>
      BY <2>1, EmptySeq
    <3>2. QED
      BY <1>1, <2>1, <3>1, FlatEquations, EmptySeq
  <2>2. CASE Len(ss) # 0
    BY <1>1, <1>5, <2>2, FlatEquations
  <2>3. QED
    BY <2>1, <2>2
<1>7. QED
  BY <1>5, <1>6

LEMMA FlattenEmpty == FlattenSeq(<<>>) = <<>>
  BY DEF FlattenSeq

\* The two cases of its recursion.
LEMMA FlatFirst ==
  ASSUME NEW ss, Len(ss) \in Nat, Len(ss) # 0
  PROVE  Flat(ss)[1] = ss[1]
<1>1. 1 \in 1 .. Len(ss)
  OBVIOUS
<1>2. QED
  BY <1>1, FlatEquations

LEMMA FlatNext ==
  ASSUME NEW ss, Len(ss) \in Nat, NEW i \in Nat, i # 0, NEW j, j = i + 1, j <= Len(ss)
  PROVE  Flat(ss)[j] = Flat(ss)[i] \o ss[j]
<1>1. j \in 1 .. Len(ss) /\ j # 1 /\ j - 1 = i
  OBVIOUS
<1>2. Flat(ss)[j] = IF j = 1 THEN ss[j] ELSE Flat(ss)[j - 1] \o ss[j]
  BY <1>1, FlatEquations
<1>3. QED
  BY <1>1, <1>2

\* Flattening an appended sequence appends its elements.
LEMMA FlattenAppend ==
  ASSUME NEW S, NEW ss \in Seq(Seq(S)), NEW p \in Seq(S)
  PROVE  FlattenSeq(Append(ss, p)) = FlattenSeq(ss) \o p
<1> DEFINE tt == Append(ss, p)
           n == Len(ss)
           T == {i \in Nat : i \in 1 .. n => Flat(tt)[i] = Flat(ss)[i]}
<1>1. /\ n \in Nat /\ tt \in Seq(Seq(S)) /\ Len(tt) = n + 1
      /\ \A i \in 1 .. n : tt[i] = ss[i]
      /\ tt[n + 1] = p
  BY LenProperties, AppendProperties
<1> HIDE DEF tt
<1>2. FlattenSeq(ss) = IF n = 0 THEN ss ELSE Flat(ss)[n]
  BY <1>1, FlatEquations
<1>3. FlattenSeq(tt) = Flat(tt)[n + 1]
  <2>1. Len(tt) \in Nat /\ Len(tt) # 0
    BY <1>1
  <2>2. FlattenSeq(tt) = Flat(tt)[Len(tt)]
    BY <2>1, FlatEquations
  <2>3. QED
    BY <1>1, <2>2
<1>4. 0 \in T
  OBVIOUS
<1>5. ASSUME NEW i \in Nat, i \in T PROVE i + 1 \in T
  <2> SUFFICES ASSUME NEW j, j = i + 1, j \in 1 .. n PROVE Flat(tt)[j] = Flat(ss)[j]
    OBVIOUS
  <2>1. Len(tt) \in Nat /\ Len(tt) # 0 /\ Len(ss) \in Nat /\ Len(ss) # 0 /\ tt[j] = ss[j]
    BY <1>1
  <2>2. CASE i = 0
    <3>1. Flat(tt)[1] = tt[1] /\ Flat(ss)[1] = ss[1]
      BY <2>1, FlatFirst
    <3>2. QED
      BY <2>1, <2>2, <3>1
  <2>3. CASE i # 0
    <3>1. i \in 1 .. n /\ j <= Len(ss) /\ j <= Len(tt)
      BY <1>1, <2>3
    <3>2. Flat(tt)[j] = Flat(tt)[i] \o tt[j]
      BY <2>1, <2>3, <3>1, FlatNext
    <3>3. Flat(ss)[j] = Flat(ss)[i] \o ss[j]
      BY <2>1, <2>3, <3>1, FlatNext
    <3>4. Flat(tt)[i] = Flat(ss)[i]
      BY <1>5, <3>1
    <3>5. QED
      BY <2>1, <3>2, <3>3, <3>4
  <2>4. QED
    BY <2>2, <2>3
<1> HIDE DEF T
<1>6. \A i \in Nat : i \in T
  BY <1>4, <1>5, SetInduction
<1>7. CASE n = 0
  <2>1. ss = <<>>
    BY <1>7, EmptySeq
  <2>2. Flat(tt)[1] = tt[1]
    <3>1. Len(tt) \in Nat /\ Len(tt) # 0
      BY <1>1
    <3>2. QED
      BY <3>1, FlatFirst
  <2>3. n + 1 = 1
    BY <1>7
  <2>4. FlattenSeq(tt) = p /\ FlattenSeq(ss) = <<>>
    BY <1>1, <1>2, <1>3, <1>7, <2>1, <2>2, <2>3
  <2>5. <<>> \o p = p
    BY ConcatEmptySeq
  <2>6. QED
    BY <2>4, <2>5 DEF tt
<1>8. CASE n # 0
  <2>1. n \in 1 .. n /\ n + 1 <= Len(tt) /\ Len(tt) \in Nat
    BY <1>1, <1>8
  <2>2. Flat(tt)[n] = Flat(ss)[n]
    BY <1>1, <1>6, <2>1 DEF T
  <2>3. Flat(tt)[n + 1] = Flat(tt)[n] \o tt[n + 1]
    <3> HIDE DEF n
    <3>1. \A j : j = n + 1 /\ j <= Len(tt) => Flat(tt)[j] = Flat(tt)[n] \o tt[j]
      BY <1>1, <1>8, <2>1, FlatNext
    <3>2. QED
      BY <2>1, <3>1
  <2>4. QED
    BY <1>1, <1>2, <1>3, <1>8, <2>2, <2>3 DEF tt
<1>9. QED
  BY <1>7, <1>8

\* Flattening puts the first element first.
LEMMA FlattenHead ==
  ASSUME NEW S, NEW ss \in Seq(Seq(S)), ss # <<>>
  PROVE  FlattenSeq(ss) = Head(ss) \o FlattenSeq(Tail(ss))
<1>0. \A a, b, c \in Seq(S) : (a \o b) \o c = a \o (b \o c)
  BY ConcatGroups, SMTT(60)
<1> DEFINE tt == Tail(ss)
           n == Len(tt)
           h == ss[1]
           T == {i \in Nat : \A j : j = i + 1 /\ i \in 1 .. n => Flat(ss)[j] = h \o Flat(tt)[i]}
<1>1. /\ n \in Nat /\ tt \in Seq(Seq(S)) /\ Len(ss) = n + 1
      /\ \A i \in 1 .. n : tt[i] = ss[i + 1]
  BY LenProperties, HeadTailProperties
<1>2. Head(ss) = h /\ h \in Seq(S) /\ \A i \in 1 .. n : tt[i] \in Seq(S)
  <2>1. 1 \in 1 .. Len(ss)
    BY <1>1
  <2>2. Head(ss) = ss[1]
    BY HeadTailProperties
  <2> HIDE DEF tt
  <2>3. QED
    BY <1>1, <2>1, <2>2, ElementOfSeq
<1>3. \A i \in 1 .. n : Flat(tt)[i] \in Seq(S)
  BY <1>1, FlatType
<1> HIDE DEF tt
<1>4. FlattenSeq(ss) = Flat(ss)[n + 1] /\ Flat(ss)[1] = h
  <2>1. Len(ss) \in Nat /\ Len(ss) # 0
    BY <1>1
  <2>2. FlattenSeq(ss) = Flat(ss)[Len(ss)] /\ Flat(ss)[1] = ss[1]
    BY <2>1, FlatEquations, FlatFirst
  <2>3. QED
    BY <1>1, <2>2
<1>5. FlattenSeq(tt) = IF n = 0 THEN tt ELSE Flat(tt)[n]
  BY <1>1, FlatEquations
<1>6. 0 \in T
  OBVIOUS
<1>7. ASSUME NEW i \in Nat, i \in T PROVE i + 1 \in T
  <2> SUFFICES ASSUME NEW j, j = i + 1, NEW k, k = j + 1, j \in 1 .. n
               PROVE  Flat(ss)[k] = h \o Flat(tt)[j]
    <3>1. i + 1 \in Nat
      OBVIOUS
    <3>2. ASSUME NEW k, k = i + 1 + 1, i + 1 \in 1 .. n PROVE Flat(ss)[k] = h \o Flat(tt)[i + 1]
      BY <3>1, <3>2
    <3>3. QED
      BY <3>1, <3>2, Zenon
  <2>1. /\ j \in Nat /\ j # 0 /\ k <= Len(ss) /\ j <= Len(tt)
        /\ Len(ss) \in Nat /\ Len(tt) \in Nat /\ Len(tt) # 0
        /\ tt[j] = ss[k]
    BY <1>1
  <2>2. Flat(ss)[k] = Flat(ss)[j] \o tt[j]
    <3>1. Flat(ss)[k] = Flat(ss)[j] \o ss[k]
      BY <2>1, FlatNext
    <3>2. QED
      BY <2>1, <3>1
  <2>3. CASE i = 0
    <3>1. j = 1
      BY <2>3
    <3>2. Flat(tt)[1] = tt[1]
      BY <2>1, FlatFirst
    <3>3. QED
      BY <1>4, <2>2, <3>1, <3>2
  <2>4. CASE i # 0
    <3>1. i \in 1 .. n
      BY <1>1, <2>4
    <3>2. Flat(ss)[j] = h \o Flat(tt)[i]
      BY <1>7, <3>1
    <3>3. Flat(tt)[j] = Flat(tt)[i] \o tt[j]
      BY <2>1, <2>4, FlatNext
    <3>4. h \in Seq(S) /\ Flat(tt)[i] \in Seq(S) /\ tt[j] \in Seq(S)
      BY <1>2, <1>3, <3>1
    <3>5. (h \o Flat(tt)[i]) \o tt[j] = h \o (Flat(tt)[i] \o tt[j])
      BY <1>0, <3>4, Zenon
    <3>6. QED
      BY <2>2, <3>2, <3>3, <3>5, Zenon
  <2>5. QED
    BY <2>3, <2>4
<1> HIDE DEF T
<1>8. \A i \in Nat : i \in T
  BY <1>6, <1>7, SetInduction
<1>9. CASE n = 0
  <2>1. tt = <<>>
    BY <1>1, <1>9, EmptySeq
  <2>2. FlattenSeq(ss) = h
    BY <1>4, <1>9
  <2>3. h \o <<>> = h
    BY <1>2, ConcatEmptySeq
  <2>4. QED
    BY <1>2, <1>5, <1>9, <2>1, <2>2, <2>3 DEF tt
<1>10. CASE n # 0
  <2>1. n \in 1 .. n
    BY <1>1, <1>10
  <2>2. Flat(ss)[n + 1] = h \o Flat(tt)[n]
    BY <1>1, <1>8, <2>1 DEF T
  <2>3. QED
    BY <1>2, <1>4, <1>5, <1>10, <2>2 DEF tt
<1>11. QED
  BY <1>9, <1>10
=============================================================================
