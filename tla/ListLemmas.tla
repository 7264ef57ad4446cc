----------------------------- MODULE ListLemmas -----------------------------
(****************************************************************************)
(* What the proofs of several modules rest on: facts about natural numbers  *)
(* and remainders, about sequences, about walks along links, and about the  *)
(* free lists of FreeList.  A free list is described by the depth of its    *)
(* places: how many places are left from there to the end.                  *)
(****************************************************************************)
EXTENDS FreeList, FiniteSetTheorems, SequenceTheorems, WellFoundedInduction, TLAPS

-----------------------------------------------------------------------------
(* Natural numbers *)

NatLess == {p \in Nat \X Nat : p[1] < p[2]}

\* the order of the natural numbers is well founded
LEMMA NatLessWellFounded == IsWellFoundedOn(NatLess, Nat)
<1>1. NatLess = OpToRel(<, Nat)
  BY DEF NatLess, OpToRel
<1>2. QED BY <1>1, NatLessThanWellFounded, Zenon

\* a non-empty set of natural numbers has a smallest element
LEMMA SmallestElement ==
  ASSUME NEW S \in SUBSET Nat, S # {}
  PROVE  \E m \in S : \A n \in S : m <= n
<1>1. \A T \in SUBSET Nat :
        T # {} => \E x \in T : \A y \in T : ~(<<y, x>> \in NatLess)
  BY NatLessWellFounded, WFMin
<1>2. PICK x \in S : \A y \in S : ~(<<y, x>> \in NatLess)
  BY <1>1
<1>3. \A y \in S : y < x => <<y, x>> \in NatLess
  BY DEF NatLess
<1>4. \A y \in S : ~(y < x)
  BY <1>2, <1>3, Zenon
<1>5. x \in Nat /\ S \subseteq Nat
  OBVIOUS
<1>6. \A y \in S : x <= y
  BY <1>4, <1>5, SMT
<1>7. QED BY <1>6

\* a set of indices below n without a hole is an interval from 0, as long as
\* its cardinality
LEMMA NoHoles ==
  ASSUME NEW n \in Nat, NEW S \in SUBSET (0 .. n - 1),
         \A f \in (0 .. n - 1) \ S, b \in S : b < f
  PROVE  /\ Cardinality(S) \in 0 .. n
         /\ S = 0 .. Cardinality(S) - 1
<1>1. \E k \in 0 .. n : S = 0 .. k - 1
  <2>1. CASE (0 .. n - 1) \ S = {}
    <3>1. S = 0 .. n - 1
      BY <2>1
    <3>2. QED BY <3>1
  <2>2. CASE (0 .. n - 1) \ S # {}
    <3>1. (0 .. n - 1) \ S \in SUBSET Nat
      OBVIOUS
    <3>2. PICK m \in (0 .. n - 1) \ S : \A f \in (0 .. n - 1) \ S : m <= f
      BY <2>2, <3>1, SmallestElement
    <3>3. \A b \in S : b \in 0 .. m - 1
      BY <3>2
    <3>4. \A b \in 0 .. m - 1 : b \in S
      BY <3>2
    <3>5. S = 0 .. m - 1
      BY <3>3, <3>4, Zenon
    <3>6. QED BY <3>5
  <2>3. QED BY <2>1, <2>2
<1>2. PICK k \in 0 .. n : S = 0 .. k - 1
  BY <1>1
<1>3. Cardinality(0 .. k - 1) = k
  BY FS_Interval
<1>4. QED BY <1>2, <1>3

\* the remainder of a number that is at most one n away
LEMMA ModNear ==
  ASSUME NEW n \in Nat \ {0}
  PROVE  /\ \A a \in 0 .. n - 1 : a % n = a
         /\ \A a \in n .. 2 * n - 1 : a % n = a - n
         /\ \A a \in -n .. -1 : a % n = a + n
<1>1. \A a \in 0 .. n - 1 : a % n = a
  OBVIOUS
<1>2. \A a \in n .. 2 * n - 1 : a % n = a - n
  OBVIOUS
<1>3. \A a \in -n .. -1 : a % n = a + n
  OBVIOUS
<1> QED BY <1>1, <1>2, <1>3

\* adding an offset and taking it off again
LEMMA ModOffset ==
  ASSUME NEW n \in Nat \ {0}, NEW o \in 0 .. n - 1, NEW s \in 0 .. n - 1
  PROVE  /\ (s + o) % n \in 0 .. n - 1
         /\ (((s + o) % n) - o) % n = s
<1>1. CASE s + o < n
  <2>0. s + o \in 0 .. n - 1
    BY <1>1
  <2>1. (s + o) % n = s + o
    BY <2>0, ModNear
  <2>2. s % n = s
    BY ModNear
  <2> QED BY <1>1, <2>1, <2>2
<1>2. CASE s + o >= n
  <2>1. (s + o) % n = s + o - n
    BY <1>2, ModNear
  <2>2. ((s + o) % n) - o = s - n /\ s - n \in -n .. -1
    BY <2>1
  <2>3. (s - n) % n = s
    BY <2>2, ModNear
  <2> QED BY <1>2, <2>1, <2>2, <2>3
<1> QED BY <1>1, <1>2

\* different multiples of n are n apart
LEMMA MultiplesApart ==
  ASSUME NEW n \in Nat \ {0}, NEW p \in Int, NEW q \in Int, p < q
  PROVE  n * p + n <= n * q
<1>1. q - p - 1 \in Nat /\ n \in Nat
  OBVIOUS
<1>2. n * (q - p - 1) \in Nat
  BY <1>1
<1> QED BY <1>2

\* the remainder is the only number below n that a multiple of n leaves
LEMMA Remainder ==
  ASSUME NEW n \in Nat \ {0}, NEW q \in Int, NEW r \in 0 .. n - 1
  PROVE  (n * q + r) % n = r
<1> DEFINE x == n * q + r
           p == x \div n
           s == x % n
<1>1. x \in Int
  OBVIOUS
<1>2. p \in Int /\ s \in 0 .. n - 1 /\ x = n * p + s
  <2> HIDE DEF x
  <2> QED BY <1>1
<1> HIDE DEF p, s
<1>3. CASE p < q
  <2>1. n * p + n <= n * q
    BY <1>2, <1>3, MultiplesApart
  <2> QED BY <1>2, <2>1
<1>4. CASE q < p
  <2>1. n * q + n <= n * p
    BY <1>2, <1>4, MultiplesApart
  <2> QED BY <1>2, <2>1
<1>5. CASE p = q
  BY <1>2, <1>5 DEF s
<1> QED BY <1>2, <1>3, <1>4, <1>5

\* multiples of n do not count modulo n
LEMMA ModPeriod ==
  ASSUME NEW n \in Nat \ {0}, NEW q \in Int, NEW b \in Nat
  PROVE  (n * q + b) % n = b % n
<1> DEFINE p == b \div n
           r == b % n
<1>1. p \in Int /\ r \in 0 .. n - 1 /\ b = n * p + r
  OBVIOUS
<1> HIDE DEF p
<1>2. n * q + b = n * (q + p) + r /\ q + p \in Int
  BY <1>1
<1> HIDE DEF r
<1>3. (n * (q + p) + r) % n = r
  BY <1>1, <1>2, Remainder
<1>4. QED BY <1>2, <1>3 DEF r

\* what is added to a remainder
LEMMA ModAdd ==
  ASSUME NEW n \in Nat \ {0}, NEW a \in Nat, NEW e \in Nat
  PROVE  ((a % n) + e) % n = (a + e) % n
<1> DEFINE q == a \div n
           r == a % n
<1>1. q \in Int /\ r \in 0 .. n - 1 /\ a = n * q + r
  OBVIOUS
<1> HIDE DEF q, r
<1>2. r + e \in Nat /\ a + e = n * q + (r + e)
  BY <1>1
<1>3. (n * q + (r + e)) % n = (r + e) % n
  BY <1>1, <1>2, ModPeriod
<1> QED BY <1>2, <1>3 DEF r

\* every number below n is a remainder some way on from h
LEMMA ModReaches ==
  ASSUME NEW n \in Nat, NEW h \in Nat, NEW s \in 0 .. n - 1
  PROVE  \E d \in 0 .. n - 1 : s = (h + d) % n
<1> DEFINE q == h \div n
           o == h % n
<1>1. n \in Nat \ {0} /\ s \in Nat
  OBVIOUS
<1>2. q \in Int /\ o \in 0 .. n - 1 /\ h = n * q + o
  BY <1>1
<1> HIDE DEF q, o
<1>3. CASE o <= s
  <2>1. s - o \in 0 .. n - 1 /\ h + (s - o) = n * q + s
    BY <1>1, <1>2, <1>3
  <2>2. (n * q + s) % n = s
    BY <1>1, <1>2, Remainder
  <2> QED BY <2>1, <2>2
<1>4. CASE s < o
  <2>1. (s - o) + n \in 0 .. n - 1
    BY <1>1, <1>2, <1>4
  <2>2. h + ((s - o) + n) = n * (q + 1) + s /\ q + 1 \in Int
    BY <1>1, <1>2
  <2>3. (n * (q + 1) + s) % n = s
    BY <1>1, <2>2, Remainder
  <2> QED BY <2>1, <2>2, <2>3
<1> QED BY <1>1, <1>2, <1>3, <1>4

\* counting modulo n
LEMMA ModSucc ==
  ASSUME NEW n \in Nat \ {0}, NEW x \in Nat
  PROVE  ((x % n) + 1) % n = (x + 1) % n
<1> DEFINE q == x \div n
           r == x % n
<1>1. q \in Int /\ r \in 0 .. n - 1 /\ x = n * q + r
  OBVIOUS
<1> HIDE DEF q, r
<1>2. CASE r + 1 < n
  <2>1. r + 1 \in 0 .. n - 1 /\ x + 1 = n * q + (r + 1)
    BY <1>1, <1>2
  <2>2. (x + 1) % n = r + 1
    BY <1>1, <2>1, Remainder
  <2>3. (r + 1) % n = r + 1
    BY <2>1, ModNear
  <2> QED BY <2>2, <2>3 DEF r
<1>3. CASE r + 1 = n
  <2>1. 0 \in 0 .. n - 1 /\ q + 1 \in Int
    BY <1>1
  <2>2. (n * (q + 1) + 0) % n = 0
    BY <2>1, Remainder
  <2>3. x + 1 = n * (q + 1) + 0
    BY <1>1, <1>3
  <2>4. n % n = 0
    BY ModNear
  <2> QED BY <1>3, <2>2, <2>3, <2>4 DEF r
<1> QED BY <1>1, <1>2, <1>3

\* numbers less than n apart have different remainders
LEMMA SameRemainder ==
  ASSUME NEW n \in Nat \ {0}, NEW x \in Nat, NEW y \in Nat,
         x % n = y % n, y <= x, x - y < n
  PROVE  x = y
<1> DEFINE p == x \div n
           q == y \div n
           r == x % n
<1>1. /\ p \in Int /\ q \in Int /\ r \in 0 .. n - 1
      /\ x = n * p + r /\ y = n * q + r
  OBVIOUS
<1> HIDE DEF p, q, r
<1>2. CASE p < q
  BY <1>1, <1>2, MultiplesApart
<1>3. CASE q < p
  BY <1>1, <1>3, MultiplesApart
<1> QED BY <1>1, <1>2, <1>3

-----------------------------------------------------------------------------
(* Free lists *)

\* depth counts down from n at the first place to 1 at the last one
Depths(depth, first, link, none, places, n) ==
  /\ depth \in [places -> 1 .. n]
  /\ \A i, j \in places : depth[i] = depth[j] => i = j
  /\ n = 0 => first = none
  /\ n > 0 => first \in places /\ depth[first] = n
  /\ \A i \in places :
       IF depth[i] = 1 THEN link[i] = none
       ELSE link[i] \in places /\ depth[link[i]] = depth[i] - 1

\* the list goes through n places, and they are all the places
IsLinked(first, link, none, places, n) ==
  /\ n \in Nat
  /\ none \notin places
  /\ \E depth : Depths(depth, first, link, none, places, n)

\* a list without places
LEMMA LinkedNothing ==
  ASSUME NEW none, NEW link
  PROVE  IsLinked(none, link, none, {}, 0)
<1> DEFINE depth == [i \in {} |-> 0]
<1>1. Depths(depth, none, link, none, {}, 0)
  BY DEF Depths
<1> QED BY <1>1 DEF IsLinked

\* the first place of a list is one of its places, unless the list is empty
LEMMA LinkedFirst ==
  ASSUME NEW first, NEW link, NEW none, NEW places, NEW n,
         IsLinked(first, link, none, places, n)
  PROVE  /\ n > 0 => first \in places
         /\ first \in places => n > 0
         /\ first \notin places => first = none
<1>1. PICK depth : Depths(depth, first, link, none, places, n)
  BY DEF IsLinked
<1>2. n \in Nat
  BY DEF IsLinked
<1>3. none \notin places
  BY DEF IsLinked
<1>4. n = 0 \/ n > 0
  BY <1>2
<1>5. n > 0 => first \in places
  BY <1>1 DEF Depths
<1>6. n = 0 => first = none
  BY <1>1 DEF Depths
<1> QED BY <1>3, <1>4, <1>5, <1>6

\* taking the first place of a list: the list goes on after it
LEMMA LinkedTake ==
  ASSUME NEW first, NEW link, NEW none, NEW places, NEW n,
         IsLinked(first, link, none, places, n), n > 0,
         NEW link2, \A i \in places \ {first} : link2[i] = link[i],
         NEW rest, rest = places \ {first}, NEW m, m = n - 1
  PROVE  IsLinked(link[first], link2, none, rest, m)
<1>1. PICK depth : Depths(depth, first, link, none, places, n)
  BY DEF IsLinked
<1>2. n \in Nat /\ none \notin places
  BY DEF IsLinked
<1>3. first \in places /\ depth[first] = n
  BY <1>1 DEF Depths
<1> DEFINE d == [i \in rest |-> depth[i]]
<1>4. \A i \in rest : depth[i] \in 1 .. n - 1
  <2> TAKE i \in rest
  <2>1. depth[i] \in 1 .. n /\ depth[i] # n
    BY <1>1, <1>3 DEF Depths
  <2> QED BY <2>1, <1>2
<1>5. d \in [rest -> 1 .. n - 1]
  BY <1>4
<1>6. \A i, j \in rest : d[i] = d[j] => i = j
  BY <1>1 DEF Depths
<1>7. \A i \in rest : IF d[i] = 1 THEN link2[i] = none
                      ELSE link2[i] \in rest /\ d[link2[i]] = d[i] - 1
  <2> TAKE i \in rest
  <2>1. CASE depth[i] = 1
    BY <2>1, <1>1 DEF Depths
  <2>2. CASE depth[i] # 1
    <3>1. link[i] \in places /\ depth[link[i]] = depth[i] - 1
      BY <2>2, <1>1 DEF Depths
    <3>2. link[i] # first
      BY <3>1, <1>3, <1>4, <1>2
    <3> QED BY <2>2, <3>1, <3>2
  <2> QED BY <2>1, <2>2
<1>8. n - 1 = 0 => link[first] = none
  BY <1>1, <1>2, <1>3 DEF Depths
<1>9. n - 1 > 0 => link[first] \in rest /\ d[link[first]] = n - 1
  <2> SUFFICES ASSUME n - 1 > 0 PROVE link[first] \in rest /\ d[link[first]] = n - 1
    OBVIOUS
  <2>1. depth[first] # 1
    BY <1>2, <1>3
  <2>2. link[first] \in places /\ depth[link[first]] = n - 1
    BY <2>1, <1>1, <1>3 DEF Depths
  <2>3. link[first] # first
    BY <2>2, <1>2, <1>3
  <2> QED BY <2>2, <2>3
<1>10. Depths(d, link[first], link2, none, rest, m)
  BY <1>5, <1>6, <1>7, <1>8, <1>9 DEF Depths
<1> QED BY <1>10, <1>2 DEF IsLinked

\* a place that is given back comes before the first one
LEMMA LinkedGive ==
  ASSUME NEW first, NEW link, NEW none, NEW places, NEW n,
         IsLinked(first, link, none, places, n),
         NEW p, p \notin places, p # none,
         NEW link2, \A i \in places : link2[i] = link[i], link2[p] = first,
         NEW all, all = places \cup {p}, NEW m, m = n + 1
  PROVE  IsLinked(p, link2, none, all, m)
<1>1. PICK depth : Depths(depth, first, link, none, places, n)
  BY DEF IsLinked
<1>2. n \in Nat /\ none \notin places
  BY DEF IsLinked
<1> DEFINE d == [i \in all |-> IF i = p THEN n + 1 ELSE depth[i]]
<1>3. \A i \in places : i # p /\ depth[i] \in 1 .. n /\ d[i] = depth[i]
  BY <1>1 DEF Depths
<1>4. d[p] = n + 1
  OBVIOUS
<1>5. d \in [all -> 1 .. n + 1]
  BY <1>2, <1>3
<1>6. \A i, j \in all : d[i] = d[j] => i = j
  <2> SUFFICES ASSUME NEW i \in all, NEW j \in all, d[i] = d[j] PROVE i = j
    OBVIOUS
  <2>1. CASE i \in places /\ j \in places
    BY <2>1, <1>1, <1>3 DEF Depths
  <2>2. CASE i = p \/ j = p
    BY <2>2, <1>2, <1>3, <1>4
  <2> QED BY <2>1, <2>2
<1>7. \A i \in all : IF d[i] = 1 THEN link2[i] = none
                     ELSE link2[i] \in all /\ d[link2[i]] = d[i] - 1
  <2> TAKE i \in all
  <2>1. CASE i = p
    <3>1. CASE n = 0
      BY <2>1, <3>1, <1>1, <1>4 DEF Depths
    <3>2. CASE n > 0
      <4>1. first \in places /\ depth[first] = n
        BY <3>2, <1>1 DEF Depths
      <4>2. d[first] = n /\ first \in all
        BY <4>1, <1>3
      <4> QED BY <2>1, <3>2, <4>2, <1>2, <1>4
    <3> QED BY <3>1, <3>2, <1>2
  <2>2. CASE i \in places /\ depth[i] = 1
    BY <2>2, <1>1, <1>3 DEF Depths
  <2>3. CASE i \in places /\ depth[i] # 1
    <3>1. link[i] \in places /\ depth[link[i]] = depth[i] - 1
      BY <2>3, <1>1 DEF Depths
    <3>2. d[link[i]] = depth[link[i]] /\ d[i] = depth[i] /\ link2[i] = link[i]
      BY <3>1, <2>3, <1>3
    <3> QED BY <3>1, <3>2, <2>3
  <2> QED BY <2>1, <2>2, <2>3
<1>8. p \in all /\ ~(m = 0)
  BY <1>2
<1>9. Depths(d, p, link2, none, all, m)
  <2> HIDE DEF d
  <2> QED BY <1>4, <1>5, <1>6, <1>7, <1>8 DEF Depths
<1> QED BY <1>9, <1>2 DEF IsLinked

\* the new places from a to b link the next one, and the last one the old list
RangeBefore(first, link, none, places, a, b, link2) ==
  /\ a \in Int /\ b \in Int /\ a <= b
  /\ \A i \in a .. b : i \notin places /\ i # none
  /\ \A i \in places : link2[i] = link[i]
  /\ \A i \in a .. b : link2[i] = IF i = b THEN first ELSE i + 1

\* then the list begins with the new places
LEMMA LinkedRange ==
  ASSUME NEW first, NEW link, NEW none, NEW places, NEW n,
         IsLinked(first, link, none, places, n),
         NEW a, NEW b, NEW link2,
         RangeBefore(first, link, none, places, a, b, link2),
         NEW all, all = places \cup a .. b, NEW m, m = n + (b - a + 1)
  PROVE  IsLinked(a, link2, none, all, m)
<1> USE DEF RangeBefore
<1>1. PICK depth : Depths(depth, first, link, none, places, n)
  BY DEF IsLinked
<1>2. n \in Nat /\ none \notin places
  BY DEF IsLinked
<1> DEFINE d == [i \in all |-> IF i \in a .. b THEN n + (b - i + 1) ELSE depth[i]]
<1>3. \A i \in places : i \notin a .. b /\ depth[i] \in 1 .. n /\ d[i] = depth[i]
  BY <1>1 DEF Depths
<1>4. \A i \in a .. b : i \in all /\ d[i] = n + (b - i + 1)
  OBVIOUS
<1>5. \A i \in a .. b : d[i] \in n + 1 .. m
  BY <1>2, <1>4
<1>6. d \in [all -> 1 .. m]
  <2>1. \A i \in all : d[i] \in 1 .. m
    BY <1>2, <1>3, <1>5
  <2> QED BY <2>1
<1>7. \A i, j \in all : d[i] = d[j] => i = j
  <2> SUFFICES ASSUME NEW i \in all, NEW j \in all, d[i] = d[j] PROVE i = j
    OBVIOUS
  <2>1. CASE i \in places /\ j \in places
    BY <2>1, <1>1, <1>3 DEF Depths
  <2>2. CASE i \in a .. b /\ j \in a .. b
    <3>1. n + (b - i + 1) = n + (b - j + 1)
      BY <2>2, <1>4
    <3> QED BY <3>1, <2>2, <1>2
  <2>3. CASE i \in places /\ j \in a .. b
    <3>1. d[i] \in 1 .. n /\ d[j] \in n + 1 .. m
      BY <2>3, <1>3, <1>5
    <3> QED BY <3>1, <1>2
  <2>4. CASE j \in places /\ i \in a .. b
    <3>1. d[j] \in 1 .. n /\ d[i] \in n + 1 .. m
      BY <2>4, <1>3, <1>5
    <3> QED BY <3>1, <1>2
  <2> QED BY <2>1, <2>2, <2>3, <2>4
<1>8. \A i \in all : IF d[i] = 1 THEN link2[i] = none
                     ELSE link2[i] \in all /\ d[link2[i]] = d[i] - 1
  <2> TAKE i \in all
  <2>1. CASE i = b
    <3>0. d[i] = n + 1 /\ link2[i] = first
      BY <2>1, <1>4, <1>2
    <3>1. CASE n = 0
      BY <3>0, <3>1, <1>1 DEF Depths
    <3>2. CASE n > 0
      <4>1. first \in places /\ depth[first] = n
        BY <3>2, <1>1 DEF Depths
      <4>2. d[first] = n /\ first \in all
        BY <4>1, <1>3
      <4> QED BY <3>0, <3>2, <4>2, <1>2
    <3> QED BY <3>1, <3>2, <1>2
  <2>2. CASE i \in a .. b /\ i # b
    <3>1. i + 1 \in a .. b /\ link2[i] = i + 1
      BY <2>2
    <3>2. d[i] = n + (b - i + 1) /\ d[i + 1] = n + (b - (i + 1) + 1)
      BY <2>2, <3>1, <1>4
    <3>3. d[i] # 1 /\ d[i + 1] = d[i] - 1
      BY <3>1, <3>2, <2>2, <1>2
    <3> QED BY <3>1, <3>3, <1>4
  <2>3. CASE i \in places /\ depth[i] = 1
    BY <2>3, <1>1, <1>3 DEF Depths
  <2>4. CASE i \in places /\ depth[i] # 1
    <3>1. link[i] \in places /\ depth[link[i]] = depth[i] - 1
      BY <2>4, <1>1 DEF Depths
    <3>2. d[link[i]] = depth[link[i]] /\ d[i] = depth[i] /\ link2[i] = link[i]
      BY <3>1, <2>4, <1>3
    <3> QED BY <3>1, <3>2, <2>4
  <2> QED BY <2>1, <2>2, <2>3, <2>4
<1>9. a \in all /\ d[a] = m
  BY <1>4
<1>10. m > 0 /\ m \in Nat
  BY <1>2
<1>11. ~(m = 0)
  BY <1>10
<1>12. Depths(d, a, link2, none, all, m)
  <2> HIDE DEF d
  <2> QED BY <1>6, <1>7, <1>8, <1>9, <1>11 DEF Depths
<1> QED BY <1>12, <1>10, <1>2 DEF IsLinked

-----------------------------------------------------------------------------
(* A linked list is what FreeList says it is *)

\* every depth from 1 to n is that of a place
LEMMA DepthsReached ==
  ASSUME NEW depth, NEW first, NEW link, NEW none, NEW places, NEW n \in Nat,
         Depths(depth, first, link, none, places, n), NEW k \in 0 .. n - 1
  PROVE  \E i \in places : depth[i] = n - k
<1> DEFINE Unreached == {j \in 0 .. n - 1 : \A i \in places : depth[i] # n - j}
<1> SUFFICES ASSUME k \in Unreached PROVE FALSE
  OBVIOUS
<1>1. PICK l \in Unreached : \A j \in Unreached : l <= j
  <2>1. Unreached \in SUBSET Nat /\ Unreached # {}
    OBVIOUS
  <2> HIDE DEF Unreached
  <2>2. QED BY <2>1, SmallestElement
<1>2. CASE l = 0
  <2>1. first \in places /\ depth[first] = n
    BY <1>2 DEF Depths
  <2>2. QED BY <1>2, <2>1
<1>3. CASE l # 0
  <2>1. l - 1 \in 0 .. n - 1 /\ ~(l <= l - 1)
    BY <1>3
  <2>2. PICK i \in places : depth[i] = n - (l - 1)
    BY <1>1, <2>1
  <2>3. depth[i] # 1
    BY <1>3, <2>2
  <2>4. link[i] \in places /\ depth[link[i]] = depth[i] - 1
    BY <2>3 DEF Depths
  <2>5. depth[link[i]] = n - l
    BY <2>2, <2>4
  <2>6. QED BY <2>4, <2>5
<1>4. QED BY <1>2, <1>3

\* what comes behind a place
After(p, link, none) == IF p \in DOMAIN link THEN link[p] ELSE none

\* p is the list from its first place on
Follows(p, first, link, none, last) ==
  p = [k \in 0 .. last |-> IF k = 0 THEN first ELSE After(p[k - 1], link, none)]

\* the list goes through the places by their depth
LEMMA FollowsPlaces ==
  ASSUME NEW depth, NEW first, NEW link, NEW none, NEW places, NEW n \in Nat,
         Depths(depth, first, link, none, places, n), places \subseteq DOMAIN link,
         NEW p, Follows(p, first, link, none, n)
  PROVE  /\ \A k \in 0 .. n - 1 : p[k] \in places /\ depth[p[k]] = n - k
         /\ p[n] = none
<1>1. /\ p[0] = first
      /\ \A k \in 1 .. n : p[k] = After(p[k - 1], link, none)
  <2>1. 0 \in 0 .. n /\ \A k \in 1 .. n : k \in 0 .. n /\ k # 0
    OBVIOUS
  <2>2. \A k \in 0 .. n : p[k] = IF k = 0 THEN first ELSE After(p[k - 1], link, none)
    BY DEF Follows
  <2>3. QED BY <2>1, <2>2
<1>2. ASSUME NEW k \in 1 .. n, p[k - 1] \in places, depth[p[k - 1]] = n - (k - 1)
      PROVE  /\ k < n => p[k] \in places /\ depth[p[k]] = n - k
             /\ k = n => p[k] = none
  <2>1. p[k] = link[p[k - 1]]
    BY <1>1, <1>2 DEF After
  <2>2. CASE k < n
    <3>1. depth[p[k - 1]] # 1
      BY <1>2, <2>2
    <3>2. p[k] \in places /\ depth[p[k]] = depth[p[k - 1]] - 1
      BY <1>2, <2>1, <3>1 DEF Depths
    <3>3. QED BY <1>2, <2>2, <3>2
  <2>3. CASE k = n
    <3>1. depth[p[k - 1]] = 1
      BY <1>2, <2>3
    <3>2. QED BY <1>2, <2>1, <2>3, <3>1 DEF Depths
  <2>4. QED BY <2>2, <2>3
<1> DEFINE Lost == {k \in 0 .. n - 1 : ~(p[k] \in places /\ depth[p[k]] = n - k)}
<1>3. Lost = {}
  <2> SUFFICES ASSUME Lost # {} PROVE FALSE
    OBVIOUS
  <2>1. PICK l \in Lost : \A j \in Lost : l <= j
    <3>1. Lost \in SUBSET Nat
      OBVIOUS
    <3> HIDE DEF Lost
    <3>2. QED BY <3>1, SmallestElement
  <2>2. CASE l = 0
    BY <1>1, <2>2 DEF Depths
  <2>3. CASE l # 0
    <3>1. l \in 1 .. n /\ l < n /\ l - 1 \in 0 .. n - 1 /\ ~(l <= l - 1)
      BY <2>3
    <3>2. l - 1 \notin Lost
      BY <2>1, <3>1
    <3>3. p[l - 1] \in places /\ depth[p[l - 1]] = n - (l - 1)
      BY <3>1, <3>2
    <3>4. QED BY <1>2, <3>1, <3>3
  <2>4. QED BY <2>2, <2>3
<1>4. p[n] = none
  <2>1. CASE n = 0
    BY <1>1, <2>1 DEF Depths
  <2>2. CASE n # 0
    <3>1. n \in 1 .. n /\ n - 1 \in 0 .. n - 1
      BY <2>2
    <3>2. p[n - 1] \in places /\ depth[p[n - 1]] = n - (n - 1)
      BY <1>3, <3>1
    <3>3. QED BY <1>2, <3>1, <3>2
  <2>3. QED BY <2>1, <2>2
<1>5. QED BY <1>3, <1>4

\* there is such a list
LEMMA PlacesFollow ==
  ASSUME NEW depth, NEW first, NEW link, NEW none, NEW places, NEW n \in Nat,
         Depths(depth, first, link, none, places, n), places \subseteq DOMAIN link
  PROVE  \E p : Follows(p, first, link, none, n)
<1> DEFINE at(k) == CHOOSE i \in places : depth[i] = n - k
           p == [k \in 0 .. n |-> IF k = n THEN none ELSE at(k)]
<1>1. ASSUME NEW k \in 0 .. n - 1 PROVE at(k) \in places /\ depth[at(k)] = n - k
  BY DepthsReached
<1>2. \A i, j \in places : depth[i] = depth[j] => i = j
  BY DEF Depths
<1> HIDE DEF at
<1>3. p[n] = none /\ \A k \in 0 .. n - 1 : p[k] = at(k)
  OBVIOUS
<1>4. p[0] = first
  <2>1. CASE n = 0
    BY <1>3, <2>1 DEF Depths
  <2>2. CASE n # 0
    <3>1. 0 \in 0 .. n - 1 /\ first \in places /\ depth[first] = n
      BY <2>2 DEF Depths
    <3>2. at(0) = first
      BY <1>1, <1>2, <3>1
    <3>3. QED BY <1>3, <3>1, <3>2
  <2>3. QED BY <2>1, <2>2
<1>5. ASSUME NEW k \in 1 .. n PROVE p[k] = After(p[k - 1], link, none)
  <2>1. k - 1 \in 0 .. n - 1
    OBVIOUS
  <2>2. p[k - 1] \in places /\ depth[p[k - 1]] = n - (k - 1)
    BY <1>1, <1>3, <2>1
  <2>3. After(p[k - 1], link, none) = link[p[k - 1]]
    BY <2>2 DEF After
  <2>4. CASE k = n
    <3>1. depth[p[k - 1]] = 1
      BY <2>2, <2>4
    <3>2. link[p[k - 1]] = none
      BY <2>2, <3>1 DEF Depths
    <3>3. QED BY <1>3, <2>3, <2>4, <3>2
  <2>5. CASE k # n
    <3>1. k \in 0 .. n - 1 /\ depth[p[k - 1]] # 1
      BY <2>2, <2>5
    <3>2. link[p[k - 1]] \in places /\ depth[link[p[k - 1]]] = depth[p[k - 1]] - 1
      BY <2>2, <3>1 DEF Depths
    <3>3. depth[link[p[k - 1]]] = n - k
      BY <2>2, <3>2
    <3>4. link[p[k - 1]] = at(k)
      BY <1>1, <1>2, <3>1, <3>2, <3>3
    <3>5. QED BY <1>3, <2>3, <3>1, <3>4
  <2>6. QED BY <2>4, <2>5
<1>6. p = [k \in 0 .. n |-> p[k]]
  OBVIOUS
<1>7. \A k \in 0 .. n : k = 0 \/ k \in 1 .. n
  OBVIOUS
<1> HIDE DEF p
<1>8. \A k \in 0 .. n : p[k] = IF k = 0 THEN first ELSE After(p[k - 1], link, none)
  BY <1>4, <1>5, <1>7
<1>9. Follows(p, first, link, none, n)
  BY <1>6, <1>8 DEF Follows
<1>10. QED BY <1>9

\* the depths count the places
LEMMA DepthsCount ==
  ASSUME NEW depth, NEW first, NEW link, NEW none, NEW places, NEW n \in Nat,
         Depths(depth, first, link, none, places, n)
  PROVE  Cardinality(places) = n
<1>1. depth \in [places -> 1 .. n]
  BY DEF Depths
<1>2. \A i, j \in places : depth[i] = depth[j] => i = j
  BY DEF Depths
<1>3. ASSUME NEW d \in 1 .. n PROVE \E i \in places : depth[i] = d
  <2>1. n - d \in 0 .. n - 1 /\ n - (n - d) = d
    OBVIOUS
  <2>2. \A k \in 0 .. n - 1 : \E i \in places : depth[i] = n - k
    BY DepthsReached
  <2>3. QED BY <2>1, <2>2
<1> DEFINE at == [d \in 1 .. n |-> CHOOSE i \in places : depth[i] = d]
<1>4. ASSUME NEW d \in 1 .. n PROVE at[d] \in places /\ depth[at[d]] = d
  BY <1>3
<1>5. \A i \in places : depth[i] \in 1 .. n /\ at[depth[i]] = i
  BY <1>1, <1>2, <1>4
<1>6. at \in [1 .. n -> places]
  BY <1>4
<1> HIDE DEF at
<1>7. at \in Bijection(1 .. n, places)
  <2>1. \A c, d \in 1 .. n : at[c] = at[d] => c = d
    BY <1>4
  <2>2. \A i \in places : \E d \in 1 .. n : at[d] = i
    BY <1>5
  <2>3. at \in Injection(1 .. n, places)
    BY <1>6, <2>1 DEF Injection, IsInjective
  <2>4. at \in Surjection(1 .. n, places)
    BY <1>6, <2>2 DEF Surjection
  <2>5. QED BY <2>3, <2>4 DEF Bijection
<1>8. QED BY <1>7, FS_CountingElements DEF ExistsBijection

\* a list that is linked goes through its places once, and ends
LEMMA LinkedIsList ==
  ASSUME NEW first, NEW link, NEW none, NEW places, NEW n,
         IsLinked(first, link, none, places, n), places \subseteq DOMAIN link
  PROVE  ListIs(first, link, none, places) /\ Cardinality(places) = n
<1>1. n \in Nat
  BY DEF IsLinked
<1>2. PICK depth : Depths(depth, first, link, none, places, n)
  BY DEF IsLinked
<1>3. Cardinality(places) = n
  BY <1>1, <1>2, DepthsCount
<1> DEFINE p == Place(first, link, none, n)
<1>4. Follows(p, first, link, none, n)
  <2>1. p = CHOOSE q : Follows(q, first, link, none, n)
    BY DEF Place, Follows, After
  <2>2. \E q : Follows(q, first, link, none, n)
    BY <1>1, <1>2, PlacesFollow
  <2>3. QED BY <2>1, <2>2
<1> HIDE DEF p
<1>5. /\ \A k \in 0 .. n - 1 : p[k] \in places /\ depth[p[k]] = n - k
      /\ p[n] = none
  BY <1>1, <1>2, <1>4, FollowsPlaces
<1>6. ASSUME NEW i \in places PROVE \E k \in 0 .. n - 1 : p[k] = i
  <2>1. depth[i] \in 1 .. n
    BY <1>2 DEF Depths
  <2>2. n - depth[i] \in 0 .. n - 1 /\ n - (n - depth[i]) = depth[i]
    BY <1>1, <2>1
  <2>3. p[n - depth[i]] \in places /\ depth[p[n - depth[i]]] = depth[i]
    BY <1>5, <2>2
  <2>4. p[n - depth[i]] = i
    BY <1>2, <2>3 DEF Depths
  <2>5. QED BY <2>2, <2>4
<1>7. {p[k] : k \in 0 .. n - 1} = places
  BY <1>5, <1>6
<1>8. QED BY <1>3, <1>5, <1>7 DEF ListIs, p

-----------------------------------------------------------------------------
(* Sequences *)

\* the first n items of a sequence
LEMMA FirstItems ==
  ASSUME NEW S, NEW s \in Seq(S), NEW n \in 0 .. Len(s)
  PROVE  /\ SubSeq(s, 1, n) \in Seq(S) /\ Len(SubSeq(s, 1, n)) = n
         /\ \A i \in 1 .. n : SubSeq(s, 1, n)[i] = s[i]
<1>1. n \in Int /\ 1 \in Int /\ \A i \in 1 .. n : s[i] \in S
  OBVIOUS
<1>2. /\ SubSeq(s, 1, n) \in Seq(S) /\ Len(SubSeq(s, 1, n)) = (IF 1 <= n THEN n - 1 + 1 ELSE 0)
      /\ \A i \in 1 .. n - 1 + 1 : SubSeq(s, 1, n)[i] = s[1 + i - 1]
  BY <1>1, SubSeqProperties
<1>3. 1 .. n - 1 + 1 = 1 .. n
  OBVIOUS
<1> QED BY <1>1, <1>2, <1>3

\* a part of a sequence
LEMMA PartIs ==
  ASSUME NEW S, NEW s \in Seq(S), NEW p \in Nat, NEW n \in Nat, p + n <= Len(s)
  PROVE  /\ SubSeq(s, p + 1, p + n) \in Seq(S) /\ Len(SubSeq(s, p + 1, p + n)) = n
         /\ \A i \in 1 .. n : SubSeq(s, p + 1, p + n)[i] = s[p + i]
<1> DEFINE a == p + 1
           z == p + n
<1>1. a \in Int /\ z \in Int /\ \A i \in a .. z : s[i] \in S
  OBVIOUS
<1> HIDE DEF a, z
<1>2. /\ SubSeq(s, a, z) \in Seq(S) /\ Len(SubSeq(s, a, z)) = (IF a <= z THEN z - a + 1 ELSE 0)
      /\ \A i \in 1 .. z - a + 1 : SubSeq(s, a, z)[i] = s[a + i - 1]
  BY <1>1, SubSeqProperties
<1>3. z - a + 1 = n /\ (a <= z <=> n > 0) /\ \A i \in 1 .. n : a + i - 1 = p + i
  BY DEF a, z
<1>4. Len(SubSeq(s, a, z)) = n
  BY <1>2, <1>3
<1> QED BY <1>2, <1>3, <1>4 DEF a, z

\* the first n of the values of f, which counts from 0
ListOf(n, f) == [i \in 1 .. n |-> f[i - 1]]

LEMMA ListOfIs ==
  ASSUME NEW S, NEW n \in Nat, NEW f, \A i \in 0 .. n - 1 : f[i] \in S
  PROVE  /\ ListOf(n, f) \in Seq(S) /\ Len(ListOf(n, f)) = n
         /\ \A i \in 1 .. n : ListOf(n, f)[i] = f[i - 1]
<1>1. \A i \in 1 .. n : f[i - 1] \in S
  OBVIOUS
<1>2. ListOf(n, f) \in [1 .. n -> S]
  BY <1>1 DEF ListOf
<1>3. ListOf(n, f) \in Seq(S)
  BY <1>2
<1>4. Len(ListOf(n, f)) = n
  BY <1>2, <1>3
<1> QED BY <1>3, <1>4 DEF ListOf

LEMMA SameItems ==
  ASSUME NEW S, NEW s \in Seq(S), NEW t \in Seq(S), Len(s) = Len(t),
         \A i \in 1 .. Len(s) : s[i] = t[i]
  PROVE  s = t
BY SeqEqual

LEMMA AppendIs ==
  ASSUME NEW S, NEW s \in Seq(S), NEW t \in Seq(S), Len(t) = Len(s) + 1,
         \A i \in 1 .. Len(s) : t[i] = s[i]
  PROVE  t = Append(s, t[Len(s) + 1])
<1> DEFINE x == t[Len(s) + 1]
           u == Append(s, x)
<1>1. x \in S /\ Len(s) \in Nat
  OBVIOUS
<1> HIDE DEF x
<1>2. /\ u \in Seq(S) /\ Len(u) = Len(s) + 1
      /\ \A i \in 1 .. Len(s) : u[i] = s[i]
      /\ u[Len(s) + 1] = x
  BY <1>1, AppendProperties
<1> HIDE DEF u
<1>3. \A i \in 1 .. Len(s) + 1 : i \in 1 .. Len(s) \/ i = Len(s) + 1
  BY <1>1
<1>4. \A i \in 1 .. Len(t) : t[i] = u[i]
  BY <1>2, <1>3 DEF x
<1>5. t = u
  BY <1>2, <1>4, SameItems
<1> QED BY <1>5 DEF u, x

LEMMA ConcatIs ==
  ASSUME NEW S, NEW s \in Seq(S), NEW u \in Seq(S), NEW t \in Seq(S), Len(t) = Len(s) + Len(u),
         \A i \in 1 .. Len(s) : t[i] = s[i], \A i \in 1 .. Len(u) : t[Len(s) + i] = u[i]
  PROVE  t = s \o u
<1> DEFINE v == s \o u
           n == Len(s)
           k == Len(u)
<1>1. n \in Nat /\ k \in Nat
  OBVIOUS
<1>2. /\ v \in Seq(S) /\ Len(v) = n + k
      /\ \A i \in 1 .. n + k : v[i] = IF i <= n THEN s[i] ELSE u[i - n]
  BY ConcatProperties
<1> HIDE DEF v, n, k
<1>3. ASSUME NEW i \in 1 .. n + k PROVE t[i] = v[i]
  <2>1. CASE i <= n
    <3>1. i \in 1 .. n
      BY <1>1, <2>1
    <3>2. v[i] = s[i]
      BY <1>2, <2>1
    <3> QED BY <3>1, <3>2 DEF n
  <2>2. CASE ~(i <= n)
    <3>1. i - n \in 1 .. k /\ n + (i - n) = i
      BY <1>1, <2>2
    <3>2. t[n + (i - n)] = u[i - n]
      BY <3>1 DEF n, k
    <3>3. v[i] = u[i - n]
      BY <1>2, <2>2
    <3> QED BY <3>1, <3>2, <3>3
  <2> QED BY <2>1, <2>2
<1>4. Len(t) = n + k
  BY DEF n, k
<1>5. t = v
  BY <1>2, <1>3, <1>4, SameItems
<1> QED BY <1>5 DEF v

LEMMA TruncatedIs ==
  ASSUME NEW S, NEW s \in Seq(S), NEW t \in Seq(S), Len(t) <= Len(s),
         \A i \in 1 .. Len(t) : t[i] = s[i]
  PROVE  t = SubSeq(s, 1, Len(t))
<1> DEFINE n == Len(t)
<1>1. n \in 0 .. Len(s)
  OBVIOUS
<1> HIDE DEF n
<1>2. /\ SubSeq(s, 1, n) \in Seq(S) /\ Len(SubSeq(s, 1, n)) = n
      /\ \A i \in 1 .. n : SubSeq(s, 1, n)[i] = s[i]
  BY <1>1, FirstItems
<1> DEFINE u == SubSeq(s, 1, n)
<1> HIDE DEF u
<1>3. t = u
  BY <1>2, SameItems DEF u, n
<1> QED BY <1>3 DEF u, n

\* t has the items of s in front of `at` and behind `from`, with u in between
IsReplaced(S, s, u, t, at, from) ==
  /\ s \in Seq(S) /\ u \in Seq(S) /\ t \in Seq(S)
  /\ at \in 0 .. Len(s) /\ from \in 0 .. Len(s)
  /\ Len(t) = at + Len(u) + (Len(s) - from)
  /\ \A i \in 1 .. at : t[i] = s[i]
  /\ \A i \in 1 .. Len(u) : t[at + i] = u[i]
  /\ \A i \in 1 .. Len(s) - from : t[at + Len(u) + i] = s[from + i]

LEMMA ReplacedIs ==
  ASSUME NEW S, NEW s, NEW u, NEW t, NEW at, NEW from, IsReplaced(S, s, u, t, at, from)
  PROVE  t = SubSeq(s, 1, at) \o u \o SubSeq(s, from + 1, Len(s))
<1> DEFINE a == SubSeq(s, 1, at)
           n == Len(s)
           k == Len(u)
           r == n - from
           b == SubSeq(s, from + 1, from + r)
           au == SubSeq(t, 1, at + k)
<1>0. /\ s \in Seq(S) /\ u \in Seq(S) /\ t \in Seq(S) /\ at \in Nat /\ from \in Nat
      /\ \A i \in 1 .. at : t[i] = s[i]
      /\ \A i \in 1 .. Len(u) : t[at + i] = u[i]
      /\ \A i \in 1 .. Len(s) - from : t[at + Len(u) + i] = s[from + i]
  BY DEF IsReplaced
<1>1. n \in Nat /\ k \in Nat /\ r \in Nat /\ at \in 0 .. n /\ from + r = n /\ at + k \in 0 .. Len(t)
      /\ Len(t) = at + k + r
  BY DEF IsReplaced
<1>2. a \in Seq(S) /\ Len(a) = at /\ \A i \in 1 .. at : a[i] = s[i]
  BY <1>0, <1>1, FirstItems
<1>3. b \in Seq(S) /\ Len(b) = r /\ \A i \in 1 .. r : b[i] = s[from + i]
  <2> HIDE DEF r
  <2>1. from + r <= Len(s)
    BY <1>0, <1>1
  <2> QED BY <1>0, <1>1, <2>1, PartIs
<1>4. au \in Seq(S) /\ Len(au) = at + k /\ \A i \in 1 .. at + k : au[i] = t[i]
  <2> HIDE DEF k
  <2> QED BY <1>0, <1>1, FirstItems
<1> HIDE DEF a, b, r, au
<1>5. au = a \o u
  <2>1. \A i \in 1 .. at : i \in 1 .. at + k
    BY <1>0, <1>1
  <2>2. \A i \in 1 .. Len(a) : au[i] = a[i]
    BY <1>0, <1>2, <1>4, <2>1
  <2>3. \A i \in 1 .. k : at + i \in 1 .. at + k
    BY <1>0, <1>1
  <2>4. \A i \in 1 .. Len(u) : au[Len(a) + i] = u[i]
    BY <1>0, <1>2, <1>4, <2>3
  <2>5. Len(au) = Len(a) + Len(u)
    BY <1>2, <1>4
  <2> QED BY <1>0, <1>2, <1>4, <2>2, <2>4, <2>5, ConcatIs
<1>6. t = au \o b
  <2>1. \A i \in 1 .. Len(b) : t[Len(au) + i] = b[i]
    BY <1>0, <1>3, <1>4 DEF r
  <2>2. Len(t) = Len(au) + Len(b) /\ \A i \in 1 .. Len(au) : t[i] = au[i]
    BY <1>0, <1>1, <1>3, <1>4
  <2> QED BY <1>0, <1>3, <1>4, <2>1, <2>2, ConcatIs
<1>7. b = SubSeq(s, from + 1, Len(s))
  BY <1>0, <1>1 DEF b
<1> QED BY <1>5, <1>6, <1>7 DEF a

\* t is s with x put in at `at`
IsInserted(S, s, x, t, at) ==
  /\ s \in Seq(S) /\ x \in S /\ t \in Seq(S)
  /\ at \in 0 .. Len(s) /\ Len(t) = Len(s) + 1
  /\ \A i \in 1 .. at : t[i] = s[i]
  /\ t[at + 1] = x
  /\ \A i \in at + 1 .. Len(s) : t[i + 1] = s[i]

LEMMA InsertedIs ==
  ASSUME NEW S, NEW s, NEW x, NEW t, NEW at, IsInserted(S, s, x, t, at)
  PROVE  t = SubSeq(s, 1, at) \o <<x>> \o SubSeq(s, at + 1, Len(s))
<1> DEFINE u == <<x>>
           n == Len(s)
<1>0. /\ s \in Seq(S) /\ x \in S /\ t \in Seq(S) /\ at \in 0 .. Len(s) /\ Len(t) = Len(s) + 1
      /\ \A i \in 1 .. at : t[i] = s[i]
      /\ t[at + 1] = x
      /\ \A i \in at + 1 .. Len(s) : t[i + 1] = s[i]
  BY DEF IsInserted
<1>1. u \in Seq(S) /\ Len(u) = 1 /\ u[1] = x
  BY <1>0
<1> HIDE DEF u
<1>2. at \in Nat /\ n \in Nat /\ at <= n /\ Len(t) = at + Len(u) + (n - at)
  BY <1>0, <1>1
<1>3. \A i \in 1 .. Len(u) : t[at + i] = u[i]
  BY <1>0, <1>1
<1>4. ASSUME NEW i \in 1 .. n - at PROVE t[at + Len(u) + i] = s[at + i]
  <2> DEFINE k == at + i
  <2>1. k \in at + 1 .. Len(s) /\ at + Len(u) + i = k + 1
    BY <1>1, <1>2
  <2> HIDE DEF k
  <2>2. t[k + 1] = s[k]
    BY <1>0, <2>1
  <2> QED BY <2>1, <2>2 DEF k
<1>5. IsReplaced(S, s, u, t, at, at)
  BY <1>0, <1>1, <1>2, <1>3, <1>4 DEF IsReplaced
<1> QED BY <1>5, ReplacedIs DEF u

\* t is s without the item at `at`
IsTakenOut(S, s, t, at) ==
  /\ s \in Seq(S) /\ t \in Seq(S)
  /\ at \in 0 .. Len(s) - 1 /\ Len(t) = Len(s) - 1
  /\ \A i \in 1 .. at : t[i] = s[i]
  /\ \A i \in at + 1 .. Len(s) - 1 : t[i] = s[i + 1]

LEMMA TakenOutIs ==
  ASSUME NEW S, NEW s, NEW t, NEW at, IsTakenOut(S, s, t, at)
  PROVE  t = SubSeq(s, 1, at) \o SubSeq(s, at + 1 + 1, Len(s))
<1> DEFINE u == <<>>
           n == Len(s)
           from == at + 1
           a == SubSeq(s, 1, at)
<1>0. /\ s \in Seq(S) /\ t \in Seq(S) /\ at \in 0 .. Len(s) - 1 /\ Len(t) = Len(s) - 1
      /\ \A i \in 1 .. at : t[i] = s[i]
      /\ \A i \in at + 1 .. Len(s) - 1 : t[i] = s[i + 1]
  BY DEF IsTakenOut
<1>1. u \in Seq(S) /\ Len(u) = 0
  OBVIOUS
<1> HIDE DEF u
<1>2. at \in Nat /\ n \in Nat /\ from \in Nat /\ at \in 0 .. n /\ from \in 0 .. n
      /\ Len(t) = at + Len(u) + (n - from)
  BY <1>0, <1>1
<1>3. \A i \in 1 .. Len(u) : t[at + i] = u[i]
  BY <1>1
<1>4. ASSUME NEW i \in 1 .. n - from PROVE t[at + Len(u) + i] = s[from + i]
  <2> DEFINE k == at + i
  <2>1. k \in at + 1 .. Len(s) - 1 /\ at + Len(u) + i = k /\ from + i = k + 1
    BY <1>1, <1>2
  <2> HIDE DEF k
  <2>2. t[k] = s[k + 1]
    BY <1>0, <2>1
  <2> QED BY <2>1, <2>2
<1> HIDE DEF from
<1>5. IsReplaced(S, s, u, t, at, from)
  BY <1>0, <1>1, <1>2, <1>3, <1>4 DEF IsReplaced
<1>6. t = SubSeq(s, 1, at) \o u \o SubSeq(s, from + 1, Len(s))
  BY <1>5, ReplacedIs
<1>7. a \in Seq(S)
  BY <1>0, <1>2, FirstItems
<1> HIDE DEF a
<1>8. a \o u = a
  BY <1>7, ConcatEmptySeq DEF u
<1> QED BY <1>6, <1>8 DEF a, from

-----------------------------------------------------------------------------
(* Walks through links *)

\* a walk that lists what it passes, or only looks for its end
Passing(listed, item, x, v) == IF listed THEN <<item[x]>> \o v ELSE v

\* a walk goes from x to next[x] until it is in Stop, and each of its steps
\* makes the measure m smaller
IsWalk(D, Stop, out, next, listed, item, f) ==
  f = [x \in D |-> IF x \in Stop THEN out[x] ELSE Passing(listed, item, x, f[next[x]])]

Descends(D, Stop, next, m, M) ==
  /\ M \in Nat /\ m \in [D -> 0 .. M]
  /\ \A x \in D \ Stop : next[x] \in D /\ m[next[x]] < m[x]

LEMMA WalkExists ==
  ASSUME NEW D, NEW Stop, NEW out, NEW next, NEW listed, NEW item, NEW m, NEW M, Descends(D, Stop, next, m, M)
  PROVE  \E f : IsWalk(D, Stop, out, next, listed, item, f)
<1> DEFINE Step(f, x) == IF x \in Stop THEN out[x] ELSE Passing(listed, item, x, f[next[x]])
           Upto(k) == \E f : \A x \in D : m[x] < k => f[x] = Step(f, x)
           Missing == {k \in Nat : ~Upto(k)}
<1>1. ASSUME Missing # {} PROVE FALSE
  <2>1. PICK k \in Missing : \A n \in Missing : k <= n
    <3>1. Missing \in SUBSET Nat
      OBVIOUS
    <3> HIDE DEF Missing
    <3> QED BY <1>1, <3>1, SmallestElement
  <2>2. k \in Nat /\ ~Upto(k)
    OBVIOUS
  <2>3. \A x \in D : m[x] \in Nat
    BY DEF Descends
  <2>4. k # 0
    <3>1. \A x \in D : ~(m[x] < 0)
      BY <2>3
    <3>2. Upto(0)
      BY <3>1
    <3> QED BY <2>2, <3>2
  <2>5. k - 1 \in Nat /\ k - 1 < k
    BY <2>2, <2>4
  <2>6. Upto(k - 1)
    <3>1. ~(k <= k - 1)
      BY <2>5
    <3>2. k - 1 \notin Missing
      BY <2>1, <3>1
    <3> QED BY <2>5, <3>2
  <2>7. PICK f : \A x \in D : m[x] < k - 1 => f[x] = Step(f, x)
    BY <2>6
  <2> DEFINE g == [x \in D |-> Step(f, x)]
  <2>8. ASSUME NEW x \in D, m[x] < k PROVE g[x] = Step(g, x)
    <3>1. CASE x \in Stop
      BY <3>1
    <3>2. CASE x \notin Stop
      <4>1. next[x] \in D /\ m[next[x]] < m[x] /\ m[next[x]] \in Nat /\ m[x] \in Nat
        BY <2>3, <3>2 DEF Descends
      <4>2. m[next[x]] < k - 1
        BY <2>2, <2>8, <4>1
      <4>3. f[next[x]] = Step(f, next[x]) /\ g[next[x]] = Step(f, next[x]) /\ g[x] = Passing(listed, item, x, f[next[x]])
        BY <2>7, <3>2, <4>1, <4>2
      <4> HIDE DEF g
      <4> QED BY <3>2, <4>3
    <3> QED BY <3>1, <3>2
  <2>9. Upto(k)
    <3> HIDE DEF g
    <3> QED BY <2>8
  <2> QED BY <2>2, <2>9
<1>2. M + 1 \in Nat /\ \A x \in D : m[x] < M + 1
  BY DEF Descends
<1>3. Upto(M + 1)
  <2>1. M + 1 \notin Missing
    BY <1>1
  <2> QED BY <1>2, <2>1
<1>4. PICK f : \A x \in D : f[x] = Step(f, x)
  BY <1>2, <1>3
<1> DEFINE g == [x \in D |-> f[x]]
<1>5. \A x \in D : g[x] = Step(g, x)
  <2> SUFFICES ASSUME NEW x \in D PROVE f[x] = Step(g, x)
    OBVIOUS
  <2>1. x \notin Stop => next[x] \in D
    BY DEF Descends
  <2> QED BY <1>4, <2>1
<1>6. g = [x \in D |-> g[x]]
  OBVIOUS
<1> HIDE DEF g
<1>7. g = [x \in D |-> Step(g, x)]
  BY <1>5, <1>6
<1> QED BY <1>7 DEF IsWalk

\* what holds at the end and is kept backwards
StepsKeep(D, Stop, out, next, listed, item, P) ==
  /\ \A x \in D \cap Stop : <<x, out[x]>> \in P
  /\ \A x \in D \ Stop : \A v : <<next[x], v>> \in P => <<x, Passing(listed, item, x, v)>> \in P

\* ... holds of the whole walk
LEMMA WalkKeeps ==
  ASSUME NEW D, NEW Stop, NEW out, NEW next, NEW listed, NEW item, NEW m, NEW M, Descends(D, Stop, next, m, M),
         NEW f, IsWalk(D, Stop, out, next, listed, item, f), NEW P, StepsKeep(D, Stop, out, next, listed, item, P)
  PROVE  \A x \in D : <<x, f[x]>> \in P
<1> DEFINE Wrong == {k \in Nat : \E x \in D : <<x, f[x]>> \notin P /\ m[x] = k}
<1>1. \A x \in D : f[x] = IF x \in Stop THEN out[x] ELSE Passing(listed, item, x, f[next[x]])
  BY DEF IsWalk
<1>2. ASSUME Wrong # {} PROVE FALSE
  <2>1. Wrong \in SUBSET Nat
    OBVIOUS
  <2>2. PICK k \in Wrong : \A n \in Wrong : k <= n
    <3> HIDE DEF Wrong
    <3> QED BY <1>2, <2>1, SmallestElement
  <2>3. PICK x \in D : <<x, f[x]>> \notin P /\ m[x] = k
    BY <2>2
  <2>4. x \notin Stop
    BY <1>1, <2>3 DEF StepsKeep
  <2>5. next[x] \in D /\ m[next[x]] < k /\ f[x] = Passing(listed, item, x, f[next[x]]) /\ m[next[x]] \in Nat /\ k \in Nat
    BY <1>1, <2>3, <2>4 DEF Descends
  <2>6. m[next[x]] \notin Wrong
    <3> HIDE DEF Wrong
    <3> QED BY <2>2, <2>5
  <2>7. <<next[x], f[next[x]]>> \in P
    BY <2>5, <2>6
  <2>8. \A v : <<next[x], v>> \in P => <<x, Passing(listed, item, x, v)>> \in P
    BY <2>3, <2>4 DEF StepsKeep
  <2>9. <<x, Passing(listed, item, x, f[next[x]])>> \in P
    BY <2>7, <2>8
  <2> QED BY <2>3, <2>5, <2>9
<1>3. \A x \in D : m[x] \in Nat
  BY DEF Descends
<1> QED BY <1>2, <1>3
=============================================================================
