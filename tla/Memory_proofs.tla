---------------------------- MODULE Memory_proofs ----------------------------
(****************************************************************************)
(* The linear, the stack and the malloc allocator, the resize protocol, the *)
(* allocator of the tests and the ring allocator, as MC_Memory runs them,   *)
(* for buffers, headers, requests and numbers of blocks of every size:      *)
(* blocks are disjoint, aligned and inside their memory, what is freed is   *)
(* what was allocated, a resize keeps contents and blocks, and the headers  *)
(* of the ring fill the buffer on both sides of the gap and are those of the*)
(* blocks of the client, so that every walk over them finds what it seeks.  *)
(****************************************************************************)
EXTENDS MC_Memory, ListLemmas

-----------------------------------------------------------------------------
(* Alignment *)

\* the next multiple is less than one alignment away
LEMMA AlignForward ==
  ASSUME NEW p \in Nat, NEW a \in Nat \ {0}
  PROVE  /\ align_forward(p, a) \in Nat
         /\ align_forward(p, a) >= p /\ align_forward(p, a) < p + a
         /\ align_forward(p, a) % a = 0
<1> DEFINE r == (-p) % a
           q == (-p) \div a
<1>1. r \in 0 .. a - 1 /\ q \in Int /\ -p = a * q + r
  <2> DEFINE n == -p
  <2>1. n \in Int
    OBVIOUS
  <2> HIDE DEF n
  <2>2. n % a \in 0 .. a - 1 /\ n \div a \in Int /\ n = a * (n \div a) + (n % a)
    BY <2>1
  <2> QED BY <2>2 DEF n
<1> HIDE DEF r, q
<1>2. p + r = a * (-q) + 0 /\ -q \in Int /\ 0 \in 0 .. a - 1
  BY <1>1
<1>3. (a * (-q) + 0) % a = 0
  BY <1>2, Remainder
<1>4. align_forward(p, a) = p + r
  BY DEF align_forward, r
<1> QED BY <1>1, <1>2, <1>3, <1>4

\* a multiple of a multiple
LEMMA MultipleOf ==
  ASSUME NEW p \in Nat, NEW a \in Nat \ {0}, NEW b \in Nat \ {0}, p % b = 0, b % a = 0
  PROVE  p % a = 0
<1> DEFINE k == p \div b
           l == b \div a
<1>1. k \in Int /\ p = b * k /\ l \in Int /\ b = a * l
  OBVIOUS
<1> HIDE DEF k, l
<1>2. p = a * (l * k) + 0 /\ l * k \in Int /\ 0 \in 0 .. a - 1
  BY <1>1
<1>3. (a * (l * k) + 0) % a = 0
  BY <1>2, Remainder
<1> QED BY <1>2, <1>3

-----------------------------------------------------------------------------
(* Blocks *)

BlockTypes ==
  /\ IsFiniteSet(live)
  /\ \A b \in live : b.at \in Nat /\ b.size \in Nat \ {0}
  /\ \A p \in parent : \E b \in live : p.at = b.at

Held == {b \in live : InBuffer(b)}
End(b) == b.at + b.size

\* the memory of the parent lies behind the buffer, where it has a free address
LEMMA ParentFree ==
  ASSUME IsFiniteSet(live), \A p \in parent : \E b \in live : p.at = b.at, Cardinality(live) < MaxLive,
         NEW x, x = CHOOSE a \in PARENT .. PARENT + MaxLive : \A p \in parent : p.at # a
  PROVE  x \in Nat /\ x >= buffer_to /\ \A p \in parent : p.at # x
<1>1. buffer_to \in Nat /\ MaxLive \in Nat
  BY AllocatorsAssumption
<1> DEFINE all == PARENT .. PARENT + MaxLive
           ats == {b.at : b \in live}
<1>2. PARENT \in Nat /\ PARENT >= buffer_to
  BY <1>1 DEF PARENT
<1>3. Cardinality(all) = MaxLive + 1
  <2> DEFINE p == PARENT
             q == PARENT + MaxLive
  <2>1. p \in Int /\ q \in Int /\ ~(p > q) /\ q - p + 1 = MaxLive + 1
    BY <1>1, <1>2
  <2> HIDE DEF p, q
  <2>2. Cardinality(p .. q) = q - p + 1
    BY <2>1, FS_Interval
  <2> QED BY <2>1, <2>2 DEF p, q
<1>4. IsFiniteSet(ats) /\ Cardinality(ats) <= Cardinality(live)
  <2> DEFINE f == [b \in live |-> b.at]
  <2>1. f \in Surjection(live, ats)
    BY DEF Surjection
  <2> HIDE DEF f, ats
  <2> QED BY <2>1, FS_Surjection
<1>5. Cardinality(live) \in Nat /\ Cardinality(ats) \in Nat
  BY <1>4, FS_CardinalityType
<1>6. ~(all \subseteq ats)
  <2>1. ASSUME all \subseteq ats PROVE FALSE
    <3>1. all \in SUBSET ats
      BY <2>1
    <3>2. Cardinality(all) <= Cardinality(ats)
      BY <3>1, <1>4, FS_Subset
    <3> HIDE DEF all, ats
    <3> QED BY <3>2, <1>1, <1>3, <1>4, <1>5
  <2> QED BY <2>1
<1>7. PICK a \in all : a \notin ats
  BY <1>6
<1>8. \A p \in parent : p.at # a
  BY <1>7
<1>9. x \in all /\ \A p \in parent : p.at # x
  BY <1>7, <1>8
<1> QED BY <1>1, <1>2, <1>9

LEMMA ParentBlock ==
  ASSUME BlockTypes, Cardinality(live) < MaxLive,
         NEW x, x = CHOOSE a \in PARENT .. PARENT + MaxLive : \A p \in parent : p.at # a
  PROVE  x \in Nat /\ x >= buffer_to /\ \A p \in parent : p.at # x
  BY ParentFree DEF BlockTypes

-----------------------------------------------------------------------------
(* The sum of the weights of a set of blocks, of their sizes above all *)

Any(T) == CHOOSE b \in T : TRUE

\* the sum of the weights of T, when f has those of its subsets
SumFrom(w, f, T) == IF T = {} THEN 0 ELSE w[Any(T)] + f[T \ {Any(T)}]

\* f is the sum of the weights of the subsets of S with at most n elements
SumsUpto(w, f, S, n) ==
  \A T \in SUBSET S : Cardinality(T) <= n => f[T] = SumFrom(w, f, T)

Sums(w, f, S) == SumsUpto(w, f, S, Cardinality(S))

LEMMA AnyIn == ASSUME NEW T, T # {} PROVE Any(T) \in T
  BY DEF Any

\* a subset without one of its elements has one element less
LEMMA TakeOne ==
  ASSUME NEW S, IsFiniteSet(S), NEW T \in SUBSET S, NEW x \in T
  PROVE  /\ IsFiniteSet(T \ {x}) /\ T \ {x} \in SUBSET S
         /\ Cardinality(T) \in Nat \ {0} /\ Cardinality(T \ {x}) = Cardinality(T) - 1
<1>1. IsFiniteSet(T)
  BY FS_Subset
<1>2. IsFiniteSet(T \ {x}) /\ Cardinality(T \ {x}) = Cardinality(T) - 1
  BY <1>1, FS_RemoveElement
<1>3. Cardinality(T) \in Nat /\ Cardinality(T \ {x}) \in Nat
  BY <1>1, <1>2, FS_CardinalityType
<1> QED BY <1>2, <1>3

LEMMA SubsetSize ==
  ASSUME NEW S, IsFiniteSet(S), NEW T \in SUBSET S
  PROVE  IsFiniteSet(T) /\ Cardinality(T) \in Nat /\ Cardinality(T) <= Cardinality(S)
  BY FS_Subset, FS_CardinalityType

\* from the sums of the smaller subsets those of the next size
LEMMA SumsExtend ==
  ASSUME NEW S, IsFiniteSet(S), NEW n \in Nat, NEW w, NEW f, SumsUpto(w, f, S, n)
  PROVE  \E g : SumsUpto(w, g, S, n + 1)
<1> DEFINE g == [T \in SUBSET S |-> SumFrom(w, f, T)]
<1> SUFFICES ASSUME NEW T \in SUBSET S, Cardinality(T) <= n + 1
             PROVE  g[T] = SumFrom(w, g, T)
  BY DEF SumsUpto
<1>1. g[T] = SumFrom(w, f, T)
  OBVIOUS
<1>2. CASE T = {}
  BY <1>1, <1>2 DEF SumFrom
<1>3. CASE T # {}
  <2> DEFINE x == Any(T)
             R == T \ {x}
  <2>1. x \in T
    BY <1>3, AnyIn
  <2>2. R \in SUBSET S /\ Cardinality(R) = Cardinality(T) - 1 /\ Cardinality(T) \in Nat
    BY <2>1, TakeOne
  <2>3. Cardinality(R) <= n
    BY <2>2
  <2>4. f[R] = SumFrom(w, f, R)
    BY <2>2, <2>3 DEF SumsUpto
  <2>5. g[R] = SumFrom(w, f, R)
    BY <2>2
  <2>6. g[R] = f[R]
    BY <2>4, <2>5
  <2> HIDE DEF g
  <2> QED BY <1>1, <1>3, <2>6 DEF SumFrom
<1> QED BY <1>2, <1>3

LEMMA SumsExist ==
  ASSUME NEW S, IsFiniteSet(S), NEW w
  PROVE  \A n \in Nat : \E f : SumsUpto(w, f, S, n)
<1> DEFINE Bad == {n \in Nat : ~\E f : SumsUpto(w, f, S, n)}
<1>1. SUFFICES ASSUME Bad # {} PROVE FALSE
  OBVIOUS
<1>2. Bad \in SUBSET Nat
  OBVIOUS
<1> HIDE DEF Bad
<1>3. PICK m \in Bad : \A n \in Bad : m <= n
  BY <1>1, <1>2, SmallestElement
<1>4. m \in Nat /\ ~\E f : SumsUpto(w, f, S, m)
  BY <1>2, <1>3 DEF Bad
<1>5. CASE m = 0
  <2> DEFINE f == [T \in SUBSET S |-> 0]
  <2>1. ASSUME NEW T \in SUBSET S, Cardinality(T) <= 0 PROVE f[T] = SumFrom(w, f, T)
    <3>1. IsFiniteSet(T) /\ Cardinality(T) = 0
      BY <2>1, SubsetSize
    <3>2. T = {}
      BY <3>1, FS_EmptySet
    <3> QED BY <3>2 DEF SumFrom
  <2>2. SumsUpto(w, f, S, m)
    BY <1>5, <2>1 DEF SumsUpto
  <2> QED BY <1>4, <2>2
<1>6. CASE m # 0
  <2>1. m - 1 \in Nat /\ m - 1 \notin Bad
    BY <1>3, <1>4, <1>6
  <2>2. PICK f : SumsUpto(w, f, S, m - 1)
    BY <2>1 DEF Bad
  <2>3. \E g : SumsUpto(w, g, S, (m - 1) + 1)
    BY <2>1, <2>2, SumsExtend
  <2>4. (m - 1) + 1 = m
    BY <1>4
  <2> QED BY <1>4, <2>3, <2>4
<1> QED BY <1>5, <1>6

LEMMA SumsFound == ASSUME NEW S, IsFiniteSet(S), NEW w PROVE \E g : Sums(w, g, S)
<1>1. Cardinality(S) \in Nat
  BY FS_CardinalityType
<1> QED BY <1>1, SumsExist DEF Sums

\* so the recursion of SizesOf is what it says
LEMMA SizesUnfold ==
  ASSUME NEW S, IsFiniteSet(S), NEW w, \A b \in S : w[b] = b.size
  PROVE  \E f : Sums(w, f, S) /\ SizesOf(S) = f[S]
<1> DEFINE Sum(v, T) == IF T = {} THEN 0 ELSE Any(T).size + v[T \ {Any(T)}]
           Unfolded(v) == v = [T \in SUBSET S |-> Sum(v, T)]
           f == CHOOSE v : Unfolded(v)
<1>1. SizesOf(S) = f[S]
  BY DEF SizesOf, MapThenSumSet, MapThenFoldSet, Any
<1>2. \A v : \A T \in SUBSET S : Sum(v, T) = SumFrom(w, v, T)
  <2> TAKE v
  <2> TAKE T \in SUBSET S
  <2>1. T # {} => Any(T) \in S
    BY AnyIn
  <2> QED BY <2>1 DEF SumFrom
<1> HIDE DEF Sum
<1>3. \E v : Unfolded(v)
  <2>1. PICK g : Sums(w, g, S)
    BY SumsFound
  <2> DEFINE v == [T \in SUBSET S |-> g[T]]
  <2>2. ASSUME NEW T \in SUBSET S PROVE g[T] = Sum(v, T)
    <3>1. g[T] = SumFrom(w, g, T)
      BY <2>1, SubsetSize DEF Sums, SumsUpto
    <3>2. T # {} => v[T \ {Any(T)}] = g[T \ {Any(T)}]
      OBVIOUS
    <3> HIDE DEF v
    <3>3. g[T] = SumFrom(w, v, T)
      BY <3>1, <3>2 DEF SumFrom
    <3> QED BY <3>3, <1>2
  <2>3. Unfolded(v)
    <3>1. \A T \in SUBSET S : g[T] = Sum(v, T)
      BY <2>2
    <3>2. v = [T \in SUBSET S |-> g[T]]
      OBVIOUS
    <3> HIDE DEF v
    <3> QED BY <3>1, <3>2
  <2> QED BY <2>3
<1>4. Unfolded(f)
  BY <1>3
<1>5. Sums(w, f, S)
  <2> HIDE DEF f
  <2> QED BY <1>2, <1>4 DEF Sums, SumsUpto
<1> QED BY <1>1, <1>5

\* what the headers h say that the blocks S hold
SlotSum(h, S) == MapThenSumSet(LAMBDA b : h[b.at - SLOT].size, S)

\* so the recursion of SlotSum is what it says
LEMMA SlotsUnfold ==
  ASSUME NEW S, IsFiniteSet(S), NEW h, NEW w, \A b \in S : w[b] = h[b.at - SLOT].size
  PROVE  \E f : Sums(w, f, S) /\ SlotSum(h, S) = f[S]
<1> DEFINE Sum(v, T) == IF T = {} THEN 0 ELSE h[Any(T).at - SLOT].size + v[T \ {Any(T)}]
           Unfolded(v) == v = [T \in SUBSET S |-> Sum(v, T)]
           f == CHOOSE v : Unfolded(v)
<1>1. SlotSum(h, S) = f[S]
  BY DEF SlotSum, MapThenSumSet, MapThenFoldSet, Any
<1>2. \A v : \A T \in SUBSET S : Sum(v, T) = SumFrom(w, v, T)
  <2> TAKE v
  <2> TAKE T \in SUBSET S
  <2>1. T # {} => Any(T) \in S
    BY AnyIn
  <2> QED BY <2>1 DEF SumFrom
<1> HIDE DEF Sum
<1>3. \E v : Unfolded(v)
  <2>1. PICK g : Sums(w, g, S)
    BY SumsFound
  <2> DEFINE v == [T \in SUBSET S |-> g[T]]
  <2>2. ASSUME NEW T \in SUBSET S PROVE g[T] = Sum(v, T)
    <3>1. g[T] = SumFrom(w, g, T)
      BY <2>1, SubsetSize DEF Sums, SumsUpto
    <3>2. T # {} => v[T \ {Any(T)}] = g[T \ {Any(T)}]
      OBVIOUS
    <3> HIDE DEF v
    <3>3. g[T] = SumFrom(w, v, T)
      BY <3>1, <3>2 DEF SumFrom
    <3> QED BY <3>3, <1>2
  <2>3. Unfolded(v)
    <3>1. \A T \in SUBSET S : g[T] = Sum(v, T)
      BY <2>2
    <3>2. v = [T \in SUBSET S |-> g[T]]
      OBVIOUS
    <3> HIDE DEF v
    <3> QED BY <3>1, <3>2
  <2> QED BY <2>3
<1>4. Unfolded(f)
  BY <1>3
<1>5. Sums(w, f, S)
  <2> HIDE DEF f
  <2> QED BY <1>2, <1>4 DEF Sums, SumsUpto
<1> QED BY <1>1, <1>5

WeightsNat(w, S) == \A b \in S : w[b] \in Nat

\* whichever element is taken, the sum is its weight and the sum of the others
SumTakes(w, f, T) == f[T] \in Nat /\ \A x \in T : f[T] = w[x] + f[T \ {x}]

LEMMA SumOrder ==
  ASSUME NEW S, IsFiniteSet(S), NEW w, WeightsNat(w, S), NEW f, Sums(w, f, S)
  PROVE  \A T \in SUBSET S : SumTakes(w, f, T)
<1> DEFINE Bad == {n \in Nat : \E T \in SUBSET S : Cardinality(T) = n /\ ~SumTakes(w, f, T)}
<1>1. SUFFICES ASSUME Bad # {} PROVE FALSE
  BY SubsetSize
<1>2. Bad \in SUBSET Nat
  OBVIOUS
<1>3. PICK m \in Bad : \A n \in Bad : m <= n
  <2> HIDE DEF Bad
  <2> QED BY <1>1, <1>2, SmallestElement
<1>4. PICK T \in SUBSET S : Cardinality(T) = m /\ ~SumTakes(w, f, T)
  BY <1>3
<1>5. \A R \in SUBSET S : Cardinality(R) < m => SumTakes(w, f, R)
  <2> SUFFICES ASSUME NEW R \in SUBSET S, Cardinality(R) < m, ~SumTakes(w, f, R) PROVE FALSE
    OBVIOUS
  <2>1. Cardinality(R) \in Nat /\ m \in Nat
    BY <1>2, <1>3, SubsetSize
  <2>2. Cardinality(R) \in Bad
    BY <2>1
  <2> HIDE DEF Bad
  <2> QED BY <1>3, <2>1, <2>2
<1> HIDE DEF Bad
<1>6. \A R \in SUBSET S : f[R] = SumFrom(w, f, R)
  BY SubsetSize DEF Sums, SumsUpto
<1>7. CASE T = {}
  <2>1. f[T] = 0
    BY <1>4, <1>6, <1>7 DEF SumFrom
  <2> QED BY <1>4, <1>7, <2>1 DEF SumTakes
<1>8. CASE T # {}
  <2> DEFINE y == Any(T)
  <2>1. y \in T
    BY <1>8, AnyIn
  <2> HIDE DEF y
  <2>2. f[T] = w[y] + f[T \ {y}]
    BY <1>6, <1>8 DEF SumFrom, y
  <2>3. \A x \in T : T \ {x} \in SUBSET S /\ SumTakes(w, f, T \ {x}) /\ w[x] \in Nat
    <3> TAKE x \in T
    <3>1. /\ T \ {x} \in SUBSET S /\ Cardinality(T) \in Nat
          /\ Cardinality(T \ {x}) = Cardinality(T) - 1
      BY TakeOne
    <3>2. Cardinality(T \ {x}) < m
      BY <3>1, <1>4
    <3> QED BY <3>1, <3>2, <1>5 DEF WeightsNat
  <2>4. f[T] \in Nat
    <3>1. f[T \ {y}] \in Nat /\ w[y] \in Nat
      BY <2>1, <2>3 DEF SumTakes
    <3> QED BY <3>1, <2>2
  <2>5. ASSUME NEW x \in T PROVE f[T] = w[x] + f[T \ {x}]
    <3>1. CASE x = y
      BY <2>2, <3>1
    <3>2. CASE x # y
      <4>1. f[T \ {y}] = w[x] + f[(T \ {y}) \ {x}]
        BY <2>1, <2>3, <3>2 DEF SumTakes
      <4>2. f[T \ {x}] = w[y] + f[(T \ {x}) \ {y}]
        BY <2>1, <2>3, <3>2 DEF SumTakes
      <4>3. (T \ {y}) \ {x} = (T \ {x}) \ {y} /\ (T \ {x}) \ {y} \in SUBSET S
        OBVIOUS
      <4>4. f[(T \ {x}) \ {y}] \in Nat
        <5>1. Cardinality((T \ {x}) \ {y}) < m
          <6>1. Cardinality(T \ {x}) = m - 1 /\ T \ {x} \in SUBSET S /\ m \in Nat
            BY <1>4, TakeOne
          <6>2. Cardinality((T \ {x}) \ {y}) = Cardinality(T \ {x}) - 1
            BY <2>1, <3>2, <6>1, TakeOne
          <6> QED BY <6>1, <6>2
        <5> QED BY <5>1, <4>3, <1>5 DEF SumTakes
      <4>5. w[x] \in Nat /\ w[y] \in Nat
        BY <2>1, <2>3
      <4> DEFINE f1 == f[T \ {y}]
                 f2 == f[T \ {x}]
                 f3 == f[(T \ {x}) \ {y}]
      <4>6. f[T] = w[y] + f1 /\ f1 = w[x] + f3 /\ f2 = w[y] + f3
        BY <2>2, <4>1, <4>2, <4>3
      <4> HIDE DEF f1
      <4>7. f3 \in Nat
        BY <4>4
      <4> HIDE DEF f3
      <4>8. f[T] = w[x] + f2
        <5> HIDE DEF f2
        <5> QED BY <4>5, <4>6, <4>7
      <4> QED BY <4>8
    <3> QED BY <3>1, <3>2
  <2> QED BY <1>4, <2>4, <2>5 DEF SumTakes
<1> QED BY <1>7, <1>8

\* two such functions agree
LEMMA SumsAgree ==
  ASSUME NEW S, IsFiniteSet(S), NEW w, WeightsNat(w, S), NEW f, Sums(w, f, S),
         NEW R \in SUBSET S, NEW g, Sums(w, g, R)
  PROVE  g[R] = f[R]
<1> DEFINE Bad == {n \in Nat : \E T \in SUBSET R : Cardinality(T) = n /\ g[T] # f[T]}
<1>0. IsFiniteSet(R)
  BY SubsetSize
<1>1. SUFFICES ASSUME Bad # {} PROVE FALSE
  <2>1. Cardinality(R) \in Nat
    BY SubsetSize
  <2> QED BY <2>1
<1>2. Bad \in SUBSET Nat
  OBVIOUS
<1>3. PICK m \in Bad : \A n \in Bad : m <= n
  <2> HIDE DEF Bad
  <2> QED BY <1>1, <1>2, SmallestElement
<1>4. PICK T \in SUBSET R : Cardinality(T) = m /\ g[T] # f[T]
  BY <1>3
<1>5. g[T] = SumFrom(w, g, T) /\ f[T] = SumFrom(w, f, T)
  BY <1>0, SubsetSize DEF Sums, SumsUpto
<1>6. T # {}
  BY <1>4, <1>5 DEF SumFrom
<1> DEFINE Q == T \ {Any(T)}
<1>7. Q \in SUBSET R /\ Cardinality(Q) = m - 1 /\ m \in Nat \ {0}
  <2>1. Any(T) \in T
    BY <1>6, AnyIn
  <2>2. Q \in SUBSET R /\ Cardinality(Q) = Cardinality(T) - 1 /\ Cardinality(T) \in Nat \ {0}
    BY <1>0, <2>1, TakeOne
  <2> QED BY <1>4, <2>2
<1>8. g[Q] = f[Q]
  <2> SUFFICES ASSUME g[Q] # f[Q] PROVE FALSE
    OBVIOUS
  <2> HIDE DEF Q
  <2>1. m - 1 \in Bad
    BY <1>7
  <2> HIDE DEF Bad
  <2> QED BY <2>1, <1>3, <1>7
<1> QED BY <1>4, <1>5, <1>6, <1>8 DEF SumFrom

\* the sum of the weights is one of them and the sum of the others
LEMMA SumsTake ==
  ASSUME NEW S, IsFiniteSet(S), NEW w, WeightsNat(w, S), NEW f, Sums(w, f, S),
         NEW x \in S, NEW g, Sums(w, g, S \ {x})
  PROVE  f[S] = w[x] + g[S \ {x}] /\ g[S \ {x}] \in Nat
<1> DEFINE R == S \ {x}
<1>1. R \in SUBSET S
  OBVIOUS
<1>2. g[R] = f[R]
  <2>1. Sums(w, g, R)
    OBVIOUS
  <2> HIDE DEF R
  <2> QED BY <1>1, <2>1, SumsAgree
<1>3. SumTakes(w, f, S) /\ SumTakes(w, f, R)
  BY <1>1, SumOrder
<1> QED BY <1>2, <1>3 DEF SumTakes

SizesNat(S) == \A b \in S : b.size \in Nat

LEMMA SizesTake ==
  ASSUME NEW S, IsFiniteSet(S), SizesNat(S), NEW x \in S
  PROVE  SizesOf(S) = x.size + SizesOf(S \ {x}) /\ SizesOf(S \ {x}) \in Nat
<1> DEFINE w == [b \in S |-> b.size]
           R == S \ {x}
<1>1. /\ \A b \in S : w[b] = b.size
      /\ \A b \in R : w[b] = b.size
      /\ WeightsNat(w, S) /\ IsFiniteSet(R) /\ w[x] = x.size
  BY FS_RemoveElement DEF SizesNat, WeightsNat
<1> HIDE DEF w
<1>2. PICK f : Sums(w, f, S) /\ SizesOf(S) = f[S]
  BY <1>1, SizesUnfold
<1>3. PICK g : Sums(w, g, R) /\ SizesOf(R) = g[R]
  <2> HIDE DEF R
  <2> QED BY <1>1, SizesUnfold
<1> QED BY <1>1, <1>2, <1>3, SumsTake

LEMMA SlotsTake ==
  ASSUME NEW h, NEW S, IsFiniteSet(S), \A b \in S : h[b.at - SLOT].size \in Nat, NEW x \in S
  PROVE  /\ SlotSum(h, S) = h[x.at - SLOT].size + SlotSum(h, S \ {x})
         /\ SlotSum(h, S \ {x}) \in Nat
<1> DEFINE w == [b \in S |-> h[b.at - SLOT].size]
           R == S \ {x}
<1>1. /\ \A b \in S : w[b] = h[b.at - SLOT].size
      /\ \A b \in R : w[b] = h[b.at - SLOT].size
      /\ WeightsNat(w, S) /\ IsFiniteSet(R) /\ w[x] = h[x.at - SLOT].size
  BY FS_RemoveElement DEF WeightsNat
<1> HIDE DEF w
<1>2. PICK f : Sums(w, f, S) /\ SlotSum(h, S) = f[S]
  BY <1>1, SlotsUnfold
<1>3. PICK g : Sums(w, g, R) /\ SlotSum(h, R) = g[R]
  <2> HIDE DEF R
  <2> QED BY <1>1, SlotsUnfold
<1> QED BY <1>1, <1>2, <1>3, SumsTake

\* only the headers of the blocks count
LEMMA SlotsSame ==
  ASSUME NEW S, IsFiniteSet(S), NEW h, NEW g,
         \A b \in S : h[b.at - SLOT].size = g[b.at - SLOT].size /\ h[b.at - SLOT].size \in Nat
  PROVE  SlotSum(h, S) = SlotSum(g, S)
<1> DEFINE w == [b \in S |-> h[b.at - SLOT].size]
<1>1. /\ \A b \in S : w[b] = h[b.at - SLOT].size
      /\ \A b \in S : w[b] = g[b.at - SLOT].size
      /\ WeightsNat(w, S)
  BY DEF WeightsNat
<1> HIDE DEF w
<1>2. PICK f : Sums(w, f, S) /\ SlotSum(h, S) = f[S]
  BY <1>1, SlotsUnfold
<1>3. PICK e : Sums(w, e, S) /\ SlotSum(g, S) = e[S]
  BY <1>1, SlotsUnfold
<1>4. e[S] = f[S]
  BY <1>1, <1>2, <1>3, SumsAgree
<1> QED BY <1>2, <1>3, <1>4

LEMMA SizesEqual == ASSUME NEW S, NEW T, S = T PROVE SizesOf(S) = SizesOf(T)
  OBVIOUS

LEMMA SizesNone == SizesOf({}) = 0
<1> DEFINE w == [b \in {} |-> 0]
<1>1. IsFiniteSet({}) /\ Cardinality({}) = 0 /\ \A b \in {} : w[b] = b.size
  BY FS_EmptySet
<1> HIDE DEF w
<1>2. PICK f : Sums(w, f, {}) /\ SizesOf({}) = f[{}]
  BY <1>1, SizesUnfold
<1> QED BY <1>1, <1>2 DEF Sums, SumsUpto, SumFrom

LEMMA SlotsNone == ASSUME NEW h PROVE SlotSum(h, {}) = 0
<1> DEFINE w == [b \in {} |-> 0]
<1>1. IsFiniteSet({}) /\ Cardinality({}) = 0 /\ \A b \in {} : w[b] = h[b.at - SLOT].size
  BY FS_EmptySet
<1> HIDE DEF w
<1>2. PICK f : Sums(w, f, {}) /\ SlotSum(h, {}) = f[{}]
  BY <1>1, SlotsUnfold
<1> QED BY <1>1, <1>2 DEF Sums, SumsUpto, SumFrom
-----------------------------------------------------------------------------
(* The linear allocator *)

\* the blocks in the buffer are aligned and apart
Apart ==
  /\ \A b \in Held : b.align \in Nat \ {0} /\ b.at % b.align = 0 /\ End(b) <= buffer_to
  /\ \A b, c \in Held : b # c => End(b) <= c.at \/ End(c) <= b.at

\* the blocks are in front of the end of the last one, and those that are not the
\* last one are in front of it
BelowLast ==
  \A b \in Held : /\ End(b) <= last_block_to
                  /\ b.at = last_block_from \/ End(b) <= last_block_from

\* what the parent has given out is what the client holds of it
ParentHeld ==
  /\ \A p \in parent : \E b \in live \ Held : p.at = b.at
  /\ \A b \in live \ Held : \E p \in parent : p.at = b.at
  /\ \A b, c \in live \ Held : b.at = c.at => b = c
  /\ \A b \in live \ Held, p \in parent :
       p.at = b.at => p.size = b.size /\ p.align = b.align /\ b.align \in Nat \ {0}
  /\ \A b \in live \ Held : b.at >= buffer_to

LastTypes == last_block_to \in 0 .. buffer_to /\ last_block_from \in 0 .. last_block_to

LinearCounted ==
  current_alloced \in Int /\ SizesOf(Held) \in Nat /\ current_alloced >= SizesOf(Held)

LinearInv ==
  /\ LastTypes /\ BlockTypes /\ Apart /\ BelowLast /\ ParentHeld /\ LinearCounted

LEMMA LinearInit == Linear!Init => LinearInv
<1> SUFFICES ASSUME Linear!Init PROVE LinearInv
  OBVIOUS
<1>1. /\ last_block_to = 0 /\ last_block_from = 0 /\ current_alloced = 0
      /\ live = {} /\ parent = {}
  BY DEF Linear!Init, Linear!buffer_from
<1>2. Held = {} /\ live \ Held = {} /\ SizesOf(Held) = 0 /\ buffer_to \in Nat
  BY <1>1, SizesNone, AllocatorsAssumption DEF Held
<1>3. BlockTypes
  BY <1>1, FS_EmptySet DEF BlockTypes
<1> QED BY <1>1, <1>2, <1>3
        DEF LinearInv, LastTypes, Apart, BelowLast, ParentHeld, LinearCounted

\* a block that is freed or given out changes the blocks that are held by one
LEMMA BlockAdded ==
  ASSUME BlockTypes, NEW b, b.at \in Nat, b.size \in Nat \ {0},
         live' = live \cup {b}
  PROVE  /\ IsFiniteSet(live') /\ \A c \in live' : c.at \in Nat /\ c.size \in Nat \ {0}
         /\ Held' = IF InBuffer(b) THEN Held \cup {b} ELSE Held
         /\ live' \ Held' = IF InBuffer(b) THEN live \ Held ELSE (live \ Held) \cup {b}
<1>1. IsFiniteSet(live')
  BY FS_AddElement DEF BlockTypes
<1>2. Held' = {c \in live \cup {b} : InBuffer(c)}
  BY DEF Held, InBuffer, buffer_from
<1> QED BY <1>1, <1>2 DEF BlockTypes, Held

LEMMA BlockTaken ==
  ASSUME BlockTypes, NEW b \in live, live' = live \ {b}
  PROVE  /\ IsFiniteSet(live') /\ \A c \in live' : c.at \in Nat /\ c.size \in Nat \ {0}
         /\ Held' = Held \ {b} /\ live' \ Held' = (live \ Held) \ {b}
<1>1. IsFiniteSet(live')
  BY FS_RemoveElement DEF BlockTypes
<1>2. Held' = {c \in live \ {b} : InBuffer(c)}
  BY DEF Held, InBuffer, buffer_from
<1> QED BY <1>1, <1>2 DEF BlockTypes, Held

LEMMA HeldSizes ==
  ASSUME BlockTypes
  PROVE  IsFiniteSet(Held) /\ SizesNat(Held) /\ Held \subseteq live
<1>1. Held \in SUBSET live
  BY DEF Held
<1>2. IsFiniteSet(Held)
  BY <1>1, FS_Subset DEF BlockTypes
<1> QED BY <1>1, <1>2 DEF SizesNat, BlockTypes

\* requests are positive sizes with an alignment
LEMMA RequestTypes ==
  ASSUME NEW r \in Requests
  PROVE  /\ r[1] \in Nat \ {0} /\ r[2] \in Nat \ {0}
         /\ r[2] < SLOT => SLOT % r[2] = 0
  BY AllocatorsAssumption

LEMMA LinearAllocate ==
  ASSUME LinearInv, NEW s \in Nat \ {0}, NEW a \in Nat \ {0}, Linear!Allocate(s, a)
  PROVE  LinearInv'
<1> DEFINE x == align_forward(last_block_to, a)
           b == Block(x, s, a)
<1>0. /\ LastTypes /\ BlockTypes /\ Apart /\ BelowLast /\ ParentHeld /\ LinearCounted
      /\ buffer_to \in Nat
  BY AllocatorsAssumption DEF LinearInv
<1>1. /\ x + s <= buffer_to /\ current_alloced' = current_alloced + s
      /\ last_block_to' = x + s /\ last_block_from' = x
      /\ live' = live \cup {b} /\ parent' = parent
  BY DEF Linear!Allocate, Linear!Fits, Linear!align_forward, align_forward, Linear!Block, Block
<1>2. x \in Nat /\ x >= last_block_to /\ x % a = 0
  <2>1. last_block_to \in Nat
    BY <1>0 DEF LastTypes
  <2> QED BY <2>1, AlignForward
<1>3. b.at = x /\ b.size = s /\ b.align = a
  BY DEF Block
<1> HIDE DEF b, x
<1>4. InBuffer(b) /\ End(b) = x + s
  BY <1>0, <1>1, <1>2, <1>3 DEF InBuffer, buffer_from, End
<1>5. \A c \in Held : End(c) <= x /\ c.at < x /\ c.at \in Nat /\ End(c) \in Nat
  <2> TAKE c \in Held
  <2>1. End(c) <= last_block_to /\ c.at \in Nat /\ c.size \in Nat \ {0}
    BY <1>0 DEF BelowLast, BlockTypes, Held
  <2> QED BY <2>1, <1>0, <1>2 DEF End, LastTypes
<1>6. b \notin Held /\ b \notin live
  BY <1>3, <1>4, <1>5 DEF Held
<1>7. /\ IsFiniteSet(live') /\ \A c \in live' : c.at \in Nat /\ c.size \in Nat \ {0}
      /\ Held' = Held \cup {b} /\ live' \ Held' = live \ Held
  BY <1>0, <1>1, <1>2, <1>3, <1>4, <1>6, BlockAdded
<1>8. LastTypes'
  BY <1>0, <1>1, <1>2 DEF LastTypes
<1>9. BlockTypes'
  BY <1>0, <1>1, <1>7 DEF BlockTypes
<1>10. Apart'
  <2>1. \A c \in Held' : c.align \in Nat \ {0} /\ c.at % c.align = 0 /\ End(c) <= buffer_to
    BY <1>0, <1>1, <1>2, <1>3, <1>4, <1>7 DEF Apart
  <2>2. \A c, d \in Held' : c # d => End(c) <= d.at \/ End(d) <= c.at
    BY <1>0, <1>3, <1>5, <1>7 DEF Apart
  <2> QED BY <2>1, <2>2 DEF Apart, End
<1>11. BelowLast'
  <2> SUFFICES ASSUME NEW c \in Held'
               PROVE  /\ End(c) <= last_block_to'
                      /\ c.at = last_block_from' \/ End(c) <= last_block_from'
    BY DEF BelowLast, End
  <2>1. CASE c = b
    BY <2>1, <1>1, <1>2, <1>3, <1>4
  <2>2. CASE c \in Held
    BY <2>2, <1>1, <1>2, <1>5
  <2> QED BY <2>1, <2>2, <1>7
<1>12. ParentHeld'
  BY <1>0, <1>1, <1>7 DEF ParentHeld
<1>13. LinearCounted'
  <2>1. IsFiniteSet(Held') /\ SizesNat(Held')
    BY <1>7, <1>9, HeldSizes, FS_AddElement, <1>0, <1>3 DEF SizesNat
  <2>2. Held' \ {b} = Held /\ b \in Held'
    BY <1>6, <1>7
  <2> DEFINE now == Held'
  <2>3. SizesOf(now) = s + SizesOf(Held)
    <3>1. IsFiniteSet(now) /\ SizesNat(now) /\ b \in now /\ now \ {b} = Held
      BY <2>1, <2>2
    <3> HIDE DEF now
    <3>2. SizesOf(now) = b.size + SizesOf(now \ {b})
      BY <3>1, SizesTake
    <3> DEFINE rest == now \ {b}
               before == Held
    <3>3. rest = before
      BY <3>1
    <3> HIDE DEF rest, before
    <3>4. SizesOf(rest) = SizesOf(before)
      BY <3>3, SizesEqual
    <3> QED BY <3>2, <3>4, <1>3 DEF rest, before
  <2> QED BY <2>3, <1>0, <1>1 DEF LinearCounted
<1> QED BY <1>8, <1>9, <1>10, <1>11, <1>12, <1>13 DEF LinearInv

LEMMA LinearOverflow ==
  ASSUME LinearInv, Cardinality(live) < MaxLive,
         NEW s \in Nat \ {0}, NEW a \in Nat \ {0}, Linear!AllocateOverflow(s, a)
  PROVE  LinearInv'
<1> DEFINE x == CHOOSE y \in PARENT .. PARENT + MaxLive : \A p \in parent : p.at # y
           b == Block(x, s, a)
<1>0. /\ LastTypes /\ BlockTypes /\ Apart /\ BelowLast /\ ParentHeld /\ LinearCounted
      /\ buffer_to \in Nat
  BY AllocatorsAssumption DEF LinearInv
<1>1. /\ live' = live \cup {b} /\ parent' = parent \cup {b}
      /\ UNCHANGED <<last_block_to, last_block_from, current_alloced>>
  BY DEF Linear!AllocateOverflow, Linear!ParentAllocate, Linear!PARENT, PARENT,
         Linear!Block, Block
<1>2. x \in Nat /\ x >= buffer_to /\ \A p \in parent : p.at # x
  <2>1. x = CHOOSE y \in PARENT .. PARENT + MaxLive : \A p \in parent : p.at # y
    OBVIOUS
  <2> HIDE DEF x
  <2> QED BY <1>0, <2>1, ParentBlock
<1>3. b.at = x /\ b.size = s /\ b.align = a
  BY DEF Block
<1> HIDE DEF b, x
<1>4. ~InBuffer(b)
  BY <1>0, <1>2, <1>3 DEF InBuffer, buffer_from
<1>5. b \notin live
  BY <1>0, <1>2, <1>3, <1>4 DEF ParentHeld, Held
<1>6. /\ IsFiniteSet(live') /\ \A c \in live' : c.at \in Nat /\ c.size \in Nat \ {0}
      /\ Held' = Held /\ live' \ Held' = (live \ Held) \cup {b}
  BY <1>0, <1>1, <1>2, <1>3, <1>4, <1>5, BlockAdded
<1>7. BlockTypes'
  BY <1>0, <1>1, <1>6 DEF BlockTypes
<1>8. ParentHeld'
  BY <1>0, <1>1, <1>2, <1>3, <1>6 DEF ParentHeld
<1>9. (LastTypes /\ Apart /\ BelowLast /\ LinearCounted)'
  BY <1>0, <1>1, <1>6 DEF LastTypes, Apart, BelowLast, LinearCounted, End
<1> QED BY <1>7, <1>8, <1>9 DEF LinearInv

LEMMA LinearDeallocate ==
  ASSUME LinearInv, NEW b \in live, Linear!Deallocate(b)
  PROVE  LinearInv'
<1>0. /\ LastTypes /\ BlockTypes /\ Apart /\ BelowLast /\ ParentHeld /\ LinearCounted
      /\ buffer_to \in Nat
  BY AllocatorsAssumption DEF LinearInv
<1>1. /\ InBuffer(b)
      /\ last_block_to' = IF b.at = last_block_from /\ b.at + b.size = last_block_to
                          THEN last_block_from ELSE last_block_to
      /\ current_alloced' = current_alloced - b.size
      /\ live' = live \ {b} /\ UNCHANGED <<last_block_from, parent>>
  BY DEF Linear!Deallocate, Linear!InBuffer, InBuffer, Linear!buffer_from, buffer_from
<1>2. b \in Held
  BY <1>1 DEF Held
<1>3. /\ IsFiniteSet(live') /\ \A c \in live' : c.at \in Nat /\ c.size \in Nat \ {0}
      /\ Held' = Held \ {b} /\ live' \ Held' = live \ Held
  <2>1. (live \ Held) \ {b} = live \ Held
    BY <1>2
  <2> QED BY <2>1, <1>0, <1>1, BlockTaken
<1>4. (LastTypes /\ Apart /\ ParentHeld)'
  BY <1>0, <1>1, <1>3 DEF LastTypes, Apart, ParentHeld, End
<1>5. BlockTypes'
  <2>1. \A p \in parent' : \E c \in live' : p.at = c.at
    BY <1>0, <1>1, <1>2 DEF ParentHeld
  <2> QED BY <1>3, <2>1 DEF BlockTypes
<1>6. BelowLast'
  <2> SUFFICES ASSUME NEW c \in Held'
               PROVE  /\ End(c) <= last_block_to'
                      /\ c.at = last_block_from' \/ End(c) <= last_block_from'
    BY DEF BelowLast, End
  <2>1. /\ c \in Held /\ c # b
        /\ End(c) <= last_block_to
        /\ c.at = last_block_from \/ End(c) <= last_block_from
    BY <1>0, <1>3 DEF BelowLast
  <2>2. CASE b.at = last_block_from /\ b.at + b.size = last_block_to
    <3>1. End(b) <= c.at \/ End(c) <= b.at
      BY <1>0, <1>2, <2>1 DEF Apart
    <3>2. /\ c.at \in Nat /\ c.size \in Nat \ {0} /\ b.at \in Nat /\ b.size \in Nat \ {0}
          /\ last_block_to \in Nat /\ last_block_from \in Nat
      BY <1>0, <2>1 DEF BlockTypes, Held, LastTypes
    <3>3. End(c) <= last_block_from
      BY <2>1, <2>2, <3>1, <3>2 DEF End
    <3> QED BY <1>1, <2>2, <3>3
  <2>3. CASE ~(b.at = last_block_from /\ b.at + b.size = last_block_to)
    BY <1>1, <2>1, <2>3
  <2> QED BY <2>2, <2>3
<1>7. LinearCounted'
  <2>1. IsFiniteSet(Held) /\ SizesNat(Held)
    BY <1>0, HeldSizes
  <2>2. SizesOf(Held) = b.size + SizesOf(Held \ {b}) /\ SizesOf(Held \ {b}) \in Nat
    BY <1>2, <2>1, SizesTake
  <2>3. b.size \in Nat
    BY <1>0 DEF BlockTypes
  <2> DEFINE now == Held'
             rest == Held \ {b}
  <2>4. now = rest
    BY <1>3
  <2> HIDE DEF now, rest
  <2>5. SizesOf(now) = SizesOf(rest)
    BY <2>4, SizesEqual
  <2> QED BY <2>2, <2>3, <2>5, <1>0, <1>1 DEF LinearCounted, now, rest
<1> QED BY <1>4, <1>5, <1>6, <1>7 DEF LinearInv

LEMMA LinearDeallocateOverflow ==
  ASSUME LinearInv, NEW b \in live, Linear!DeallocateOverflow(b)
  PROVE  LinearInv'
<1>0. /\ LastTypes /\ BlockTypes /\ Apart /\ BelowLast /\ ParentHeld /\ LinearCounted
  BY DEF LinearInv
<1>1. /\ ~InBuffer(b) /\ live' = live \ {b} /\ parent' = {p \in parent : p.at # b.at}
      /\ UNCHANGED <<last_block_to, last_block_from, current_alloced>>
  BY DEF Linear!DeallocateOverflow, Linear!ParentDeallocate, Linear!InBuffer, InBuffer,
         Linear!buffer_from, buffer_from
<1>2. b \in live \ Held
  BY <1>1 DEF Held
<1>3. /\ IsFiniteSet(live') /\ \A c \in live' : c.at \in Nat /\ c.size \in Nat \ {0}
      /\ Held' = Held /\ live' \ Held' = (live \ Held) \ {b}
  <2>1. Held \ {b} = Held
    BY <1>2
  <2> QED BY <2>1, <1>0, <1>1, BlockTaken
<1>4. ParentHeld'
  BY <1>0, <1>1, <1>2, <1>3 DEF ParentHeld
<1>5. BlockTypes'
  BY <1>3, <1>4 DEF BlockTypes, ParentHeld
<1>6. (LastTypes /\ Apart /\ BelowLast /\ LinearCounted)'
  BY <1>0, <1>1, <1>3 DEF LastTypes, Apart, BelowLast, LinearCounted, End
<1> QED BY <1>4, <1>5, <1>6 DEF LinearInv

LEMMA LinearResize ==
  ASSUME LinearInv, NEW b \in live, NEW n \in Nat, Linear!Grows(b, n), Linear!Resize(b, n)
  PROVE  LinearInv'
<1>0. /\ LastTypes /\ BlockTypes /\ Apart /\ BelowLast /\ ParentHeld /\ LinearCounted
      /\ buffer_to \in Nat
  BY AllocatorsAssumption DEF LinearInv
<1>1. /\ InBuffer(b) /\ n > b.size /\ UNCHANGED <<last_block_from, live, parent>>
      /\ IF last_block_from = b.at /\ b.at + n <= buffer_to
         THEN last_block_to' = b.at + n /\ current_alloced' = current_alloced + n - b.size
         ELSE UNCHANGED <<last_block_to, current_alloced>>
  BY DEF Linear!Resize, Linear!Grows, Linear!InBuffer, InBuffer, Linear!buffer_from, buffer_from
<1>2. Held' = Held
  BY <1>1 DEF Held, InBuffer, buffer_from
<1>3. (BlockTypes /\ Apart /\ ParentHeld)'
  BY <1>0, <1>1, <1>2 DEF BlockTypes, Apart, ParentHeld, End
<1>4. (LastTypes /\ BelowLast /\ LinearCounted)'
  <2>1. CASE last_block_from = b.at /\ b.at + n <= buffer_to
    <3>1. last_block_to' = b.at + n /\ current_alloced' = current_alloced + n - b.size
      BY <1>1, <2>1
    <3>2. b.at \in Nat /\ b.size \in Nat
      BY <1>0 DEF BlockTypes
    <3>3. LastTypes'
      BY <1>0, <1>1, <2>1, <3>1, <3>2 DEF LastTypes
    <3>4. ASSUME NEW c \in Held
          PROVE  /\ End(c) <= last_block_to'
                 /\ c.at = last_block_from \/ End(c) <= last_block_from
      <4>1. c.at = last_block_from \/ End(c) <= last_block_from
        BY <1>0 DEF BelowLast
      <4>2. c.at \in Nat /\ c.size \in Nat \ {0} /\ b \in Held
        BY <1>0, <1>1 DEF BlockTypes, Held
      <4>3. CASE c = b
        BY <4>1, <4>2, <4>3, <3>1, <3>2, <1>1 DEF End
      <4>4. CASE c # b
        <5>1. End(b) <= c.at \/ End(c) <= b.at
          BY <4>2, <4>4, <1>0 DEF Apart
        <5>2. b.size > 0
          BY <1>0 DEF BlockTypes
        <5> QED BY <5>1, <5>2, <4>1, <4>2, <3>1, <3>2, <2>1 DEF End
      <4> QED BY <4>3, <4>4
    <3>5. BelowLast'
      BY <1>1, <1>2, <3>4 DEF BelowLast, End
    <3>6. LinearCounted'
      BY <1>0, <1>1, <1>2, <3>1, <3>2 DEF LinearCounted
    <3> QED BY <3>3, <3>5, <3>6
  <2>2. CASE ~(last_block_from = b.at /\ b.at + n <= buffer_to)
    BY <2>2, <1>0, <1>1, <1>2 DEF LastTypes, BelowLast, LinearCounted, End
  <2> QED BY <2>1, <2>2
<1> QED BY <1>3, <1>4 DEF LinearInv

LEMMA LinearSame ==
  ASSUME LinearInv,
         UNCHANGED <<last_block_to, last_block_from, current_alloced, live, parent>>
  PROVE  LinearInv'
<1>1. Held' = Held
  BY DEF Held, InBuffer, buffer_from
<1> QED BY <1>1 DEF LinearInv, LastTypes, BlockTypes, Apart, BelowLast, ParentHeld,
                    LinearCounted, End

LEMMA LinearStep == ASSUME LinearInv, Linear!Next PROVE LinearInv'
<1>1. ASSUME NEW r \in Requests, Cardinality(live) < MaxLive,
             Linear!Allocate(r[1], r[2]) \/ Linear!AllocateOverflow(r[1], r[2])
      PROVE  LinearInv'
  BY <1>1, RequestTypes, LinearAllocate, LinearOverflow
<1>2. ASSUME NEW b \in live, Linear!Deallocate(b) \/ Linear!DeallocateOverflow(b)
      PROVE  LinearInv'
  BY <1>2, LinearDeallocate, LinearDeallocateOverflow
<1>3. ASSUME NEW b \in live, NEW n \in ResizeSizes, Linear!Grows(b, n),
             Linear!Resize(b, n) \/ Linear!ResizeOverflow(b, n)
      PROVE  LinearInv'
  <2>1. n \in Nat
    BY AllocatorsAssumption
  <2>2. CASE Linear!Resize(b, n)
    BY <1>3, <2>1, <2>2, LinearResize
  <2>3. CASE Linear!ResizeOverflow(b, n)
    <3>1. UNCHANGED <<last_block_to, last_block_from, current_alloced, live, parent>>
      BY <2>3 DEF Linear!ResizeOverflow, Linear!ParentResize
    <3> QED BY <3>1, LinearSame
  <2> QED BY <1>3, <2>2, <2>3
<1>4. Linear!Cardinality(live) = Cardinality(live)
  BY DEF Linear!Cardinality, Cardinality
<1> QED BY <1>1, <1>2, <1>3, <1>4 DEF Linear!Next

LEMMA LinearInvSound ==
  ASSUME LinearInv
  PROVE  LiveDisjoint /\ LiveAligned /\ ParentMatches /\ Linear!AllocatedCounted
<1>0. /\ LastTypes /\ BlockTypes /\ Apart /\ BelowLast /\ ParentHeld /\ LinearCounted
  BY DEF LinearInv
<1>1. LiveDisjoint
  <2>1. ASSUME NEW b \in live, NEW c \in live, b # c, InBuffer(b), InBuffer(c)
        PROVE  Bytes(b) \cap Bytes(c) = {}
    <3>1. End(b) <= c.at \/ End(c) <= b.at
      BY <1>0, <2>1 DEF Apart, Held
    <3>2. b.at \in Nat /\ b.size \in Nat /\ c.at \in Nat /\ c.size \in Nat
      BY <1>0 DEF BlockTypes
    <3> QED BY <3>1, <3>2 DEF End, Bytes
  <2>2. \A b \in live : InBuffer(b) => b.at + b.size <= buffer_to
    BY <1>0 DEF Apart, Held, End
  <2> QED BY <2>1, <2>2 DEF LiveDisjoint
<1>2. LiveAligned
  BY <1>0 DEF LiveAligned, Apart, Held
<1>3. ParentMatches
  <2>1. {p.at : p \in parent} = {b.at : b \in {c \in live : ~InBuffer(c)}}
    BY <1>0 DEF ParentHeld, Held
  <2>2. ASSUME NEW b \in live, NEW p \in parent, p.at = b.at
        PROVE  /\ p.size >= b.size /\ p.align % b.align = 0
               /\ (p.align > SLOT) = (b.align > SLOT)
    <3>1. b \in live \ Held
      <4>1. PICK c \in live \ Held : p.at = c.at
        BY <1>0 DEF ParentHeld
      <4>2. c.at >= buffer_to
        BY <1>0, <4>1 DEF ParentHeld
      <4> QED BY <4>1, <4>2, <2>2, <1>0, AllocatorsAssumption
              DEF Held, InBuffer, BlockTypes
    <3>2. p.size = b.size /\ p.align = b.align /\ b.align \in Nat \ {0} /\ b.size \in Nat
      BY <3>1, <2>2, <1>0 DEF ParentHeld, BlockTypes
    <3> QED BY <3>2
  <2> QED BY <2>1, <2>2 DEF ParentMatches
<1>4. Linear!AllocatedCounted
  <2>1. {b \in live : Linear!InBuffer(b)} = Held
    BY DEF Held, Linear!InBuffer, InBuffer, Linear!buffer_from, buffer_from
  <2> DEFINE counted == {b \in live : Linear!InBuffer(b)}
             inside == Held
  <2>2. counted = inside
    BY <2>1
  <2> HIDE DEF counted, inside
  <2>3. Linear!SizesOf(counted) = SizesOf(counted)
    BY DEF Linear!SizesOf, SizesOf, Linear!MapThenSumSet, MapThenSumSet,
           Linear!MapThenFoldSet, MapThenFoldSet
  <2>4. SizesOf(counted) = SizesOf(inside)
    BY <2>2, SizesEqual
  <2> QED BY <2>3, <2>4, <1>0 DEF LinearCounted, Linear!AllocatedCounted, counted, inside
<1> QED BY <1>1, <1>2, <1>3, <1>4

\* For every buffer, every set of requests and every number of blocks, the linear
\* allocator (allocator_linear.h) gives out blocks of its buffer that are apart
\* and aligned, asks the parent for the others and gives those back to it, and
\* never counts fewer bytes than the client holds: what it takes back, or grows
\* in vain, is the block at last_block_from or none.
THEOREM LinearAllocatorSound == Spec => []LinearSound
<1> DEFINE IInv == kind = "linear" => LinearInv
<1>1. Init => IInv
  BY LinearInit DEF Init
<1>2. IInv /\ [Next]_vars => IInv'
  <2> SUFFICES ASSUME IInv, [Next]_vars, kind' = "linear" PROVE LinearInv'
    OBVIOUS
  <2>1. CASE Next
    <3>1. kind = "linear" /\ Linear!Next
      BY <2>1 DEF Next
    <3> QED BY <3>1, LinearStep
  <2>2. CASE UNCHANGED vars
    <3>1. /\ UNCHANGED kind
          /\ UNCHANGED <<last_block_to, last_block_from, current_alloced, live, parent>>
      BY <2>2 DEF vars, stack_vars
    <3> QED BY <3>1, LinearSame
  <2> QED BY <2>1, <2>2
<1>3. IInv => LinearSound
  BY LinearInvSound DEF LinearSound
<1> QED BY <1>1, <1>2, <1>3, PTL DEF Spec
-----------------------------------------------------------------------------
(* The walk of the stack allocator over its headers *)

Ends == (0 .. buffer_to) \X (0 .. buffer_to)

HeadTypes(heads) ==
  \A s \in DOMAIN heads :
    s \in 0 .. buffer_to /\ heads[s].prev_offset \in Nat

\* the block in front of the one that begins at s
Previous(heads, s) == s - SLOT - heads[s - SLOT].prev_offset

\* a step of the walk, when f has the rest of it
WalkFrom(heads, f, p) ==
  IF p[1] - SLOT \notin DOMAIN heads \/ heads[p[1] - SLOT].used THEN p
  ELSE IF Previous(heads, p[1]) <= 0 THEN <<0, 0>>
  ELSE f[<<Previous(heads, p[1]), p[1] - SLOT>>]

\* f is the walk from the ends up to n
WalksUpto(heads, f, n) ==
  \A p \in Ends : p[1] <= n => f[p] = WalkFrom(heads, f, p)

Walks(heads, f) == \A p \in Ends : f[p] = WalkFrom(heads, f, p)

Stops(heads, p) ==
  \/ p[1] - SLOT \notin DOMAIN heads \/ heads[p[1] - SLOT].used
  \/ Previous(heads, p[1]) <= 0

\* each step goes back
LEMMA WalkGoesBack ==
  ASSUME NEW heads, HeadTypes(heads), NEW p \in Ends, ~Stops(heads, p)
  PROVE  /\ <<Previous(heads, p[1]), p[1] - SLOT>> \in Ends
         /\ Previous(heads, p[1]) \in Nat /\ p[1] \in Nat /\ Previous(heads, p[1]) < p[1]
<1>1. /\ SLOT \in Nat \ {0} /\ buffer_to \in Nat /\ p[1] \in 0 .. buffer_to
      /\ p[1] - SLOT \in DOMAIN heads
  BY AllocatorsAssumption DEF Ends, Stops
<1>2. p[1] - SLOT \in 0 .. buffer_to /\ heads[p[1] - SLOT].prev_offset \in Nat
  BY <1>1 DEF HeadTypes
<1>3. Previous(heads, p[1]) > 0 /\ Previous(heads, p[1]) \in Int
      /\ Previous(heads, p[1]) <= p[1] - SLOT
  BY <1>1, <1>2 DEF Stops, Previous
<1> QED BY <1>1, <1>2, <1>3 DEF Ends

LEMMA WalkExtends ==
  ASSUME NEW heads, HeadTypes(heads), NEW n \in Nat, NEW f, WalksUpto(heads, f, n)
  PROVE  \E g : WalksUpto(heads, g, n + 1)
<1> DEFINE g == [p \in Ends |-> WalkFrom(heads, f, p)]
<1> SUFFICES ASSUME NEW p \in Ends, p[1] <= n + 1
             PROVE  g[p] = WalkFrom(heads, g, p)
  BY DEF WalksUpto
<1>1. g[p] = WalkFrom(heads, f, p)
  OBVIOUS
<1>2. CASE Stops(heads, p)
  <2> HIDE DEF g
  <2> QED BY <1>1, <1>2 DEF WalkFrom, Stops
<1>3. CASE ~Stops(heads, p)
  <2> DEFINE q == <<Previous(heads, p[1]), p[1] - SLOT>>
  <2>1. q \in Ends /\ q[1] <= n
    BY <1>3, WalkGoesBack
  <2> HIDE DEF q
  <2>2. f[q] = WalkFrom(heads, f, q) /\ g[q] = WalkFrom(heads, f, q)
    BY <2>1 DEF WalksUpto
  <2> HIDE DEF g
  <2> QED BY <1>1, <1>3, <2>2 DEF WalkFrom, Stops, q
<1> QED BY <1>2, <1>3

LEMMA WalkReaches ==
  ASSUME NEW heads, HeadTypes(heads)
  PROVE  \A n \in Nat : \E f : WalksUpto(heads, f, n)
<1> DEFINE Bad == {n \in Nat : ~\E f : WalksUpto(heads, f, n)}
<1>1. SUFFICES ASSUME Bad # {} PROVE FALSE
  OBVIOUS
<1>2. Bad \in SUBSET Nat
  OBVIOUS
<1> HIDE DEF Bad
<1>3. PICK m \in Bad : \A n \in Bad : m <= n
  BY <1>1, <1>2, SmallestElement
<1>4. m \in Nat /\ ~\E f : WalksUpto(heads, f, m)
  BY <1>2, <1>3 DEF Bad
<1>5. CASE m = 0
  <2> DEFINE f == [p \in Ends |-> p]
  <2>1. ASSUME NEW p \in Ends, p[1] <= 0 PROVE f[p] = WalkFrom(heads, f, p)
    <3>1. p[1] = 0 /\ SLOT \in Nat \ {0} /\ buffer_to \in Nat
      BY <2>1, AllocatorsAssumption DEF Ends
    <3>2. p[1] - SLOT \notin DOMAIN heads
      BY <3>1 DEF HeadTypes
    <3> QED BY <3>2 DEF WalkFrom
  <2>2. WalksUpto(heads, f, m)
    <3> HIDE DEF f
    <3> QED BY <1>5, <2>1 DEF WalksUpto
  <2> QED BY <1>4, <2>2
<1>6. CASE m # 0
  <2>1. m - 1 \in Nat /\ m - 1 \notin Bad
    BY <1>3, <1>4, <1>6
  <2>2. PICK f : WalksUpto(heads, f, m - 1)
    BY <2>1 DEF Bad
  <2>3. \E g : WalksUpto(heads, g, (m - 1) + 1)
    BY <2>1, <2>2, WalkExtends
  <2>4. (m - 1) + 1 = m
    BY <1>4
  <2> QED BY <1>4, <2>3, <2>4
<1> QED BY <1>5, <1>6

\* so PopUnused is the walk it describes
LEMMA PopWalks ==
  ASSUME NEW heads, HeadTypes(heads), NEW from \in 0 .. buffer_to, NEW to \in 0 .. buffer_to
  PROVE  \E f : Walks(heads, f) /\ Stack!PopUnused(heads, from, to) = f[<<from, to>>]
<1> DEFINE Unfolded(v) == v = [p \in Ends |-> WalkFrom(heads, v, p)]
           f == CHOOSE v : Unfolded(v)
<1>1. Stack!PopUnused(heads, from, to) = f[<<from, to>>]
  BY DEF Stack!PopUnused, Stack!buffer_from, Ends, WalkFrom, Previous
<1>2. \E v : Unfolded(v)
  <2>1. buffer_to \in Nat
    BY AllocatorsAssumption
  <2>2. PICK g : WalksUpto(heads, g, buffer_to)
    BY <2>1, WalkReaches
  <2> DEFINE v == [p \in Ends |-> g[p]]
  <2>3. ASSUME NEW p \in Ends PROVE g[p] = WalkFrom(heads, v, p)
    <3>1. g[p] = WalkFrom(heads, g, p)
      BY <2>1, <2>2 DEF WalksUpto, Ends
    <3> DEFINE q == <<Previous(heads, p[1]), p[1] - SLOT>>
    <3>2. ~Stops(heads, p) => v[q] = g[q]
      BY WalkGoesBack
    <3> HIDE DEF v
    <3> QED BY <3>1, <3>2 DEF WalkFrom, Stops
  <2>4. Unfolded(v)
    <3>1. \A p \in Ends : g[p] = WalkFrom(heads, v, p)
      BY <2>3
    <3>2. v = [p \in Ends |-> g[p]]
      OBVIOUS
    <3> HIDE DEF v
    <3> QED BY <3>1, <3>2
  <2> QED BY <2>4
<1>3. Unfolded(f)
  BY <1>2
<1>4. Walks(heads, f)
  <2> HIDE DEF f
  <2> QED BY <1>3 DEF Walks
<1> QED BY <1>1, <1>4
-----------------------------------------------------------------------------
(* The stack allocator *)

Used(heads, s) == heads[s - SLOT].used

\* B are the beginnings of blocks: the walk from one of them meets all those in
\* front of it
Walkable(heads, B) ==
  \A s \in B :
    /\ s \in 1 .. buffer_to /\ s - SLOT \in DOMAIN heads
    /\ Previous(heads, s) \in B \cup {0}
    /\ \A t \in B : t < s => t <= Previous(heads, s)

\* where the walk over B from p ends: r is the last block that is used
WalkEnds(heads, B, p, r) ==
  \/ /\ r = <<0, 0>>
     /\ \A s \in B : s <= p[1] => ~Used(heads, s)
  \/ /\ r[1] \in B /\ r[1] <= p[1] /\ Used(heads, r[1])
     /\ \A s \in B : r[1] < s /\ s <= p[1] => ~Used(heads, s)
     /\ \/ r = p
        \/ \E s \in B : /\ s <= p[1] /\ r[1] < s /\ r[2] = s - SLOT
                       /\ \A t \in B : t < s => t <= r[1]

LEMMA WalkFinds ==
  ASSUME NEW heads, HeadTypes(heads), NEW B, Walkable(heads, B), NEW f, Walks(heads, f)
  PROVE  \A p \in Ends : p[1] \in B => WalkEnds(heads, B, p, f[p])
<1> DEFINE Bad == {n \in Nat : \E p \in Ends : p[1] = n /\ p[1] \in B /\ ~WalkEnds(heads, B, p, f[p])}
<1>0. /\ SLOT \in Nat \ {0} /\ buffer_to \in Nat
      /\ \A s \in B : s \in Nat \ {0} /\ s <= buffer_to
  BY AllocatorsAssumption DEF Walkable
<1>1. SUFFICES ASSUME Bad # {} PROVE FALSE
  BY <1>0 DEF Ends
<1>2. Bad \in SUBSET Nat
  OBVIOUS
<1>3. PICK m \in Bad : \A n \in Bad : m <= n
  <2> HIDE DEF Bad
  <2> QED BY <1>1, <1>2, SmallestElement
<1>4. PICK p \in Ends : p[1] = m /\ p[1] \in B /\ ~WalkEnds(heads, B, p, f[p])
  BY <1>3
<1>5. \A q \in Ends : q[1] < m /\ q[1] \in B => WalkEnds(heads, B, q, f[q])
  <2> SUFFICES ASSUME NEW q \in Ends, q[1] < m, q[1] \in B, ~WalkEnds(heads, B, q, f[q])
               PROVE  FALSE
    OBVIOUS
  <2>1. q[1] \in Nat /\ m \in Nat
    BY <1>0, <1>2, <1>3 DEF Ends
  <2>2. q[1] \in Bad
    BY <2>1
  <2> HIDE DEF Bad
  <2> QED BY <1>3, <2>1, <2>2
<1> HIDE DEF Bad
<1>6. f[p] = WalkFrom(heads, f, p) /\ p[1] - SLOT \in DOMAIN heads /\ p[1] \in Nat
  BY <1>0, <1>4 DEF Walks, Walkable
<1>7. CASE Used(heads, p[1])
  <2>1. f[p] = p
    BY <1>6, <1>7 DEF WalkFrom, Used
  <2>2. \A s \in B : ~(p[1] < s /\ s <= p[1])
    BY <1>0, <1>6
  <2> QED BY <2>1, <2>2, <1>4, <1>6, <1>7 DEF WalkEnds
<1>8. CASE ~Used(heads, p[1]) /\ Previous(heads, p[1]) <= 0
  <2>1. f[p] = <<0, 0>>
    BY <1>6, <1>8 DEF WalkFrom, Used
  <2>2. \A s \in B : s <= p[1] => s = p[1]
    <3> SUFFICES ASSUME NEW s \in B, s < p[1] PROVE FALSE
      BY <1>0, <1>6
    <3>1. s <= Previous(heads, p[1]) /\ s \in Nat \ {0}
      BY <1>0, <1>4 DEF Walkable
    <3>2. Previous(heads, p[1]) \in Nat
      <4>1. Previous(heads, p[1]) \in B \cup {0}
        BY <1>4 DEF Walkable
      <4> QED BY <4>1, <1>0
    <3> QED BY <3>1, <3>2, <1>8
  <2> QED BY <2>1, <2>2, <1>4, <1>8 DEF WalkEnds
<1>9. CASE ~Used(heads, p[1]) /\ ~(Previous(heads, p[1]) <= 0)
  <2> DEFINE q == <<Previous(heads, p[1]), p[1] - SLOT>>
  <2>1. ~Stops(heads, p)
    BY <1>6, <1>9 DEF Stops, Used
  <2>2. q \in Ends /\ q[1] < p[1] /\ q[1] = Previous(heads, p[1]) /\ q[2] = p[1] - SLOT
    BY <2>1, WalkGoesBack
  <2>3. f[p] = f[q]
    BY <1>6, <1>9 DEF WalkFrom, Used
  <2>4. q[1] \in B /\ \A s \in B : s < p[1] => s <= q[1]
    BY <1>4, <1>9 DEF Walkable
  <2>5. WalkEnds(heads, B, q, f[q])
    BY <1>4, <1>5, <2>2, <2>4
  <2> HIDE DEF q
  <2>6. q[1] \in Nat /\ \A s \in B : s <= p[1] => s = p[1] \/ s <= q[1]
    BY <2>4, <1>0, <1>6
  <2> DEFINE r == f[q]
  <2>7. CASE r = <<0, 0>> /\ \A s \in B : s <= q[1] => ~Used(heads, s)
    <3>1. WalkEnds(heads, B, p, r)
      BY <2>6, <2>7, <1>9 DEF WalkEnds
    <3> QED BY <3>1, <2>3, <1>4
  <2>8. CASE /\ r[1] \in B /\ r[1] <= q[1] /\ Used(heads, r[1])
             /\ \A s \in B : r[1] < s /\ s <= q[1] => ~Used(heads, s)
             /\ \/ r = q
                \/ \E s \in B : /\ s <= q[1] /\ r[1] < s /\ r[2] = s - SLOT
                               /\ \A t \in B : t < s => t <= r[1]
    <3> HIDE DEF r
    <3>0. r[1] \in Nat /\ r[1] <= p[1] /\ r[1] < p[1]
      <4>1. r[1] \in B /\ r[1] <= q[1]
        BY <2>8
      <4>2. r[1] \in Nat
        BY <4>1, <1>0
      <4> QED BY <4>1, <4>2, <2>2, <2>6, <1>6
    <3>1. \A s \in B : r[1] < s /\ s <= p[1] => ~Used(heads, s)
      BY <2>6, <2>8, <1>0, <1>9
    <3>2. \E s \in B : /\ s <= p[1] /\ r[1] < s /\ r[2] = s - SLOT
                       /\ \A t \in B : t < s => t <= r[1]
      <4>1. CASE r = q
        BY <4>1, <3>0, <2>2, <2>4, <1>4, <1>6
      <4>2. CASE \E s \in B : /\ s <= q[1] /\ r[1] < s /\ r[2] = s - SLOT
                               /\ \A t \in B : t < s => t <= r[1]
        BY <4>2, <2>2, <2>6, <1>0, <1>6
      <4> QED BY <4>1, <4>2, <2>8
    <3>3. WalkEnds(heads, B, p, r)
      BY <3>0, <3>1, <3>2, <2>8 DEF WalkEnds
    <3> QED BY <3>3, <2>3, <1>4 DEF r
  <2> QED BY <2>5, <2>7, <2>8 DEF WalkEnds
<1> QED BY <1>7, <1>8, <1>9

EndTypes == last_block_to \in 0 .. buffer_to /\ last_block_from \in 0 .. last_block_to

\* what the parent has given out is held behind the buffer
ParentBehind == \A p \in parent : \E b \in live \ Held : p.at = b.at

\* the last block is the last of B and is used; there is none in an empty stack
Top(B) ==
  /\ B = {} => last_block_from = 0 /\ last_block_to = 0
  /\ B # {} => last_block_from \in B /\ Used(slots, last_block_from)
  /\ \A s \in B : s <= last_block_from

\* every block in the buffer is one of B and ends in front of the next header
Between(B) ==
  \A b \in Held :
    /\ b.at \in B /\ End(b) <= last_block_to /\ b.at % b.align = 0
    /\ \A s \in B : s > b.at => End(b) <= s - SLOT
    /\ \A c \in Held : b.at = c.at => b = c

\* the headers know which blocks are held
UsedIsHeld(B) == \A s \in B : Used(slots, s) <=> \E b \in Held : b.at = s

Stacked(B) == Walkable(slots, B) /\ Top(B) /\ Between(B) /\ UsedIsHeld(B)

StackInv ==
  /\ EndTypes /\ BlockTypes /\ ParentBehind /\ HeadTypes(slots)
  /\ \E B \in SUBSET (1 .. buffer_to) : Stacked(B)

LEMMA StackInit == Stack!Init => StackInv
<1> SUFFICES ASSUME Stack!Init PROVE StackInv
  OBVIOUS
<1>1. /\ last_block_to = 0 /\ last_block_from = 0 /\ DOMAIN slots = {}
      /\ live = {} /\ parent = {}
  BY DEF Stack!Init, Stack!buffer_from
<1>2. Held = {} /\ buffer_to \in Nat
  BY <1>1, AllocatorsAssumption DEF Held
<1>3. BlockTypes
  BY <1>1, FS_EmptySet DEF BlockTypes
<1>4. Stacked({})
  BY <1>1, <1>2 DEF Stacked, Walkable, Top, Between, UsedIsHeld
<1> QED BY <1>1, <1>2, <1>3, <1>4 DEF StackInv, EndTypes, ParentBehind, HeadTypes

LEMMA StackOverflow ==
  ASSUME StackInv, Cardinality(live) < MaxLive,
         NEW s \in Nat \ {0}, NEW a \in Nat \ {0}, Stack!AllocateOverflow(s, a)
  PROVE  StackInv'
<1> DEFINE x == CHOOSE y \in PARENT .. PARENT + MaxLive : \A p \in parent : p.at # y
           b == Block(x, s, a)
<1>0. /\ EndTypes /\ BlockTypes /\ ParentBehind /\ HeadTypes(slots)
      /\ buffer_to \in Nat
  BY AllocatorsAssumption DEF StackInv
<1>1. /\ live' = live \cup {b} /\ parent' = parent \cup {Block(x, s, s)}
      /\ UNCHANGED <<last_block_to, last_block_from, slots>>
  BY DEF Stack!AllocateOverflow, Stack!ParentAllocate, Stack!PARENT, PARENT,
         Stack!Block, Block
<1>2. x \in Nat /\ x >= buffer_to
  <2>1. x = CHOOSE y \in PARENT .. PARENT + MaxLive : \A p \in parent : p.at # y
    OBVIOUS
  <2> HIDE DEF x
  <2> QED BY <1>0, <2>1, ParentBlock
<1>3. b.at = x /\ b.size = s /\ Block(x, s, s).at = x
  BY DEF Block
<1> HIDE DEF b, x
<1>4. ~InBuffer(b)
  BY <1>0, <1>2, <1>3 DEF InBuffer, buffer_from
<1>5. /\ IsFiniteSet(live') /\ \A c \in live' : c.at \in Nat /\ c.size \in Nat \ {0}
      /\ Held' = Held /\ live' \ Held' = (live \ Held) \cup {b}
  BY <1>0, <1>1, <1>2, <1>3, <1>4, BlockAdded
<1>6. ParentBehind'
  <2> SUFFICES ASSUME NEW p \in parent' PROVE \E c \in live' \ Held' : p.at = c.at
    BY DEF ParentBehind
  <2>1. CASE p \in parent
    BY <2>1, <1>0, <1>5 DEF ParentBehind
  <2>2. CASE p = Block(x, s, s)
    BY <2>2, <1>3, <1>5
  <2> QED BY <2>1, <2>2, <1>1
<1>7. BlockTypes'
  BY <1>5, <1>6 DEF BlockTypes, ParentBehind
<1>8. PICK B \in SUBSET (1 .. buffer_to) : Stacked(B)
  BY DEF StackInv
<1>9. Stacked(B)'
  BY <1>1, <1>5, <1>8 DEF Stacked, Walkable, Previous, Top, Between, UsedIsHeld, Used, End
<1>10. EndTypes' /\ HeadTypes(slots)'
  BY <1>0, <1>1 DEF EndTypes, HeadTypes
<1> QED BY <1>6, <1>7, <1>9, <1>10 DEF StackInv

LEMMA StackDeallocateOverflow ==
  ASSUME StackInv, NEW b \in live, Stack!DeallocateOverflow(b)
  PROVE  StackInv'
<1>0. EndTypes /\ BlockTypes /\ ParentBehind /\ HeadTypes(slots)
  BY DEF StackInv
<1>1. /\ ~InBuffer(b) /\ live' = live \ {b} /\ parent' = {p \in parent : p.at # b.at}
      /\ UNCHANGED <<last_block_to, last_block_from, slots>>
  BY DEF Stack!DeallocateOverflow, Stack!ParentDeallocate, Stack!InBuffer, InBuffer,
         Stack!buffer_from, buffer_from
<1>2. b \in live \ Held
  BY <1>1 DEF Held
<1>3. /\ IsFiniteSet(live') /\ \A c \in live' : c.at \in Nat /\ c.size \in Nat \ {0}
      /\ Held' = Held /\ live' \ Held' = (live \ Held) \ {b}
  <2>1. Held \ {b} = Held
    BY <1>2
  <2> QED BY <2>1, <1>0, <1>1, BlockTaken
<1>4. ParentBehind'
  BY <1>0, <1>1, <1>3 DEF ParentBehind
<1>5. BlockTypes'
  BY <1>3, <1>4 DEF BlockTypes, ParentBehind
<1>6. PICK B \in SUBSET (1 .. buffer_to) : Stacked(B)
  BY DEF StackInv
<1>7. Stacked(B)'
  BY <1>1, <1>3, <1>6 DEF Stacked, Walkable, Previous, Top, Between, UsedIsHeld, Used, End
<1>8. EndTypes' /\ HeadTypes(slots)'
  BY <1>0, <1>1 DEF EndTypes, HeadTypes
<1> QED BY <1>4, <1>5, <1>7, <1>8 DEF StackInv

LEMMA StackSame ==
  ASSUME StackInv, UNCHANGED <<last_block_to, last_block_from, slots, live, parent>>
  PROVE  StackInv'
<1>1. Held' = Held
  BY DEF Held, InBuffer, buffer_from
<1>2. PICK B \in SUBSET (1 .. buffer_to) : Stacked(B)
  BY DEF StackInv
<1>3. Stacked(B)'
  BY <1>1, <1>2 DEF Stacked, Walkable, Previous, Top, Between, UsedIsHeld, Used, End
<1>4. (EndTypes /\ BlockTypes /\ ParentBehind /\ HeadTypes(slots))'
  BY <1>1 DEF StackInv, EndTypes, BlockTypes, ParentBehind, HeadTypes
<1> QED BY <1>3, <1>4 DEF StackInv

LEMMA StackResize ==
  ASSUME StackInv, NEW b \in live, NEW n \in Nat, Stack!Grows(b, n), Stack!Resize(b, n)
  PROVE  StackInv'
<1>0. /\ EndTypes /\ BlockTypes /\ ParentBehind /\ HeadTypes(slots)
      /\ buffer_to \in Nat /\ SLOT \in Nat \ {0}
  BY AllocatorsAssumption DEF StackInv
<1>1. /\ InBuffer(b) /\ n > b.size /\ UNCHANGED <<last_block_from, slots, live, parent>>
      /\ IF last_block_from = b.at /\ b.at + n <= buffer_to
         THEN last_block_to' = b.at + n
         ELSE UNCHANGED last_block_to
  BY DEF Stack!Resize, Stack!Grows, Stack!InBuffer, InBuffer, Stack!buffer_from, buffer_from
<1>2. CASE last_block_from = b.at /\ b.at + n <= buffer_to
  <2>1. last_block_to' = b.at + n /\ Held' = Held /\ b \in Held
    BY <1>1, <1>2 DEF Held, InBuffer, buffer_from
  <2>2. b.at \in Nat /\ b.size \in Nat \ {0}
    BY <1>0 DEF BlockTypes
  <2>3. (EndTypes /\ BlockTypes /\ ParentBehind /\ HeadTypes(slots))'
    BY <1>0, <1>1, <1>2, <2>1, <2>2 DEF EndTypes, BlockTypes, ParentBehind, HeadTypes
  <2>4. PICK B \in SUBSET (1 .. buffer_to) : Stacked(B)
    BY DEF StackInv
  <2>5. b.at \in B
    BY <2>1, <2>4 DEF Stacked, Between
  <2>6. (Walkable(slots, B) /\ Top(B) /\ UsedIsHeld(B))'
    BY <1>1, <2>1, <2>4, <2>5 DEF Stacked, Walkable, Previous, Top, UsedIsHeld, Used
  <2>7. ASSUME NEW c \in Held PROVE End(c) <= last_block_to'
    <3>1. CASE c.at = b.at
      <4>1. c = b
        BY <2>1, <2>4, <3>1 DEF Stacked, Between
      <4> QED BY <4>1, <2>1, <2>2, <1>1 DEF End
    <3>2. CASE c.at # b.at
      <4>1. c.at \in B /\ c.at <= b.at /\ c.at \in Nat /\ c.size \in Nat
        BY <2>4, <1>0, <1>2 DEF Stacked, Between, Top, BlockTypes, Held
      <4>2. End(c) <= b.at - SLOT
        BY <4>1, <3>2, <2>2, <2>4, <2>5 DEF Stacked, Between
      <4> QED BY <4>1, <4>2, <1>0, <2>1, <2>2 DEF End
    <3> QED BY <3>1, <3>2
  <2>8. Between(B)'
    BY <2>1, <2>4, <2>7 DEF Stacked, Between, End
  <2> QED BY <2>3, <2>4, <2>6, <2>8 DEF StackInv, Stacked
<1>3. CASE ~(last_block_from = b.at /\ b.at + n <= buffer_to)
  <2>1. UNCHANGED <<last_block_to, last_block_from, slots, live, parent>>
    BY <1>1, <1>3
  <2> QED BY <2>1, StackSame
<1> QED BY <1>2, <1>3

\* where the next block begins
LEMMA StackAligned ==
  ASSUME NEW a \in Nat \ {0}, a < SLOT => SLOT % a = 0, EndTypes
  PROVE  /\ Stack!AlignedFrom(a) \in Nat /\ Stack!AlignedFrom(a) >= last_block_to + SLOT
         /\ Stack!AlignedFrom(a) % a = 0
<1>1. SLOT \in Nat \ {0} /\ buffer_to \in Nat /\ last_block_to + SLOT \in Nat
  BY AllocatorsAssumption DEF EndTypes
<1> DEFINE m == IF a > SLOT THEN a ELSE SLOT
           x == align_forward(last_block_to + SLOT, m)
<1>2. m \in Nat \ {0} /\ m % a = 0
  <2>1. a % a = 0
    <3>1. (a * 1 + 0) % a = 0
      BY Remainder
    <3> QED BY <3>1
  <2>2. a = SLOT \/ a > SLOT \/ a < SLOT
    BY <1>1
  <2> QED BY <2>1, <2>2, <1>1
<1>3. Stack!AlignedFrom(a) = x
  BY DEF Stack!AlignedFrom, Stack!align_forward, align_forward, Stack!AtLeast
<1> HIDE DEF m
<1>4. x \in Nat /\ x >= last_block_to + SLOT /\ x % m = 0
  BY <1>1, <1>2, AlignForward
<1> HIDE DEF x
<1>5. x % a = 0
  BY <1>2, <1>4, MultipleOf
<1> QED BY <1>3, <1>4, <1>5

LEMMA StackAllocate ==
  ASSUME StackInv, NEW n \in Nat \ {0}, NEW a \in Nat \ {0}, a < SLOT => SLOT % a = 0,
         Stack!Allocate(n, a)
  PROVE  StackInv'
<1> DEFINE x == Stack!AlignedFrom(a)
           b == Block(x, n, a)
           slot == x - SLOT
<1>0. /\ EndTypes /\ BlockTypes /\ ParentBehind /\ HeadTypes(slots)
      /\ buffer_to \in Nat /\ SLOT \in Nat \ {0}
  BY AllocatorsAssumption DEF StackInv
<1>1. /\ x + n <= buffer_to /\ last_block_to' = x + n /\ last_block_from' = x
      /\ live' = live \cup {b} /\ parent' = parent
  BY DEF Stack!Allocate, Stack!Fits, Stack!Block, Block
<1>2. slots' = Stack!Put(Stack!Overwritten(x, x + n), slot,
                         [prev_offset |-> slot - last_block_from, used |-> TRUE])
  BY DEF Stack!Allocate
<1>3. x \in Nat /\ x >= last_block_to + SLOT /\ x % a = 0
  BY <1>0, StackAligned
<1>4. b.at = x /\ b.size = n /\ b.align = a
  BY DEF Block
<1> HIDE DEF b, x
<1>5. InBuffer(b) /\ End(b) = x + n
  BY <1>0, <1>1, <1>3, <1>4 DEF InBuffer, buffer_from, End
<1>6. /\ IsFiniteSet(live') /\ \A c \in live' : c.at \in Nat /\ c.size \in Nat \ {0}
      /\ Held' = Held \cup {b} /\ live' \ Held' = live \ Held
  BY <1>0, <1>1, <1>3, <1>4, <1>5, BlockAdded
<1>7. BlockTypes' /\ ParentBehind' /\ EndTypes'
  BY <1>0, <1>1, <1>3, <1>6 DEF BlockTypes, ParentBehind, EndTypes
<1>8. /\ slot \in Nat /\ slot >= last_block_to /\ slot - last_block_from \in Nat
      /\ last_block_from \in Nat /\ last_block_to \in Nat
  BY <1>0, <1>3 DEF EndTypes
<1>9. /\ slot \in DOMAIN slots' /\ slots'[slot].prev_offset = slot - last_block_from
      /\ slots'[slot].used = TRUE
      /\ \A s \in DOMAIN slots' : s = slot \/ (s \in DOMAIN slots /\ slots'[s] = slots[s])
      /\ \A s \in DOMAIN slots : s < slot => s \in DOMAIN slots' /\ slots'[s] = slots[s]
  <2> DEFINE kept == Stack!Overwritten(x, x + n)
  <2>1. /\ DOMAIN kept \subseteq DOMAIN slots
        /\ \A s \in DOMAIN kept : kept[s] = slots[s]
        /\ \A s \in DOMAIN slots : s < slot => s \in DOMAIN kept
    <3>1. DOMAIN kept = {s \in DOMAIN slots : s + SLOT <= x \/ x + n <= s}
      BY DEF Stack!Overwritten
    <3>2. \A s \in DOMAIN kept : kept[s] = slots[s]
      BY DEF Stack!Overwritten
    <3>3. ASSUME NEW s \in DOMAIN slots, s < slot PROVE s + SLOT <= x
      <4>1. s \in Nat
        BY <1>0 DEF HeadTypes
      <4> QED BY <4>1, <3>3, <1>0, <1>3
    <3> HIDE DEF kept
    <3> QED BY <3>1, <3>2, <3>3
  <2>2. /\ DOMAIN slots' = DOMAIN kept \cup {slot}
        /\ slots'[slot] = [prev_offset |-> slot - last_block_from, used |-> TRUE]
        /\ \A s \in DOMAIN kept : s # slot => slots'[s] = kept[s]
    BY <1>2 DEF Stack!Put
  <2>3. slots'[slot].prev_offset = slot - last_block_from /\ slots'[slot].used = TRUE
    BY <2>2
  <2>4. \A s \in DOMAIN slots : s \in Nat
    BY <1>0 DEF HeadTypes
  <2>5. \A s \in DOMAIN slots : s < slot => s # slot
    BY <2>4, <1>8
  <2> HIDE DEF kept, slot
  <2>6. \A s \in DOMAIN slots' : s = slot \/ (s \in DOMAIN slots /\ slots'[s] = slots[s])
    BY <2>1, <2>2
  <2>7. \A s \in DOMAIN slots : s < slot => s \in DOMAIN slots' /\ slots'[s] = slots[s]
    BY <2>1, <2>2, <2>5
  <2> QED BY <2>2, <2>3, <2>6, <2>7
<1>10. HeadTypes(slots)'
  <2>1. slot <= buffer_to
    BY <1>0, <1>1, <1>3
  <2> HIDE DEF slot
  <2>2. ASSUME NEW s \in DOMAIN slots'
        PROVE  s \in 0 .. buffer_to /\ slots'[s].prev_offset \in Nat
    <3>1. CASE s = slot
      BY <3>1, <2>1, <1>0, <1>8, <1>9
    <3>2. CASE s # slot
      BY <3>2, <1>0, <1>9 DEF HeadTypes
    <3> QED BY <3>1, <3>2
  <2> QED BY <2>2 DEF HeadTypes
<1>11. PICK B \in SUBSET (1 .. buffer_to) : Stacked(B)
  BY DEF StackInv
<1>12. PICK C : C = B \cup {x}
  OBVIOUS
<1>13. /\ C \in SUBSET (1 .. buffer_to)
       /\ \A s \in B : /\ s \in Nat \ {0} /\ s <= last_block_from /\ s < x /\ s - SLOT < slot
                       /\ s - SLOT \in DOMAIN slots /\ s - SLOT \in DOMAIN slots'
                       /\ slots'[s - SLOT] = slots[s - SLOT]
  <2>1. x \in 1 .. buffer_to
    BY <1>0, <1>1, <1>3, <1>8
  <2>2. ASSUME NEW s \in B
        PROVE  /\ s \in Nat \ {0} /\ s <= last_block_from /\ s < x /\ s - SLOT < slot
               /\ s - SLOT \in DOMAIN slots
    <3>1. s \in Nat \ {0} /\ s <= last_block_from /\ s - SLOT \in DOMAIN slots
      BY <1>11 DEF Stacked, Top, Walkable
    <3>2. last_block_from <= last_block_to
      BY <1>0 DEF EndTypes
    <3> QED BY <3>1, <3>2, <1>0, <1>3, <1>8
  <2> QED BY <2>1, <2>2, <1>9, <1>12
<1>14. Walkable(slots, C)'
  <2> SUFFICES ASSUME NEW s \in C
               PROVE  /\ s \in 1 .. buffer_to /\ s - SLOT \in DOMAIN slots'
                      /\ Previous(slots', s) \in C \cup {0}
                      /\ \A t \in C : t < s => t <= Previous(slots', s)
    BY DEF Walkable, Previous
  <2>1. CASE s = x
    <3>1. Previous(slots', s) = last_block_from
      BY <2>1, <1>3, <1>8, <1>9 DEF Previous
    <3>2. last_block_from \in B \cup {0}
      BY <1>11 DEF Stacked, Top
    <3>3. \A t \in C : t < x => t <= last_block_from
      BY <1>3, <1>12, <1>13
    <3> QED BY <3>1, <3>2, <3>3, <2>1, <1>9, <1>12, <1>13
  <2>2. CASE s \in B
    <3>1. Previous(slots', s) = Previous(slots, s)
      BY <2>2, <1>13 DEF Previous
    <3>2. /\ Previous(slots, s) \in B \cup {0}
          /\ \A t \in B : t < s => t <= Previous(slots, s)
      BY <2>2, <1>11 DEF Stacked, Walkable
    <3>3. ~(x < s)
      BY <2>2, <1>3, <1>13
    <3> QED BY <3>1, <3>2, <3>3, <2>2, <1>12, <1>13
  <2> QED BY <2>1, <2>2, <1>12
<1>15. Top(C)'
  <2>1. Used(slots', x) /\ \A s \in C : s <= x
    BY <1>3, <1>9, <1>12, <1>13 DEF Used
  <2> QED BY <2>1, <1>1, <1>12 DEF Top, Used
<1>16. \A c \in Held : /\ c.at \in B /\ c.at < x /\ End(c) <= last_block_to /\ c.at \in Nat
                       /\ c.size \in Nat /\ End(c) <= x - SLOT /\ End(c) <= x + n
  <2> TAKE c \in Held
  <2>1. c.at \in B /\ End(c) <= last_block_to /\ c.at \in Nat /\ c.size \in Nat
    BY <1>0, <1>11 DEF Stacked, Between, BlockTypes, Held
  <2>2. c.at < x
    BY <2>1, <1>13
  <2> QED BY <2>1, <2>2, <1>0, <1>3, <1>8 DEF End
<1>17. Between(C)'
  <2> SUFFICES ASSUME NEW c \in Held'
               PROVE  /\ c.at \in C /\ End(c) <= last_block_to' /\ c.at % c.align = 0
                      /\ \A s \in C : s > c.at => End(c) <= s - SLOT
                      /\ \A d \in Held' : c.at = d.at => c = d
    BY DEF Between, End
  <2>1. CASE c = b
    <3>1. \A s \in C : ~(s > x)
      BY <1>3, <1>12, <1>13
    <3>2. \A d \in Held' : c.at = d.at => c = d
      BY <2>1, <1>4, <1>6, <1>16, <1>3
    <3>3. End(c) <= last_block_to'
      BY <2>1, <1>1, <1>3, <1>5
    <3> QED BY <3>1, <3>2, <3>3, <2>1, <1>3, <1>4, <1>12
  <2>2. CASE c \in Held
    <3>1. /\ c.at % c.align = 0 /\ \A s \in B : s > c.at => End(c) <= s - SLOT
          /\ \A d \in Held : c.at = d.at => c = d
      BY <2>2, <1>11 DEF Stacked, Between
    <3>2. \A d \in Held' : c.at = d.at => c = d
      BY <2>2, <3>1, <1>3, <1>4, <1>6, <1>16
    <3> QED BY <3>1, <3>2, <2>2, <1>1, <1>12, <1>16
  <2> QED BY <2>1, <2>2, <1>6
<1>18. UsedIsHeld(C)'
  <2> SUFFICES ASSUME NEW s \in C
               PROVE  Used(slots', s) <=> \E c \in Held' : c.at = s
    BY DEF UsedIsHeld, Used
  <2>1. CASE s = x
    BY <2>1, <1>4, <1>6, <1>9 DEF Used
  <2>2. CASE s \in B
    <3>1. Used(slots', s) <=> Used(slots, s)
      BY <2>2, <1>13 DEF Used
    <3>2. Used(slots, s) <=> \E c \in Held : c.at = s
      BY <2>2, <1>11 DEF Stacked, UsedIsHeld
    <3>3. s # x
      BY <2>2, <1>3, <1>13
    <3> QED BY <3>1, <3>2, <3>3, <1>4, <1>6
  <2> QED BY <2>1, <2>2, <1>12
<1> QED BY <1>7, <1>10, <1>13, <1>14, <1>15, <1>17, <1>18 DEF StackInv, Stacked

LEMMA StackDeallocate ==
  ASSUME StackInv, NEW b \in live, Stack!Deallocate(b)
  PROVE  StackInv'
<1>0. /\ EndTypes /\ BlockTypes /\ ParentBehind /\ HeadTypes(slots)
      /\ buffer_to \in Nat /\ SLOT \in Nat \ {0}
  BY AllocatorsAssumption DEF StackInv
<1>1. PICK heads : heads = Stack!Marked(b)
  OBVIOUS
<1>2. PICK r : r = Stack!PopUnused(heads, last_block_from, last_block_to)
  OBVIOUS
<1>3. /\ InBuffer(b) /\ slots' = heads /\ last_block_from' = r[1] /\ last_block_to' = r[2]
      /\ live' = live \ {b} /\ parent' = parent
  BY <1>1, <1>2 DEF Stack!Deallocate, Stack!InBuffer, InBuffer, Stack!buffer_from, buffer_from
<1>4. b \in Held
  BY <1>3 DEF Held
<1>5. /\ IsFiniteSet(live') /\ \A c \in live' : c.at \in Nat /\ c.size \in Nat \ {0}
      /\ Held' = Held \ {b} /\ live' \ Held' = live \ Held
  <2>1. (live \ Held) \ {b} = live \ Held
    BY <1>4
  <2> QED BY <2>1, <1>0, <1>3, BlockTaken
<1>6. BlockTypes' /\ ParentBehind'
  BY <1>0, <1>3, <1>5 DEF BlockTypes, ParentBehind
<1>7. PICK B \in SUBSET (1 .. buffer_to) : Stacked(B)
  BY DEF StackInv
<1>8. /\ \A s \in B : s \in Nat \ {0} /\ s <= last_block_from /\ s - SLOT \in DOMAIN slots
      /\ b.at \in B /\ last_block_from \in B /\ b.at \in Nat
  BY <1>0, <1>4, <1>7 DEF Stacked, Walkable, Top, Between, BlockTypes
<1>23. B \subseteq Nat
  BY <1>8
<1>9. /\ DOMAIN heads = DOMAIN slots
      /\ \A s \in DOMAIN slots : heads[s].prev_offset = slots[s].prev_offset
      /\ \A s \in DOMAIN slots : s # b.at - SLOT => heads[s] = slots[s]
      /\ heads[b.at - SLOT].used = FALSE
  <2> DEFINE slot == b.at - SLOT
  <2>1. slot \in DOMAIN slots
    BY <1>8
  <2>2. heads = [slots EXCEPT ![slot].used = FALSE]
    BY <1>1 DEF Stack!Marked
  <2> HIDE DEF slot
  <2>3. DOMAIN heads = DOMAIN slots /\ \A s \in DOMAIN slots : s # slot => heads[s] = slots[s]
    BY <2>2
  <2>4. heads[slot] = [slots[slot] EXCEPT !.used = FALSE]
    BY <2>1, <2>2
  <2>5. heads[slot].prev_offset = slots[slot].prev_offset /\ heads[slot].used = FALSE
    BY <2>4
  <2>6. \A s \in DOMAIN slots : heads[s].prev_offset = slots[s].prev_offset
    BY <2>3, <2>5
  <2> QED BY <2>3, <2>5, <2>6 DEF slot
<1>10. /\ HeadTypes(heads) /\ Walkable(heads, B)
       /\ \A s \in B : Used(heads, s) <=> Used(slots, s) /\ s # b.at
  <2>1. HeadTypes(heads)
    BY <1>0, <1>9 DEF HeadTypes
  <2>2. \A s \in B : Previous(heads, s) = Previous(slots, s)
    BY <1>8, <1>9 DEF Previous
  <2>3. Walkable(heads, B)
    BY <2>2, <1>7, <1>9 DEF Stacked, Walkable
  <2>4. \A s \in B : s # b.at => s - SLOT # b.at - SLOT
    BY <1>0, <1>8
  <2>5. \A s \in B : Used(heads, s) <=> Used(slots, s) /\ s # b.at
    BY <2>4, <1>8, <1>9 DEF Used
  <2> QED BY <2>1, <2>3, <2>5
<1>11. /\ last_block_from \in 0 .. buffer_to /\ last_block_to \in 0 .. buffer_to
       /\ last_block_from <= last_block_to
  BY <1>0 DEF EndTypes
<1> DEFINE p == <<last_block_from, last_block_to>>
<1>12. WalkEnds(heads, B, p, r) /\ p[1] = last_block_from /\ p[2] = last_block_to
  <2>1. PICK f : Walks(heads, f) /\ r = f[p]
    BY <1>2, <1>10, <1>11, PopWalks
  <2>2. p \in Ends /\ p[1] = last_block_from /\ p[2] = last_block_to
    BY <1>11 DEF Ends
  <2>3. p[1] \in B
    BY <1>8, <2>2
  <2> HIDE DEF p
  <2> QED BY <2>1, <2>2, <2>3, <1>10, WalkFinds
<1> HIDE DEF p
<1>13. PICK C : C = {s \in B : s <= r[1]}
  OBVIOUS
\* what is left is used at its end, and what was taken back was not
<1>14. /\ r[1] \in Nat /\ r[2] \in 0 .. buffer_to /\ r[1] <= r[2]
       /\ C = {} => r[1] = 0 /\ r[2] = 0
       /\ C # {} => r[1] \in C /\ Used(heads, r[1])
       /\ \A s \in B : s \notin C => ~Used(heads, s)
       /\ \/ r[2] = last_block_to
          \/ \E s \in B : s \notin C /\ r[2] = s - SLOT
          \/ C = {}
  <2>1. CASE r = <<0, 0>> /\ \A s \in B : s <= p[1] => ~Used(heads, s)
    <3>1. r[1] = 0 /\ r[2] = 0
      BY <2>1
    <3>2. C = {}
      <4>1. \A s \in B : ~(s <= 0)
        BY <1>8
      <4> QED BY <3>1, <4>1, <1>13
    <3>3. \A s \in B : ~Used(heads, s)
      BY <2>1, <1>8, <1>12
    <3> QED BY <3>3, <3>1, <3>2, <1>0
  <2>2. CASE /\ r[1] \in B /\ r[1] <= p[1] /\ Used(heads, r[1])
             /\ \A s \in B : r[1] < s /\ s <= p[1] => ~Used(heads, s)
             /\ \/ r = p
                \/ \E s \in B : /\ s <= p[1] /\ r[1] < s /\ r[2] = s - SLOT
                               /\ \A t \in B : t < s => t <= r[1]
    <3>1. r[1] \in C /\ r[1] \in Nat
      <4>1. r[1] \in B
        BY <2>2
      <4>2. r[1] \in Nat
        BY <4>1, <1>8
      <4> QED BY <4>1, <4>2, <1>13
    <3>2. \A s \in B : s \notin C => r[1] < s /\ s <= p[1]
      BY <3>1, <1>8, <1>12, <1>13
    <3>3. \A s \in B : s \notin C => ~Used(heads, s)
      BY <2>2, <3>2
    <3>4. CASE r = p
      BY <2>2, <3>1, <3>3, <3>4, <1>11, <1>12
    <3>5. CASE \E s \in B : s <= p[1] /\ r[1] < s /\ r[2] = s - SLOT
      <4>1. PICK s \in B : r[1] < s /\ r[2] = s - SLOT
        BY <3>5
      <4>2. s \notin C
        BY <4>1, <3>1, <1>8, <1>13
      <4>3. Previous(heads, s) <= s - SLOT /\ s - SLOT \in 0 .. buffer_to
        BY <1>0, <1>8, <1>9, <1>10 DEF Previous, HeadTypes
      <4>4. r[1] <= Previous(heads, s) /\ Previous(heads, s) \in Nat
        <5>1. /\ \A t \in B : t < s => t <= Previous(heads, s)
              /\ Previous(heads, s) \in B \cup {0}
          BY <4>1, <1>10 DEF Walkable
        <5>2. Previous(heads, s) \in Nat
          <6>1. CASE Previous(heads, s) \in B
            BY <6>1, <1>23
          <6>2. CASE Previous(heads, s) = 0
            BY <6>2
          <6> QED BY <5>1, <6>1, <6>2
        <5> QED BY <5>1, <5>2, <4>1, <2>2
      <4>5. r[2] \in 0 .. buffer_to /\ r[1] <= r[2]
        BY <4>1, <4>3, <4>4, <3>1
      <4> QED BY <2>2, <3>1, <3>3, <4>1, <4>2, <4>5
    <3> QED BY <2>2, <3>4, <3>5
  <2> QED BY <1>12, <2>1, <2>2 DEF WalkEnds
<1>15. EndTypes'
  BY <1>0, <1>3, <1>14 DEF EndTypes
<1>16. /\ \A s \in C : /\ s \in B /\ s <= r[1] /\ s \in Nat \ {0}
                       /\ Used(heads, s) <=> (Used(slots, s) /\ s # b.at)
       /\ C \in SUBSET (1 .. buffer_to)
  BY <1>8, <1>10, <1>13
<1>17. Walkable(slots, C)'
  <2> SUFFICES ASSUME NEW s \in C
               PROVE  /\ s \in 1 .. buffer_to /\ s - SLOT \in DOMAIN heads
                      /\ Previous(heads, s) \in C \cup {0}
                      /\ \A t \in C : t < s => t <= Previous(heads, s)
    BY <1>3 DEF Walkable, Previous
  <2>1. /\ s \in 1 .. buffer_to /\ s - SLOT \in DOMAIN heads
        /\ Previous(heads, s) \in B \cup {0}
        /\ \A t \in C : t < s => t <= Previous(heads, s)
    BY <1>10, <1>16 DEF Walkable
  <2>2. Previous(heads, s) < s
    BY <1>0, <1>8, <1>9, <1>10, <1>16 DEF Previous, HeadTypes
  <2>3. Previous(heads, s) \in Nat
    <3>1. CASE Previous(heads, s) \in B
      BY <3>1, <1>23
    <3>2. CASE Previous(heads, s) = 0
      BY <3>2
    <3> QED BY <2>1, <3>1, <3>2
  <2>4. Previous(heads, s) <= r[1]
    BY <2>2, <2>3, <1>14, <1>16
  <2> QED BY <2>1, <2>4, <1>13
<1>18. Top(C)'
  BY <1>3, <1>14, <1>16 DEF Top, Used
<1>19. ASSUME NEW c \in Held' PROVE c \in Held /\ c.at \in C /\ End(c) <= r[2]
  <2>1. c \in Held /\ c # b
    BY <1>5
  <2>2. c.at \in B /\ c.at # b.at /\ Used(slots, c.at)
    BY <2>1, <1>4, <1>7 DEF Stacked, Between, UsedIsHeld
  <2>3. c.at \in C
    BY <2>2, <1>10, <1>14
  <2>4. CASE r[2] = last_block_to
    BY <2>1, <2>3, <2>4, <1>7 DEF Stacked, Between
  <2>5. CASE \E s \in B : s \notin C /\ r[2] = s - SLOT
    <3>1. PICK s \in B : s \notin C /\ r[2] = s - SLOT
      BY <2>5
    <3>2. s > c.at
      BY <2>3, <3>1, <1>8, <1>13, <1>14, <1>16
    <3> QED BY <2>1, <2>3, <3>1, <3>2, <1>7 DEF Stacked, Between
  <2> QED BY <2>1, <2>3, <2>4, <2>5, <1>14
<1>20. Between(C)'
  <2> SUFFICES ASSUME NEW c \in Held'
               PROVE  /\ c.at \in C /\ End(c) <= last_block_to' /\ c.at % c.align = 0
                      /\ \A s \in C : s > c.at => End(c) <= s - SLOT
                      /\ \A d \in Held' : c.at = d.at => c = d
    BY DEF Between, End
  <2>1. c \in Held /\ c.at \in C /\ End(c) <= r[2]
    BY <1>19
  <2>2. /\ c.at % c.align = 0 /\ \A s \in B : s > c.at => End(c) <= s - SLOT
        /\ \A d \in Held : c.at = d.at => c = d
    BY <2>1, <1>7 DEF Stacked, Between
  <2> QED BY <2>1, <2>2, <1>3, <1>5, <1>16
<1>21. UsedIsHeld(C)'
  <2> SUFFICES ASSUME NEW s \in C
               PROVE  Used(heads, s) <=> \E c \in Held' : c.at = s
    BY <1>3 DEF UsedIsHeld, Used
  <2>1. Used(slots, s) <=> \E c \in Held : c.at = s
    BY <1>7, <1>16 DEF Stacked, UsedIsHeld
  <2>2. \A c \in Held : c.at = b.at <=> c = b
    BY <1>4, <1>7 DEF Stacked, Between
  <2>3. (\E c \in Held' : c.at = s) <=> ((\E c \in Held : c.at = s) /\ s # b.at)
    BY <2>2, <1>4, <1>5
  <2> QED BY <2>1, <2>3, <1>16
<1>22. HeadTypes(slots)'
  BY <1>3, <1>10 DEF HeadTypes
<1> QED BY <1>6, <1>15, <1>16, <1>17, <1>18, <1>20, <1>21, <1>22 DEF StackInv, Stacked

LEMMA StackStep == ASSUME StackInv, Stack!Next PROVE StackInv'
<1>1. ASSUME NEW r \in Requests, Cardinality(live) < MaxLive,
             Stack!Allocate(r[1], r[2]) \/ Stack!AllocateOverflow(r[1], r[2])
      PROVE  StackInv'
  BY <1>1, RequestTypes, StackAllocate, StackOverflow
<1>2. ASSUME NEW b \in live, Stack!Deallocate(b) \/ Stack!DeallocateOverflow(b)
      PROVE  StackInv'
  BY <1>2, StackDeallocate, StackDeallocateOverflow
<1>3. ASSUME NEW b \in live, NEW n \in ResizeSizes, Stack!Grows(b, n),
             Stack!Resize(b, n) \/ Stack!ResizeOverflow(b, n)
      PROVE  StackInv'
  <2>1. n \in Nat
    BY AllocatorsAssumption
  <2>2. CASE Stack!Resize(b, n)
    BY <1>3, <2>1, <2>2, StackResize
  <2>3. CASE Stack!ResizeOverflow(b, n)
    <3>1. UNCHANGED <<last_block_to, last_block_from, slots, live, parent>>
      BY <2>3 DEF Stack!ResizeOverflow, Stack!ParentResize
    <3> QED BY <3>1, StackSame
  <2> QED BY <1>3, <2>2, <2>3
<1>4. Stack!Cardinality(live) = Cardinality(live)
  BY DEF Stack!Cardinality, Cardinality
<1> QED BY <1>1, <1>2, <1>3, <1>4 DEF Stack!Next

LEMMA StackInvSound ==
  ASSUME StackInv
  PROVE  LiveDisjoint /\ LiveAligned /\ Stack!EmptyWhenFreed /\ Stack!HeadersIntact
<1>0. EndTypes /\ BlockTypes /\ buffer_to \in Nat /\ SLOT \in Nat \ {0}
  BY AllocatorsAssumption DEF StackInv
<1>1. PICK B \in SUBSET (1 .. buffer_to) : Stacked(B)
  BY DEF StackInv
<1>2. \A b \in live : InBuffer(b) <=> b \in Held
  BY DEF Held
<1>3. LiveDisjoint
  <2>1. ASSUME NEW b \in Held, NEW c \in Held, b # c
        PROVE  End(b) <= c.at \/ End(c) <= b.at
    <3>1. /\ b.at \in B /\ c.at \in B /\ b.at # c.at
          /\ c.at > b.at => End(b) <= c.at - SLOT
          /\ b.at > c.at => End(c) <= b.at - SLOT
      BY <2>1, <1>1 DEF Stacked, Between
    <3>2. b.at \in Nat /\ b.size \in Nat /\ c.at \in Nat /\ c.size \in Nat
      BY <1>0 DEF BlockTypes, Held
    <3> QED BY <3>1, <3>2, <1>0 DEF End
  <2>2. ASSUME NEW b \in live, NEW c \in live, b # c, InBuffer(b), InBuffer(c)
        PROVE  Bytes(b) \cap Bytes(c) = {}
    <3>1. End(b) <= c.at \/ End(c) <= b.at
      BY <2>1, <2>2, <1>2
    <3>2. b.at \in Nat /\ b.size \in Nat /\ c.at \in Nat /\ c.size \in Nat
      BY <1>0 DEF BlockTypes
    <3> QED BY <3>1, <3>2 DEF End, Bytes
  <2>3. ASSUME NEW b \in live, InBuffer(b) PROVE b.at + b.size <= buffer_to
    <3>1. b.at + b.size <= last_block_to
      BY <2>3, <1>1, <1>2 DEF Stacked, Between, End
    <3>2. last_block_to \in 0 .. buffer_to /\ b.at \in Nat /\ b.size \in Nat
      BY <1>0 DEF EndTypes, BlockTypes
    <3> QED BY <3>1, <3>2, <1>0
  <2> QED BY <2>2, <2>3 DEF LiveDisjoint
<1>4. LiveAligned
  BY <1>1, <1>2 DEF LiveAligned, Stacked, Between
<1>5. Stack!EmptyWhenFreed
  <2> SUFFICES ASSUME \A b \in live : ~InBuffer(b)
               PROVE  last_block_to = 0 /\ last_block_from = 0
    BY DEF Stack!EmptyWhenFreed, Stack!InBuffer, InBuffer, Stack!buffer_from, buffer_from
  <2>1. Held = {}
    BY DEF Held
  <2>2. \A s \in B : ~Used(slots, s)
    BY <2>1, <1>1 DEF Stacked, UsedIsHeld
  <2>3. B = {}
    BY <2>2, <1>1 DEF Stacked, Top
  <2> QED BY <2>3, <1>1 DEF Stacked, Top
<1>6. Stack!HeadersIntact
  <2> SUFFICES ASSUME NEW b \in live, InBuffer(b)
               PROVE  b.at - SLOT \in DOMAIN slots /\ slots[b.at - SLOT].used
    BY DEF Stack!HeadersIntact, Stack!InBuffer, InBuffer, Stack!buffer_from, buffer_from
  <2>1. b \in Held /\ b.at \in B
    BY <1>1, <1>2 DEF Stacked, Between
  <2> QED BY <2>1, <1>1 DEF Stacked, Walkable, UsedIsHeld, Used
<1> QED BY <1>3, <1>4, <1>5, <1>6

\* For every buffer, header, set of requests and number of blocks, the stack
\* allocator (allocator_stack.h) gives out blocks that are apart, aligned and
\* inside its buffer, no block overwrites the header of another, and once the
\* blocks are freed, in any order, the stack is empty: the walk over the headers
\* stops at the last block that is used, and nowhere before it.
THEOREM StackAllocatorSound == Spec => []StackSound
<1> DEFINE IInv == kind = "stack" => StackInv
<1>1. Init => IInv
  BY StackInit DEF Init
<1>2. IInv /\ [Next]_vars => IInv'
  <2> SUFFICES ASSUME IInv, [Next]_vars, kind' = "stack" PROVE StackInv'
    OBVIOUS
  <2>1. CASE Next
    <3>1. kind = "stack" /\ Stack!Next
      BY <2>1 DEF Next
    <3> QED BY <3>1, StackStep
  <2>2. CASE UNCHANGED vars
    <3>1. UNCHANGED <<kind, last_block_to, last_block_from, slots, live, parent>>
      BY <2>2 DEF vars, stack_vars
    <3> QED BY <3>1, StackSame
  <2> QED BY <2>1, <2>2
<1>3. IInv => StackSound
  BY StackInvSound DEF StackSound
<1> QED BY <1>1, <1>2, <1>3, PTL DEF Spec
-----------------------------------------------------------------------------
(* The malloc allocator *)

\* an alignment of more than a word puts a header in front of the block
Front(b) == IF b.align <= SLOT THEN 0 ELSE HEADER

\* b lies with its header in what malloc gave as h
Inside(b, h) ==
  /\ Malloc!Original(b) = h.at /\ b.at - Front(b) >= h.at
  /\ b.at + b.size <= h.at + h.size

HeapApart == \A g, h \in heap : g # h => End(g) <= h.at \/ End(h) <= g.at

HeapTypes ==
  /\ IsFiniteSet(heap)
  /\ \A h \in heap : h.at \in Nat /\ h.size \in Nat \ {0} /\ End(h) <= buffer_to

LiveTypes ==
  /\ IsFiniteSet(live)
  /\ \A b \in live : /\ b.at \in Nat /\ b.size \in Nat \ {0}
                     /\ b.align \in Nat \ {0} /\ b.at % b.align = 0

\* every block has a place of its own in the heap
HeapHolds ==
  /\ \A b \in live : \E h \in heap : Inside(b, h)
  /\ \A b \in live : b.align > SLOT => b.at \in DOMAIN padding
  /\ \A b, c \in live : Malloc!Original(b) = Malloc!Original(c) => b = c
  /\ Cardinality(heap) = Cardinality(live)

HeapCounted ==
  /\ total_alloced = SizesOf(live) /\ allocation_count \in Nat /\ deallocation_count \in Nat
  /\ allocation_count - deallocation_count = Cardinality(live)

MallocInv == HeapApart /\ HeapTypes /\ LiveTypes /\ HeapHolds /\ HeapCounted

LEMMA MallocInit == Malloc!Init => MallocInv
<1> SUFFICES ASSUME Malloc!Init PROVE MallocInv
  OBVIOUS
<1>1. /\ heap = {} /\ live = {} /\ total_alloced = 0
      /\ allocation_count = 0 /\ deallocation_count = 0
  BY DEF Malloc!Init
<1>2. SizesOf(live) = 0
  <2>1. live = {}
    BY <1>1
  <2> QED BY <2>1, SizesNone
<1>3. IsFiniteSet(live) /\ IsFiniteSet(heap) /\ Cardinality(live) = 0 /\ Cardinality(heap) = 0
  BY <1>1, FS_EmptySet
<1> QED BY <1>1, <1>2, <1>3
        DEF MallocInv, HeapApart, HeapTypes, LiveTypes, HeapHolds, HeapCounted

\* what is in the heap for two blocks is for one
LEMMA HeapOne ==
  ASSUME HeapApart, HeapTypes, NEW g \in heap, NEW h \in heap, g.at = h.at
  PROVE  g = h
<1>1. g.at \in Nat /\ g.size \in Nat \ {0} /\ h.at \in Nat /\ h.size \in Nat \ {0}
  BY DEF HeapTypes
<1> QED BY <1>1 DEF HeapApart, End

\* so blocks do not meet
LEMMA BlocksApart ==
  ASSUME HeapApart, HeapTypes, LiveTypes, HeapHolds, HEADER \in Nat,
         NEW b \in live, NEW c \in live, b # c
  PROVE  End(b) <= c.at \/ End(c) <= b.at
<1>1. PICK g \in heap : Inside(b, g)
  BY DEF HeapHolds
<1>2. PICK h \in heap : Inside(c, h)
  BY DEF HeapHolds
<1>3. g # h
  BY <1>1, <1>2 DEF Inside, HeapHolds
<1>4. End(g) <= h.at \/ End(h) <= g.at
  BY <1>3 DEF HeapApart
<1>5. /\ b.at \in Nat /\ b.size \in Nat /\ c.at \in Nat /\ c.size \in Nat
      /\ g.at \in Nat /\ g.size \in Nat /\ h.at \in Nat /\ h.size \in Nat
  BY DEF LiveTypes, HeapTypes
<1>6. Front(b) \in Nat /\ Front(c) \in Nat
  BY DEF Front
<1> QED BY <1>1, <1>2, <1>4, <1>5, <1>6 DEF Inside, End

\* the sum and the number when a block is added, or taken
LEMMA CountsAdded ==
  ASSUME NEW S, IsFiniteSet(S), SizesNat(S), NEW x, x \notin S, x.size \in Nat,
         NEW T, T = S \cup {x}
  PROVE  /\ IsFiniteSet(T) /\ SizesNat(T) /\ SizesOf(T) = SizesOf(S) + x.size
         /\ Cardinality(T) = Cardinality(S) + 1 /\ SizesOf(S) \in Nat /\ Cardinality(S) \in Nat
<1>1. IsFiniteSet(T) /\ Cardinality(T) = Cardinality(S) + 1 /\ Cardinality(S) \in Nat
  BY FS_AddElement, FS_CardinalityType
<1>2. SizesNat(T) /\ x \in T
  BY DEF SizesNat
<1> DEFINE R == T \ {x}
<1>3. SizesOf(T) = x.size + SizesOf(R) /\ SizesOf(R) \in Nat
  BY <1>1, <1>2, SizesTake
<1>4. R = S
  OBVIOUS
<1> HIDE DEF R
<1>5. SizesOf(R) = SizesOf(S)
  BY <1>4, SizesEqual
<1> QED BY <1>1, <1>2, <1>3, <1>5

LEMMA CountsTaken ==
  ASSUME NEW S, IsFiniteSet(S), SizesNat(S), NEW x \in S, NEW T, T = S \ {x}
  PROVE  /\ IsFiniteSet(T) /\ SizesNat(T) /\ SizesOf(T) = SizesOf(S) - x.size
         /\ Cardinality(T) = Cardinality(S) - 1 /\ SizesOf(T) \in Nat /\ Cardinality(T) \in Nat
<1>1. IsFiniteSet(T)
  BY FS_RemoveElement
<1>2. SizesNat(T) /\ x \notin T /\ S = T \cup {x} /\ x.size \in Nat
  BY DEF SizesNat
<1>3. /\ SizesOf(S) = SizesOf(T) + x.size /\ SizesOf(T) \in Nat
      /\ Cardinality(S) = Cardinality(T) + 1 /\ Cardinality(T) \in Nat
  BY <1>1, <1>2, CountsAdded
<1> QED BY <1>1, <1>2, <1>3

\* malloc gives `whole` bytes at x for the block b, whose header may be in front
LEMMA MallocGives ==
  ASSUME MallocInv, NEW x \in Nat, NEW whole \in Nat \ {0}, NEW b, NEW h,
         h.at = x, h.size = whole, x + whole <= buffer_to,
         \A g \in heap : x + whole <= g.at \/ End(g) <= x,
         b.at \in Nat, b.size \in Nat \ {0}, b.align \in Nat \ {0}, b.at % b.align = 0,
         b.at - Front(b) >= x, End(b) <= x + whole,
         b.align <= SLOT => b.at = x,
         b.align > SLOT => b.at \in DOMAIN padding' /\ b.at - padding'[b.at] = x,
         DOMAIN padding \subseteq DOMAIN padding',
         \A a \in DOMAIN padding : a # b.at => padding'[a] = padding[a],
         heap' = heap \cup {h}, live' = live \cup {b},
         total_alloced' = total_alloced + b.size, allocation_count' = allocation_count + 1,
         deallocation_count' = deallocation_count
  PROVE  MallocInv'
<1>0. /\ HeapApart /\ HeapTypes /\ LiveTypes /\ HeapHolds /\ HeapCounted
      /\ HEADER \in Nat /\ SLOT \in Nat \ {0} /\ buffer_to \in Nat
  BY HeapAssumption, AllocatorsAssumption DEF MallocInv
<1>1. Front(b) \in Nat /\ b.at >= x /\ b.at < x + whole
  BY <1>0 DEF Front, End
<1>2. \A g \in heap : g.at # x
  <2> SUFFICES ASSUME NEW g \in heap, g.at = x PROVE FALSE
    OBVIOUS
  <2>1. g.at \in Nat /\ g.size \in Nat \ {0}
    BY <1>0 DEF HeapTypes
  <2> QED BY <2>1 DEF End
<1>3. \A c \in live : /\ c.at \in Nat /\ c.size \in Nat \ {0} /\ Front(c) \in Nat
                      /\ c.at # b.at /\ Malloc!Original(c) # x
  <2> TAKE c \in live
  <2>1. PICK g \in heap : Inside(c, g)
    BY <1>0 DEF HeapHolds
  <2>2. /\ c.at \in Nat /\ c.size \in Nat \ {0} /\ Front(c) \in Nat
        /\ g.at \in Nat /\ g.size \in Nat \ {0}
    BY <1>0 DEF LiveTypes, HeapTypes, Front
  <2>3. x + whole <= g.at \/ End(g) <= x
    OBVIOUS
  <2>4. c.at >= g.at /\ c.at < End(g)
    BY <2>1, <2>2 DEF Inside, End
  <2>5. c.at # b.at
    BY <2>2, <2>3, <2>4, <1>1 DEF End
  <2>6. Malloc!Original(c) # x
    BY <2>1, <1>2 DEF Inside
  <2> QED BY <2>2, <2>5, <2>6
<1>4. b \notin live /\ h \notin heap
  BY <1>2, <1>3
<1>5. \A c \in live : Malloc!Original(c)' = Malloc!Original(c)
  <2> TAKE c \in live
  <2>1. CASE c.align <= SLOT
    BY <2>1 DEF Malloc!Original
  <2>2. CASE ~(c.align <= SLOT)
    <3>1. c.align > SLOT
      BY <2>2, <1>0 DEF LiveTypes
    <3>2. c.at \in DOMAIN padding /\ c.at # b.at
      BY <3>1, <1>0, <1>3 DEF HeapHolds
    <3>3. padding'[c.at] = padding[c.at]
      BY <3>2
    <3> QED BY <3>3 DEF Malloc!Original
  <2> QED BY <2>1, <2>2
<1>6. Malloc!Original(b)' = x
  BY <1>0 DEF Malloc!Original
<1>7. HeapApart'
  BY <1>0 DEF HeapApart, End
<1>8. SizesNat(live) /\ IsFiniteSet(live) /\ IsFiniteSet(heap)
  BY <1>0 DEF SizesNat, LiveTypes, HeapTypes
<1> DEFINE now == live'
<1>9. /\ IsFiniteSet(now) /\ SizesOf(now) = SizesOf(live) + b.size
      /\ Cardinality(now) = Cardinality(live) + 1
      /\ SizesOf(live) \in Nat /\ Cardinality(live) \in Nat
  <2>1. now = live \cup {b}
    OBVIOUS
  <2> HIDE DEF now
  <2> QED BY <2>1, <1>4, <1>8, CountsAdded
<1>10. IsFiniteSet(heap') /\ Cardinality(heap') = Cardinality(heap) + 1
  <2>1. Cardinality(heap) \in Nat
    BY <1>8, FS_CardinalityType
  <2> QED BY <2>1, <1>4, <1>8, FS_AddElement
<1>11. HeapTypes'
  BY <1>0, <1>10 DEF HeapTypes, End
<1>12. LiveTypes'
  BY <1>0, <1>9 DEF LiveTypes
<1>13. HeapHolds'
  <2>1. \A c \in live' : \E g \in heap' : Inside(c, g)'
    <3> TAKE c \in live'
    <3>1. CASE c \in live
      <4>1. PICK g \in heap : Inside(c, g)
        BY <1>0, <3>1 DEF HeapHolds
      <4>2. Inside(c, g)'
        BY <4>1, <3>1, <1>5 DEF Inside, Front
      <4> QED BY <4>2
    <3>2. CASE c = b
      <4>1. Inside(b, h)'
        BY <1>6 DEF Inside, Front, End
      <4> QED BY <4>1, <3>2
    <3> QED BY <3>1, <3>2
  <2>2. \A c \in live' : c.align > SLOT => c.at \in DOMAIN padding'
    BY <1>0 DEF HeapHolds
  <2>3. ASSUME NEW c \in live', NEW d \in live', Malloc!Original(c)' = Malloc!Original(d)'
        PROVE  c = d
    <3>1. CASE c \in live /\ d \in live
      BY <3>1, <2>3, <1>0, <1>5 DEF HeapHolds
    <3>2. CASE c = b \/ d = b
      BY <3>2, <2>3, <1>3, <1>5, <1>6
    <3> QED BY <3>1, <3>2
  <2>4. Cardinality(heap') = Cardinality(live')
    BY <1>0, <1>9, <1>10 DEF HeapHolds
  <2> QED BY <2>1, <2>2, <2>3, <2>4 DEF HeapHolds
<1>14. HeapCounted'
  <2>1. total_alloced' = SizesOf(now)
    BY <1>0, <1>9 DEF HeapCounted
  <2>2. allocation_count' - deallocation_count' = Cardinality(now)
    BY <1>0, <1>9 DEF HeapCounted
  <2> QED BY <2>1, <2>2, <1>0 DEF HeapCounted
<1> QED BY <1>7, <1>11, <1>12, <1>13, <1>14 DEF MallocInv

\* the room malloc finds
LEMMA MallocRoom ==
  ASSUME HeapTypes, NEW whole \in Nat \ {0}, NEW x \in Malloc!MallocAt(whole)
  PROVE  /\ x \in Nat /\ x + whole <= buffer_to /\ x % SLOT = 0
         /\ \A h \in heap : x + whole <= h.at \/ End(h) <= x
<1>1. buffer_to \in Nat
  BY AllocatorsAssumption
<1> QED BY <1>1 DEF Malloc!MallocAt, Malloc!buffer_from, End

LEMMA MallocAllocate ==
  ASSUME MallocInv, NEW s \in Nat \ {0}, NEW a \in Nat \ {0}, a < SLOT => SLOT % a = 0,
         Malloc!Allocate(s, a)
  PROVE  MallocInv'
<1>0. HeapTypes /\ HEADER \in Nat /\ SLOT \in Nat \ {0} /\ a <= SLOT
  BY HeapAssumption, AllocatorsAssumption DEF MallocInv, Malloc!Allocate
<1>1. PICK x \in Malloc!MallocAt(s) :
        /\ heap' = heap \cup {[at |-> x, size |-> s]}
        /\ live' = live \cup {Malloc!Block(x, s, a)}
  BY DEF Malloc!Allocate
<1>2. /\ total_alloced' = total_alloced + s /\ allocation_count' = allocation_count + 1
      /\ deallocation_count' = deallocation_count /\ padding' = padding
  BY DEF Malloc!Allocate, Malloc!Counted
<1>3. /\ x \in Nat /\ x + s <= buffer_to /\ x % SLOT = 0
      /\ \A h \in heap : x + s <= h.at \/ End(h) <= x
  BY <1>0, MallocRoom
<1>4. x % a = 0
  <2>1. SLOT % a = 0
    <3>1. CASE a = SLOT
      <4>1. (a * 1 + 0) % a = 0
        BY Remainder
      <4> QED BY <4>1, <3>1
    <3>2. CASE a < SLOT
      BY <3>2
    <3> QED BY <3>1, <3>2, <1>0
  <2> QED BY <2>1, <1>0, <1>3, MultipleOf
<1>5. PICK b : b = Malloc!Block(x, s, a)
  OBVIOUS
<1>6. PICK h : h = [at |-> x, size |-> s]
  OBVIOUS
<1>7. b.at = x /\ b.size = s /\ b.align = a /\ h.at = x /\ h.size = s
  BY <1>5, <1>6 DEF Malloc!Block
<1>8. /\ heap' = heap \cup {h} /\ live' = live \cup {b}
      /\ total_alloced' = total_alloced + b.size
  BY <1>1, <1>2, <1>5, <1>6, <1>7
<1>9. /\ b.at \in Nat /\ b.size \in Nat \ {0} /\ b.align \in Nat \ {0} /\ b.at % b.align = 0
      /\ b.at - Front(b) >= x /\ End(b) <= x + s
      /\ b.align <= SLOT => b.at = x
      /\ ~(b.align > SLOT)
  BY <1>0, <1>3, <1>4, <1>7 DEF Front, End
<1> QED BY <1>2, <1>3, <1>7, <1>8, <1>9, MallocGives

LEMMA MallocAllocateAligned ==
  ASSUME MallocInv, NEW s \in Nat \ {0}, NEW a \in Nat \ {0}, Malloc!AllocateAligned(s, a)
  PROVE  MallocInv'
<1> DEFINE whole == s + a + HEADER
<1>0. /\ HeapTypes /\ HEADER \in Nat /\ SLOT \in Nat \ {0} /\ a > SLOT
      /\ whole \in Nat \ {0}
  BY HeapAssumption, AllocatorsAssumption DEF MallocInv, Malloc!AllocateAligned
<1>1. PICK x \in Malloc!MallocAt(whole) :
        /\ heap' = heap \cup {[at |-> x, size |-> whole]}
        /\ padding' = [y \in DOMAIN padding \cup {Malloc!align_forward(x + HEADER, a)} |->
                         IF y = Malloc!align_forward(x + HEADER, a)
                         THEN Malloc!align_forward(x + HEADER, a) - x ELSE padding[y]]
        /\ live' = live \cup {Malloc!Block(Malloc!align_forward(x + HEADER, a), s, a)}
  BY DEF Malloc!AllocateAligned
<1>2. /\ total_alloced' = total_alloced + s /\ allocation_count' = allocation_count + 1
      /\ deallocation_count' = deallocation_count
  BY DEF Malloc!AllocateAligned, Malloc!Counted
<1>3. /\ x \in Nat /\ x + whole <= buffer_to
      /\ \A h \in heap : x + whole <= h.at \/ End(h) <= x
  <2> HIDE DEF whole
  <2> QED BY <1>0, MallocRoom
<1>4. PICK y : y = align_forward(x + HEADER, a)
  OBVIOUS
<1>5. y \in Nat /\ y >= x + HEADER /\ y < x + HEADER + a /\ y % a = 0
  <2>1. x + HEADER \in Nat
    BY <1>0, <1>3
  <2> QED BY <2>1, <1>4, AlignForward
<1>6. y = Malloc!align_forward(x + HEADER, a)
  BY <1>4 DEF align_forward, Malloc!align_forward
<1>7. PICK b : b = Malloc!Block(y, s, a)
  OBVIOUS
<1>8. PICK h : h = [at |-> x, size |-> whole]
  OBVIOUS
<1>9. b.at = y /\ b.size = s /\ b.align = a /\ h.at = x /\ h.size = whole
  BY <1>7, <1>8 DEF Malloc!Block
<1>10. padding' = [z \in DOMAIN padding \cup {y} |-> IF z = y THEN y - x ELSE padding[z]]
  BY <1>1, <1>6
<1>11. /\ heap' = heap \cup {h} /\ live' = live \cup {b}
       /\ total_alloced' = total_alloced + b.size
  BY <1>1, <1>2, <1>6, <1>7, <1>8, <1>9
<1>12. /\ y - (y - x) = x /\ y - HEADER >= x /\ y + s <= x + whole
  BY <1>0, <1>3, <1>5
<1>13. /\ b.at \in Nat /\ b.size \in Nat \ {0} /\ b.align \in Nat \ {0} /\ b.at % b.align = 0
       /\ b.at - Front(b) >= x /\ End(b) <= x + whole
       /\ ~(b.align <= SLOT)
  <2> HIDE DEF whole
  <2> QED BY <1>0, <1>3, <1>5, <1>9, <1>12 DEF Front, End
<1>14. /\ b.at \in DOMAIN padding' /\ padding'[b.at] = y - x
       /\ DOMAIN padding \subseteq DOMAIN padding'
       /\ \A z \in DOMAIN padding : z # b.at => padding'[z] = padding[z]
  BY <1>9, <1>10
<1>15. b.at - padding'[b.at] = x
  BY <1>9, <1>12, <1>14
<1> HIDE DEF whole
<1> QED BY <1>0, <1>2, <1>3, <1>9, <1>11, <1>13, <1>14, <1>15, MallocGives

LEMMA MallocDeallocate ==
  ASSUME MallocInv, NEW b \in live, Malloc!Deallocate(b)
  PROVE  MallocInv'
<1>0. /\ HeapApart /\ HeapTypes /\ LiveTypes /\ HeapHolds /\ HeapCounted
      /\ HEADER \in Nat /\ SLOT \in Nat \ {0} /\ buffer_to \in Nat
  BY HeapAssumption, AllocatorsAssumption DEF MallocInv
<1>1. /\ heap' = {h \in heap : h.at # Malloc!Original(b)} /\ live' = live \ {b}
      /\ padding' = [a \in DOMAIN padding \ {b.at} |-> padding[a]]
      /\ total_alloced' = total_alloced - b.size
      /\ deallocation_count' = deallocation_count + 1 /\ allocation_count' = allocation_count
  BY DEF Malloc!Deallocate
<1>2. PICK g \in heap : Inside(b, g)
  BY <1>0 DEF HeapHolds
<1>3. heap' = heap \ {g}
  <2>1. \A h \in heap : h.at = Malloc!Original(b) <=> h = g
    BY <1>0, <1>2, HeapOne DEF Inside
  <2> QED BY <2>1, <1>1
<1>4. \A c \in live : c # b => c.at # b.at
  <2> SUFFICES ASSUME NEW c \in live, c # b, c.at = b.at PROVE FALSE
    OBVIOUS
  <2>1. End(b) <= c.at \/ End(c) <= b.at
    BY <1>0, BlocksApart
  <2>2. c.at \in Nat /\ c.size \in Nat \ {0} /\ b.size \in Nat \ {0}
    BY <1>0 DEF LiveTypes
  <2> QED BY <2>1, <2>2 DEF End
<1>5. \A c \in live' : Malloc!Original(c)' = Malloc!Original(c)
  <2> TAKE c \in live'
  <2>1. CASE c.align <= SLOT
    BY <2>1 DEF Malloc!Original
  <2>2. CASE ~(c.align <= SLOT)
    <3>1. c.align > SLOT
      BY <2>2, <1>0, <1>1 DEF LiveTypes
    <3>2. c.at \in DOMAIN padding /\ c.at # b.at
      BY <3>1, <1>0, <1>1, <1>4 DEF HeapHolds
    <3>3. padding'[c.at] = padding[c.at]
      BY <3>2, <1>1
    <3> QED BY <3>3 DEF Malloc!Original
  <2> QED BY <2>1, <2>2
<1>6. \A c \in live' : \E h \in heap' : Inside(c, h)'
  <2> TAKE c \in live'
  <2>1. PICK h \in heap : Inside(c, h)
    BY <1>0, <1>1 DEF HeapHolds
  <2>2. h # g
    BY <2>1, <1>0, <1>1, <1>2 DEF Inside, HeapHolds
  <2>3. Inside(c, h)'
    BY <2>1, <1>5 DEF Inside, Front
  <2> QED BY <2>2, <2>3, <1>3
<1>7. SizesNat(live) /\ IsFiniteSet(live) /\ IsFiniteSet(heap)
  BY <1>0 DEF SizesNat, LiveTypes, HeapTypes
<1> DEFINE now == live'
<1>8. /\ IsFiniteSet(now) /\ SizesOf(now) = SizesOf(live) - b.size
      /\ Cardinality(now) = Cardinality(live) - 1
      /\ SizesOf(now) \in Nat /\ Cardinality(now) \in Nat
  <2>1. now = live \ {b}
    BY <1>1
  <2> HIDE DEF now
  <2> QED BY <2>1, <1>7, CountsTaken
<1>9. IsFiniteSet(heap') /\ Cardinality(heap') = Cardinality(heap) - 1
  BY <1>3, <1>7, FS_RemoveElement
<1>10. HeapApart' /\ HeapTypes' /\ LiveTypes'
  BY <1>0, <1>1, <1>3, <1>8, <1>9 DEF HeapApart, HeapTypes, LiveTypes, End
<1>11. HeapHolds'
  <2>1. \A c \in live' : c.align > SLOT => c.at \in DOMAIN padding'
    BY <1>0, <1>1, <1>4 DEF HeapHolds
  <2>2. \A c, d \in live' : Malloc!Original(c)' = Malloc!Original(d)' => c = d
    BY <1>0, <1>1, <1>5 DEF HeapHolds
  <2>3. Cardinality(heap') = Cardinality(live')
    BY <1>0, <1>8, <1>9 DEF HeapHolds
  <2> QED BY <2>1, <2>2, <2>3, <1>6 DEF HeapHolds
<1>12. HeapCounted'
  <2>1. total_alloced' = SizesOf(now)
    BY <1>0, <1>1, <1>8 DEF HeapCounted
  <2>2. b.size \in Nat /\ Cardinality(live) = Cardinality(now) + 1
    <3>1. Cardinality(live) \in Nat
      BY <1>7, FS_CardinalityType
    <3> QED BY <3>1, <1>0, <1>8 DEF LiveTypes
  <2>3. allocation_count' - deallocation_count' = Cardinality(now)
    BY <2>2, <1>0, <1>1, <1>8 DEF HeapCounted
  <2> QED BY <2>1, <2>3, <1>0, <1>1 DEF HeapCounted
<1> QED BY <1>10, <1>11, <1>12 DEF MallocInv

LEMMA MallocSame ==
  ASSUME MallocInv,
         UNCHANGED <<heap, padding, total_alloced, allocation_count, deallocation_count, live>>
  PROVE  MallocInv'
<1>1. \A b \in live : Malloc!Original(b)' = Malloc!Original(b)
  BY DEF Malloc!Original
<1>2. \A b \in live, h \in heap : Inside(b, h)' = Inside(b, h)
  BY <1>1 DEF Inside, Front
<1>3. HeapHolds'
  BY <1>1, <1>2 DEF MallocInv, HeapHolds
<1> QED BY <1>3 DEF MallocInv, HeapApart, HeapTypes, LiveTypes, HeapCounted, End

LEMMA MallocStep == ASSUME MallocInv, Malloc!Next PROVE MallocInv'
<1>1. ASSUME NEW r \in Requests,
             Malloc!Allocate(r[1], r[2]) \/ Malloc!AllocateAligned(r[1], r[2])
             \/ Malloc!AllocateFails(r[1], r[2])
      PROVE  MallocInv'
  <2>1. CASE Malloc!AllocateFails(r[1], r[2])
    BY <2>1, MallocSame DEF Malloc!AllocateFails, Malloc!vars, Malloc!counts
  <2> QED BY <1>1, <2>1, RequestTypes, MallocAllocate, MallocAllocateAligned
<1>2. ASSUME NEW b \in live, NEW n, Malloc!Resize(b, n) PROVE MallocInv'
  BY <1>2, MallocSame DEF Malloc!Resize
<1> QED BY <1>1, <1>2, MallocDeallocate DEF Malloc!Next

LEMMA MallocInvSound ==
  ASSUME MallocInv
  PROVE  LiveDisjoint /\ LiveAligned /\ Malloc!FreeMatches /\ Malloc!MallocCounted
<1>0. /\ HeapApart /\ HeapTypes /\ LiveTypes /\ HeapHolds /\ HeapCounted
      /\ HEADER \in Nat /\ SLOT \in Nat \ {0} /\ buffer_to \in Nat
  BY HeapAssumption, AllocatorsAssumption DEF MallocInv
<1>1. LiveDisjoint
  <2>1. ASSUME NEW b \in live PROVE b.at + b.size <= buffer_to
    <3>1. PICK h \in heap : Inside(b, h)
      BY <1>0 DEF HeapHolds
    <3>2. b.at \in Nat /\ b.size \in Nat /\ h.at \in Nat /\ h.size \in Nat /\ End(h) <= buffer_to
      BY <1>0 DEF LiveTypes, HeapTypes
    <3> QED BY <3>1, <3>2, <1>0 DEF Inside, End
  <2>2. ASSUME NEW b \in live, NEW c \in live, b # c
        PROVE  Bytes(b) \cap Bytes(c) = {}
    <3>1. End(b) <= c.at \/ End(c) <= b.at
      BY <2>2, <1>0, BlocksApart
    <3>2. b.at \in Nat /\ b.size \in Nat /\ c.at \in Nat /\ c.size \in Nat
      BY <1>0 DEF LiveTypes
    <3> QED BY <3>1, <3>2 DEF End, Bytes
  <2> QED BY <2>1, <2>2 DEF LiveDisjoint
<1>2. LiveAligned
  BY <1>0 DEF LiveAligned, LiveTypes
<1>3. Malloc!FreeMatches
  <2>1. Malloc!Cardinality(heap) = Malloc!Cardinality(live)
    BY <1>0 DEF HeapHolds, Malloc!Cardinality, Cardinality
  <2> QED BY <2>1, <1>0 DEF HeapHolds, Malloc!FreeMatches, Inside, Front
<1>4. Malloc!MallocCounted
  <2>1. Malloc!SizesOf(live) = SizesOf(live)
    BY DEF Malloc!SizesOf, SizesOf, Malloc!MapThenSumSet, MapThenSumSet,
           Malloc!MapThenFoldSet, MapThenFoldSet
  <2>2. Malloc!Cardinality(live) = Cardinality(live)
    BY DEF Malloc!Cardinality, Cardinality
  <2> QED BY <2>1, <2>2, <1>0 DEF HeapCounted, Malloc!MallocCounted
<1> QED BY <1>1, <1>2, <1>3, <1>4

-----------------------------------------------------------------------------
(* The allocator of the tests *)

\* a block with the header in front of it and the one behind it
Whole(b) == [at |-> b.at - 1, size |-> b.size + 2]

ZoneTypes ==
  /\ IsFiniteSet(live) /\ damaged \subseteq live
  /\ DOMAIN cells = 0 .. memory_size - 1
  /\ \A b \in live : /\ b.at \in Nat \ {0} /\ b.size \in Nat
                     /\ b.at + b.size < memory_size

\* a header is whole until the client writes over it, and damage is remembered
ZonesMarked ==
  \A b \in live :
    /\ cells[b.at - 1] \in {b.size, Testing!Bytes}
    /\ cells[b.at + b.size] \in {b.size, Testing!Bytes}
    /\ b \in damaged <=> (cells[b.at - 1] = Testing!Bytes
                          \/ cells[b.at + b.size] = Testing!Bytes)

ZonesApart ==
  \A b, c \in live : b # c => b.at + b.size + 1 < c.at \/ c.at + c.size + 1 < b.at

ZonesInv ==
  /\ ZoneTypes /\ ZonesMarked /\ ZonesApart
  /\ heap = {Whole(b) : b \in live} /\ current_alloced = SizesOf(live)

LEMMA ZonesInit == Testing!Init => ZonesInv
<1> SUFFICES ASSUME Testing!Init PROVE ZonesInv
  OBVIOUS
<1>1. /\ heap = {} /\ live = {} /\ damaged = {} /\ current_alloced = 0
      /\ DOMAIN cells = 0 .. memory_size - 1
  BY DEF Testing!Init
<1>2. SizesOf(live) = 0
  <2>1. live = {}
    BY <1>1
  <2> QED BY <2>1, SizesNone
<1>3. IsFiniteSet(live)
  BY <1>1, FS_EmptySet
<1> QED BY <1>1, <1>2, <1>3 DEF ZonesInv, ZoneTypes, ZonesMarked, ZonesApart

LEMMA ZonesSame ==
  ASSUME ZonesInv, UNCHANGED <<heap, cells, current_alloced, live, damaged>>
  PROVE  ZonesInv'
<1> QED BY DEF ZonesInv, ZoneTypes, ZonesMarked, ZonesApart

\* the headers say exactly of which block an end was written past
LEMMA IntactUndamaged ==
  ASSUME ZonesInv, NEW b \in live
  PROVE  /\ Testing!Intact(b.at) <=> b \notin damaged
         /\ b \notin damaged => cells[b.at - 1] = b.size
<1>1. /\ b.at \in Nat /\ b.size \in Nat /\ Testing!Bytes = -1
      /\ cells[b.at - 1] \in {b.size, Testing!Bytes}
      /\ cells[b.at + b.size] \in {b.size, Testing!Bytes}
      /\ b \in damaged <=> (cells[b.at - 1] = Testing!Bytes
                            \/ cells[b.at + b.size] = Testing!Bytes)
  BY DEF ZonesInv, ZoneTypes, ZonesMarked, Testing!Bytes
<1> QED BY <1>1 DEF Testing!Intact

\* realloc puts n units at a, and what was at `old` is given up
LEMMA ZonesPlace ==
  ASSUME ZonesInv, NEW old \in Int, NEW n \in Nat, NEW keep, NEW alloced,
         keep = {b \in live : b.at # old + 1}, damaged \subseteq keep,
         alloced = SizesOf(keep), Testing!Place(old, n, alloced)
  PROVE  ZonesInv'
<1>0. ZoneTypes /\ ZonesMarked /\ ZonesApart /\ heap = {Whole(b) : b \in live}
  BY DEF ZonesInv
<1>1. CASE Testing!Abort
  BY <1>1, ZonesSame DEF Testing!Abort
<1>2. ASSUME NEW a \in Testing!Rooms(n + 2, old),
             heap' = {h \in heap : h.at # old} \cup {[at |-> a, size |-> n + 2]},
             cells' = Testing!Headed(a, n),
             live' = {b \in live : b.at # old + 1} \cup {[at |-> a + 1, size |-> n]},
             current_alloced' = alloced + n, damaged' = damaged
      PROVE  ZonesInv'
  <2>1. memory_size \in Nat
    BY HeapAssumption
  <2>2. /\ a \in Nat /\ a + n + 2 <= memory_size
        /\ \A h \in heap : h.at = old \/ a + n + 2 <= h.at \/ h.at + h.size <= a
    BY <2>1 DEF Testing!Rooms
  <2>3. PICK b : b = [at |-> a + 1, size |-> n]
    OBVIOUS
  <2>4. b.at = a + 1 /\ b.size = n /\ Whole(b) = [at |-> a, size |-> n + 2]
    BY <2>2, <2>3 DEF Whole
  <2>5. live' = keep \cup {b} /\ heap' = {h \in heap : h.at # old} \cup {Whole(b)}
    BY <2>3, <2>4, <1>2
  <2>6. ASSUME NEW c \in keep
        PROVE  /\ c \in live /\ Whole(c) \in heap /\ Whole(c).at # old
               /\ c.at \in Nat \ {0} /\ c.size \in Nat /\ c.at + c.size < memory_size
               /\ a + n + 2 < c.at \/ c.at + c.size + 1 <= a
    <3>1. /\ c \in live /\ c.at # old + 1 /\ c.at \in Nat \ {0} /\ c.size \in Nat
          /\ c.at + c.size < memory_size
      BY <2>6, <1>0 DEF ZoneTypes
    <3>2. Whole(c) \in heap /\ Whole(c).at = c.at - 1 /\ Whole(c).size = c.size + 2
      BY <3>1, <1>0 DEF Whole
    <3>3. Whole(c).at # old
      BY <3>1, <3>2
    <3>4. a + n + 2 <= Whole(c).at \/ Whole(c).at + Whole(c).size <= a
      BY <2>2, <3>2, <3>3
    <3> QED BY <3>1, <3>2, <3>3, <3>4, <2>2
  <2>7. b \notin keep /\ IsFiniteSet(keep)
    <3>1. b \notin keep
      BY <2>2, <2>4, <2>6
    <3> QED BY <3>1, <1>0, FS_Subset DEF ZoneTypes
  <2>8. heap' = {Whole(c) : c \in live'}
    <3>1. {h \in heap : h.at # old} = {Whole(c) : c \in keep}
      <4>1. ASSUME NEW h \in heap, h.at # old PROVE \E c \in keep : h = Whole(c)
        <5>1. PICK c \in live : h = Whole(c)
          BY <1>0, <4>1
        <5>2. c.at \in Nat /\ h.at = c.at - 1
          BY <5>1, <1>0 DEF Whole, ZoneTypes
        <5>3. c \in keep
          BY <5>2, <4>1
        <5> QED BY <5>1, <5>3
      <4> QED BY <4>1, <2>6
    <3> HIDE DEF Whole
    <3> QED BY <3>1, <2>5
  <2>9. \A c \in DOMAIN cells :
          cells'[c] = IF c \in {a, a + 1 + n} THEN n
                      ELSE IF c \in a .. a + 1 + n THEN Testing!Bytes ELSE cells[c]
    BY <1>2 DEF Testing!Headed
  <2>10. DOMAIN cells' = DOMAIN cells /\ DOMAIN cells = 0 .. memory_size - 1
    BY <1>2, <1>0 DEF Testing!Headed, ZoneTypes
  <2>11. ZoneTypes'
    <3>1. IsFiniteSet(live')
      BY <2>5, <2>7, FS_AddElement
    <3>2. ASSUME NEW c \in live'
          PROVE  c.at \in Nat \ {0} /\ c.size \in Nat /\ c.at + c.size < memory_size
      BY <2>1, <2>2, <2>4, <2>5, <2>6
    <3> QED BY <3>1, <3>2, <2>5, <2>10, <1>2 DEF ZoneTypes
  <2>12. ZonesMarked'
    <3>1. ASSUME NEW c \in keep
          PROVE  cells'[c.at - 1] = cells[c.at - 1] /\ cells'[c.at + c.size] = cells[c.at + c.size]
      <4>1. PICK p, q : p = c.at /\ q = c.size
        OBVIOUS
      <4>2. /\ p \in Nat \ {0} /\ q \in Nat /\ p + q < memory_size
            /\ a + n + 2 < p \/ p + q + 1 <= a
        BY <4>1, <2>6
      <4>3. /\ p - 1 \in 0 .. memory_size - 1 /\ p + q \in 0 .. memory_size - 1
            /\ p - 1 \notin {a, a + 1 + n} /\ p - 1 \notin a .. a + 1 + n
            /\ p + q \notin {a, a + 1 + n} /\ p + q \notin a .. a + 1 + n
        BY <4>2, <2>1, <2>2
      <4>4. cells'[p - 1] = cells[p - 1] /\ cells'[p + q] = cells[p + q]
        BY <4>3, <2>9, <2>10
      <4> QED BY <4>1, <4>4
    <3>2. cells'[b.at - 1] = n /\ cells'[b.at + b.size] = n
      BY <2>1, <2>2, <2>4, <2>9, <2>10
    <3>3. b \notin damaged' /\ n # Testing!Bytes
      BY <2>7, <1>2 DEF Testing!Bytes
    <3>4. ASSUME NEW c \in live'
          PROVE  /\ cells'[c.at - 1] \in {c.size, Testing!Bytes}
                 /\ cells'[c.at + c.size] \in {c.size, Testing!Bytes}
                 /\ c \in damaged' <=> (cells'[c.at - 1] = Testing!Bytes
                                        \/ cells'[c.at + c.size] = Testing!Bytes)
      <4>1. CASE c = b
        BY <4>1, <3>2, <3>3, <2>4
      <4>2. CASE c \in keep
        <5>1. /\ cells[c.at - 1] \in {c.size, Testing!Bytes}
              /\ cells[c.at + c.size] \in {c.size, Testing!Bytes}
              /\ c \in damaged <=> (cells[c.at - 1] = Testing!Bytes
                                    \/ cells[c.at + c.size] = Testing!Bytes)
          BY <4>2, <2>6, <1>0 DEF ZonesMarked
        <5> QED BY <5>1, <4>2, <3>1, <1>2
      <4> QED BY <4>1, <4>2, <2>5
    <3> QED BY <3>4 DEF ZonesMarked, Testing!Bytes
  <2>13. ZonesApart'
    <3>1. ASSUME NEW c \in live', NEW d \in live', c # d
          PROVE  c.at + c.size + 1 < d.at \/ d.at + d.size + 1 < c.at
      <4>1. CASE c \in keep /\ d \in keep
        BY <4>1, <3>1, <2>6, <1>0 DEF ZonesApart
      <4>2. CASE c = b /\ d \in keep
        BY <4>2, <2>2, <2>4, <2>6
      <4>3. CASE d = b /\ c \in keep
        BY <4>3, <2>2, <2>4, <2>6
      <4> QED BY <4>1, <4>2, <4>3, <3>1, <2>5
    <3> QED BY <3>1 DEF ZonesApart
  <2>14. current_alloced' = SizesOf(live)'
    <3> DEFINE now == live'
    <3>1. now = keep \cup {b} /\ SizesNat(keep) /\ b.size = n
      BY <2>4, <2>5, <2>6 DEF SizesNat
    <3> HIDE DEF now
    <3>2. SizesOf(now) = SizesOf(keep) + n
      BY <3>1, <2>7, CountsAdded
    <3> QED BY <3>2, <1>2 DEF now
  <2> QED BY <2>8, <2>11, <2>12, <2>13, <2>14 DEF ZonesInv, Whole
<1> QED BY <1>1, <1>2 DEF Testing!Place

\* what remains without one block
LEMMA ZonesWithout ==
  ASSUME ZonesInv, NEW b \in live
  PROVE  /\ {c \in live : c.at # b.at} = live \ {b}
         /\ {h \in heap : h.at # b.at - 1} = {Whole(c) : c \in live \ {b}}
         /\ SizesOf(live \ {b}) = SizesOf(live) - b.size /\ IsFiniteSet(live \ {b})
<1>0. ZoneTypes /\ ZonesApart /\ heap = {Whole(c) : c \in live}
  BY DEF ZonesInv
<1>1. \A c \in live : c.at = b.at <=> c = b
  <2> SUFFICES ASSUME NEW c \in live, c.at = b.at, c # b PROVE FALSE
    OBVIOUS
  <2>1. b.at \in Nat /\ b.size \in Nat /\ c.at \in Nat /\ c.size \in Nat
    BY <1>0 DEF ZoneTypes
  <2> QED BY <2>1, <1>0 DEF ZonesApart
<1>2. {c \in live : c.at # b.at} = live \ {b}
  BY <1>1
<1>3. \A c \in live : Whole(c).at = b.at - 1 <=> c = b
  <2> TAKE c \in live
  <2>1. Whole(c).at = c.at - 1 /\ c.at \in Nat /\ b.at \in Nat
    BY <1>0 DEF ZoneTypes, Whole
  <2> QED BY <2>1, <1>1
<1>4. {h \in heap : h.at # b.at - 1} = {Whole(c) : c \in live \ {b}}
  <2> HIDE DEF Whole
  <2> QED BY <1>0, <1>3
<1>5. SizesNat(live) /\ IsFiniteSet(live)
  BY <1>0 DEF ZoneTypes, SizesNat
<1> DEFINE rest == live \ {b}
<1>6. rest = live \ {b}
  OBVIOUS
<1> HIDE DEF rest
<1>7. SizesOf(rest) = SizesOf(live) - b.size /\ IsFiniteSet(rest)
  BY <1>5, <1>6, CountsTaken
<1> QED BY <1>2, <1>4, <1>7 DEF rest

LEMMA ZonesAllocate ==
  ASSUME ZonesInv, NEW n \in Nat, Testing!Allocate(n)
  PROVE  ZonesInv'
<1> DEFINE keep == {b \in live : b.at # -1 + 1}
<1>1. keep = live /\ damaged \subseteq keep
  BY DEF ZonesInv, ZoneTypes
<1>2. current_alloced = SizesOf(keep)
  <2> HIDE DEF keep
  <2> QED BY <1>1, SizesEqual DEF ZonesInv
<1>3. Testing!Place(-1, n, current_alloced) /\ keep = {b \in live : b.at # -1 + 1}
  BY DEF Testing!Allocate, Testing!Nowhere
<1> HIDE DEF keep
<1> QED BY <1>1, <1>2, <1>3, ZonesPlace

LEMMA ZonesReallocate ==
  ASSUME ZonesInv, NEW b \in live, NEW n \in Nat, Testing!Reallocate(b, n)
  PROVE  ZonesInv'
<1>1. CASE b \in damaged
  <2>1. Testing!Abort
    BY <1>1, IntactUndamaged DEF Testing!Reallocate
  <2> QED BY <2>1, ZonesSame DEF Testing!Abort
<1>2. CASE b \notin damaged
  <2> DEFINE keep == {c \in live : c.at # (b.at - 1) + 1}
  <2>1. b.at \in Nat /\ b.at - 1 \in Int /\ (b.at - 1) + 1 = b.at /\ damaged \subseteq live
    BY DEF ZonesInv, ZoneTypes
  <2>2. keep = live \ {b} /\ keep = {c \in live : c.at # (b.at - 1) + 1}
    BY <2>1, ZonesWithout
  <2>3. cells[b.at - 1] = b.size /\ Testing!Place(b.at - 1, n, current_alloced - cells[b.at - 1])
    BY <1>2, IntactUndamaged DEF Testing!Reallocate
  <2> HIDE DEF keep
  <2>4. current_alloced - cells[b.at - 1] = SizesOf(keep)
    BY <2>2, <2>3, ZonesWithout DEF ZonesInv
  <2>5. damaged \subseteq keep
    BY <1>2, <2>1, <2>2
  <2> QED BY <2>1, <2>2, <2>3, <2>4, <2>5, ZonesPlace
<1> QED BY <1>1, <1>2

LEMMA ZonesFree ==
  ASSUME ZonesInv, NEW b \in live, Testing!Free(b)
  PROVE  ZonesInv'
<1>1. CASE b \in damaged
  <2>1. Testing!Abort
    BY <1>1, IntactUndamaged DEF Testing!Free
  <2> QED BY <2>1, ZonesSame DEF Testing!Abort
<1>2. CASE b \notin damaged
  <2>1. /\ heap' = {h \in heap : h.at # b.at - 1} /\ live' = live \ {b}
        /\ current_alloced' = current_alloced - b.size
        /\ cells' = cells /\ damaged' = damaged
    BY <1>2, IntactUndamaged DEF Testing!Free
  <2>2. ZoneTypes /\ ZonesMarked /\ ZonesApart
    BY DEF ZonesInv
  <2>3. /\ heap' = {Whole(c) : c \in live'} /\ IsFiniteSet(live')
        /\ current_alloced' = SizesOf(live')
    BY <2>1, ZonesWithout DEF ZonesInv
  <2>4. ZoneTypes'
    BY <2>1, <2>2, <2>3, <1>2 DEF ZoneTypes
  <2>5. ZonesMarked' /\ ZonesApart'
    BY <2>1, <2>2 DEF ZonesMarked, ZonesApart
  <2> QED BY <2>3, <2>4, <2>5 DEF ZonesInv, Whole
<1> QED BY <1>1, <1>2

LEMMA ZonesWritten ==
  ASSUME ZonesInv, NEW b \in live, NEW x \in {b.at - 1, b.at + b.size},
         Testing!WriteOutside(b, x)
  PROVE  ZonesInv'
<1>0. ZoneTypes /\ ZonesMarked /\ ZonesApart
  BY DEF ZonesInv
<1>1. /\ cells' = [cells EXCEPT ![x] = Testing!Bytes] /\ damaged' = damaged \cup {b}
      /\ UNCHANGED <<heap, current_alloced, live>>
  BY DEF Testing!WriteOutside
<1>2. \A c \in live : /\ c.at \in Nat \ {0} /\ c.size \in Nat
                      /\ c.at + c.size < memory_size
  BY <1>0 DEF ZoneTypes
<1>3. /\ x \in DOMAIN cells /\ memory_size \in Nat
      /\ \A c \in live : c.at - 1 \in DOMAIN cells /\ c.at + c.size \in DOMAIN cells
  BY <1>0, <1>2, HeapAssumption DEF ZoneTypes
<1>4. \A c \in live : c # b => c.at - 1 # x /\ c.at + c.size # x
  BY <1>0, <1>2 DEF ZonesApart
<1>5. ZoneTypes'
  BY <1>0, <1>1 DEF ZoneTypes
<1>6. ZonesMarked'
  <2>1. ASSUME NEW c \in live
        PROVE  /\ cells'[c.at - 1] \in {c.size, Testing!Bytes}
               /\ cells'[c.at + c.size] \in {c.size, Testing!Bytes}
               /\ c \in damaged' <=> (cells'[c.at - 1] = Testing!Bytes
                                      \/ cells'[c.at + c.size] = Testing!Bytes)
    BY <1>0, <1>1, <1>3, <1>4 DEF ZonesMarked
  <2> QED BY <2>1, <1>1 DEF ZonesMarked, Testing!Bytes
<1> QED BY <1>0, <1>1, <1>5, <1>6 DEF ZonesInv, ZonesApart

LEMMA ZonesStep == ASSUME ZonesInv, Testing!Next PROVE ZonesInv'
<1>1. BlockSizes \subseteq Nat
  BY HeapAssumption
<1> QED BY <1>1, ZonesAllocate, ZonesReallocate, ZonesFree, ZonesWritten DEF Testing!Next

LEMMA ZonesInvSound == ASSUME ZonesInv PROVE Testing!OverrunsFound
<1>0. ZoneTypes /\ ZonesApart /\ heap = {Whole(b) : b \in live}
  BY DEF ZonesInv
<1>1. Testing!MapThenSumSet(LAMBDA b : b.size, live) = SizesOf(live)
  BY DEF SizesOf, Testing!MapThenSumSet, MapThenSumSet,
         Testing!MapThenFoldSet, MapThenFoldSet
<1>2. {[at |-> b.at - 1, size |-> b.size + 2] : b \in live} = heap
  BY <1>0 DEF Whole
<1>3. ASSUME NEW g \in heap, NEW h \in heap, g # h
      PROVE  g.at + g.size <= h.at \/ h.at + h.size <= g.at
  <2>1. PICK b \in live, c \in live : g = Whole(b) /\ h = Whole(c)
    BY <1>0
  <2>2. b # c /\ b.at \in Nat /\ b.size \in Nat /\ c.at \in Nat /\ c.size \in Nat
    BY <2>1, <1>0, <1>3 DEF ZoneTypes
  <2>3. b.at + b.size + 1 < c.at \/ c.at + c.size + 1 < b.at
    BY <2>2, <1>0 DEF ZonesApart
  <2>4. /\ g.at = b.at - 1 /\ g.size = b.size + 2
        /\ h.at = c.at - 1 /\ h.size = c.size + 2
    BY <2>1 DEF Whole
  <2> QED BY <2>2, <2>3, <2>4
<1>4. damaged \subseteq live /\ \A b \in live : Testing!Intact(b.at) = (b \notin damaged)
  <2>1. ASSUME NEW b \in live PROVE Testing!Intact(b.at) <=> b \notin damaged
    BY IntactUndamaged
  <2> QED BY <2>1, <1>0 DEF ZoneTypes, Testing!Intact
<1>5. current_alloced = SizesOf(live)
  BY DEF ZonesInv
<1> QED BY <1>1, <1>2, <1>3, <1>4, <1>5 DEF Testing!OverrunsFound

-----------------------------------------------------------------------------
(* Arrays that are resized together *)

Data(a) == arrays[a].data
Size(a) == arrays[a].size

\* the array has got its new block in this call, and still owns it
HasNew(a) ==
  \/ phase = "allocate" /\ a < at
  \/ phase = "undo" /\ a >= at
  \/ phase \in {"copy", "deallocate"}

HasOld(a) == phase = "deallocate" => a >= at

\* what the client wrote is in the new block already
Copied(a) == phase = "deallocate" \/ (phase = "copy" /\ a < at)

ResizeTypes ==
  /\ phase \in {"idle", "allocate", "undo", "copy", "deallocate"}
  /\ at \in 1 .. N /\ ok \in BOOLEAN /\ new_size \in Nat
  /\ DOMAIN new = 1 .. N /\ DOMAIN arrays = 1 .. N /\ DOMAIN written = 1 .. N
  /\ \A a \in 1 .. N : new[a] \in Nat /\ Data(a) \in Nat /\ Size(a) \in Nat

Alike ==
  /\ \A a, b \in 1 .. N : Size(a) = Size(b)
  /\ \A a \in 1 .. N : Data(a) = 0 <=> Size(a) = 0
  /\ \A a, b \in 1 .. N : Data(a) = Data(b) /\ a # b => Data(a) = 0

\* a new block is nobody else's, neither new nor old
Fresh ==
  /\ \A a, b \in 1 .. N : new[a] = new[b] /\ a # b => new[a] = 0
  /\ \A a, b \in 1 .. N : new[a] # 0 /\ new[a] = Data(b) => a = b
  /\ new_size = 0 => ok /\ \A a \in 1 .. N : new[a] = 0
  /\ phase = "allocate" => \A a \in 1 .. N : a >= at => new[a] = 0
  /\ ok /\ new_size # 0 => \A a \in 1 .. N : HasNew(a) => new[a] # 0
  /\ phase \in {"copy", "deallocate"} => ok
  /\ phase = "undo" => new_size # 0

IsBytes(s, n) == s = [i \in 1 .. n |-> s[i]]

\* the allocator holds the blocks of the arrays and those obtained, no others
IsHeld ==
  /\ \A p \in DOMAIN held :
       /\ p # 0
       /\ \E a \in 1 .. N : (HasOld(a) /\ p = Data(a)) \/ (HasNew(a) /\ p = new[a])
  /\ \A a \in 1 .. N :
       HasNew(a) /\ new[a] # 0 => new[a] \in DOMAIN held /\ IsBytes(held[new[a]], new_size)
  /\ \A a \in 1 .. N : HasOld(a) /\ Data(a) # 0 => Data(a) \in DOMAIN held
  /\ \A a \in 1 .. N :
       HasOld(a) /\ Data(a) # 0 /\ ~(HasNew(a) /\ new[a] = Data(a))
         => IsBytes(held[Data(a)], Size(a))

\* wherever the call stands, what was written has not been lost
Kept ==
  \A a \in 1 .. N : \A i \in written[a] :
    /\ i \in 1 .. Size(a) /\ (phase # "idle" => i <= new_size)
    /\ held[IF Copied(a) THEN new[a] ELSE Data(a)][i] = <<a, i>>

ResizeInv == ResizeTypes /\ Alike /\ (phase # "idle" => Fresh) /\ IsHeld /\ Kept

LEMMA BytesLength ==
  ASSUME NEW n \in Nat, NEW s, IsBytes(s, n)
  PROVE  s \in Seq({s[i] : i \in 1 .. n}) /\ Len(s) = n
<1> DEFINE S == {s[i] : i \in 1 .. n}
<1>1. s \in [1 .. n -> S]
  <2>1. [i \in 1 .. n |-> s[i]] \in [1 .. n -> S]
    OBVIOUS
  <2> QED BY <2>1 DEF IsBytes
<1> HIDE DEF S
<1>2. s \in Seq(S)
  BY <1>1, SeqDef
<1>3. Len(s) \in Nat /\ DOMAIN s = 1 .. Len(s)
  BY <1>2, LenProperties
<1>4. Len(s) = n
  BY <1>1, <1>3
<1> QED BY <1>2, <1>4 DEF S

\* a block that is given another size begins with what it held
LEMMA SizedBytes ==
  ASSUME NEW s, NEW n \in Nat, NEW t, t = Resizing!Sized(s, n)
  PROVE  /\ IsBytes(t, n)
         /\ \A m \in Nat : IsBytes(s, m) => \A i \in 1 .. n : i <= m => t[i] = s[i]
<1>1. t = [i \in 1 .. n |-> IF i <= Len(s) THEN s[i] ELSE Resizing!Unset]
  BY DEF Resizing!Sized
<1>2. \A i \in 1 .. n : t[i] = IF i <= Len(s) THEN s[i] ELSE Resizing!Unset
  BY <1>1
<1>3. IsBytes(t, n)
  BY <1>1 DEF IsBytes
<1>4. ASSUME NEW m \in Nat, IsBytes(s, m), NEW i \in 1 .. n, i <= m
      PROVE  t[i] = s[i]
  <2>1. Len(s) = m
    BY <1>4, BytesLength
  <2> QED BY <2>1, <1>2, <1>4
<1> QED BY <1>3, <1>4

LEMMA ResizeInit == Resizing!Init => ResizeInv
<1> SUFFICES ASSUME Resizing!Init PROVE ResizeInv
  OBVIOUS
<1>1. /\ arrays = [a \in 1 .. N |-> [data |-> 0, size |-> 0]]
      /\ DOMAIN held = {} /\ written = [a \in 1 .. N |-> {}]
      /\ phase = "idle" /\ at = 1 /\ ok = TRUE /\ new_size = 0 /\ new = [a \in 1 .. N |-> 0]
  BY DEF Resizing!Init, Resizing!Arrays, Resizing!Null
<1>2. \A a \in 1 .. N : Data(a) = 0 /\ Size(a) = 0 /\ ~HasNew(a)
  BY <1>1 DEF Data, Size, HasNew
<1>3. ResizeTypes
  BY <1>1, <1>2, HeapAssumption DEF ResizeTypes
<1>4. Alike /\ IsHeld /\ Kept
  BY <1>1, <1>2 DEF Alike, IsHeld, Kept
<1> QED BY <1>1, <1>3, <1>4 DEF ResizeInv

LEMMA ResizeSame ==
  ASSUME ResizeInv, UNCHANGED <<arrays, held, written, phase, at, ok, new_size, new>>
  PROVE  ResizeInv'
<1> QED BY DEF ResizeInv, ResizeTypes, Alike, Fresh, IsHeld, Kept,
               HasNew, HasOld, Copied, Data, Size, IsBytes

LEMMA ResizeWrite ==
  ASSUME ResizeInv, NEW a \in 1 .. N, Resizing!Write(a)
  PROVE  ResizeInv'
<1>0. ResizeTypes /\ Alike /\ IsHeld /\ Kept
  BY DEF ResizeInv
<1>1. /\ phase = "idle" /\ Data(a) # 0
      /\ held' = [held EXCEPT ![Data(a)] = [i \in 1 .. Size(a) |-> <<a, i>>]]
      /\ written' = [written EXCEPT ![a] = 1 .. Size(a)]
      /\ UNCHANGED <<arrays, phase, at, ok, new_size, new>>
  BY DEF Resizing!Write, Resizing!Null, Data, Size
<1>2. \A c \in 1 .. N : /\ Data(c)' = Data(c) /\ Size(c)' = Size(c)
                        /\ HasOld(c) /\ HasOld(c)' /\ ~HasNew(c) /\ ~HasNew(c)'
                        /\ ~Copied(c) /\ ~Copied(c)'
  BY <1>1 DEF Data, Size, HasOld, HasNew, Copied
<1>3. Data(a) \in DOMAIN held
  BY <1>0, <1>1, <1>2 DEF IsHeld
<1>4. \A c \in 1 .. N : Data(c) # 0 =>
        held'[Data(c)] = IF c = a THEN [i \in 1 .. Size(a) |-> <<a, i>>] ELSE held[Data(c)]
  <2> TAKE c \in 1 .. N
  <2> HAVE Data(c) # 0
  <2>1. Data(c) \in DOMAIN held
    BY <1>0, <1>2 DEF IsHeld
  <2>2. c # a => Data(c) # Data(a)
    BY <1>0, <1>1 DEF Alike
  <2> QED BY <2>1, <2>2, <1>1, <1>3
<1>5. ResizeTypes' /\ Alike'
  BY <1>0, <1>1, <1>2 DEF ResizeTypes, Alike
<1>6. IsHeld'
  <2>1. DOMAIN held' = DOMAIN held
    BY <1>1
  <2>2. \A c \in 1 .. N : Data(c) # 0 => IsBytes(held'[Data(c)], Size(c))
    BY <1>0, <1>2, <1>4 DEF IsHeld, IsBytes
  <2> QED BY <2>1, <2>2, <1>0, <1>2 DEF IsHeld
<1>7. Kept'
  <2> SUFFICES ASSUME NEW c \in 1 .. N, NEW i \in written'[c]
               PROVE  i \in 1 .. Size(c) /\ held'[Data(c)][i] = <<c, i>>
    BY <1>1, <1>2 DEF Kept
  <2>1. CASE c = a
    <3>1. i \in 1 .. Size(a) /\ held'[Data(a)] = [j \in 1 .. Size(a) |-> <<a, j>>]
      BY <2>1, <1>0, <1>1, <1>4 DEF ResizeTypes
    <3> QED BY <3>1, <2>1
  <2>2. CASE c # a
    <3>1. i \in written[c]
      BY <2>2, <1>0, <1>1 DEF ResizeTypes
    <3>2. i \in 1 .. Size(c) /\ held[Data(c)][i] = <<c, i>>
      BY <3>1, <1>0, <1>2 DEF Kept
    <3>3. Data(c) # 0
      BY <3>2, <1>0 DEF Alike
    <3> QED BY <2>2, <3>2, <3>3, <1>4
  <2> QED BY <2>1, <2>2
<1> QED BY <1>1, <1>5, <1>6, <1>7 DEF ResizeInv

LEMMA ResizeBegin ==
  ASSUME ResizeInv, NEW n \in Nat, Resizing!Begin(n)
  PROVE  ResizeInv'
<1>0. ResizeTypes /\ Alike /\ IsHeld /\ Kept /\ N \in Nat \ {0}
  BY HeapAssumption DEF ResizeInv
<1>1. /\ phase = "idle" /\ phase' = "allocate" /\ at' = 1 /\ ok' = TRUE
      /\ new_size' = n /\ new' = [a \in 1 .. N |-> 0]
      /\ written' = [a \in 1 .. N |-> {i \in written[a] : i <= n}]
      /\ UNCHANGED <<arrays, held>>
  BY DEF Resizing!Begin, Resizing!Null, Resizing!Arrays
<1>2. \A c \in 1 .. N : /\ Data(c)' = Data(c) /\ Size(c)' = Size(c)
                        /\ HasOld(c) /\ HasOld(c)' /\ ~HasNew(c) /\ ~HasNew(c)'
                        /\ ~Copied(c) /\ ~Copied(c)'
  BY <1>1 DEF Data, Size, HasOld, HasNew, Copied
<1>3. ResizeTypes' /\ Alike'
  BY <1>0, <1>1, <1>2 DEF ResizeTypes, Alike
<1>4. Fresh'
  BY <1>1, <1>2 DEF Fresh
<1>5. IsHeld'
  BY <1>0, <1>1, <1>2 DEF IsHeld
<1>6. Kept'
  BY <1>0, <1>1, <1>2 DEF Kept
<1> QED BY <1>3, <1>4, <1>5, <1>6 DEF ResizeInv

\* memory_resize_allocate of one array gave `pointer`, whose bytes the
\* allocator has made new_size of and otherwise left alone
LEMMA ResizeObtained ==
  ASSUME ResizeInv, NEW pointer \in Nat, NEW success \in BOOLEAN,
         Resizing!Obtained(pointer, success),
         new_size = 0 => pointer = 0 /\ success,
         new_size # 0 /\ success => pointer # 0,
         pointer # 0 => \A a \in 1 .. N : a < at => new[a] # pointer,
         pointer # 0 => \A a \in 1 .. N : Data(a) = pointer => a = at,
         \A p : p \in DOMAIN held' <=> p \in DOMAIN held \/ (p = pointer /\ p # 0),
         \A p \in DOMAIN held : p # pointer => held'[p] = held[p],
         pointer # 0 => IsBytes(held'[pointer], new_size),
         Data(at) = pointer => \A i \in written[at] : held'[pointer][i] = held[pointer][i]
  PROVE  ResizeInv'
<1>0. ResizeTypes /\ Alike /\ Fresh /\ IsHeld /\ Kept /\ N \in Nat \ {0} /\ phase = "allocate"
  BY HeapAssumption DEF ResizeInv, Resizing!Obtained
<1>1. /\ new' = [new EXCEPT ![at] = pointer] /\ ok' = (ok /\ success)
      /\ UNCHANGED <<arrays, written, new_size>>
  BY DEF Resizing!Obtained
<1>2. \/ at = N /\ phase' = (IF ok' THEN "copy" ELSE "undo") /\ at' = 1
      \/ at # N /\ phase' = "allocate" /\ at' = at + 1
  BY <1>0 DEF Resizing!Obtained, Resizing!Advance
<1>3. ASSUME NEW a \in 1 .. N
      PROVE  /\ Data(a)' = Data(a) /\ Size(a)' = Size(a) /\ HasOld(a) /\ HasOld(a)'
             /\ HasNew(a) <=> a < at
             /\ HasNew(a)' <=> a <= at
             /\ ~Copied(a) /\ ~Copied(a)'
             /\ new'[a] = IF a = at THEN pointer ELSE new[a]
             /\ new[a] \in Nat /\ Data(a) \in Nat /\ Size(a) \in Nat
  <2>1. Data(a)' = Data(a) /\ Size(a)' = Size(a)
    BY <1>1 DEF Data, Size
  <2>2. HasOld(a) /\ HasOld(a)' /\ ~Copied(a) /\ ~Copied(a)'
    BY <1>0, <1>2 DEF HasOld, Copied, ResizeTypes
  <2>3. HasNew(a) <=> a < at
    BY <1>0 DEF HasNew
  <2>4. HasNew(a)' <=> a <= at
    BY <1>0, <1>2 DEF HasNew, ResizeTypes
  <2>5. /\ new'[a] = IF a = at THEN pointer ELSE new[a]
        /\ new[a] \in Nat /\ Data(a) \in Nat /\ Size(a) \in Nat
    BY <1>0, <1>1 DEF ResizeTypes
  <2> QED BY <2>1, <2>2, <2>3, <2>4, <2>5
<1>4. ResizeTypes'
  <2>1. /\ phase' \in {"idle", "allocate", "undo", "copy", "deallocate"}
        /\ at' \in 1 .. N /\ phase' # "idle" /\ ok' \in BOOLEAN
    BY <1>0, <1>1, <1>2 DEF ResizeTypes
  <2> QED BY <2>1, <1>0, <1>1, <1>3 DEF ResizeTypes
<1>5. Alike'
  BY <1>0, <1>3 DEF Alike
<1>6. at \in 1 .. N
  BY <1>0 DEF ResizeTypes
<1>7. Fresh'
  <2>1. \A a, b \in 1 .. N : new'[a] = new'[b] /\ a # b => new'[a] = 0
    <3> SUFFICES ASSUME NEW a \in 1 .. N, NEW b \in 1 .. N, new'[a] = new'[b], a # b
                 PROVE  new'[a] = 0
      OBVIOUS
    <3>1. \A c \in 1 .. N : c >= at => new[c] = 0
      BY <1>0 DEF Fresh
    <3>2. new[a] = new[b] => new[a] = 0
      BY <1>0 DEF Fresh
    <3> QED BY <3>1, <3>2, <1>3, <1>6
  <2>2. \A a, b \in 1 .. N : new'[a] # 0 /\ new'[a] = Data(b) => a = b
    BY <1>0, <1>3 DEF Fresh
  <2>3. new_size = 0 => ok' /\ \A a \in 1 .. N : new'[a] = 0
    BY <1>0, <1>1, <1>3 DEF Fresh
  <2>4. phase' = "allocate" => \A a \in 1 .. N : a >= at' => new'[a] = 0
    BY <1>0, <1>2, <1>3, <1>6 DEF Fresh
  <2>5. ok' /\ new_size # 0 => \A a \in 1 .. N : a <= at => new'[a] # 0
    <3> SUFFICES ASSUME ok', new_size # 0, NEW a \in 1 .. N, a <= at PROVE new'[a] # 0
      OBVIOUS
    <3>1. ok /\ success
      BY <1>1
    <3>2. pointer # 0
      BY <3>1
    <3>3. HasNew(a) => new[a] # 0
      BY <3>1, <1>0 DEF Fresh
    <3> QED BY <3>2, <3>3, <1>3, <1>6
  <2>6. phase' \in {"copy", "deallocate"} => ok'
    BY <1>2
  <2>7. phase' = "undo" => new_size # 0
    BY <1>2, <2>3
  <2> QED BY <2>1, <2>2, <2>3, <2>4, <2>5, <2>6, <2>7, <1>1, <1>3 DEF Fresh
<1>8. IsHeld'
  <2>1. \A p \in DOMAIN held' :
          /\ p # 0
          /\ \E a \in 1 .. N : (HasOld(a)' /\ p = Data(a)) \/ (HasNew(a)' /\ p = new'[a])
    <3> TAKE p \in DOMAIN held'
    <3>1. CASE p \in DOMAIN held
      <4>1. PICK a \in 1 .. N : (HasOld(a) /\ p = Data(a)) \/ (HasNew(a) /\ p = new[a])
        BY <3>1, <1>0 DEF IsHeld
      <4>2. p # 0
        BY <3>1, <1>0 DEF IsHeld
      <4>3. (HasOld(a)' /\ p = Data(a)) \/ (HasNew(a)' /\ p = new'[a])
        BY <4>1, <1>3, <1>6
      <4> QED BY <4>2, <4>3
    <3>2. CASE p = pointer /\ p # 0
      BY <3>2, <1>3, <1>6
    <3> QED BY <3>1, <3>2
  <2>2. ASSUME NEW a \in 1 .. N, HasNew(a)', new'[a] # 0
        PROVE  new'[a] \in DOMAIN held' /\ IsBytes(held'[new'[a]], new_size)
    <3>1. CASE a = at
      BY <3>1, <2>2, <1>3
    <3>2. CASE a # at
      <4>1. HasNew(a) /\ new'[a] = new[a] /\ new[a] # pointer
        BY <3>2, <2>2, <1>3, <1>6
      <4>2. new[a] \in DOMAIN held /\ IsBytes(held[new[a]], new_size)
        BY <4>1, <2>2, <1>0 DEF IsHeld
      <4> QED BY <4>1, <4>2
    <3> QED BY <3>1, <3>2
  <2>3. \A a \in 1 .. N : Data(a) # 0 => Data(a) \in DOMAIN held'
    BY <1>0, <1>3 DEF IsHeld
  <2>4. ASSUME NEW a \in 1 .. N, Data(a) # 0, ~(HasNew(a)' /\ new'[a] = Data(a))
        PROVE  IsBytes(held'[Data(a)], Size(a))
    <3>1. Data(a) # pointer
      BY <2>4, <1>3, <1>6
    <3>2. ~(HasNew(a) /\ new[a] = Data(a))
      BY <2>4, <1>3, <1>6
    <3>3. IsBytes(held[Data(a)], Size(a)) /\ Data(a) \in DOMAIN held
      BY <2>4, <3>2, <1>0, <1>3 DEF IsHeld
    <3> QED BY <3>1, <3>3
  <2> QED BY <2>1, <2>2, <2>3, <2>4, <1>1, <1>3 DEF IsHeld
<1>9. Kept'
  <2> SUFFICES ASSUME NEW a \in 1 .. N, NEW i \in written[a]
               PROVE  i \in 1 .. Size(a) /\ i <= new_size /\ held'[Data(a)][i] = <<a, i>>
    BY <1>1, <1>3 DEF Kept
  <2>1. i \in 1 .. Size(a) /\ i <= new_size /\ held[Data(a)][i] = <<a, i>>
    BY <1>0, <1>3 DEF Kept
  <2>2. Data(a) # 0
    BY <2>1, <1>0 DEF Alike
  <2>3. Data(a) \in DOMAIN held
    BY <2>2, <1>0, <1>3 DEF IsHeld
  <2>4. CASE Data(a) = pointer
    BY <2>1, <2>2, <2>4
  <2>5. CASE Data(a) # pointer
    BY <2>1, <2>3, <2>5
  <2> QED BY <2>1, <2>4, <2>5
<1> QED BY <1>4, <1>5, <1>7, <1>8, <1>9 DEF ResizeInv

LEMMA ResizeNothing ==
  ASSUME ResizeInv, Resizing!ObtainNothing \/ Resizing!ObtainFails
  PROVE  ResizeInv'
<1>1. held' = held /\ at \in 1 .. N
  BY DEF Resizing!ObtainNothing, Resizing!ObtainFails, ResizeInv, ResizeTypes
<1>2. CASE Resizing!ObtainNothing
  <2>1. new_size = 0 /\ Resizing!Obtained(0, TRUE)
    BY <1>2 DEF Resizing!ObtainNothing, Resizing!Null
  <2> QED BY <2>1, <1>1, ResizeObtained
<1>3. CASE Resizing!ObtainFails
  <2>1. new_size # 0 /\ Resizing!Obtained(0, FALSE)
    BY <1>3 DEF Resizing!ObtainFails, Resizing!Null
  <2> QED BY <2>1, <1>1, ResizeObtained
<1> QED BY <1>2, <1>3

LEMMA ResizeInPlace ==
  ASSUME ResizeInv, Resizing!ObtainResized
  PROVE  ResizeInv'
<1>0. /\ ResizeTypes /\ Alike /\ Fresh /\ IsHeld /\ Kept /\ N \in Nat \ {0}
      /\ phase = "allocate" /\ at \in 1 .. N /\ new_size \in Nat
  BY HeapAssumption DEF ResizeInv, ResizeTypes, Resizing!ObtainResized
<1> DEFINE pointer == Data(at)
<1>1. /\ new_size # 0 /\ pointer # 0 /\ pointer \in Nat /\ Size(at) \in Nat
      /\ held' = [held EXCEPT ![pointer] = Resizing!Sized(held[pointer], new_size)]
      /\ Resizing!Obtained(pointer, TRUE)
  BY <1>0 DEF Resizing!ObtainResized, Resizing!Null, Data, ResizeTypes, Size
<1>2. HasOld(at) /\ ~HasNew(at) /\ ~Copied(at)
  BY <1>0 DEF HasOld, HasNew, Copied
<1>3. pointer \in DOMAIN held /\ IsBytes(held[pointer], Size(at))
  BY <1>0, <1>1, <1>2 DEF IsHeld
<1>4. /\ DOMAIN held' = DOMAIN held
      /\ \A p \in DOMAIN held : p # pointer => held'[p] = held[p]
      /\ held'[pointer] = Resizing!Sized(held[pointer], new_size)
  BY <1>1, <1>3
<1>5. /\ IsBytes(held'[pointer], new_size)
      /\ \A i \in 1 .. new_size : i <= Size(at) => held'[pointer][i] = held[pointer][i]
  BY <1>0, <1>1, <1>3, <1>4, SizedBytes
<1>6. \A i \in written[at] : i \in 1 .. new_size /\ i <= Size(at)
  BY <1>0 DEF Kept
<1>7. \A a \in 1 .. N : a < at => new[a] # pointer
  BY <1>0, <1>1 DEF Fresh
<1>8. \A a \in 1 .. N : Data(a) = pointer => a = at
  BY <1>0, <1>1 DEF Alike
<1> HIDE DEF pointer
<1>9. Data(at) = pointer
  BY DEF pointer
<1> QED BY <1>1, <1>3, <1>4, <1>5, <1>6, <1>7, <1>8, <1>9, ResizeObtained

LEMMA ResizeMoved ==
  ASSUME ResizeInv, NEW pointer \in Pointers, Resizing!ObtainMoved(pointer)
  PROVE  ResizeInv'
<1>0. /\ ResizeTypes /\ Alike /\ Fresh /\ IsHeld /\ N \in Nat \ {0} /\ pointer \in Nat \ {0}
      /\ phase = "allocate" /\ at \in 1 .. N /\ new_size \in Nat
  BY HeapAssumption DEF ResizeInv, ResizeTypes, Resizing!ObtainMoved
<1>1. /\ new_size # 0 /\ pointer \notin DOMAIN held
      /\ held' = [q \in DOMAIN held \cup {pointer} |->
                    IF q = pointer THEN Resizing!Sized(<<>>, new_size) ELSE held[q]]
      /\ Resizing!Obtained(pointer, TRUE)
  BY DEF Resizing!ObtainMoved
<1>2. /\ DOMAIN held' = DOMAIN held \cup {pointer}
      /\ \A p \in DOMAIN held : p # pointer => held'[p] = held[p]
      /\ held'[pointer] = Resizing!Sized(<<>>, new_size)
  BY <1>1
<1>3. IsBytes(held'[pointer], new_size)
  BY <1>0, <1>2, SizedBytes
<1>4. \A a \in 1 .. N : /\ HasOld(a) /\ Data(a) # pointer
                        /\ a < at => new[a] # pointer
  <2> TAKE a \in 1 .. N
  <2>1. HasOld(a) /\ (a < at => HasNew(a))
    BY <1>0 DEF HasOld, HasNew
  <2> QED BY <2>1, <1>0, <1>1 DEF IsHeld
<1> QED BY <1>0, <1>1, <1>2, <1>3, <1>4, ResizeObtained

LEMMA ResizeUndo ==
  ASSUME ResizeInv, Resizing!Undo
  PROVE  ResizeInv'
<1>0. /\ ResizeTypes /\ Alike /\ Fresh /\ IsHeld /\ Kept /\ N \in Nat \ {0}
      /\ phase = "undo" /\ at \in 1 .. N /\ new_size \in Nat
  BY HeapAssumption DEF ResizeInv, ResizeTypes, Resizing!Undo
<1> DEFINE block == new[at]
<1>1. /\ held' = IF block = 0 THEN held
                 ELSE IF block = Data(at)
                 THEN [held EXCEPT ![block] = Resizing!Sized(held[block], Size(at))]
                 ELSE [p \in DOMAIN held \ {block} |-> held[p]]
      /\ UNCHANGED <<arrays, written, ok, new_size, new>>
  BY DEF Resizing!Undo, Resizing!Freed, Resizing!Restrict, Resizing!Null, Data, Size
<1>2. \/ at = N /\ phase' = "idle" /\ at' = 1
      \/ at # N /\ phase' = "undo" /\ at' = at + 1
  BY <1>0 DEF Resizing!Undo, Resizing!Advance
<1>3. ASSUME NEW a \in 1 .. N
      PROVE  /\ Data(a)' = Data(a) /\ Size(a)' = Size(a) /\ HasOld(a) /\ HasOld(a)'
             /\ HasNew(a) <=> a >= at
             /\ HasNew(a)' <=> a > at
             /\ ~Copied(a) /\ ~Copied(a)'
             /\ new[a] \in Nat /\ Data(a) \in Nat /\ Size(a) \in Nat
  <2>1. Data(a)' = Data(a) /\ Size(a)' = Size(a)
    BY <1>1 DEF Data, Size
  <2>2. HasOld(a) /\ HasOld(a)' /\ ~Copied(a) /\ ~Copied(a)'
    BY <1>0, <1>2 DEF HasOld, Copied
  <2>3. HasNew(a) <=> a >= at
    BY <1>0 DEF HasNew
  <2>4. HasNew(a)' <=> a > at
    BY <1>0, <1>2 DEF HasNew
  <2>5. new[a] \in Nat /\ Data(a) \in Nat /\ Size(a) \in Nat
    BY <1>0 DEF ResizeTypes
  <2> QED BY <2>1, <2>2, <2>3, <2>4, <2>5
<1>4. ResizeTypes'
  <2>1. /\ phase' \in {"idle", "allocate", "undo", "copy", "deallocate"}
        /\ at' \in 1 .. N
    BY <1>0, <1>2
  <2> QED BY <2>1, <1>0, <1>1, <1>3 DEF ResizeTypes
<1>5. Alike'
  BY <1>0, <1>3 DEF Alike
<1>6. phase' # "idle" => Fresh'
  <2> SUFFICES ASSUME phase' # "idle" PROVE Fresh'
    OBVIOUS
  <2>1. phase' = "undo"
    BY <1>2
  <2> QED BY <2>1, <1>0, <1>1, <1>3 DEF Fresh
<1>7. block # 0 => block \in DOMAIN held /\ IsBytes(held[block], new_size)
  BY <1>0, <1>3 DEF IsHeld
<1>8. \A a \in 1 .. N : Data(a) # 0 =>
        Data(a) \in DOMAIN held /\ (Data(a) = block => a = at)
  BY <1>0, <1>3 DEF IsHeld, Fresh
\* of the blocks, only that of this array has changed or gone
<1>9. /\ DOMAIN held' = IF block = 0 \/ block = Data(at) THEN DOMAIN held
                        ELSE DOMAIN held \ {block}
      /\ \A p \in DOMAIN held : p # block => held'[p] = held[p]
      /\ block # 0 /\ block = Data(at) => held'[block] = Resizing!Sized(held[block], Size(at))
  <2>1. CASE block = 0
    <3>1. \A p \in DOMAIN held : p # 0
      BY <1>0 DEF IsHeld
    <3> QED BY <2>1, <3>1, <1>1
  <2>2. CASE block # 0 /\ block = Data(at)
    <3>1. held' = [held EXCEPT ![block] = Resizing!Sized(held[block], Size(at))]
      BY <2>2, <1>1
    <3> HIDE DEF block
    <3> QED BY <2>2, <3>1, <1>7
  <2>3. CASE block # 0 /\ block # Data(at)
    <3>1. held' = [p \in DOMAIN held \ {block} |-> held[p]]
      BY <2>3, <1>1
    <3> HIDE DEF block
    <3> QED BY <2>3, <3>1
  <2> QED BY <2>1, <2>2, <2>3
<1>10. block # 0 /\ block = Data(at) =>
         /\ IsBytes(held'[block], Size(at))
         /\ \A i \in 1 .. Size(at) : i <= new_size => held'[block][i] = held[block][i]
  <2> SUFFICES ASSUME block # 0, block = Data(at)
               PROVE  /\ IsBytes(held'[block], Size(at))
                      /\ \A i \in 1 .. Size(at) : i <= new_size => held'[block][i] = held[block][i]
    OBVIOUS
  <2>1. /\ held'[block] = Resizing!Sized(held[block], Size(at)) /\ Size(at) \in Nat
        /\ IsBytes(held[block], new_size)
    BY <1>3, <1>7, <1>9, <1>0
  <2> HIDE DEF block
  <2> QED BY <2>1, <1>0, SizedBytes
<1>11. IsHeld'
  <2>1. \A p \in DOMAIN held' :
          /\ p # 0
          /\ \E a \in 1 .. N : (HasOld(a)' /\ p = Data(a)) \/ (HasNew(a)' /\ p = new[a])
    <3> TAKE p \in DOMAIN held'
    <3>1. p \in DOMAIN held /\ p # 0
      BY <1>0, <1>9 DEF IsHeld
    <3>2. PICK a \in 1 .. N : (HasOld(a) /\ p = Data(a)) \/ (HasNew(a) /\ p = new[a])
      BY <3>1, <1>0 DEF IsHeld
    <3>3. CASE p = Data(a)
      BY <3>1, <3>3, <1>3
    <3>4. CASE HasNew(a) /\ p = new[a] /\ p # Data(a)
      <4>1. a # at
        BY <3>1, <3>4, <1>9
      <4> QED BY <4>1, <3>1, <3>4, <1>0, <1>3
    <3> QED BY <3>2, <3>3, <3>4
  <2>2. ASSUME NEW a \in 1 .. N, a > at, new[a] # 0
        PROVE  new[a] \in DOMAIN held' /\ IsBytes(held'[new[a]], new_size)
    <3>1. new[a] # block
      BY <2>2, <1>0 DEF Fresh
    <3>2. new[a] \in DOMAIN held /\ IsBytes(held[new[a]], new_size)
      BY <2>2, <1>0, <1>3 DEF IsHeld
    <3> QED BY <3>1, <3>2, <1>9
  <2>3. \A a \in 1 .. N : Data(a) # 0 => Data(a) \in DOMAIN held'
    BY <1>8, <1>9
  <2>4. ASSUME NEW a \in 1 .. N, Data(a) # 0, ~(a > at /\ new[a] = Data(a))
        PROVE  IsBytes(held'[Data(a)], Size(a))
    <3>1. CASE Data(a) = block
      BY <2>4, <3>1, <1>8, <1>10
    <3>2. CASE Data(a) # block
      <4>1. ~(HasNew(a) /\ new[a] = Data(a))
        BY <2>4, <3>2, <1>3, <1>0
      <4>2. IsBytes(held[Data(a)], Size(a)) /\ Data(a) \in DOMAIN held
        BY <2>4, <4>1, <1>0, <1>3 DEF IsHeld
      <4> QED BY <3>2, <4>2, <1>9
    <3> QED BY <3>1, <3>2
  <2> HIDE DEF block
  <2> QED BY <2>1, <2>2, <2>3, <2>4, <1>1, <1>3 DEF IsHeld
<1>12. Kept'
  <2> SUFFICES ASSUME NEW a \in 1 .. N, NEW i \in written[a]
               PROVE  /\ i \in 1 .. Size(a) /\ i <= new_size
                      /\ held'[Data(a)][i] = <<a, i>>
    BY <1>1, <1>3 DEF Kept
  <2>1. i \in 1 .. Size(a) /\ i <= new_size /\ held[Data(a)][i] = <<a, i>>
    BY <1>0, <1>3 DEF Kept
  <2>2. Data(a) # 0
    BY <2>1, <1>0 DEF Alike
  <2>3. CASE Data(a) = block
    BY <2>1, <2>2, <2>3, <1>8, <1>10
  <2>4. CASE Data(a) # block
    BY <2>1, <2>2, <2>4, <1>8, <1>9
  <2> QED BY <2>1, <2>3, <2>4
<1> QED BY <1>4, <1>5, <1>6, <1>11, <1>12 DEF ResizeInv

LEMMA ResizeCopy ==
  ASSUME ResizeInv, Resizing!Copy
  PROVE  ResizeInv'
<1>0. /\ ResizeTypes /\ Alike /\ Fresh /\ IsHeld /\ Kept /\ N \in Nat \ {0}
      /\ phase = "copy" /\ ok /\ at \in 1 .. N /\ new_size \in Nat
  BY HeapAssumption DEF ResizeInv, ResizeTypes, Resizing!Copy, Fresh
<1> DEFINE block == new[at]
           moved == block # Data(at) /\ block # 0
           kept == IF Size(at) < new_size THEN Size(at) ELSE new_size
           bytes == SubSeq(Resizing!Contents(Data(at)), 1, kept)
<1>1. /\ held' = IF ~moved THEN held
                 ELSE [held EXCEPT ![block] = Resizing!Sized(bytes, new_size)]
      /\ UNCHANGED <<arrays, written, ok, new_size, new>>
  BY DEF Resizing!Copy, Resizing!Smaller, Resizing!Null, Data, Size
<1>2. \/ at = N /\ phase' = "deallocate" /\ at' = 1
      \/ at # N /\ phase' = "copy" /\ at' = at + 1
  BY <1>0 DEF Resizing!Copy, Resizing!Advance
<1>3. ASSUME NEW a \in 1 .. N
      PROVE  /\ Data(a)' = Data(a) /\ Size(a)' = Size(a) /\ HasOld(a) /\ HasOld(a)'
             /\ HasNew(a) /\ HasNew(a)'
             /\ Copied(a) <=> a < at
             /\ Copied(a)' <=> a <= at
             /\ new[a] \in Nat /\ Data(a) \in Nat /\ Size(a) \in Nat
  <2>1. Data(a)' = Data(a) /\ Size(a)' = Size(a)
    BY <1>1 DEF Data, Size
  <2>2. HasOld(a) /\ HasOld(a)' /\ HasNew(a) /\ HasNew(a)'
    BY <1>0, <1>2 DEF HasOld, HasNew
  <2>3. Copied(a) <=> a < at
    BY <1>0 DEF Copied
  <2>4. Copied(a)' <=> a <= at
    BY <1>0, <1>2 DEF Copied
  <2>5. new[a] \in Nat /\ Data(a) \in Nat /\ Size(a) \in Nat
    BY <1>0 DEF ResizeTypes
  <2> QED BY <2>1, <2>2, <2>3, <2>4, <2>5
<1>4. ResizeTypes'
  <2>1. /\ phase' \in {"idle", "allocate", "undo", "copy", "deallocate"}
        /\ at' \in 1 .. N /\ phase' # "idle"
    BY <1>0, <1>2
  <2> QED BY <2>1, <1>0, <1>1, <1>3 DEF ResizeTypes
<1>5. Alike'
  BY <1>0, <1>3 DEF Alike
<1>6. Fresh'
  <2>1. phase' \in {"copy", "deallocate"}
    BY <1>2
  <2> QED BY <2>1, <1>0, <1>1, <1>3 DEF Fresh
<1>7. \A a \in 1 .. N : new[a] # 0 =>
        /\ new[a] \in DOMAIN held /\ IsBytes(held[new[a]], new_size)
        /\ new[a] = block => a = at
  BY <1>0, <1>3 DEF IsHeld, Fresh
<1>8. \A a \in 1 .. N : Data(a) # 0 =>
        /\ Data(a) \in DOMAIN held
        /\ moved => Data(a) # block
  BY <1>0, <1>3 DEF IsHeld, Fresh
<1>9. /\ DOMAIN held' = DOMAIN held
      /\ \A p \in DOMAIN held : ~(moved /\ p = block) => held'[p] = held[p]
      /\ moved => held'[block] = Resizing!Sized(bytes, new_size)
  <2>1. CASE ~moved
    BY <2>1, <1>1
  <2>2. CASE moved
    <3>1. held' = [held EXCEPT ![block] = Resizing!Sized(bytes, new_size)]
      BY <2>2, <1>1
    <3>2. block \in DOMAIN held
      BY <2>2, <1>0, <1>7
    <3> HIDE DEF block, bytes
    <3> QED BY <2>2, <3>1, <3>2
  <2> QED BY <2>1, <2>2
\* a block that moved has the bytes of the old one, as many as both have
<1>10. moved =>
         /\ IsBytes(held'[block], new_size)
         /\ \A i \in 1 .. Size(at) : i <= new_size => held'[block][i] = held[Data(at)][i]
  <2> SUFFICES ASSUME moved
               PROVE  /\ IsBytes(held'[block], new_size)
                      /\ \A i \in 1 .. Size(at) :
                           i <= new_size => held'[block][i] = held[Data(at)][i]
    OBVIOUS
  <2>1. held'[block] = Resizing!Sized(bytes, new_size) /\ Size(at) \in Nat
    BY <1>0, <1>3, <1>9
  <2>2. IsBytes(held'[block], new_size)
    <3> HIDE DEF block, bytes
    <3> QED BY <2>1, <1>0, SizedBytes
  <2>3. ASSUME NEW i \in 1 .. Size(at), i <= new_size
        PROVE  held'[block][i] = held[Data(at)][i]
    <3> DEFINE old == held[Data(at)]
    <3>1. Data(at) # 0
      BY <2>3, <1>0, <2>1 DEF Alike
    <3>2. Data(at) \in DOMAIN held /\ IsBytes(old, Size(at))
      BY <3>1, <1>0, <1>3 DEF IsHeld
    <3>3. bytes = SubSeq(old, 1, kept)
      BY <3>2 DEF Resizing!Contents
    <3> HIDE DEF old
    <3>4. old \in Seq({old[j] : j \in 1 .. Size(at)}) /\ Len(old) = Size(at)
      BY <3>2, <2>1, BytesLength
    <3>5. kept \in Nat /\ kept <= Size(at) /\ i \in 1 .. kept /\ i \in 1 .. new_size
      BY <2>1, <2>3, <1>0
    <3> HIDE DEF kept
    <3>6. \A j \in 1 .. kept : old[j] \in {old[k] : k \in 1 .. Size(at)}
      BY <3>5, <2>1
    <3>7. Len(bytes) = kept /\ bytes[i] = old[i]
      <4>1. /\ Len(SubSeq(old, 1, kept)) = IF 1 <= kept THEN kept - 1 + 1 ELSE 0
            /\ \A j \in 1 .. kept - 1 + 1 : SubSeq(old, 1, kept)[j] = old[1 + j - 1]
        BY <3>5, <3>6, SubSeqProperties
      <4>2. Len(SubSeq(old, 1, kept)) = kept /\ SubSeq(old, 1, kept)[i] = old[i]
        BY <4>1, <3>5
      <4> QED BY <4>2, <3>3
    <3> HIDE DEF bytes, block
    <3>8. held'[block][i] = bytes[i]
      BY <2>1, <3>5, <3>7 DEF Resizing!Sized
    <3> QED BY <3>7, <3>8 DEF old
  <2> QED BY <2>2, <2>3
<1> HIDE DEF bytes, kept
<1>11. IsHeld'
  <2>1. \A p \in DOMAIN held' :
          /\ p # 0
          /\ \E a \in 1 .. N : (HasOld(a)' /\ p = Data(a)) \/ (HasNew(a)' /\ p = new[a])
    BY <1>0, <1>3, <1>9 DEF IsHeld
  <2>2. ASSUME NEW a \in 1 .. N, new[a] # 0
        PROVE  new[a] \in DOMAIN held' /\ IsBytes(held'[new[a]], new_size)
    BY <2>2, <1>7, <1>9, <1>10
  <2>3. \A a \in 1 .. N : Data(a) # 0 => Data(a) \in DOMAIN held'
    BY <1>8, <1>9
  <2>4. ASSUME NEW a \in 1 .. N, Data(a) # 0, new[a] # Data(a)
        PROVE  IsBytes(held'[Data(a)], Size(a))
    <3>1. IsBytes(held[Data(a)], Size(a)) /\ Data(a) \in DOMAIN held
      BY <2>4, <1>0, <1>3 DEF IsHeld
    <3>2. held'[Data(a)] = held[Data(a)]
      BY <2>4, <1>8, <1>9
    <3> QED BY <3>1, <3>2
  <2> HIDE DEF moved, block
  <2> QED BY <2>1, <2>2, <2>3, <2>4, <1>1, <1>3 DEF IsHeld
<1>12. Kept'
  <2> SUFFICES ASSUME NEW a \in 1 .. N, NEW i \in written[a]
               PROVE  /\ i \in 1 .. Size(a) /\ i <= new_size
                      /\ held'[IF a <= at THEN new[a] ELSE Data(a)][i] = <<a, i>>
    BY <1>1, <1>3 DEF Kept
  <2>1. /\ i \in 1 .. Size(a) /\ i <= new_size
        /\ held[IF a < at THEN new[a] ELSE Data(a)][i] = <<a, i>>
    BY <1>0, <1>3 DEF Kept
  <2>2. Data(a) # 0 /\ new[a] # 0
    <3>1. new_size # 0 /\ Data(a) # 0
      BY <2>1, <1>0, <1>3 DEF Alike
    <3> QED BY <3>1, <1>0, <1>3 DEF Fresh
  <2>3. CASE a < at
    BY <2>1, <2>2, <2>3, <1>0, <1>7, <1>9
  <2>4. CASE a = at
    <3>1. CASE moved
      BY <2>1, <2>4, <3>1, <1>0, <1>10
    <3>2. CASE ~moved
      BY <2>1, <2>2, <2>4, <3>2, <1>0, <1>8, <1>9
    <3> QED BY <3>1, <3>2
  <2>5. CASE a > at
    BY <2>1, <2>2, <2>5, <1>0, <1>8, <1>9
  <2> QED BY <2>1, <2>3, <2>4, <2>5, <1>0
<1> QED BY <1>4, <1>5, <1>6, <1>11, <1>12 DEF ResizeInv

\* an array that has moved gives its old block back, and the last one ends the call
LEMMA ResizeDeallocate ==
  ASSUME ResizeInv, Resizing!Deallocate
  PROVE  ResizeInv'
<1>0. /\ ResizeTypes /\ Alike /\ Fresh /\ IsHeld /\ Kept /\ N \in Nat \ {0}
      /\ phase = "deallocate" /\ ok /\ at \in 1 .. N /\ new_size \in Nat
  BY HeapAssumption DEF ResizeInv, ResizeTypes, Resizing!Deallocate, Fresh
<1> DEFINE old == Data(at)
           goes == Size(at) # 0 /\ (new_size = 0 \/ new[at] # old)
<1>1. /\ held' = IF goes THEN [p \in DOMAIN held \ {old} |-> held[p]] ELSE held
      /\ UNCHANGED <<written, ok, new_size, new>>
      /\ arrays' = IF at = N THEN [a \in 1 .. N |-> [data |-> new[a], size |-> new_size]]
                   ELSE arrays
  BY DEF Resizing!Deallocate, Resizing!Freed, Resizing!Restrict, Resizing!Arrays, Data, Size
<1>2. \/ at = N /\ phase' = "idle" /\ at' = 1
      \/ at # N /\ phase' = "deallocate" /\ at' = at + 1
  BY <1>0 DEF Resizing!Deallocate, Resizing!Advance
<1>3. ASSUME NEW a \in 1 .. N
      PROVE  /\ HasNew(a) /\ Copied(a) /\ (HasOld(a) <=> a >= at)
             /\ new[a] \in Nat /\ Data(a) \in Nat /\ Size(a) \in Nat
  BY <1>0 DEF HasNew, HasOld, Copied, ResizeTypes
<1>4. \A a \in 1 .. N : new[a] = 0 <=> new_size = 0
  BY <1>0, <1>3 DEF Fresh
<1>5. \A a \in 1 .. N : new[a] # 0 =>
        new[a] \in DOMAIN held /\ IsBytes(held[new[a]], new_size)
  BY <1>0, <1>3 DEF IsHeld
<1>6. goes => old # 0 /\ \A a \in 1 .. N : new[a] # old
  BY <1>0, <1>3, <1>4 DEF Alike, Fresh
<1>7. /\ DOMAIN held' = IF goes THEN DOMAIN held \ {old} ELSE DOMAIN held
      /\ \A p \in DOMAIN held : ~(goes /\ p = old) => held'[p] = held[p]
  <2>1. CASE ~goes
    BY <2>1, <1>1
  <2>2. CASE goes
    <3>1. held' = [p \in DOMAIN held \ {old} |-> held[p]]
      BY <2>2, <1>1
    <3> HIDE DEF old
    <3> QED BY <2>2, <3>1
  <2> QED BY <2>1, <2>2
\* the new blocks are not touched
<1>8. \A a \in 1 .. N : new[a] # 0 =>
        new[a] \in DOMAIN held' /\ held'[new[a]] = held[new[a]]
  BY <1>5, <1>6, <1>7
\* of those that remain none is the old block of this array only
<1>9. ASSUME NEW p \in DOMAIN held'
      PROVE  /\ p \in DOMAIN held /\ p # 0
             /\ \E a \in 1 .. N : (a > at /\ p = Data(a)) \/ p = new[a]
  <2>1. p \in DOMAIN held /\ p # 0
    BY <1>7, <1>0 DEF IsHeld
  <2>2. PICK a \in 1 .. N : (a >= at /\ p = Data(a)) \/ p = new[a]
    BY <2>1, <1>0, <1>3 DEF IsHeld
  <2>3. CASE p = Data(a) /\ a = at
    <3>1. ~goes
      BY <2>3, <1>7
    <3>2. Size(at) # 0
      BY <2>1, <2>3, <1>0 DEF Alike
    <3>3. p = new[at]
      BY <2>3, <3>1, <3>2
    <3>4. at \in 1 .. N
      BY <1>0
    <3> HIDE DEF old, goes
    <3> QED BY <3>3, <3>4, <2>1
  <2>4. CASE (p = Data(a) /\ a > at) \/ p = new[a]
    BY <2>1, <2>4
  <2> QED BY <2>1, <2>2, <2>3, <2>4, <1>0
<1>10. \A a \in 1 .. N : \A i \in written[a] :
         /\ i \in 1 .. Size(a) /\ i <= new_size
         /\ held[new[a]][i] = <<a, i>> /\ new[a] # 0
  <2> TAKE a \in 1 .. N
  <2> TAKE i \in written[a]
  <2>1. i \in 1 .. Size(a) /\ i <= new_size /\ held[new[a]][i] = <<a, i>>
    BY <1>0, <1>3 DEF Kept
  <2> QED BY <2>1, <1>3, <1>4
<1>11. CASE at # N
  <2>1. /\ phase' = "deallocate" /\ at' = at + 1 /\ arrays' = arrays
    BY <1>1, <1>2, <1>11
  <2>2. ASSUME NEW a \in 1 .. N
        PROVE  /\ Data(a)' = Data(a) /\ Size(a)' = Size(a)
               /\ HasNew(a)' /\ Copied(a)' /\ (HasOld(a)' <=> a > at)
    BY <2>1, <1>0 DEF Data, Size, HasNew, Copied, HasOld
  <2>3. at' \in 1 .. N
    BY <2>1, <1>0, <1>11
  <2>4. ResizeTypes'
    BY <2>1, <2>2, <2>3, <1>0, <1>1 DEF ResizeTypes
  <2>5. Alike'
    BY <2>2, <1>0 DEF Alike
  <2>6. Fresh'
    <3>1. \A a, b \in 1 .. N : new[a] # 0 /\ new[a] = Data(b)' => a = b
      BY <2>2, <1>0 DEF Fresh
    <3>2. \A a \in 1 .. N : new_size # 0 => new[a] # 0
      BY <1>4
    <3> QED BY <3>1, <3>2, <2>1, <1>0, <1>1 DEF Fresh
  <2>7. IsHeld'
    <3>1. \A p \in DOMAIN held' :
            /\ p # 0
            /\ \E a \in 1 .. N : (HasOld(a)' /\ p = Data(a)) \/ (HasNew(a)' /\ p = new[a])
      BY <1>9, <2>2
    <3>2. ASSUME NEW a \in 1 .. N, a > at, Data(a) # 0
          PROVE  /\ Data(a) \in DOMAIN held'
                 /\ new[a] # Data(a) => IsBytes(held'[Data(a)], Size(a))
      <4>1. /\ Data(a) \in DOMAIN held
            /\ new[a] # Data(a) => IsBytes(held[Data(a)], Size(a))
        BY <3>2, <1>0, <1>3 DEF IsHeld
      <4>2. Data(a) # old
        BY <3>2, <1>0 DEF Alike
      <4> QED BY <4>1, <4>2, <1>7
    <3>3. \A a \in 1 .. N : new[a] # 0 =>
            new[a] \in DOMAIN held' /\ IsBytes(held'[new[a]], new_size)
      BY <1>5, <1>8
    <3> HIDE DEF old, goes
    <3> QED BY <3>1, <3>2, <3>3, <2>2, <1>1 DEF IsHeld
  <2>8. Kept'
    <3>1. \A a \in 1 .. N : \A i \in written[a] : held'[new[a]][i] = <<a, i>>
      BY <1>8, <1>10
    <3> HIDE DEF old, goes
    <3> QED BY <3>1, <2>2, <1>1, <1>10 DEF Kept
  <2> QED BY <2>4, <2>5, <2>6, <2>7, <2>8 DEF ResizeInv
<1>12. CASE at = N
  <2>1. /\ phase' = "idle" /\ at' = 1
        /\ arrays' = [a \in 1 .. N |-> [data |-> new[a], size |-> new_size]]
    BY <1>1, <1>2, <1>12
  <2>2. ASSUME NEW a \in 1 .. N
        PROVE  /\ Data(a)' = new[a] /\ Size(a)' = new_size
               /\ ~HasNew(a)' /\ ~Copied(a)' /\ HasOld(a)'
    BY <2>1 DEF Data, Size, HasNew, Copied, HasOld
  <2>3. ResizeTypes'
    BY <2>1, <2>2, <1>0, <1>1, <1>3 DEF ResizeTypes
  <2>4. Alike'
    BY <2>2, <1>0, <1>4 DEF Alike, Fresh
  <2>5. IsHeld'
    <3>1. \A p \in DOMAIN held' : p # 0 /\ \E a \in 1 .. N : p = new[a]
      <4> TAKE p \in DOMAIN held'
      <4>1. p # 0 /\ \E a \in 1 .. N : (a > at /\ p = Data(a)) \/ p = new[a]
        BY <1>9
      <4>2. \A a \in 1 .. N : ~(a > at)
        BY <1>12, <1>0
      <4> QED BY <4>1, <4>2
    <3>2. \A a \in 1 .. N : new[a] # 0 =>
            new[a] \in DOMAIN held' /\ IsBytes(held'[new[a]], new_size)
      BY <1>5, <1>8
    <3> HIDE DEF old, goes
    <3> QED BY <3>1, <3>2, <2>2, <1>1 DEF IsHeld
  <2>6. Kept'
    <3>1. \A a \in 1 .. N : \A i \in written[a] :
            i \in 1 .. new_size /\ held'[new[a]][i] = <<a, i>>
      <4> TAKE a \in 1 .. N
      <4> TAKE i \in written[a]
      <4>1. i \in 1 .. Size(a) /\ i <= new_size /\ held[new[a]][i] = <<a, i>> /\ new[a] # 0
        BY <1>10
      <4>2. i \in 1 .. new_size
        BY <4>1, <1>0, <1>3
      <4>3. held'[new[a]] = held[new[a]]
        BY <4>1, <1>8
      <4> QED BY <4>1, <4>2, <4>3
    <3> HIDE DEF old, goes
    <3> QED BY <3>1, <2>1, <2>2, <1>1 DEF Kept
  <2> QED BY <2>1, <2>3, <2>4, <2>5, <2>6 DEF ResizeInv
<1> QED BY <1>11, <1>12

LEMMA ResizeStep == ASSUME ResizeInv, Resizing!Next PROVE ResizeInv'
<1>1. Sizes \subseteq Nat /\ Resizing!Arrays = 1 .. N
  BY HeapAssumption DEF Resizing!Arrays
<1> QED BY <1>1, ResizeWrite, ResizeBegin, ResizeNothing, ResizeInPlace, ResizeMoved,
           ResizeUndo, ResizeCopy, ResizeDeallocate DEF Resizing!Next

LEMMA ResizeInvSound ==
  ASSUME ResizeInv
  PROVE  Resizing!BlocksMatch /\ Resizing!ContentsKept
<1> SUFFICES ASSUME phase = "idle"
             PROVE  /\ Alike
                    /\ \A p : p \in DOMAIN held <=> p # 0 /\ \E a \in 1 .. N : p = Data(a)
                    /\ \A a \in 1 .. N : Data(a) # 0 => Len(held[Data(a)]) = Size(a)
                    /\ \A a \in 1 .. N : \A i \in written[a] : held[Data(a)][i] = <<a, i>>
  <2> SUFFICES ASSUME phase = "idle" PROVE Resizing!BlocksMatch /\ Resizing!ContentsKept
    BY DEF Resizing!BlocksMatch, Resizing!ContentsKept
  <2>1. /\ Alike
        /\ \A p : p \in DOMAIN held <=> p # 0 /\ \E a \in 1 .. N : p = Data(a)
        /\ \A a \in 1 .. N : Data(a) # 0 => Len(held[Data(a)]) = Size(a)
        /\ \A a \in 1 .. N : \A i \in written[a] : held[Data(a)][i] = <<a, i>>
    OBVIOUS
  <2>2. DOMAIN held = {arrays[a].data : a \in 1 .. N} \ {0}
    BY <2>1 DEF Data
  <2>3. \A a \in 1 .. N : (arrays[a].data = 0) = (arrays[a].size = 0)
    BY <2>1 DEF Alike, Data, Size
  <2> QED BY <2>1, <2>2, <2>3 DEF Alike, Data, Size, Resizing!BlocksMatch,
             Resizing!ContentsKept, Resizing!Arrays, Resizing!Null
<1>0. ResizeTypes /\ Alike /\ IsHeld /\ Kept
  BY DEF ResizeInv
<1>1. \A a \in 1 .. N : HasOld(a) /\ ~HasNew(a) /\ ~Copied(a) /\ Size(a) \in Nat
  BY <1>0 DEF HasOld, HasNew, Copied, ResizeTypes
<1>2. \A p : p \in DOMAIN held <=> p # 0 /\ \E a \in 1 .. N : p = Data(a)
  BY <1>0, <1>1 DEF IsHeld
<1>3. ASSUME NEW a \in 1 .. N, Data(a) # 0 PROVE Len(held[Data(a)]) = Size(a)
  <2>1. IsBytes(held[Data(a)], Size(a)) /\ Size(a) \in Nat
    BY <1>0, <1>1, <1>3 DEF IsHeld
  <2> QED BY <2>1, BytesLength
<1>4. \A a \in 1 .. N : \A i \in written[a] : held[Data(a)][i] = <<a, i>>
  BY <1>0, <1>1 DEF Kept
<1> QED BY <1>0, <1>2, <1>3, <1>4

-----------------------------------------------------------------------------
\* For every header, request and number of calls of the malloc allocator
\* (allocator_malloc.h), for every number of arrays and every set of capacities
\* and addresses of the resize protocol (memory.h), and for every memory and every
\* set of sizes of the allocator the tests run on: free is given what malloc gave,
\* blocks are apart, aligned and counted; a resize that succeeds or is undone
\* leaves one block per array and what was written; an overrun is found out.
THEOREM HeapsSound == Spec => []HeapSound
<1> DEFINE IInv == /\ kind = "malloc" => MallocInv
                   /\ kind = "resize" => ResizeInv
                   /\ kind = "testing" => ZonesInv
<1>1. Init => IInv
  BY MallocInit, ResizeInit, ZonesInit DEF Init
<1>2. IInv /\ [Next]_vars => IInv'
  <2> SUFFICES ASSUME IInv, [Next]_vars PROVE IInv'
    OBVIOUS
  <2>1. CASE Next
    <3>1. kind' = kind
      BY <2>1 DEF Next
    <3>2. /\ kind = "malloc" => Malloc!Next
          /\ kind = "resize" => Resizing!Next
          /\ kind = "testing" => Testing!Next
      BY <2>1 DEF Next
    <3> QED BY <3>1, <3>2, MallocStep, ResizeStep, ZonesStep
  <2>2. CASE UNCHANGED vars
    <3>1. /\ UNCHANGED <<kind, live, heap, current_alloced>>
          /\ UNCHANGED malloc_vars /\ UNCHANGED resize_vars /\ UNCHANGED zone_vars
      BY <2>2 DEF vars
    <3>2. UNCHANGED <<heap, padding, total_alloced, allocation_count, deallocation_count, live>>
      BY <3>1 DEF malloc_vars
    <3>3. UNCHANGED <<arrays, held, written, phase, at, ok, new_size, new>>
      BY <3>1 DEF resize_vars
    <3>4. UNCHANGED <<heap, cells, current_alloced, live, damaged>>
      BY <3>1 DEF zone_vars
    <3> QED BY <3>1, <3>2, <3>3, <3>4, MallocSame, ResizeSame, ZonesSame
  <2> QED BY <2>1, <2>2
<1>3. IInv => HeapSound
  BY MallocInvSound, ResizeInvSound, ZonesInvSound DEF HeapSound
<1> QED BY <1>1, <1>2, <1>3, PTL DEF Spec

-----------------------------------------------------------------------------
(* The walks of the ring over its headers *)

Addresses == 0 .. buffer_to

\* a step of a walk that goes from a to next[a] until it is in Stop, when f has
\* the rest of it: its outcome, or the addresses it meets
StepFrom(Stop, outcome, next, how, f, a) ==
  IF a \in Stop THEN outcome[a]
  ELSE IF how = "collects" THEN {a} \cup f[next[a]]
  ELSE f[next[a]]

\* f is the walk from the last n addresses
StepsUpto(Stop, outcome, next, how, f, n) ==
  \A a \in Addresses :
    buffer_to - a <= n => f[a] = StepFrom(Stop, outcome, next, how, f, a)

LEMMA StepsReach ==
  ASSUME NEW Stop, NEW outcome, NEW next, NEW how,
         \A a \in Addresses \ Stop : next[a] \in Addresses /\ next[a] > a
  PROVE  \A n \in Nat : \E f : StepsUpto(Stop, outcome, next, how, f, n)
<1> DEFINE Bad == {n \in Nat : ~\E f : StepsUpto(Stop, outcome, next, how, f, n)}
<1>1. SUFFICES ASSUME Bad # {} PROVE FALSE
  OBVIOUS
<1>2. Bad \in SUBSET Nat
  OBVIOUS
<1> HIDE DEF Bad
<1>3. PICK m \in Bad : \A n \in Bad : m <= n
  BY <1>1, <1>2, SmallestElement
<1>4. m \in Nat /\ ~\E f : StepsUpto(Stop, outcome, next, how, f, m)
  BY <1>2, <1>3 DEF Bad
\* a walk that is right from the addresses behind those it is asked for
<1>5. PICK f : \A a \in Addresses : buffer_to - a <= m /\ a \notin Stop =>
                 f[next[a]] = StepFrom(Stop, outcome, next, how, f, next[a])
  <2>1. CASE m = 0
    <3>1. \A a \in Addresses : buffer_to - a <= m => a \in Stop
      <4> SUFFICES ASSUME NEW a \in Addresses, buffer_to - a <= 0, a \notin Stop PROVE FALSE
        BY <2>1
      <4>1. next[a] \in Addresses /\ next[a] > a
        OBVIOUS
      <4> QED BY <4>1, AllocatorsAssumption DEF Addresses
    <3> QED BY <3>1
  <2>2. CASE m # 0
    <3>1. m - 1 \in Nat /\ m - 1 \notin Bad
      BY <1>3, <1>4, <2>2
    <3>2. PICK f : StepsUpto(Stop, outcome, next, how, f, m - 1)
      BY <3>1 DEF Bad
    <3>3. ASSUME NEW a \in Addresses, buffer_to - a <= m, a \notin Stop
          PROVE  f[next[a]] = StepFrom(Stop, outcome, next, how, f, next[a])
      <4>1. next[a] \in Addresses /\ next[a] > a
        BY <3>3
      <4>2. buffer_to - next[a] <= m - 1
        BY <3>3, <4>1, <1>4, AllocatorsAssumption DEF Addresses
      <4> QED BY <3>2, <4>1, <4>2 DEF StepsUpto
    <3> QED BY <3>3
  <2> QED BY <2>1, <2>2
<1> DEFINE g == [a \in Addresses |-> StepFrom(Stop, outcome, next, how, f, a)]
<1>6. ASSUME NEW a \in Addresses, buffer_to - a <= m
      PROVE  g[a] = StepFrom(Stop, outcome, next, how, g, a)
  <2>1. g[a] = StepFrom(Stop, outcome, next, how, f, a)
    OBVIOUS
  <2>2. CASE a \in Stop
    <3> HIDE DEF g
    <3> QED BY <2>1, <2>2 DEF StepFrom
  <2>3. CASE a \notin Stop
    <3>1. next[a] \in Addresses /\ f[next[a]] = StepFrom(Stop, outcome, next, how, f, next[a])
      BY <1>5, <1>6, <2>3
    <3>2. g[next[a]] = f[next[a]]
      BY <3>1
    <3> HIDE DEF g
    <3> QED BY <2>1, <2>3, <3>2 DEF StepFrom
  <2> QED BY <2>2, <2>3
<1>7. StepsUpto(Stop, outcome, next, how, g, m)
  <2> HIDE DEF g
  <2> QED BY <1>6 DEF StepsUpto
<1> QED BY <1>4, <1>7

LEMMA StepsFound ==
  ASSUME NEW Stop, NEW outcome, NEW next, NEW how,
         \A a \in Addresses \ Stop : next[a] \in Addresses /\ next[a] > a
  PROVE  \E v : /\ v = [a \in Addresses |-> v[a]]
                /\ \A a \in Addresses : v[a] = StepFrom(Stop, outcome, next, how, v, a)
<1>1. buffer_to \in Nat
  BY AllocatorsAssumption
<1>2. PICK g : StepsUpto(Stop, outcome, next, how, g, buffer_to)
  BY <1>1, StepsReach
<1> DEFINE v == [a \in Addresses |-> g[a]]
<1>3. ASSUME NEW a \in Addresses PROVE g[a] = StepFrom(Stop, outcome, next, how, v, a)
  <2>1. g[a] = StepFrom(Stop, outcome, next, how, g, a)
    BY <1>1, <1>2 DEF StepsUpto, Addresses
  <2>2. a \notin Stop => v[next[a]] = g[next[a]]
    OBVIOUS
  <2> HIDE DEF v
  <2> QED BY <2>1, <2>2 DEF StepFrom
<1> QED BY <1>3

\* the header behind the one at a
Behind(h, a) == a + h[a].size + SLOT

RingHeads(h) ==
  \A a \in DOMAIN h :
    /\ a \in Addresses /\ h[a].prev_offset \in Nat /\ h[a].size \in Int
    /\ Behind(h, a) >= a /\ (a # buffer_to => Behind(h, a) > a)
    /\ IF h[a].stub THEN ~h[a].used ELSE h[a].size \in Nat

\* deallocate_from_front
FrontFrom(to, f, a) ==
  IF a \notin DOMAIN slots \/ slots[a].used THEN a
  ELSE IF Behind(slots, a) >= to THEN to
  ELSE f[Behind(slots, a)]

LEMMA FrontWalks ==
  ASSUME RingHeads(slots), NEW from \in Addresses, NEW to \in Addresses
  PROVE  \E f : /\ \A a \in Addresses : f[a] = FrontFrom(to, f, a)
                /\ Ring!deallocate_from_front(from, to) = IF from = to THEN from ELSE f[from]
<1> DEFINE Unfolded(v) == v = [a \in Addresses |-> FrontFrom(to, v, a)]
           f == CHOOSE v : Unfolded(v)
<1>1. Ring!deallocate_from_front(from, to) = IF from = to THEN from ELSE f[from]
  BY DEF Ring!deallocate_from_front, Ring!buffer_from, Addresses, FrontFrom, Behind
<1> DEFINE Free(a) == a \in DOMAIN slots /\ ~slots[a].used
           Stop == {a \in Addresses : ~Free(a) \/ Behind(slots, a) >= to}
           outcome == [a \in Addresses |-> IF Free(a) THEN to ELSE a]
           next == [a \in Addresses |-> Behind(slots, a)]
<1>2. ASSUME NEW v, NEW a \in Addresses
      PROVE  FrontFrom(to, v, a) = StepFrom(Stop, outcome, next, "goes", v, a)
  BY DEF FrontFrom, StepFrom
<1>3. \A a \in Addresses \ Stop : next[a] \in Addresses /\ next[a] > a
  <2> TAKE a \in Addresses \ Stop
  <2>1. a \in DOMAIN slots /\ ~(Behind(slots, a) >= to) /\ next[a] = Behind(slots, a)
    OBVIOUS
  <2>2. Behind(slots, a) \in Int /\ Behind(slots, a) >= a /\ (a # buffer_to => Behind(slots, a) > a)
    <3>1. slots[a].size \in Int /\ a \in Int /\ SLOT \in Int
      BY <2>1, AllocatorsAssumption DEF RingHeads, Addresses
    <3> QED BY <2>1, <3>1 DEF RingHeads, Behind
  <2> HIDE DEF Stop, next
  <2> QED BY <2>1, <2>2, AllocatorsAssumption DEF Addresses
<1>4. PICK v : /\ v = [a \in Addresses |-> v[a]]
               /\ \A a \in Addresses : v[a] = StepFrom(Stop, outcome, next, "goes", v, a)
  <2> HIDE DEF Stop, outcome, next
  <2> QED BY <1>3, StepsFound
<1> HIDE DEF Stop, outcome, next
<1>5. Unfolded(v)
  BY <1>2, <1>4
<1>6. Unfolded(f)
  BY <1>5
<1>7. \A a \in Addresses : f[a] = FrontFrom(to, f, a)
  <2> HIDE DEF f
  <2> QED BY <1>6
<1> QED BY <1>1, <1>7

\* ResizedEnd
NoEnd == [kind |-> "none", to |-> 0]

EndFrom(ptr, n, f, a) ==
  IF a \notin DOMAIN slots THEN NoEnd
  ELSE IF Behind(slots, a) >= last_block_to
  THEN IF ptr + n > buffer_to THEN NoEnd
       ELSE [kind |-> "last", to |-> align_forward(ptr + n, SLOT)]
  ELSE IF Behind(slots, a) - ptr >= n /\ ~slots[Behind(slots, a)].stub
  THEN [kind |-> "merged", to |-> Behind(slots, a)]
  ELSE IF slots[Behind(slots, a)].used THEN NoEnd
  ELSE f[Behind(slots, a)]

LEMMA EndWalks ==
  ASSUME RingHeads(slots), last_block_to \in Addresses, NEW ptr, NEW n
  PROVE  \E f : /\ \A a \in Addresses : f[a] = EndFrom(ptr, n, f, a)
                /\ Ring!ResizedEnd(ptr, n) = f[ptr - SLOT]
<1> DEFINE Unfolded(v) == v = [a \in Addresses |-> EndFrom(ptr, n, v, a)]
           f == CHOOSE v : Unfolded(v)
<1>1. Ring!ResizedEnd(ptr, n) = f[ptr - SLOT]
  BY DEF Ring!ResizedEnd, Ring!buffer_from, Addresses, EndFrom, Behind, NoEnd,
         Ring!align_forward, align_forward
<1> DEFINE next == [a \in Addresses |-> Behind(slots, a)]
           Last(a) == Behind(slots, a) >= last_block_to
           Fitting(a) == Behind(slots, a) - ptr >= n /\ ~slots[Behind(slots, a)].stub
           Stop == {a \in Addresses :
                      a \notin DOMAIN slots \/ Last(a) \/ Fitting(a) \/ slots[Behind(slots, a)].used}
           outcome == [a \in Addresses |->
                         IF a \notin DOMAIN slots THEN NoEnd
                         ELSE IF Last(a)
                         THEN IF ptr + n > buffer_to THEN NoEnd
                              ELSE [kind |-> "last", to |-> align_forward(ptr + n, SLOT)]
                         ELSE IF Fitting(a) THEN [kind |-> "merged", to |-> Behind(slots, a)]
                         ELSE NoEnd]
<1>2. ASSUME NEW v, NEW a \in Addresses
      PROVE  EndFrom(ptr, n, v, a) = StepFrom(Stop, outcome, next, "goes", v, a)
  <2>1. CASE a \in Stop
    BY <2>1 DEF EndFrom, StepFrom
  <2>2. CASE a \notin Stop
    BY <2>2 DEF EndFrom, StepFrom
  <2> QED BY <2>1, <2>2
<1>3. \A a \in Addresses \ Stop : next[a] \in Addresses /\ next[a] > a
  <2> TAKE a \in Addresses \ Stop
  <2>1. a \in DOMAIN slots /\ ~(Behind(slots, a) >= last_block_to) /\ next[a] = Behind(slots, a)
    OBVIOUS
  <2>2. Behind(slots, a) \in Int /\ Behind(slots, a) >= a /\ (a # buffer_to => Behind(slots, a) > a)
    <3>1. slots[a].size \in Int /\ a \in Int /\ SLOT \in Int
      BY <2>1, AllocatorsAssumption DEF RingHeads, Addresses
    <3> QED BY <2>1, <3>1 DEF RingHeads, Behind
  <2> HIDE DEF Stop, next
  <2> QED BY <2>1, <2>2, AllocatorsAssumption DEF Addresses
<1>4. PICK v : /\ v = [a \in Addresses |-> v[a]]
               /\ \A a \in Addresses : v[a] = StepFrom(Stop, outcome, next, "goes", v, a)
  <2> HIDE DEF Stop, outcome, next
  <2> QED BY <1>3, StepsFound
<1> HIDE DEF Stop, outcome, next
<1>5. Unfolded(v)
  BY <1>2, <1>4
<1>6. Unfolded(f)
  BY <1>5
<1>7. \A a \in Addresses : f[a] = EndFrom(ptr, n, f, a)
  <2> HIDE DEF f
  <2> QED BY <1>6
<1> QED BY <1>1, <1>7

\* WalkTo
MetFrom(to, f, a) ==
  IF a = to THEN {}
  ELSE IF a \notin DOMAIN slots \/ Behind(slots, a) > to THEN {a}
  ELSE {a} \cup f[Behind(slots, a)]

LEMMA MetWalks ==
  ASSUME RingHeads(slots), NEW from \in Addresses, NEW to \in Addresses
  PROVE  \E f : /\ \A a \in Addresses : f[a] = MetFrom(to, f, a)
                /\ Ring!WalkTo(from, to) = f[from]
<1> DEFINE Unfolded(v) == v = [a \in Addresses |-> MetFrom(to, v, a)]
           f == CHOOSE v : Unfolded(v)
<1>1. Ring!WalkTo(from, to) = f[from]
  BY DEF Ring!WalkTo, Ring!buffer_from, Addresses, MetFrom, Behind
<1> DEFINE Stop == {a \in Addresses : a = to \/ a \notin DOMAIN slots \/ Behind(slots, a) > to}
           outcome == [a \in Addresses |-> IF a = to THEN {} ELSE {a}]
           next == [a \in Addresses |-> Behind(slots, a)]
<1>2. ASSUME NEW v, NEW a \in Addresses
      PROVE  MetFrom(to, v, a) = StepFrom(Stop, outcome, next, "collects", v, a)
  BY DEF MetFrom, StepFrom
<1>3. \A a \in Addresses \ Stop : next[a] \in Addresses /\ next[a] > a
  <2> TAKE a \in Addresses \ Stop
  <2>1. a \in DOMAIN slots /\ a # to /\ ~(Behind(slots, a) > to) /\ next[a] = Behind(slots, a)
    OBVIOUS
  <2>2. Behind(slots, a) \in Int /\ Behind(slots, a) >= a /\ (a # buffer_to => Behind(slots, a) > a)
    <3>1. slots[a].size \in Int /\ a \in Int /\ SLOT \in Int
      BY <2>1, AllocatorsAssumption DEF RingHeads, Addresses
    <3> QED BY <2>1, <3>1 DEF RingHeads, Behind
  <2> HIDE DEF Stop, next
  <2> QED BY <2>1, <2>2, AllocatorsAssumption DEF Addresses
<1>4. PICK v : /\ v = [a \in Addresses |-> v[a]]
               /\ \A a \in Addresses : v[a] = StepFrom(Stop, outcome, next, "collects", v, a)
  <2> HIDE DEF Stop, outcome, next
  <2> QED BY <1>3, StepsFound
<1> HIDE DEF Stop, outcome, next
<1>5. Unfolded(v)
  BY <1>2, <1>4
<1>6. Unfolded(f)
  BY <1>5
<1>7. \A a \in Addresses : f[a] = MetFrom(to, f, a)
  <2> HIDE DEF f
  <2> QED BY <1>6
<1> QED BY <1>1, <1>7

-----------------------------------------------------------------------------
(* The headers of the ring *)

\* the headers X fill the buffer from `from` to `to`
Tiles(h, X, from, to) ==
  /\ from \in Addresses /\ to \in Addresses /\ from <= to /\ X \subseteq DOMAIN h
  /\ from # to => from \in X
  /\ \A a \in X : /\ from <= a /\ a < to
                  /\ Behind(h, a) > a /\ Behind(h, a) \in X \cup {to}
                  /\ \A c \in X : c > a => c >= Behind(h, a)

LEMMA TilesTypes ==
  ASSUME NEW h, RingHeads(h), NEW X, NEW from, NEW to, Tiles(h, X, from, to)
  PROVE  /\ from \in Nat /\ to \in Nat /\ buffer_to \in Nat /\ SLOT \in Nat \ {0}
         /\ \A a \in X : /\ a \in Nat /\ a \in Addresses /\ a < to /\ a \in DOMAIN h
                         /\ Behind(h, a) \in Nat /\ Behind(h, a) <= to
<1>1. /\ from \in Nat /\ to \in Nat /\ buffer_to \in Nat /\ SLOT \in Nat \ {0}
  BY AllocatorsAssumption DEF Tiles, Addresses
<1>2. \A a \in X : a \in Nat /\ a \in Addresses /\ a < to /\ a \in DOMAIN h
  BY <1>1 DEF Tiles, RingHeads, Addresses
<1>3. \A a \in X : Behind(h, a) \in Nat /\ Behind(h, a) <= to
  <2> TAKE a \in X
  <2>1. Behind(h, a) \in X \/ Behind(h, a) = to
    BY DEF Tiles
  <2> QED BY <2>1, <1>1, <1>2
<1> QED BY <1>1, <1>2, <1>3

\* it finds the first header that is used
FirstUsed(X, a, to, r) ==
  /\ r \in X \cup {to} /\ a <= r
  /\ r # to => slots[r].used
  /\ \A c \in X : a <= c /\ c < r => ~slots[c].used

LEMMA FrontFinds ==
  ASSUME RingHeads(slots), NEW X, NEW from, NEW to, Tiles(slots, X, from, to)
  PROVE  FirstUsed(X, from, to, Ring!deallocate_from_front(from, to))
<1>0. /\ from \in Nat /\ to \in Nat /\ from \in Addresses /\ to \in Addresses
      /\ \A a \in X : /\ a \in Nat /\ a \in Addresses /\ a < to /\ a \in DOMAIN slots
                      /\ Behind(slots, a) \in Nat /\ Behind(slots, a) <= to
      /\ from # to => from \in X
      /\ \A a \in X : /\ from <= a
                      /\ Behind(slots, a) > a /\ Behind(slots, a) \in X \cup {to}
                      /\ \A c \in X : c > a => c >= Behind(slots, a)
  BY TilesTypes DEF Tiles
<1>1. PICK f : /\ \A a \in Addresses : f[a] = FrontFrom(to, f, a)
               /\ Ring!deallocate_from_front(from, to) = IF from = to THEN from ELSE f[from]
  BY <1>0, FrontWalks
<1> DEFINE Bad == {n \in Nat : \E a \in X : n = to - a /\ ~FirstUsed(X, a, to, f[a])}
<1>2. Bad \in SUBSET Nat
  OBVIOUS
<1>3. ASSUME Bad # {} PROVE FALSE
  <2>1. PICK m \in Bad : \A n \in Bad : m <= n
    <3> HIDE DEF Bad
    <3> QED BY <1>2, <1>3, SmallestElement
  <2>2. PICK a \in X : m = to - a /\ ~FirstUsed(X, a, to, f[a])
    BY <2>1
  <2>3. \A c \in X : c > a => FirstUsed(X, c, to, f[c])
    <3> SUFFICES ASSUME NEW c \in X, c > a, ~FirstUsed(X, c, to, f[c]) PROVE FALSE
      OBVIOUS
    <3>1. to - c \in Bad /\ m \in Nat
      BY <1>0, <1>2, <2>1
    <3> HIDE DEF Bad
    <3>2. m <= to - c
      BY <2>1, <3>1
    <3> QED BY <3>2, <2>2, <1>0
  <2> HIDE DEF Bad
  <2>4. f[a] = FrontFrom(to, f, a)
    BY <1>0, <1>1
  <2>5. CASE slots[a].used
    <3>1. f[a] = a
      BY <2>4, <2>5 DEF FrontFrom
    <3>2. \A c \in X : ~(a <= c /\ c < a)
      BY <1>0
    <3> QED BY <3>1, <3>2, <2>2, <2>5, <1>0 DEF FirstUsed
  <2>6. CASE ~slots[a].used /\ Behind(slots, a) >= to
    <3>1. f[a] = to
      BY <2>4, <2>6, <1>0 DEF FrontFrom
    <3>2. \A c \in X : a <= c => c = a
      BY <2>6, <1>0
    <3> QED BY <3>1, <3>2, <2>2, <2>6, <1>0 DEF FirstUsed
  <2>7. CASE ~slots[a].used /\ ~(Behind(slots, a) >= to)
    <3>1. PICK b : b = Behind(slots, a)
      OBVIOUS
    <3>2. b \in X /\ b > a /\ b \in Nat /\ a \in Nat
      BY <3>1, <2>7, <1>0
    <3>3. f[a] = f[b]
      BY <3>1, <2>4, <2>7, <1>0 DEF FrontFrom
    <3>4. PICK r : r = f[b]
      OBVIOUS
    <3>5. FirstUsed(X, b, to, r)
      BY <3>2, <3>4, <2>3
    <3>6. r \in Nat
      BY <3>5, <1>0 DEF FirstUsed
    <3>7. \A c \in X : a <= c => c = a \/ b <= c
      BY <3>1, <1>0
    <3>8. FirstUsed(X, a, to, r)
      BY <3>2, <3>5, <3>6, <3>7, <2>7, <1>0 DEF FirstUsed
    <3> QED BY <3>3, <3>4, <3>8, <2>2
  <2> QED BY <2>5, <2>6, <2>7
<1>4. \A a \in X : FirstUsed(X, a, to, f[a])
  <2> SUFFICES ASSUME NEW a \in X, ~FirstUsed(X, a, to, f[a]) PROVE FALSE
    OBVIOUS
  <2>1. to - a \in Bad
    BY <1>0
  <2> QED BY <2>1, <1>3
<1>5. CASE from = to
  <2>1. X = {}
    BY <1>0, <1>5
  <2> QED BY <2>1, <1>0, <1>1, <1>5 DEF FirstUsed
<1>6. CASE from # to
  BY <1>0, <1>1, <1>4, <1>6
<1> QED BY <1>5, <1>6

\* the end of a resized block lies behind headers that are not used
EndsAt(X, ptr, n, a, e) ==
  \/ e = NoEnd
  \/ /\ e = [kind |-> "last", to |-> align_forward(ptr + n, SLOT)]
     /\ ptr + n <= buffer_to
     /\ \A c \in X : a < c => ~slots[c].used
  \/ \E to \in X :
       /\ e = [kind |-> "merged", to |-> to]
       /\ a < to /\ ~slots[to].stub /\ ptr + n <= to
       /\ \A c \in X : a < c /\ c < to => ~slots[c].used

LEMMA EndFinds ==
  ASSUME RingHeads(slots), NEW X, Tiles(slots, X, 0, last_block_to),
         NEW ptr \in Nat, NEW n \in Nat, ptr - SLOT \in X
  PROVE  EndsAt(X, ptr, n, ptr - SLOT, Ring!ResizedEnd(ptr, n))
<1>0. /\ last_block_to \in Nat /\ last_block_to \in Addresses /\ buffer_to \in Nat
      /\ \A a \in X : /\ a \in Nat /\ a \in Addresses /\ a < last_block_to /\ a \in DOMAIN slots
                      /\ Behind(slots, a) \in Nat /\ Behind(slots, a) <= last_block_to
                      /\ Behind(slots, a) > a /\ Behind(slots, a) \in X \cup {last_block_to}
                      /\ \A c \in X : c > a => c >= Behind(slots, a)
  BY TilesTypes DEF Tiles
<1>1. PICK f : /\ \A a \in Addresses : f[a] = EndFrom(ptr, n, f, a)
               /\ Ring!ResizedEnd(ptr, n) = f[ptr - SLOT]
  BY <1>0, EndWalks
<1> DEFINE Bad == {k \in Nat : \E a \in X : k = last_block_to - a /\ ~EndsAt(X, ptr, n, a, f[a])}
<1>2. Bad \in SUBSET Nat
  OBVIOUS
<1>3. ASSUME Bad # {} PROVE FALSE
  <2>1. PICK m \in Bad : \A k \in Bad : m <= k
    <3> HIDE DEF Bad
    <3> QED BY <1>2, <1>3, SmallestElement
  <2>2. PICK a \in X : m = last_block_to - a /\ ~EndsAt(X, ptr, n, a, f[a])
    BY <2>1
  <2>3. \A c \in X : c > a => EndsAt(X, ptr, n, c, f[c])
    <3> SUFFICES ASSUME NEW c \in X, c > a, ~EndsAt(X, ptr, n, c, f[c]) PROVE FALSE
      OBVIOUS
    <3>1. last_block_to - c \in Bad /\ m \in Nat
      BY <1>0, <1>2, <2>1
    <3> HIDE DEF Bad
    <3>2. m <= last_block_to - c
      BY <2>1, <3>1
    <3> QED BY <3>2, <2>2, <1>0
  <2> HIDE DEF Bad
  <2>4. f[a] = EndFrom(ptr, n, f, a) /\ a \in DOMAIN slots
    BY <1>0, <1>1
  <2>5. PICK b : b = Behind(slots, a)
    OBVIOUS
  <2>6. b \in Nat /\ a \in Nat /\ b > a /\ \A c \in X : a < c => b <= c
    BY <2>5, <1>0
  <2>7. f[a] # NoEnd
    BY <2>2 DEF EndsAt
  <2>8. CASE b >= last_block_to
    <3>1. /\ f[a] = [kind |-> "last", to |-> align_forward(ptr + n, SLOT)]
          /\ ptr + n <= buffer_to
      BY <2>4, <2>5, <2>7, <2>8, <1>0 DEF EndFrom
    <3>2. \A c \in X : ~(a < c)
      BY <2>6, <2>8, <1>0
    <3> QED BY <3>1, <3>2, <2>2 DEF EndsAt
  <2>9. CASE ~(b >= last_block_to)
    <3>1. b \in X
      BY <2>5, <2>9, <1>0
    <3>2. CASE b - ptr >= n /\ ~slots[b].stub
      <4>1. f[a] = [kind |-> "merged", to |-> b]
        BY <3>2, <2>4, <2>5, <2>9 DEF EndFrom
      <4>2. ptr + n <= b
        BY <3>2, <2>6
      <4>3. \A c \in X : ~(a < c /\ c < b)
        BY <2>6, <1>0
      <4> QED BY <4>1, <4>2, <4>3, <3>1, <3>2, <2>2, <2>6 DEF EndsAt
    <3>3. CASE ~(b - ptr >= n /\ ~slots[b].stub)
      <4>1. f[a] = f[b] /\ ~slots[b].used
        BY <3>3, <2>4, <2>5, <2>7, <2>9 DEF EndFrom
      <4>2. PICK e : e = f[b]
        OBVIOUS
      <4>3. EndsAt(X, ptr, n, b, e)
        BY <4>2, <3>1, <2>3, <2>6
      <4>4. \A c \in X : a < c => c = b \/ b < c
        BY <2>6, <1>0
      <4>5. EndsAt(X, ptr, n, a, e)
        BY <4>1, <4>3, <4>4, <2>6, <1>0 DEF EndsAt
      <4> QED BY <4>1, <4>2, <4>5, <2>2
    <3> QED BY <3>2, <3>3
  <2> QED BY <2>8, <2>9
<1>4. last_block_to - (ptr - SLOT) \in Nat
  BY <1>0
<1>5. EndsAt(X, ptr, n, ptr - SLOT, f[ptr - SLOT])
  <2> SUFFICES ASSUME ~EndsAt(X, ptr, n, ptr - SLOT, f[ptr - SLOT]) PROVE FALSE
    OBVIOUS
  <2>1. last_block_to - (ptr - SLOT) \in Bad
    BY <1>4
  <2> QED BY <2>1, <1>3
<1> QED BY <1>1, <1>5

\* the walk of the properties meets the headers that fill what it walks
LEMMA MetFinds ==
  ASSUME RingHeads(slots), NEW X, NEW from, NEW to, Tiles(slots, X, from, to)
  PROVE  Ring!WalkTo(from, to) = X
<1>0. /\ from \in Nat /\ to \in Nat /\ from \in Addresses /\ to \in Addresses
      /\ \A a \in X : /\ a \in Nat /\ a \in Addresses /\ a < to /\ a \in DOMAIN slots
                      /\ Behind(slots, a) \in Nat /\ Behind(slots, a) <= to
      /\ from # to => from \in X
      /\ \A a \in X : /\ from <= a
                      /\ Behind(slots, a) > a /\ Behind(slots, a) \in X \cup {to}
                      /\ \A c \in X : c > a => c >= Behind(slots, a)
  BY TilesTypes DEF Tiles
<1>1. PICK f : /\ \A a \in Addresses : f[a] = MetFrom(to, f, a)
               /\ Ring!WalkTo(from, to) = f[from]
  BY <1>0, MetWalks
<1> DEFINE Rest(a) == {c \in X : a <= c}
           Bad == {n \in Nat : \E a \in X : n = to - a /\ f[a] # Rest(a)}
<1>2. Bad \in SUBSET Nat
  OBVIOUS
<1>3. ASSUME Bad # {} PROVE FALSE
  <2>1. PICK m \in Bad : \A n \in Bad : m <= n
    <3> HIDE DEF Bad
    <3> QED BY <1>2, <1>3, SmallestElement
  <2>2. PICK a \in X : m = to - a /\ f[a] # Rest(a)
    BY <2>1
  <2>3. \A c \in X : c > a => f[c] = Rest(c)
    <3> SUFFICES ASSUME NEW c \in X, c > a, f[c] # Rest(c) PROVE FALSE
      OBVIOUS
    <3>1. to - c \in Bad /\ m \in Nat
      BY <1>0, <1>2, <2>1
    <3> HIDE DEF Bad
    <3>2. m <= to - c
      BY <2>1, <3>1
    <3> QED BY <3>2, <2>2, <1>0
  <2> HIDE DEF Bad
  <2>4. PICK b : b = Behind(slots, a)
    OBVIOUS
  <2>5. b \in Nat /\ b <= to /\ a \in Nat /\ a < to /\ b \in X \cup {to} /\ b > a
    BY <2>4, <1>0
  <2>6. f[a] = {a} \cup f[b]
    <3>1. f[a] = MetFrom(to, f, a) /\ a # to /\ a \in DOMAIN slots /\ ~(Behind(slots, a) > to)
      BY <2>4, <2>5, <1>0, <1>1
    <3> QED BY <3>1, <2>4 DEF MetFrom
  <2>7. f[b] = Rest(b)
    <3>1. CASE b = to
      <4>1. Rest(b) = {}
        BY <3>1, <1>0
      <4>2. f[b] = {}
        BY <3>1, <1>0, <1>1 DEF MetFrom
      <4> QED BY <4>1, <4>2
    <3>2. CASE b \in X
      BY <3>2, <2>3, <2>5
    <3> QED BY <3>1, <3>2, <2>5
  <2>8. Rest(a) = {a} \cup Rest(b)
    <3>1. \A c \in X : a <= c <=> c = a \/ b <= c
      BY <2>4, <2>5, <1>0
    <3> QED BY <3>1
  <2> QED BY <2>2, <2>6, <2>7, <2>8
<1>4. CASE from = to
  <2>1. X = {}
    BY <1>0, <1>4
  <2> QED BY <2>1, <1>0, <1>1, <1>4 DEF MetFrom
<1>5. CASE from # to
  <2>1. from \in X /\ to - from \in Nat
    BY <1>0, <1>5
  <2>2. f[from] = Rest(from)
    <3> SUFFICES ASSUME f[from] # Rest(from) PROVE FALSE
      OBVIOUS
    <3>1. to - from \in Bad
      BY <2>1
    <3> QED BY <3>1, <1>3
  <2>3. Rest(from) = X
    BY <1>0
  <2> QED BY <2>2, <2>3, <1>1
<1> QED BY <1>4, <1>5

-----------------------------------------------------------------------------
(* The shape of the ring *)

\* a part of what headers fill is filled by those of them that lie in it
LEMMA TilesFrom ==
  ASSUME NEW h, RingHeads(h), NEW X, NEW from, NEW to, Tiles(h, X, from, to),
         NEW a \in X \cup {to}
  PROVE  Tiles(h, {c \in X : a <= c}, a, to)
<1>1. /\ \A c \in X : c \in Nat /\ c \in Addresses /\ c < to /\ Behind(h, c) \in Nat
      /\ to \in Nat /\ a \in Nat /\ a <= to /\ a \in Addresses
  BY TilesTypes DEF Tiles
<1> QED BY <1>1 DEF Tiles

LEMMA TilesTo ==
  ASSUME NEW h, RingHeads(h), NEW X, NEW from, NEW to, Tiles(h, X, from, to),
         NEW a \in X \cup {to}
  PROVE  Tiles(h, {c \in X : c < a}, from, a)
<1>1. /\ \A c \in X : c \in Nat /\ c \in Addresses /\ c < to /\ Behind(h, c) \in Nat
      /\ to \in Nat /\ a \in Nat /\ a \in Addresses /\ from \in Nat /\ from <= a
  BY TilesTypes DEF Tiles
<1>2. \A c \in X : c < a => Behind(h, c) <= a
  BY <1>1, TilesTypes DEF Tiles
<1>3. from # a => from \in X /\ from < a
  BY <1>1 DEF Tiles
<1>4. \A c \in X : Behind(h, c) = to /\ c < a => a = to
  BY <1>1, <1>2 DEF Tiles
<1> QED BY <1>1, <1>2, <1>3, <1>4 DEF Tiles

LEMMA TilesSame ==
  ASSUME NEW h, NEW g, NEW X, NEW from, NEW to, Tiles(h, X, from, to), X \subseteq DOMAIN g,
         \A a \in X : g[a].size = h[a].size
  PROVE  Tiles(g, X, from, to)
<1>1. \A a \in X : Behind(g, a) = Behind(h, a)
  BY DEF Behind
<1> QED BY <1>1 DEF Tiles

\* where the blocks in front of the wrap begin: their headers are those of A
\* that are not stubs
Begins(h, A) == {s \in 1 .. buffer_to : s - SLOT \in A /\ ~h[s - SLOT].stub}

\* the last block of A is used, and only a stub can lie behind it
LastIs(h, A, t, f) ==
  /\ f = 0 => t = 0
  /\ f # 0 => /\ f - SLOT \in A /\ h[f - SLOT].used
              /\ \A c \in A : c > f - SLOT => h[c].stub

\* the headers A fill the buffer up to t, the headers B from r on; those of A
\* are chained backwards from the last block, which begins at f
Shape(h, A, B, t, f, r) ==
  /\ RingHeads(h) /\ f \in Addresses /\ t <= r
  /\ Tiles(h, A, 0, t) /\ Tiles(h, B, r, buffer_to)
  /\ Walkable(h, Begins(h, A)) /\ LastIs(h, A, t, f)

\* the blocks H are those whose headers in X are used
Owned(h, X, H) ==
  /\ \A b \in H : /\ b.at - SLOT \in X /\ h[b.at - SLOT].used /\ b.size <= h[b.at - SLOT].size
                  /\ b.align \in Nat \ {0} /\ b.at % b.align = 0
  /\ \A b, c \in H : b.at = c.at => b = c
  /\ \A a \in X : h[a].used => \E b \in H : b.at = a + SLOT

LEMMA OwnedFewer ==
  ASSUME NEW h, NEW X, NEW H, Owned(h, X, H), NEW Y, Y \subseteq X,
         \A a \in X \ Y : ~h[a].used
  PROVE  Owned(h, Y, H)
  BY DEF Owned

LEMMA OwnedSame ==
  ASSUME NEW h, NEW X, NEW H, Owned(h, X, H), NEW g,
         \A a \in X : (g[a].used <=> h[a].used) /\ g[a].size = h[a].size
  PROVE  Owned(g, X, H)
  BY DEF Owned

LEMMA ShapeTypes ==
  ASSUME NEW h, NEW A, NEW B, NEW t, NEW f, NEW r, Shape(h, A, B, t, f, r)
  PROVE  /\ buffer_to \in Nat /\ SLOT \in Nat \ {0} /\ t \in Nat /\ r \in Nat /\ f \in Nat
         /\ t \in Addresses /\ r \in Addresses /\ r <= buffer_to /\ t <= r
         /\ f <= t
         /\ \A a \in A : /\ a \in Nat /\ a < t /\ a \in DOMAIN h
                         /\ Behind(h, a) \in Nat /\ Behind(h, a) <= t /\ Behind(h, a) > a
                         /\ h[a].size \in Int /\ Behind(h, a) = a + h[a].size + SLOT
         /\ \A a \in B : a \in Nat /\ r <= a /\ a < buffer_to /\ a \in DOMAIN h
         /\ \A a \in A \cup B : a \in DOMAIN h
         /\ \A a \in DOMAIN h : h[a].used => ~h[a].stub /\ h[a].size \in Nat
         /\ \A a \in DOMAIN h : ~h[a].stub => h[a].size \in Nat
<1>1. RingHeads(h) /\ Tiles(h, A, 0, t) /\ Tiles(h, B, r, buffer_to)
  BY DEF Shape
<1>2. /\ t \in Nat /\ buffer_to \in Nat /\ SLOT \in Nat \ {0}
      /\ \A a \in A : /\ a \in Nat /\ a < t /\ a \in DOMAIN h
                      /\ Behind(h, a) \in Nat /\ Behind(h, a) <= t
  BY <1>1, TilesTypes
<1>3. /\ r \in Nat
      /\ \A a \in B : a \in Nat /\ a < buffer_to /\ a \in DOMAIN h
  BY <1>1, TilesTypes
<1>4. /\ t \in Addresses /\ r \in Addresses /\ r <= buffer_to /\ \A a \in B : r <= a
      /\ \A a \in A : Behind(h, a) > a /\ h[a].size \in Int /\ Behind(h, a) = a + h[a].size + SLOT
  BY <1>1, <1>2 DEF Tiles, RingHeads, Behind
<1>5. /\ \A a \in DOMAIN h : h[a].used => ~h[a].stub /\ h[a].size \in Nat
      /\ \A a \in DOMAIN h : ~h[a].stub => h[a].size \in Nat
  BY <1>1 DEF RingHeads
<1>6. f \in Nat
  BY <1>2 DEF Shape, Addresses
<1>7. f <= t
  <2>1. CASE f = 0
    BY <2>1, <1>2
  <2>2. CASE f # 0
    <3>1. f - SLOT \in A /\ h[f - SLOT].used
      BY <2>2 DEF Shape, LastIs
    <3>2. Behind(h, f - SLOT) <= t /\ h[f - SLOT].size \in Nat
      BY <3>1, <1>2, <1>5
    <3> QED BY <3>2, <1>2, <1>6 DEF Behind
  <2> QED BY <2>1, <2>2
<1> QED BY <1>2, <1>3, <1>4, <1>5, <1>6, <1>7 DEF Shape

\* a header of A that is not a stub has its block
LEMMA BeginOf ==
  ASSUME NEW h, NEW A, NEW B, NEW t, NEW f, NEW r, Shape(h, A, B, t, f, r),
         NEW c \in A, ~h[c].stub
  PROVE  c + SLOT \in Begins(h, A) /\ (c + SLOT) - SLOT = c
<1>1. /\ c \in Nat /\ SLOT \in Nat \ {0} /\ h[c].size \in Nat /\ buffer_to \in Nat
      /\ c + h[c].size + SLOT <= buffer_to
  BY ShapeTypes
<1>2. (c + SLOT) - SLOT = c /\ c + SLOT \in 1 .. buffer_to
  BY <1>1
<1> QED BY <1>2 DEF Begins

\* the oldest blocks that are not used are given up
LEMMA ShapeRemainder ==
  ASSUME NEW h, NEW A, NEW B, NEW t, NEW f, NEW r, Shape(h, A, B, t, f, r),
         NEW H, Owned(h, A \cup B, H),
         NEW s \in B \cup {buffer_to}, \A c \in B : c < s => ~h[c].used,
         NEW C, C = {c \in B : s <= c}
  PROVE  Shape(h, A, C, t, f, s) /\ Owned(h, A \cup C, H)
<1>1. /\ \A a \in B : a \in Nat /\ r <= a
      /\ s \in Nat /\ t \in Nat /\ r \in Nat /\ t <= r /\ r <= buffer_to /\ buffer_to \in Nat
  BY ShapeTypes
<1>2. Tiles(h, C, s, buffer_to) /\ t <= s
  BY <1>1, TilesFrom DEF Shape
<1>3. \A a \in (A \cup B) \ (A \cup C) : ~h[a].used
  <2>1. \A a \in B \ C : a < s
    BY <1>1
  <2> QED BY <2>1
<1>4. Owned(h, A \cup C, H)
  <2>1. A \cup C \subseteq A \cup B
    OBVIOUS
  <2> QED BY <2>1, <1>3, OwnedFewer
<1> QED BY <1>2, <1>4 DEF Shape

\* the blocks become the older ones, their end a stub, the front is free
LEMMA ShapeWrap ==
  ASSUME NEW h, NEW A, NEW t, NEW f, Shape(h, A, {}, t, f, buffer_to),
         NEW H, Owned(h, A, H),
         NEW s \in A \cup {t}, \A c \in A : c < s => ~h[c].used,
         NEW g, DOMAIN g = DOMAIN h \cup {t}, g[t] = Ring!Stub(buffer_to - (t + SLOT)),
         \A a \in DOMAIN h \ {t} : g[a] = h[a],
         NEW C, C = {c \in A : s <= c} \cup (IF t = buffer_to THEN {} ELSE {t})
  PROVE  Shape(g, {}, C, 0, 0, s) /\ Owned(g, C, H)
<1>0. /\ buffer_to \in Nat /\ SLOT \in Nat \ {0} /\ t \in Nat /\ t <= buffer_to
      /\ \A a \in A : a \in Nat /\ a < t /\ a \in DOMAIN h
      /\ s \in Nat /\ s <= t
  BY ShapeTypes
<1>1. \A a \in A : g[a] = h[a] /\ a # t
  BY <1>0
<1>2. /\ g[t].size = buffer_to - (t + SLOT) /\ g[t].stub /\ ~g[t].used /\ g[t].prev_offset = 0
      /\ Behind(g, t) = buffer_to
  <2>1. /\ g[t].size = buffer_to - (t + SLOT) /\ g[t].stub /\ ~g[t].used /\ g[t].prev_offset = 0
    BY DEF Ring!Stub
  <2> QED BY <2>1, <1>0 DEF Behind
<1>3. RingHeads(g)
  <2> SUFFICES ASSUME NEW a \in DOMAIN g
               PROVE  /\ a \in Addresses /\ g[a].prev_offset \in Nat /\ g[a].size \in Int
                      /\ Behind(g, a) >= a /\ (a # buffer_to => Behind(g, a) > a)
                      /\ IF g[a].stub THEN ~g[a].used ELSE g[a].size \in Nat
    BY DEF RingHeads
  <2>1. CASE a = t
    BY <2>1, <1>0, <1>2 DEF Addresses
  <2>2. CASE a # t
    <3>1. a \in DOMAIN h /\ g[a] = h[a] /\ RingHeads(h)
      BY <2>2 DEF Shape
    <3>2. Behind(g, a) = Behind(h, a)
      BY <3>1 DEF Behind
    <3> QED BY <3>1, <3>2 DEF RingHeads
  <2> QED BY <2>1, <2>2
<1> DEFINE D == {c \in A : s <= c}
<1>4. Tiles(g, D, s, t)
  <2>1. Tiles(h, D, s, t)
    BY TilesFrom DEF Shape
  <2>2. D \subseteq DOMAIN g /\ \A a \in D : g[a].size = h[a].size
    BY <1>0, <1>1
  <2> HIDE DEF D
  <2> QED BY <2>1, <2>2, TilesSame
<1>5. Tiles(g, C, s, buffer_to)
  <2>1. CASE t = buffer_to
    <3>1. C = D
      BY <2>1
    <3> HIDE DEF D
    <3> QED BY <3>1, <2>1, <1>4
  <2>2. CASE t # buffer_to
    <3>1. C = D \cup {t}
      BY <2>2
    <3>2. \A a \in D : a \in Nat /\ Behind(g, a) \in Nat /\ Behind(g, a) <= t
      <4> HIDE DEF D
      <4> QED BY <1>3, <1>4, TilesTypes
    <3>3. t \in DOMAIN g /\ s \in Addresses /\ buffer_to \in Addresses
      BY <1>0 DEF Addresses
    <3> HIDE DEF D
    <3> QED BY <3>1, <3>2, <3>3, <2>2, <1>0, <1>2, <1>4 DEF Tiles
  <2> QED BY <2>1, <2>2
<1>6. Shape(g, {}, C, 0, 0, s)
  <2>1. Tiles(g, {}, 0, 0)
    BY <1>0 DEF Tiles, Addresses
  <2>2. Walkable(g, Begins(g, {})) /\ LastIs(g, {}, 0, 0)
    BY DEF Walkable, Begins, LastIs
  <2>3. 0 \in Addresses /\ 0 <= s
    BY <1>0 DEF Addresses
  <2> QED BY <2>1, <2>2, <2>3, <1>3, <1>5 DEF Shape
<1>7. Owned(g, C, H)
  <2>1. Owned(h, D, H)
    <3>1. D \subseteq A /\ \A a \in A \ D : ~h[a].used
      BY <1>0
    <3> HIDE DEF D
    <3> QED BY <3>1, OwnedFewer
  <2>2. Owned(g, D, H)
    <3>1. \A a \in D : (g[a].used <=> h[a].used) /\ g[a].size = h[a].size
      BY <1>1
    <3> HIDE DEF D
    <3> QED BY <2>1, <3>1, OwnedSame
  <2>3. D \subseteq C /\ \A a \in C \ D : a = t
    OBVIOUS
  <2> HIDE DEF D
  <2> QED BY <2>2, <2>3, <1>2 DEF Owned
<1> QED BY <1>6, <1>7

-----------------------------------------------------------------------------
(* What placing a block does to the shape *)

\* no block in front of the wrap begins behind the last one
LEMMA LastBegin ==
  ASSUME NEW h, NEW A, NEW B, NEW t, NEW f, NEW r, Shape(h, A, B, t, f, r)
  PROVE  /\ f # 0 => f \in Begins(h, A) /\ h[f - SLOT].used /\ f - SLOT \in A
         /\ f = 0 => A = {}
         /\ \A u \in Begins(h, A) : u <= f /\ u \in Nat
<1>0. /\ f \in Nat /\ SLOT \in Nat \ {0} /\ buffer_to \in Nat
      /\ \A a \in A : a \in Nat /\ a < t /\ a \in DOMAIN h
      /\ \A a \in DOMAIN h : h[a].used => ~h[a].stub
      /\ f <= buffer_to
  BY ShapeTypes
<1>1. LastIs(h, A, t, f)
  BY DEF Shape
<1>2. f # 0 => f \in Begins(h, A) /\ h[f - SLOT].used /\ f - SLOT \in A
  BY <1>0, <1>1 DEF LastIs, Begins
<1>3. f = 0 => A = {}
  BY <1>0, <1>1 DEF LastIs
<1>4. ASSUME NEW u \in Begins(h, A) PROVE u <= f /\ u \in Nat
  <2>1. u \in Nat /\ u - SLOT \in A /\ ~h[u - SLOT].stub
    BY <1>0 DEF Begins
  <2>2. f # 0
    BY <2>1, <1>3
  <2>3. ~(u - SLOT > f - SLOT)
    BY <2>1, <2>2, <1>1 DEF LastIs
  <2> QED BY <2>1, <2>3, <1>0
<1> QED BY <1>2, <1>3, <1>4

\* PlaceBlock: a header in front of x for what ends at y, and one for the padding
Placed(h, t, f, x, y) ==
  Ring!Overwritten(Ring!Put(Ring!Put(h, t, Ring!Stub(x - SLOT - t - SLOT)), x - SLOT,
                            Ring!Slot(x - SLOT - f, y - x)),
                   x, y)

PlacedHeads(h, g, t, f, x, y) ==
  /\ DOMAIN g = {s \in DOMAIN h \cup {t, x - SLOT} : s < x \/ y <= s}
  /\ t \in DOMAIN g /\ x - SLOT \in DOMAIN g
  /\ g[x - SLOT] = [prev_offset |-> x - SLOT - f, size |-> y - x, used |-> TRUE, stub |-> FALSE]
  /\ t # x - SLOT => g[t] = [prev_offset |-> 0, size |-> x - SLOT - t - SLOT,
                             used |-> FALSE, stub |-> TRUE]
  /\ \A a \in DOMAIN g : a # t /\ a # x - SLOT => a \in DOMAIN h /\ g[a] = h[a]

LEMMA PlacesHeads ==
  ASSUME NEW h, NEW t \in Nat, NEW f, NEW x \in Nat, NEW y \in Nat, t + SLOT <= x, x < y
  PROVE  PlacedHeads(h, Placed(h, t, f, x, y), t, f, x, y)
<1> DEFINE g == Placed(h, t, f, x, y)
<1>0. SLOT \in Nat \ {0}
  BY AllocatorsAssumption
<1> DEFINE stub == Ring!Stub(x - SLOT - t - SLOT)
           slot == Ring!Slot(x - SLOT - f, y - x)
           h1 == Ring!Put(h, t, stub)
           h2 == Ring!Put(h1, x - SLOT, slot)
<1>1. /\ stub = [prev_offset |-> 0, size |-> x - SLOT - t - SLOT, used |-> FALSE, stub |-> TRUE]
      /\ slot = [prev_offset |-> x - SLOT - f, size |-> y - x, used |-> TRUE, stub |-> FALSE]
  BY DEF Ring!Stub, Ring!Slot
<1> HIDE DEF stub, slot
<1>2. /\ DOMAIN h1 = DOMAIN h \cup {t} /\ h1[t] = stub
      /\ \A a \in DOMAIN h : a # t => h1[a] = h[a]
  BY DEF Ring!Put
<1> HIDE DEF h1
<1>3. /\ DOMAIN h2 = DOMAIN h1 \cup {x - SLOT} /\ h2[x - SLOT] = slot
      /\ \A a \in DOMAIN h1 : a # x - SLOT => h2[a] = h1[a]
  BY DEF Ring!Put
<1> HIDE DEF h2
<1>4. g = Ring!Overwritten(h2, x, y)
  BY DEF Placed, h2, h1, stub, slot
<1> HIDE DEF g
<1>5. /\ DOMAIN g = {s \in DOMAIN h2 : s < x \/ y <= s}
      /\ \A a \in DOMAIN g : g[a] = h2[a]
  BY <1>4 DEF Ring!Overwritten
<1>6. t < x /\ x - SLOT < x
  BY <1>0
<1>7. DOMAIN h2 = DOMAIN h \cup {t, x - SLOT}
  BY <1>2, <1>3
<1>8. t \in DOMAIN g /\ x - SLOT \in DOMAIN g
  BY <1>5, <1>6, <1>7
<1>9. g[x - SLOT] = slot
  BY <1>3, <1>5, <1>8
<1>10. t # x - SLOT => g[t] = stub
  BY <1>2, <1>3, <1>5, <1>8
<1>11. \A a \in DOMAIN g : a # t /\ a # x - SLOT => a \in DOMAIN h /\ g[a] = h[a]
  BY <1>2, <1>3, <1>5
<1> QED BY <1>1, <1>5, <1>7, <1>8, <1>9, <1>10, <1>11 DEF PlacedHeads, g

\* a block is placed in front of the older ones
LEMMA ShapePlace ==
  ASSUME NEW h, NEW A, NEW B, NEW t, NEW f, NEW r, Shape(h, A, B, t, f, r),
         NEW x \in Nat, NEW y \in Nat, t + SLOT <= x, x < y, y <= r,
         NEW g, g = Placed(h, t, f, x, y),
         NEW C, C = A \cup {t, x - SLOT}
  PROVE  /\ Shape(g, C, B, y, x, r)
         /\ x - SLOT \notin A \cup B
         /\ g[x - SLOT].size = y - x /\ g[x - SLOT].used
         /\ \A a \in A \cup B : g[a] = h[a]
         /\ \A a \in C \cup B : g[a].used => a \in A \cup B \cup {x - SLOT}
<1>0. /\ buffer_to \in Nat /\ SLOT \in Nat \ {0} /\ t \in Nat /\ r \in Nat /\ f \in Nat
      /\ r <= buffer_to /\ f <= t
      /\ \A a \in A : /\ a \in Nat /\ a < t /\ a \in DOMAIN h
                      /\ Behind(h, a) \in Nat /\ Behind(h, a) <= t
      /\ \A a \in B : a \in Nat /\ r <= a /\ a \in DOMAIN h
  BY ShapeTypes
<1> DEFINE slot == x - SLOT
<1> HIDE DEF slot
<1>1. slot \in Nat /\ t <= slot /\ slot < x /\ x > 0 /\ slot + SLOT = x
  BY <1>0 DEF slot
<1>2. /\ DOMAIN g = {s \in DOMAIN h \cup {t, slot} : s < x \/ y <= s}
      /\ t \in DOMAIN g /\ slot \in DOMAIN g
      /\ g[slot] = [prev_offset |-> slot - f, size |-> y - x, used |-> TRUE, stub |-> FALSE]
      /\ t # slot => g[t] = [prev_offset |-> 0, size |-> slot - t - SLOT,
                             used |-> FALSE, stub |-> TRUE]
      /\ \A a \in DOMAIN g : a # t /\ a # slot => a \in DOMAIN h /\ g[a] = h[a]
  <2>1. PlacedHeads(h, g, t, f, x, y)
    BY <1>0, PlacesHeads
  <2> QED BY <2>1 DEF PlacedHeads, slot
<1>3. /\ g[slot].prev_offset = slot - f /\ g[slot].size = y - x /\ g[slot].used /\ ~g[slot].stub
      /\ t # slot => /\ g[t].prev_offset = 0 /\ g[t].size = slot - t - SLOT
                     /\ ~g[t].used /\ g[t].stub
  BY <1>2
<1>4. /\ Behind(g, slot) = y
      /\ t # slot => Behind(g, t) = slot
  BY <1>0, <1>1, <1>3 DEF Behind
<1>5. \A a \in A \cup B : a \in DOMAIN g /\ a # t /\ a # slot /\ g[a] = h[a]
  <2>1. ASSUME NEW a \in A PROVE a \in DOMAIN g /\ a # t /\ a # slot
    BY <1>0, <1>1, <1>2
  <2>2. ASSUME NEW a \in B PROVE a \in DOMAIN g /\ a # t /\ a # slot
    BY <1>0, <1>1, <1>2
  <2> QED BY <2>1, <2>2, <1>2
<1>6. RingHeads(g)
  <2> SUFFICES ASSUME NEW a \in DOMAIN g
               PROVE  /\ a \in Addresses /\ g[a].prev_offset \in Nat /\ g[a].size \in Int
                      /\ Behind(g, a) >= a /\ (a # buffer_to => Behind(g, a) > a)
                      /\ IF g[a].stub THEN ~g[a].used ELSE g[a].size \in Nat
    BY DEF RingHeads
  <2>1. CASE a = slot
    <3>1. slot \in Addresses /\ slot - f \in Nat /\ y - x \in Nat /\ y > slot /\ y >= slot
      BY <1>0, <1>1 DEF Addresses
    <3> QED BY <2>1, <3>1, <1>3, <1>4
  <2>2. CASE a = t /\ t # slot
    <3>1. t \in Addresses /\ slot - t - SLOT \in Int /\ slot > t /\ slot >= t
      BY <2>2, <1>0, <1>1 DEF Addresses
    <3> QED BY <2>2, <3>1, <1>3, <1>4
  <2>3. CASE a # t /\ a # slot
    <3>1. a \in DOMAIN h /\ g[a] = h[a] /\ RingHeads(h)
      BY <2>3, <1>2 DEF Shape
    <3>2. Behind(g, a) = Behind(h, a)
      BY <3>1 DEF Behind
    <3> QED BY <3>1, <3>2 DEF RingHeads
  <2> QED BY <2>1, <2>2, <2>3
<1>7. \A a \in A : Behind(g, a) = Behind(h, a)
  BY <1>5 DEF Behind
<1>8. Tiles(g, C, 0, y)
  <2>0. C = A \cup {t, slot}
    BY DEF slot
  <2>1. 0 \in Addresses /\ y \in Addresses /\ 0 <= y /\ C \subseteq DOMAIN g
    BY <2>0, <1>0, <1>1, <1>2, <1>5 DEF Addresses
  <2>2. 0 \in C
    BY <2>0 DEF Shape, Tiles
  <2>3. ASSUME NEW a \in C
        PROVE  /\ 0 <= a /\ a < y
               /\ Behind(g, a) > a /\ Behind(g, a) \in C \cup {y}
               /\ \A c \in C : c > a => c >= Behind(g, a)
    <3>1. CASE a \in A
      <4>1. /\ Behind(h, a) > a /\ Behind(h, a) \in A \cup {t}
            /\ \A c \in A : c > a => c >= Behind(h, a)
        BY <3>1 DEF Shape, Tiles
      <4> QED BY <4>1, <3>1, <2>0, <1>0, <1>1, <1>7
    <3>2. CASE a = slot
      <4>1. \A c \in C : ~(c > slot)
        BY <2>0, <1>0, <1>1
      <4> QED BY <4>1, <3>2, <1>0, <1>1, <1>4
    <3>3. CASE a = t /\ t # slot
      <4>1. \A c \in C : c > t => c = slot
        BY <2>0, <1>0, <1>1
      <4> QED BY <4>1, <3>3, <2>0, <1>0, <1>1, <1>4
    <3> QED BY <3>1, <3>2, <3>3, <2>0
  <2> QED BY <2>1, <2>2, <2>3 DEF Tiles
<1>9. Tiles(g, B, r, buffer_to)
  <2>1. B \subseteq DOMAIN g /\ \A a \in B : g[a].size = h[a].size
    BY <1>5
  <2> QED BY <2>1, TilesSame DEF Shape
<1>10. Begins(g, C) = Begins(h, A) \cup {x}
  <2>1. ASSUME NEW s \in Begins(g, C) PROVE s \in Begins(h, A) \cup {x}
    <3>1. s \in 1 .. buffer_to /\ s - SLOT \in C /\ ~g[s - SLOT].stub
      BY DEF Begins
    <3>2. CASE s - SLOT \in A
      BY <3>1, <3>2, <1>5 DEF Begins
    <3>3. CASE s - SLOT = t /\ t # slot
      BY <3>1, <3>3, <1>3
    <3>4. CASE s - SLOT = slot
      BY <3>1, <3>4, <1>0, <1>1
    <3> QED BY <3>1, <3>2, <3>3, <3>4 DEF slot
  <2>2. x \in Begins(g, C)
    <3>1. x \in 1 .. buffer_to /\ x - SLOT = slot
      BY <1>0, <1>1 DEF slot
    <3> QED BY <3>1, <1>3 DEF Begins
  <2>3. ASSUME NEW s \in Begins(h, A) PROVE s \in Begins(g, C)
    BY <1>5 DEF Begins
  <2> QED BY <2>1, <2>2, <2>3
<1>11. Walkable(g, Begins(g, C))
  <2> SUFFICES ASSUME NEW s \in Begins(h, A) \cup {x}
               PROVE  /\ s \in 1 .. buffer_to /\ s - SLOT \in DOMAIN g
                      /\ Previous(g, s) \in Begins(h, A) \cup {x, 0}
                      /\ \A u \in Begins(h, A) \cup {x} : u < s => u <= Previous(g, s)
    BY <1>10 DEF Walkable
  <2>0. /\ f # 0 => f \in Begins(h, A)
        /\ \A u \in Begins(h, A) : u <= f /\ u \in Nat
    BY LastBegin
  <2>1. CASE s \in Begins(h, A)
    <3>1. s - SLOT \in A /\ s \in Nat /\ s < x
      <4>1. s - SLOT \in A /\ s \in Nat /\ s <= f
        BY <2>0, <2>1 DEF Begins
      <4> QED BY <4>1, <1>0, <1>1
    <3>2. Previous(g, s) = Previous(h, s)
      BY <3>1, <1>5 DEF Previous
    <3>3. /\ s \in 1 .. buffer_to
          /\ Previous(h, s) \in Begins(h, A) \cup {0}
          /\ \A u \in Begins(h, A) : u < s => u <= Previous(h, s)
      BY <2>1 DEF Shape, Walkable
    <3>4. ~(x < s)
      BY <3>1
    <3> QED BY <3>1, <3>2, <3>3, <3>4, <1>5
  <2>2. CASE s = x
    <3>1. x - SLOT = slot
      BY DEF slot
    <3>2. Previous(g, x) = f
      <4>1. slot - (slot - f) = f
        BY <1>0, <1>1
      <4> QED BY <3>1, <4>1, <1>3 DEF Previous
    <3> QED BY <2>0, <2>2, <3>1, <3>2, <1>0, <1>1, <1>2
  <2> QED BY <2>1, <2>2
<1>12. LastIs(g, C, y, x)
  <2>1. \A c \in C : ~(c > slot)
    BY <1>0, <1>1 DEF slot
  <2> QED BY <2>1, <1>1, <1>3 DEF LastIs, slot
<1>13. Shape(g, C, B, y, x, r)
  <2>1. x \in Addresses
    BY <1>0, <1>1 DEF Addresses
  <2> QED BY <2>1, <1>6, <1>8, <1>9, <1>11, <1>12 DEF Shape
<1>14. \A a \in C \cup B : g[a].used => a \in A \cup B \cup {slot}
  BY <1>3 DEF slot
<1> QED BY <1>3, <1>5, <1>13, <1>14 DEF slot

\* and its block is the client's
OwnedWith(h, X, x, H, b) == Owned(h, X, H \cup {b}) /\ b \notin H /\ b.at = x

LEMMA OwnedPlace ==
  ASSUME NEW h, NEW X, NEW H, Owned(h, X, H), NEW g, NEW Y, NEW x \in Nat, NEW b,
         x - SLOT \notin X, X \subseteq Y, x - SLOT \in Y,
         \A a \in X : g[a] = h[a], \A a \in Y : g[a].used => a \in X \cup {x - SLOT},
         g[x - SLOT].used, b.at = x, b.size <= g[x - SLOT].size,
         b.align \in Nat \ {0}, x % b.align = 0
  PROVE  OwnedWith(g, Y, x, H, b)
<1>0. SLOT \in Nat \ {0}
  BY AllocatorsAssumption
<1>1. \A c \in H : c.at # x /\ c.at - SLOT \in X
  BY DEF Owned
<1>2. \A c \in H \cup {b} :
        /\ c.at - SLOT \in Y /\ g[c.at - SLOT].used /\ c.size <= g[c.at - SLOT].size
        /\ c.align \in Nat \ {0} /\ c.at % c.align = 0
  BY <1>1 DEF Owned
<1>3. \A c, d \in H \cup {b} : c.at = d.at => c = d
  BY <1>1 DEF Owned
<1>4. ASSUME NEW a \in Y, g[a].used PROVE \E c \in H \cup {b} : c.at = a + SLOT
  <2>1. CASE a \in X
    BY <2>1, <1>4 DEF Owned
  <2>2. CASE a = x - SLOT
    BY <2>2, <1>0
  <2> QED BY <2>1, <2>2, <1>4
<1> QED BY <1>1, <1>2, <1>3, <1>4 DEF Owned, OwnedWith

-----------------------------------------------------------------------------
(* What freeing a block does to the shape *)

\* the header of a block says that it is not used
Freed(h, a) == [h EXCEPT ![a].used = FALSE]

LEMMA FreedHeads ==
  ASSUME NEW h, NEW a \in DOMAIN h
  PROVE  /\ DOMAIN Freed(h, a) = DOMAIN h /\ ~Freed(h, a)[a].used
         /\ \A s \in DOMAIN h : s # a => Freed(h, a)[s] = h[s]
         /\ \A s \in DOMAIN h : /\ Freed(h, a)[s].size = h[s].size
                                /\ Freed(h, a)[s].stub = h[s].stub
                                /\ Freed(h, a)[s].prev_offset = h[s].prev_offset
<1> DEFINE g == Freed(h, a)
<1>1. DOMAIN g = DOMAIN h /\ \A s \in DOMAIN h : s # a => g[s] = h[s]
  BY DEF Freed
<1>2. g[a] = [h[a] EXCEPT !.used = FALSE]
  BY DEF Freed
<1> HIDE DEF g
<1>3. /\ g[a].used = FALSE
      /\ g[a].size = h[a].size /\ g[a].stub = h[a].stub /\ g[a].prev_offset = h[a].prev_offset
  BY <1>2
<1> QED BY <1>1, <1>3 DEF g

\* all but what its last block is stays as it was
FreedShape(h, g, A, B, t, r, H) ==
  /\ RingHeads(g) /\ Tiles(g, A, 0, t) /\ Tiles(g, B, r, buffer_to)
  /\ Begins(g, A) = Begins(h, A) /\ Walkable(g, Begins(h, A))
  /\ Owned(g, A \cup B, H)
  /\ \A a \in DOMAIN h : g[a].stub = h[a].stub /\ g[a].size = h[a].size

LEMMA ShapeFreed ==
  ASSUME NEW h, NEW A, NEW B, NEW t, NEW f, NEW r, Shape(h, A, B, t, f, r),
         NEW H, Owned(h, A \cup B, H), NEW b \in H, \A c \in H : c.at \in Nat,
         NEW g, g = Freed(h, b.at - SLOT)
  PROVE  FreedShape(h, g, A, B, t, r, H \ {b})
<1>0. /\ buffer_to \in Nat /\ SLOT \in Nat \ {0}
      /\ \A a \in A : a \in Nat /\ a \in DOMAIN h
      /\ \A a \in B : a \in Nat /\ a \in DOMAIN h
      /\ RingHeads(h) /\ Tiles(h, A, 0, t) /\ Tiles(h, B, r, buffer_to)
      /\ Walkable(h, Begins(h, A))
  BY ShapeTypes DEF Shape
<1> DEFINE a == b.at - SLOT
<1>1. a \in A \cup B /\ b.at \in Nat /\ a \in DOMAIN h
  BY <1>0 DEF Owned
<1>2. /\ DOMAIN g = DOMAIN h /\ ~g[a].used
      /\ \A s \in DOMAIN h : s # a => g[s] = h[s]
      /\ \A s \in DOMAIN h : /\ g[s].size = h[s].size
                             /\ g[s].stub = h[s].stub
                             /\ g[s].prev_offset = h[s].prev_offset
  BY <1>1, FreedHeads
<1>3. RingHeads(g)
  <2>1. \A s \in DOMAIN h : Behind(g, s) = Behind(h, s)
    BY <1>2 DEF Behind
  <2>2. \A s \in DOMAIN h : g[s].used => h[s].used
    BY <1>2
  <2> QED BY <2>1, <2>2, <1>0, <1>2 DEF RingHeads
<1>4. Tiles(g, A, 0, t)
  <2>1. A \subseteq DOMAIN g /\ \A s \in A : g[s].size = h[s].size
    BY <1>0, <1>2
  <2> QED BY <2>1, <1>0, TilesSame
<1>5. Tiles(g, B, r, buffer_to)
  <2>1. B \subseteq DOMAIN g /\ \A s \in B : g[s].size = h[s].size
    BY <1>0, <1>2
  <2> QED BY <2>1, <1>0, TilesSame
<1>6. Begins(g, A) = Begins(h, A)
  BY <1>0, <1>2 DEF Begins
<1>7. Walkable(g, Begins(h, A))
  <2>1. \A s \in Begins(h, A) : Previous(g, s) = Previous(h, s) /\ s - SLOT \in DOMAIN g
    BY <1>0, <1>2 DEF Previous, Begins
  <2> QED BY <2>1, <1>0 DEF Walkable
<1>8. Owned(g, A \cup B, H \ {b})
  <2>1. ASSUME NEW c \in H \ {b}
        PROVE  /\ c.at - SLOT \in A \cup B /\ g[c.at - SLOT].used
               /\ c.size <= g[c.at - SLOT].size
               /\ c.align \in Nat \ {0} /\ c.at % c.align = 0
    <3>1. /\ c.at - SLOT \in A \cup B /\ h[c.at - SLOT].used
          /\ c.size <= h[c.at - SLOT].size
          /\ c.align \in Nat \ {0} /\ c.at % c.align = 0
          /\ c.at # b.at /\ c.at \in Nat
      BY DEF Owned
    <3>2. c.at - SLOT # a
      BY <3>1, <1>0, <1>1
    <3>3. g[c.at - SLOT] = h[c.at - SLOT]
      BY <3>1, <3>2, <1>0, <1>2
    <3> QED BY <3>1, <3>3
  <2>2. ASSUME NEW s \in A \cup B, g[s].used PROVE \E c \in H \ {b} : c.at = s + SLOT
    <3>1. s # a /\ s \in Nat /\ h[s].used
      BY <2>2, <1>0, <1>2
    <3>2. PICK c \in H : c.at = s + SLOT
      BY <3>1 DEF Owned
    <3>3. c # b
      BY <3>1, <3>2, <1>0, <1>1
    <3> QED BY <3>2, <3>3
  <2>3. \A c, d \in H \ {b} : c.at = d.at => c = d
    BY DEF Owned
  <2> QED BY <2>1, <2>2, <2>3 DEF Owned
<1> QED BY <1>2, <1>3, <1>4, <1>5, <1>6, <1>7, <1>8 DEF FreedShape

\* deallocate_from_back walks as the stack does
LEMMA BackWalks ==
  ASSUME NEW g
  PROVE  Ring!deallocate_from_back(g) =
           IF last_block_from = 0 THEN <<last_block_from, last_block_to>>
           ELSE Stack!PopUnused(g, last_block_from, last_block_to)
  BY DEF Ring!deallocate_from_back, Stack!PopUnused, Ring!buffer_from, Stack!buffer_from

\* the headers of A that are left end at e[2], the last of their blocks begins at e[1]
Popped(g, A, B, e, r, H) ==
  \E C \in SUBSET A : Shape(g, C, B, e[2], e[1], r) /\ Owned(g, C \cup B, H)

LEMMA ShapePop ==
  ASSUME NEW h, NEW A, NEW B, NEW r, Shape(h, A, B, last_block_to, last_block_from, r),
         NEW H, Owned(h, A \cup B, H), NEW b \in H, \A c \in H : c.at \in Nat,
         NEW g, g = Freed(h, b.at - SLOT), NEW e, e = Ring!deallocate_from_back(g)
  PROVE  Popped(g, A, B, e, r, H \ {b})
<1> SUFFICES \E C \in SUBSET A : Shape(g, C, B, e[2], e[1], r) /\ Owned(g, C \cup B, H \ {b})
  BY DEF Popped
<1> DEFINE t == last_block_to
           f == last_block_from
           Bg == Begins(h, A)
           p == <<f, t>>
<1>0. /\ buffer_to \in Nat /\ SLOT \in Nat \ {0} /\ t \in Nat /\ r \in Nat /\ f \in Nat
      /\ r <= buffer_to /\ f <= t /\ t <= r
      /\ \A a \in A : a \in Nat /\ a < t /\ a \in DOMAIN h
      /\ \A a \in B : a \in Nat /\ r <= a /\ a \in DOMAIN h
  BY ShapeTypes
<1>1. /\ RingHeads(g) /\ Tiles(g, A, 0, t) /\ Tiles(g, B, r, buffer_to)
      /\ Begins(g, A) = Bg /\ Walkable(g, Bg)
      /\ Owned(g, A \cup B, H \ {b})
      /\ \A a \in DOMAIN h : g[a].stub = h[a].stub /\ g[a].size = h[a].size
  <2>1. FreedShape(h, g, A, B, t, r, H \ {b})
    BY ShapeFreed
  <2> QED BY <2>1 DEF FreedShape
<1>2. /\ f # 0 => f \in Bg /\ f - SLOT \in A
      /\ f = 0 => A = {}
      /\ \A u \in Bg : u <= f /\ u \in Nat
  BY LastBegin
<1>3. \A a \in A : ~g[a].stub => a + SLOT \in Bg /\ (a + SLOT) - SLOT = a
  BY <1>0, <1>1, BeginOf
<1>4. \A a \in A : g[a].stub => ~g[a].used
  BY <1>0, <1>1 DEF RingHeads, Tiles
<1>5. CASE f = 0
  <2>1. e = <<f, t>> /\ t = 0 /\ A = {}
    BY <1>2, <1>5, BackWalks DEF Shape, LastIs
  <2>2. LastIs(g, {}, 0, 0)
    BY DEF LastIs
  <2>3. e[1] = 0 /\ e[2] = 0 /\ 0 \in Addresses
    BY <2>1, <1>0, <1>5 DEF Addresses
  <2>4. Shape(g, A, B, e[2], e[1], r)
    BY <2>1, <2>2, <2>3, <1>0, <1>1 DEF Shape
  <2> QED BY <2>4, <1>1
<1>6. CASE f # 0
  <2>1. WalkEnds(g, Bg, p, e)
    <3>1. HeadTypes(g)
      BY <1>1 DEF HeadTypes, RingHeads, Addresses
    <3>2. f \in 0 .. buffer_to /\ t \in 0 .. buffer_to
      BY <1>0
    <3>3. PICK w : Walks(g, w) /\ e = w[p]
      BY <3>1, <3>2, <1>6, PopWalks, BackWalks
    <3>4. p \in Ends /\ p[1] = f
      BY <3>2 DEF Ends
    <3> HIDE DEF p, Bg
    <3> QED BY <3>1, <3>3, <3>4, <1>1, <1>2, <1>6, WalkFinds
  <2>2. p[1] = f /\ p[2] = t
    OBVIOUS
  <2> HIDE DEF p
  <2>3. CASE e = <<0, 0>> /\ \A s \in Bg : s <= p[1] => ~Used(g, s)
    <3>1. \A a \in A : ~g[a].used
      BY <2>2, <2>3, <1>2, <1>3, <1>4 DEF Used
    <3>2. Owned(g, {} \cup B, H \ {b})
      <4>1. {} \cup B \subseteq A \cup B /\ \A a \in (A \cup B) \ ({} \cup B) : ~g[a].used
        BY <3>1
      <4> QED BY <4>1, <1>1, OwnedFewer
    <3>3. Shape(g, {}, B, 0, 0, r)
      <4>1. Tiles(g, {}, 0, 0) /\ 0 \in Addresses /\ 0 <= r
        BY <1>0 DEF Tiles, Addresses
      <4>2. Walkable(g, Begins(g, {})) /\ LastIs(g, {}, 0, 0)
        BY DEF Walkable, Begins, LastIs
      <4> QED BY <4>1, <4>2, <1>1 DEF Shape
    <3>4. e[1] = 0 /\ e[2] = 0
      BY <2>3
    <3> QED BY <3>2, <3>3, <3>4
  <2>4. CASE /\ e[1] \in Bg /\ e[1] <= p[1] /\ Used(g, e[1])
             /\ \A s \in Bg : e[1] < s /\ s <= p[1] => ~Used(g, s)
             /\ e = p
    <3>1. e[1] = f /\ e[2] = t
      BY <2>2, <2>4
    <3>2. LastIs(g, A, t, f)
      <4>1. \A c \in A : c > f - SLOT => g[c].stub
        BY <1>0, <1>1, <1>6 DEF Shape, LastIs
      <4>2. g[f - SLOT].used
        BY <2>4, <3>1 DEF Used
      <4> QED BY <4>1, <4>2, <1>2, <1>6 DEF LastIs
    <3>3. Shape(g, A, B, e[2], e[1], r)
      <4>1. f \in Addresses
        BY <1>0 DEF Addresses
      <4> QED BY <3>1, <3>2, <4>1, <1>0, <1>1 DEF Shape
    <3> QED BY <3>3, <1>1
  <2>5. CASE /\ e[1] \in Bg /\ e[1] <= p[1] /\ Used(g, e[1])
             /\ \A s \in Bg : e[1] < s /\ s <= p[1] => ~Used(g, s)
             /\ \E s \in Bg : /\ s <= p[1] /\ e[1] < s /\ e[2] = s - SLOT
                              /\ \A u \in Bg : u < s => u <= e[1]
    <3>1. PICK s \in Bg : /\ e[1] < s /\ e[2] = s - SLOT
                          /\ \A u \in Bg : u < s => u <= e[1]
      BY <2>5
    <3>2. PICK z : z = e[1]
      OBVIOUS
    <3>3. /\ z \in Bg /\ z < s /\ Used(g, z) /\ z \in Nat /\ s \in Nat /\ z <= buffer_to
          /\ \A u \in Bg : z < u => ~Used(g, u)
      BY <2>2, <2>5, <3>1, <3>2, <1>0, <1>2
    <3>4. s - SLOT \in A /\ z - SLOT \in A /\ z # 0
      BY <3>1, <3>3 DEF Begins
    <3>5. PICK y : y = s - SLOT
      OBVIOUS
    <3>6. y \in A /\ y \in Nat /\ y < t /\ y + SLOT = s /\ z - SLOT < y /\ e[2] = y
      BY <3>1, <3>3, <3>4, <3>5, <1>0
    <3> DEFINE C == {a \in A : a < y}
    <3>7. Tiles(g, C, 0, y)
      BY <3>6, <1>1, TilesTo
    <3>8. \A a \in A : ~g[a].stub /\ a < y => a + SLOT <= z
      <4> SUFFICES ASSUME NEW a \in A, ~g[a].stub, a < y PROVE a + SLOT <= z
        OBVIOUS
      <4>1. a + SLOT \in Bg /\ a + SLOT < s
        BY <3>6, <1>0, <1>3
      <4> QED BY <4>1, <3>1, <3>2
    <3>9. \A a \in A : ~(a < y) => ~g[a].used
      <4> SUFFICES ASSUME NEW a \in A, ~(a < y), g[a].used PROVE FALSE
        OBVIOUS
      <4>1. a + SLOT \in Bg /\ (a + SLOT) - SLOT = a
        BY <1>3, <1>4
      <4>2. z < a + SLOT
        BY <3>3, <3>6, <1>0
      <4> QED BY <4>1, <4>2, <3>3 DEF Used
    <3>10. Begins(g, C) = {u \in Bg : u - SLOT < y}
      BY <1>1 DEF Begins
    <3>11. Walkable(g, Begins(g, C))
      <4> SUFFICES ASSUME NEW u \in Bg, u - SLOT < y
                   PROVE  /\ u \in 1 .. buffer_to /\ u - SLOT \in DOMAIN g
                          /\ Previous(g, u) \in {v \in Bg : v - SLOT < y} \cup {0}
                          /\ \A v \in Bg : v < u => v <= Previous(g, u)
        <5> HIDE DEF C, Bg
        <5> QED BY <3>10 DEF Walkable
      <4>1. /\ u \in 1 .. buffer_to /\ u - SLOT \in DOMAIN g
            /\ Previous(g, u) \in Bg \cup {0}
            /\ \A v \in Bg : v < u => v <= Previous(g, u)
        BY <1>1 DEF Walkable
      <4>2. PICK v : v = Previous(g, u)
        OBVIOUS
      <4>3. v \in Nat /\ g[u - SLOT].prev_offset \in Nat /\ v = u - SLOT - g[u - SLOT].prev_offset
        <5>1. v \in Bg \cup {0}
          BY <4>1, <4>2
        <5>2. v \in Nat
          <6> HIDE DEF Bg
          <6> QED BY <5>1, <1>2
        <5> QED BY <5>2, <4>1, <4>2, <1>1 DEF RingHeads, Previous
      <4>4. v - SLOT < y
        BY <4>1, <4>3, <3>6, <1>0
      <4> QED BY <4>1, <4>2, <4>4
    <3>12. LastIs(g, C, y, z)
      <4>1. z - SLOT \in C /\ g[z - SLOT].used
        BY <3>3, <3>4, <3>6 DEF Used
      <4>2. ASSUME NEW c \in C, c > z - SLOT PROVE g[c].stub
        <5>1. c \in A /\ c < y /\ c \in Nat
          BY <1>0
        <5>2. ~(c + SLOT <= z)
          BY <4>2, <5>1, <3>3, <1>0
        <5> QED BY <5>1, <5>2, <3>8
      <4> QED BY <4>1, <4>2, <3>4 DEF LastIs
    <3>13. Owned(g, C \cup B, H \ {b})
      <4>1. C \cup B \subseteq A \cup B /\ \A a \in (A \cup B) \ (C \cup B) : ~g[a].used
        BY <3>9
      <4> HIDE DEF C
      <4> QED BY <4>1, <1>1, OwnedFewer
    <3>14. Shape(g, C, B, y, z, r)
      <4>1. z \in Addresses /\ y <= r
        BY <3>3, <3>6, <1>0 DEF Addresses
      <4> HIDE DEF C
      <4> QED BY <4>1, <3>7, <3>11, <3>12, <1>1 DEF Shape
    <3>15. C \in SUBSET A
      OBVIOUS
    <3> HIDE DEF C
    <3> QED BY <3>2, <3>6, <3>13, <3>14, <3>15
  <2> QED BY <2>1, <2>3, <2>4, <2>5 DEF WalkEnds
<1> QED BY <1>5, <1>6

-----------------------------------------------------------------------------
(* What resizing a block does to the shape *)

\* the header in front of p says that its block ends at e
Reaches(h, p, e) == Ring!Overwritten([h EXCEPT ![p - SLOT].size = e - p], p, e)

\* and the header at e that this block is in front of it
Relinked(h, p, e) == [h EXCEPT ![e].prev_offset = e - p]

ReachedHeads(h, g, p, e) ==
  /\ DOMAIN g = {s \in DOMAIN h : s < p \/ e <= s}
  /\ p - SLOT \in DOMAIN g /\ g[p - SLOT].size = e - p
  /\ \A a \in DOMAIN g : /\ a # p - SLOT => g[a].size = h[a].size
                         /\ g[a].used = h[a].used /\ g[a].stub = h[a].stub
                         /\ g[a].prev_offset = h[a].prev_offset

LEMMA ReachesHeads ==
  ASSUME NEW h, NEW p \in Nat, NEW e \in Nat, p - SLOT \in DOMAIN h
  PROVE  ReachedHeads(h, Reaches(h, p, e), p, e)
<1> DEFINE h1 == [h EXCEPT ![p - SLOT].size = e - p]
           g == Reaches(h, p, e)
<1>1. /\ DOMAIN h1 = DOMAIN h /\ \A a \in DOMAIN h : a # p - SLOT => h1[a] = h[a]
  OBVIOUS
<1>2. h1[p - SLOT] = [h[p - SLOT] EXCEPT !.size = e - p]
  OBVIOUS
<1>3. g = Ring!Overwritten(h1, p, e)
  BY DEF Reaches
<1> HIDE DEF h1, g
<1>4. /\ h1[p - SLOT].size = e - p /\ h1[p - SLOT].used = h[p - SLOT].used
      /\ h1[p - SLOT].stub = h[p - SLOT].stub
      /\ h1[p - SLOT].prev_offset = h[p - SLOT].prev_offset
  BY <1>2
<1>5. /\ DOMAIN g = {s \in DOMAIN h : s < p \/ e <= s}
      /\ \A a \in DOMAIN g : a \in DOMAIN h /\ g[a] = h1[a]
  BY <1>1, <1>3 DEF Ring!Overwritten
<1>6. p - SLOT \in DOMAIN g
  BY <1>5, AllocatorsAssumption
<1>7. ASSUME NEW a \in DOMAIN g
      PROVE  /\ a # p - SLOT => g[a].size = h[a].size
             /\ g[a].used = h[a].used /\ g[a].stub = h[a].stub
             /\ g[a].prev_offset = h[a].prev_offset
  <2>1. CASE a = p - SLOT
    BY <2>1, <1>4, <1>5
  <2>2. CASE a # p - SLOT
    BY <2>2, <1>1, <1>5
  <2> QED BY <2>1, <2>2
<1> QED BY <1>4, <1>5, <1>6, <1>7 DEF ReachedHeads, g

RelinkedHeads(h, g, p, e) ==
  /\ DOMAIN g = DOMAIN h /\ g[e].prev_offset = e - p
  /\ \A a \in DOMAIN h : /\ a # e => g[a].prev_offset = h[a].prev_offset
                         /\ g[a].used = h[a].used /\ g[a].stub = h[a].stub
                         /\ g[a].size = h[a].size

LEMMA RelinksHeads ==
  ASSUME NEW h, NEW p, NEW e \in DOMAIN h
  PROVE  RelinkedHeads(h, Relinked(h, p, e), p, e)
<1> DEFINE g == Relinked(h, p, e)
<1>1. DOMAIN g = DOMAIN h /\ \A a \in DOMAIN h : a # e => g[a] = h[a]
  BY DEF Relinked
<1>2. g[e] = [h[e] EXCEPT !.prev_offset = e - p]
  BY DEF Relinked
<1> HIDE DEF g
<1>3. /\ g[e].prev_offset = e - p /\ g[e].used = h[e].used
      /\ g[e].stub = h[e].stub /\ g[e].size = h[e].size
  BY <1>2
<1> QED BY <1>1, <1>3 DEF RelinkedHeads, g

\* the headers g are those C of h, but for the one in front of p
Regiven(h, g, C, p, e) ==
  /\ p <= e /\ g[p - SLOT].size = e - p /\ g[p - SLOT].used
  /\ \A a \in C : a # p - SLOT => (g[a].used <=> h[a].used) /\ g[a].size = h[a].size

\* the free blocks behind a block become part of it, up to the next header
LEMMA ShapeMerge ==
  ASSUME NEW h, NEW A, NEW B, NEW t, NEW f, NEW r, Shape(h, A, B, t, f, r),
         NEW p \in Nat, p - SLOT \in A, h[p - SLOT].used,
         NEW e \in A, ~h[e].stub, p - SLOT < e,
         NEW g, g = Reaches(Relinked(h, p, e), p, e),
         NEW C, C = {c \in A : c <= p - SLOT \/ e <= c}
  PROVE  Shape(g, C, B, t, f, r) /\ Regiven(h, g, C \cup B, p, e)
<1>0. /\ buffer_to \in Nat /\ SLOT \in Nat \ {0} /\ t \in Nat /\ r \in Nat /\ f \in Nat
      /\ \A a \in A : /\ a \in Nat /\ a < t /\ a \in DOMAIN h
                      /\ Behind(h, a) \in Nat /\ Behind(h, a) <= t /\ Behind(h, a) > a
                      /\ h[a].size \in Int /\ Behind(h, a) = a + h[a].size + SLOT
      /\ \A a \in B : a \in Nat /\ r <= a /\ a \in DOMAIN h /\ t <= r
      /\ \A a \in DOMAIN h : h[a].used => ~h[a].stub /\ h[a].size \in Nat
  BY ShapeTypes
<1>1. /\ RingHeads(h) /\ Tiles(h, A, 0, t) /\ Walkable(h, Begins(h, A)) /\ LastIs(h, A, t, f)
      /\ Tiles(h, B, r, buffer_to) /\ f \in Addresses /\ t <= r
  BY DEF Shape
<1> DEFINE q == p - SLOT
<1>2. q \in A /\ q \in Nat /\ q + SLOT = p /\ q < e /\ h[q].used /\ ~h[q].stub /\ e \in Nat
      /\ q \in DOMAIN h /\ e \in DOMAIN h
  BY <1>0
<1>3. Behind(h, q) = q + h[q].size + SLOT /\ h[q].size \in Nat /\ e >= Behind(h, q)
  BY <1>0, <1>1, <1>2 DEF Tiles
<1>4. p <= e
  BY <1>0, <1>2, <1>3
<1>5. /\ DOMAIN g = {s \in DOMAIN h : s < p \/ e <= s}
      /\ q \in DOMAIN g /\ g[q].size = e - p /\ g[e].prev_offset = e - p
      /\ \A a \in DOMAIN g : /\ a # q => g[a].size = h[a].size
                             /\ g[a].used = h[a].used /\ g[a].stub = h[a].stub
                             /\ a # e => g[a].prev_offset = h[a].prev_offset
  <2>1. PICK k : k = Relinked(h, p, e)
    OBVIOUS
  <2>2. RelinkedHeads(h, k, p, e)
    BY <2>1, <1>2, RelinksHeads
  <2>3. ReachedHeads(k, g, p, e)
    BY <2>1, <2>2, <1>2, ReachesHeads DEF RelinkedHeads
  <2>4. e \in DOMAIN g
    BY <2>2, <2>3, <1>2, <1>4 DEF ReachedHeads, RelinkedHeads
  <2> QED BY <2>2, <2>3, <2>4 DEF ReachedHeads, RelinkedHeads
<1> HIDE DEF q
<1>6. \A c \in A : c \in C <=> c <= q \/ e <= c
  BY DEF q
<1>7. C \subseteq A /\ C \subseteq DOMAIN g
  <2>1. \A c \in C : c \in A /\ c \in Nat /\ c \in DOMAIN h /\ (c < p \/ e <= c)
    BY <1>0, <1>2, <1>6
  <2> QED BY <2>1, <1>5
<1>8. /\ Behind(g, q) = e
      /\ \A a \in DOMAIN g : a # q => Behind(g, a) = Behind(h, a)
  BY <1>0, <1>2, <1>4, <1>5 DEF Behind
<1>9. RingHeads(g)
  <2> SUFFICES ASSUME NEW a \in DOMAIN g
               PROVE  /\ a \in Addresses /\ g[a].prev_offset \in Nat /\ g[a].size \in Int
                      /\ Behind(g, a) >= a /\ (a # buffer_to => Behind(g, a) > a)
                      /\ IF g[a].stub THEN ~g[a].used ELSE g[a].size \in Nat
    BY DEF RingHeads
  <2>1. /\ a \in DOMAIN h /\ a \in Addresses /\ h[a].prev_offset \in Nat /\ h[a].size \in Int
        /\ Behind(h, a) >= a /\ (a # buffer_to => Behind(h, a) > a)
        /\ IF h[a].stub THEN ~h[a].used ELSE h[a].size \in Nat
    BY <1>1, <1>5 DEF RingHeads
  <2>2. e - p \in Nat
    BY <1>2, <1>4
  <2>3. g[a].prev_offset \in Nat
    BY <2>1, <2>2, <1>5
  <2>4. CASE a = q
    BY <2>1, <2>2, <2>3, <2>4, <1>2, <1>5, <1>8
  <2>5. CASE a # q
    BY <2>1, <2>3, <2>5, <1>5, <1>8
  <2> QED BY <2>4, <2>5
<1>10. Tiles(g, C, 0, t)
  <2>1. 0 \in Addresses /\ t \in Addresses /\ 0 <= t /\ (0 # t => 0 \in C)
    BY <1>0, <1>1, <1>2, <1>6 DEF Tiles
  <2>2. ASSUME NEW a \in C
        PROVE  /\ 0 <= a /\ a < t
               /\ Behind(g, a) > a /\ Behind(g, a) \in C \cup {t}
               /\ \A c \in C : c > a => c >= Behind(g, a)
    <3>1. /\ a \in A /\ a \in Nat /\ a < t /\ Behind(h, a) > a /\ Behind(h, a) \in A \cup {t}
          /\ Behind(h, a) \in Nat
          /\ \A c \in A : c > a => c >= Behind(h, a)
      BY <1>0, <1>1, <1>7 DEF Tiles
    <3>2. CASE a = q
      <4>1. e \in C
        BY <1>2, <1>6
      <4>2. ASSUME NEW c \in C, c > q PROVE c >= e
        <5>1. c \in A /\ c \in Nat
          BY <1>0, <1>7
        <5>2. c <= q \/ e <= c
          BY <5>1, <1>6
        <5> QED BY <4>2, <5>1, <5>2, <1>2
      <4> QED BY <4>1, <4>2, <3>1, <3>2, <1>2, <1>8
    <3>3. CASE a < q
      <4>1. Behind(h, a) <= q /\ Behind(h, a) \in C
        <5>1. Behind(h, a) <= q
          BY <3>1, <3>3, <1>2
        <5>2. Behind(h, a) \in A
          BY <5>1, <3>1, <1>0, <1>2
        <5> QED BY <5>1, <5>2, <1>6
      <4> QED BY <4>1, <3>1, <3>3, <1>7, <1>8, <1>2
    <3>4. CASE e <= a
      <4>1. Behind(h, a) \in C \cup {t}
        <5>1. Behind(h, a) \in A => e <= Behind(h, a)
          BY <3>1, <3>4, <1>2
        <5> QED BY <5>1, <3>1, <1>6
      <4>2. a # q
        BY <3>4, <1>2
      <4> QED BY <4>1, <4>2, <3>1, <1>7, <1>8
    <3> QED BY <3>1, <3>2, <3>3, <3>4, <1>2, <1>6
  <2> QED BY <2>1, <2>2, <1>7 DEF Tiles
<1>11. e + SLOT \in Begins(h, A) /\ (e + SLOT) - SLOT = e
  BY BeginOf
<1>12. p \in Begins(h, A)
  <2>1. q + SLOT \in Begins(h, A)
    BY <1>2, BeginOf
  <2> QED BY <2>1, <1>2
<1>13. \A u : u \in Begins(g, C) <=> u \in Begins(h, A) /\ (u <= p \/ e + SLOT <= u)
  <2> SUFFICES ASSUME NEW u \in 1 .. buffer_to
               PROVE  u \in Begins(g, C) <=> u \in Begins(h, A) /\ (u <= p \/ e + SLOT <= u)
    BY DEF Begins
  <2>1. u - SLOT \in C <=> u - SLOT \in A /\ (u <= p \/ e + SLOT <= u)
    <3>1. u - SLOT <= q \/ e <= u - SLOT <=> u <= p \/ e + SLOT <= u
      BY <1>0, <1>2
    <3> QED BY <3>1, <1>6, <1>7
  <2>2. u - SLOT \in C => g[u - SLOT].stub = h[u - SLOT].stub
    BY <1>5, <1>7
  <2> QED BY <2>1, <2>2 DEF Begins
<1>14. \A u \in Begins(h, A) : u \in Nat /\ u <= f
  BY LastBegin
<1>15. Walkable(g, Begins(g, C))
  <2> SUFFICES ASSUME NEW u \in Begins(g, C)
               PROVE  /\ u \in 1 .. buffer_to /\ u - SLOT \in DOMAIN g
                      /\ Previous(g, u) \in Begins(g, C) \cup {0}
                      /\ \A v \in Begins(g, C) : v < u => v <= Previous(g, u)
    BY DEF Walkable
  <2>1. /\ u \in Begins(h, A) /\ (u <= p \/ e + SLOT <= u) /\ u \in Nat
        /\ u \in 1 .. buffer_to /\ Previous(h, u) \in Begins(h, A) \cup {0}
        /\ \A v \in Begins(h, A) : v < u => v <= Previous(h, u)
    BY <1>1, <1>13, <1>14 DEF Walkable
  <2>2. u - SLOT \in DOMAIN g
    BY <1>7 DEF Begins
  <2>3. CASE u = e + SLOT
    <3>1. Previous(g, u) = p
      <4>1. u - SLOT = e
        BY <2>3, <1>11
      <4>2. e - (e - p) = p
        BY <1>2
      <4> QED BY <4>1, <4>2, <1>5 DEF Previous
    <3>2. p \in Begins(g, C)
      BY <1>12, <1>13
    <3>3. \A v \in Begins(g, C) : v < u => v <= p
      BY <2>3, <1>0, <1>2, <1>13, <1>14
    <3> QED BY <2>1, <2>2, <3>1, <3>2, <3>3
  <2>4. CASE u # e + SLOT
    <3>1. PICK v : v = Previous(h, u)
      OBVIOUS
    <3>2. Previous(g, u) = v
      <4>1. u - SLOT # e
        BY <2>1, <2>4, <1>0, <1>2
      <4> QED BY <4>1, <3>1, <2>2, <1>5 DEF Previous
    <3>3. v \in Nat
      <4>1. v \in Begins(h, A) \/ v = 0
        BY <3>1, <2>1
      <4> QED BY <4>1, <1>14
    <3>4. v <= u
      <4>1. u - SLOT \in DOMAIN h
        BY <2>2, <1>5
      <4>2. h[u - SLOT].prev_offset \in Nat
        BY <4>1, <1>1 DEF RingHeads
      <4> QED BY <4>2, <3>1, <2>1, <1>0 DEF Previous
    <3>5. e + SLOT <= u => e + SLOT <= v
      BY <3>1, <2>1, <2>4, <1>0, <1>2, <1>11
    <3>6. v \in Begins(g, C) \cup {0}
      BY <3>1, <3>3, <3>4, <3>5, <2>1, <1>2, <1>13
    <3> QED BY <3>1, <3>2, <3>6, <2>1, <2>2, <1>13
  <2> QED BY <2>3, <2>4
<1>16. LastIs(g, C, t, f)
  <2>1. f # 0 /\ e + SLOT <= f
    BY <1>0, <1>2, <1>11, <1>14
  <2>2. f - SLOT \in A /\ h[f - SLOT].used /\ \A c \in A : c > f - SLOT => h[c].stub
    BY <2>1, <1>1 DEF LastIs
  <2>3. e <= f - SLOT
    BY <2>1, <1>0, <1>2
  <2>4. f - SLOT \in C
    BY <2>2, <2>3, <1>6
  <2> QED BY <2>1, <2>2, <2>4, <1>5, <1>7 DEF LastIs
<1>17. \A a \in B : a \in DOMAIN g /\ a # q
  <2> SUFFICES ASSUME NEW a \in B PROVE a \in DOMAIN g /\ a # q
    OBVIOUS
  <2>1. a \in Nat /\ a \in DOMAIN h /\ e < t /\ t <= r /\ r <= a
    BY <1>0, <1>2
  <2>2. e <= a /\ a # q
    BY <2>1, <1>0, <1>2
  <2> QED BY <2>1, <2>2, <1>5
<1>18. Tiles(g, B, r, buffer_to)
  <2>1. \A a \in B : Behind(g, a) = Behind(h, a)
    BY <1>8, <1>17
  <2>2. B \subseteq DOMAIN g
    BY <1>17
  <2> QED BY <2>1, <2>2, <1>1 DEF Tiles
<1>19. Shape(g, C, B, t, f, r)
  BY <1>1, <1>9, <1>10, <1>15, <1>16, <1>18 DEF Shape
<1>20. \A a \in C \cup B : a # q => (g[a].used <=> h[a].used) /\ g[a].size = h[a].size
  BY <1>5, <1>7, <1>17
<1>21. g[q].used
  BY <1>2, <1>5
<1> QED BY <1>4, <1>5, <1>19, <1>20, <1>21 DEF q, Regiven

\* the last block is given another end
LEMMA ShapeGrow ==
  ASSUME NEW h, NEW A, NEW B, NEW t, NEW f, NEW r, Shape(h, A, B, t, f, r),
         NEW p \in Nat, p - SLOT \in A, h[p - SLOT].used,
         \A c \in A : c > p - SLOT => ~h[c].used,
         NEW y \in Nat, p <= y, y <= r,
         NEW g, g = Reaches(h, p, y),
         NEW C, C = {c \in A : c <= p - SLOT}
  PROVE  Shape(g, C, B, y, p, r) /\ f = p /\ Regiven(h, g, C \cup B, p, y)
<1>0. /\ buffer_to \in Nat /\ SLOT \in Nat \ {0} /\ t \in Nat /\ f \in Nat
      /\ r \in Nat /\ r <= buffer_to
      /\ \A a \in A : /\ a \in Nat /\ a < t /\ a \in DOMAIN h
                      /\ Behind(h, a) \in Nat /\ Behind(h, a) <= t /\ Behind(h, a) > a
      /\ \A a \in B : a \in Nat /\ r <= a /\ a \in DOMAIN h
      /\ \A a \in DOMAIN h : h[a].used => ~h[a].stub /\ h[a].size \in Nat
  BY ShapeTypes
<1>1. /\ RingHeads(h) /\ Tiles(h, A, 0, t) /\ Walkable(h, Begins(h, A)) /\ LastIs(h, A, t, f)
      /\ Tiles(h, B, r, buffer_to) /\ f \in Addresses
  BY DEF Shape
<1> DEFINE q == p - SLOT
<1>2. q \in A /\ q \in Nat /\ q + SLOT = p /\ h[q].used /\ ~h[q].stub /\ q \in DOMAIN h
  BY <1>0
<1>3. f = p
  <2>1. f # 0
    BY <1>2, LastBegin
  <2>2. f - SLOT \in A /\ h[f - SLOT].used /\ \A c \in A : c > f - SLOT => h[c].stub
    BY <2>1, <1>1 DEF LastIs
  <2>3. ~(f - SLOT > q) /\ ~(q > f - SLOT)
    BY <2>2, <1>2
  <2> QED BY <2>3, <1>0, <1>2
<1>4. /\ DOMAIN g = {s \in DOMAIN h : s < p \/ y <= s}
      /\ q \in DOMAIN g /\ g[q].size = y - p
      /\ \A a \in DOMAIN g : /\ a # q => g[a].size = h[a].size
                             /\ g[a].used = h[a].used /\ g[a].stub = h[a].stub
                             /\ g[a].prev_offset = h[a].prev_offset
  <2>1. ReachedHeads(h, g, p, y)
    BY <1>2, ReachesHeads
  <2> QED BY <2>1 DEF ReachedHeads
<1> HIDE DEF q
<1>5. \A c : c \in C <=> c \in A /\ c <= q
  BY DEF q
<1>6. C \subseteq A /\ C \subseteq DOMAIN g
  <2>1. \A c \in C : c \in A /\ c \in DOMAIN h /\ c < p
    BY <1>0, <1>2, <1>5
  <2> QED BY <2>1, <1>4
<1>7. /\ Behind(g, q) = y
      /\ \A a \in DOMAIN g : a # q => Behind(g, a) = Behind(h, a)
  BY <1>0, <1>2, <1>4 DEF Behind
<1>8. RingHeads(g)
  <2> SUFFICES ASSUME NEW a \in DOMAIN g
               PROVE  /\ a \in Addresses /\ g[a].prev_offset \in Nat /\ g[a].size \in Int
                      /\ Behind(g, a) >= a /\ (a # buffer_to => Behind(g, a) > a)
                      /\ IF g[a].stub THEN ~g[a].used ELSE g[a].size \in Nat
    BY DEF RingHeads
  <2>1. /\ a \in DOMAIN h /\ a \in Addresses /\ h[a].prev_offset \in Nat /\ h[a].size \in Int
        /\ Behind(h, a) >= a /\ (a # buffer_to => Behind(h, a) > a)
        /\ IF h[a].stub THEN ~h[a].used ELSE h[a].size \in Nat
    BY <1>1, <1>4 DEF RingHeads
  <2>2. y - p \in Nat /\ y > q
    BY <1>0, <1>2
  <2>3. CASE a = q
    BY <2>1, <2>2, <2>3, <1>2, <1>4, <1>7
  <2>4. CASE a # q
    BY <2>1, <2>4, <1>4, <1>7
  <2> QED BY <2>3, <2>4
<1>9. Tiles(g, C, 0, y)
  <2>1. 0 \in Addresses /\ y \in Addresses /\ 0 <= y /\ 0 \in C
    BY <1>0, <1>1, <1>2, <1>5 DEF Tiles, Addresses
  <2>2. ASSUME NEW a \in C
        PROVE  /\ 0 <= a /\ a < y
               /\ Behind(g, a) > a /\ Behind(g, a) \in C \cup {y}
               /\ \A c \in C : c > a => c >= Behind(g, a)
    <3>1. /\ a \in A /\ a \in Nat /\ a <= q /\ Behind(h, a) > a /\ Behind(h, a) \in A \cup {t}
          /\ Behind(h, a) \in Nat
          /\ \A c \in A : c > a => c >= Behind(h, a)
      BY <1>0, <1>1, <1>5 DEF Tiles
    <3>2. CASE a = q
      <4>1. \A c \in C : ~(c > q)
        BY <1>0, <1>2, <1>5
      <4> QED BY <4>1, <3>1, <3>2, <1>0, <1>2, <1>7
    <3>3. CASE a # q
      <4>1. Behind(h, a) <= q /\ Behind(h, a) \in C /\ a < y
        <5>1. Behind(h, a) <= q
          BY <3>1, <3>3, <1>2
        <5>2. Behind(h, a) \in A
          BY <5>1, <3>1, <1>0, <1>2
        <5> QED BY <5>1, <5>2, <3>1, <1>0, <1>2, <1>5
      <4> QED BY <4>1, <3>1, <3>3, <1>6, <1>7
    <3> QED BY <3>2, <3>3
  <2> QED BY <2>1, <2>2, <1>6 DEF Tiles
<1>10. \A u \in Begins(h, A) : u \in Nat /\ u <= p
  BY <1>3, LastBegin
<1>11. \A u : u \in Begins(g, C) <=> u \in Begins(h, A)
  <2> SUFFICES ASSUME NEW u \in 1 .. buffer_to
               PROVE  u \in Begins(g, C) <=> u \in Begins(h, A)
    BY DEF Begins
  <2>1. u \in Begins(h, A) => u - SLOT \in C
    <3>1. u \in Begins(h, A) => u <= p /\ u \in Nat /\ u - SLOT \in A
      BY <1>10 DEF Begins
    <3> QED BY <3>1, <1>0, <1>2, <1>5
  <2>2. u - SLOT \in C => g[u - SLOT].stub = h[u - SLOT].stub
    BY <1>4, <1>6
  <2> QED BY <2>1, <2>2, <1>6 DEF Begins
<1>12. Walkable(g, Begins(g, C))
  <2>1. Begins(g, C) = Begins(h, A)
    BY <1>11
  <2>2. \A u \in Begins(h, A) : u - SLOT \in DOMAIN g /\ Previous(g, u) = Previous(h, u)
    <3> SUFFICES ASSUME NEW u \in Begins(g, C)
                 PROVE  u - SLOT \in DOMAIN g /\ Previous(g, u) = Previous(h, u)
      BY <2>1
    <3>1. u - SLOT \in DOMAIN g
      BY <1>6 DEF Begins
    <3> QED BY <3>1, <1>4 DEF Previous
  <2> QED BY <2>1, <2>2, <1>1 DEF Walkable
<1>13. LastIs(g, C, y, p)
  <2>1. q \in C /\ g[q].used /\ \A c \in C : ~(c > q)
    BY <1>0, <1>2, <1>4, <1>5
  <2>2. p # 0
    BY <1>0, <1>2
  <2> QED BY <2>1, <2>2 DEF LastIs, q
<1>14. \A a \in B : a \in DOMAIN g /\ a # q
  <2> SUFFICES ASSUME NEW a \in B PROVE a \in DOMAIN g /\ a # q
    OBVIOUS
  <2>1. a \in Nat /\ a \in DOMAIN h /\ y <= a
    BY <1>0
  <2>2. a # q
    BY <2>1, <1>0, <1>2
  <2> QED BY <2>1, <2>2, <1>4
<1>15. Tiles(g, B, r, buffer_to)
  <2>1. \A a \in B : Behind(g, a) = Behind(h, a)
    BY <1>7, <1>14
  <2>2. B \subseteq DOMAIN g
    BY <1>14
  <2> QED BY <2>1, <2>2, <1>1 DEF Tiles
<1>16. Shape(g, C, B, y, p, r)
  BY <1>1, <1>3, <1>8, <1>9, <1>12, <1>13, <1>15 DEF Shape
<1>17. \A a \in C \cup B : a # q => (g[a].used <=> h[a].used) /\ g[a].size = h[a].size
  BY <1>4, <1>6, <1>14
<1>18. g[q].used
  BY <1>2, <1>4
<1> QED BY <1>3, <1>4, <1>16, <1>17, <1>18 DEF q, Regiven

\* the block is the client's still
LEMMA OwnedResized ==
  ASSUME NEW h, NEW A, NEW H, Owned(h, A, H), \A c \in H : c.at \in Nat, \A a \in A : a \in Nat,
         NEW b \in H, NEW c, c.at = b.at, c.align = b.align,
         NEW g, NEW C, C \subseteq A, b.at - SLOT \in C, \A a \in A \ C : ~h[a].used,
         g[b.at - SLOT].used, c.size <= g[b.at - SLOT].size,
         \A a \in C : a # b.at - SLOT => (g[a].used <=> h[a].used) /\ g[a].size = h[a].size
  PROVE  Owned(g, C, (H \ {b}) \cup {c})
<1>0. SLOT \in Nat \ {0} /\ b.at \in Nat
  BY AllocatorsAssumption
<1> DEFINE G == (H \ {b}) \cup {c}
<1>1. ASSUME NEW d \in H \ {b}
      PROVE  /\ d.at # b.at /\ d.at - SLOT \in C /\ g[d.at - SLOT].used
             /\ d.size <= g[d.at - SLOT].size
             /\ d.align \in Nat \ {0} /\ d.at % d.align = 0
  <2>1. /\ d.at # b.at /\ d.at \in Nat /\ d.at - SLOT \in A /\ h[d.at - SLOT].used
        /\ d.size <= h[d.at - SLOT].size /\ d.align \in Nat \ {0} /\ d.at % d.align = 0
    BY DEF Owned
  <2>2. d.at - SLOT \in C /\ d.at - SLOT # b.at - SLOT
    BY <2>1, <1>0
  <2>3. (g[d.at - SLOT].used <=> h[d.at - SLOT].used) /\ g[d.at - SLOT].size = h[d.at - SLOT].size
    BY <2>2
  <2> QED BY <2>1, <2>2, <2>3
<1>2. /\ c.at - SLOT \in C /\ g[c.at - SLOT].used /\ c.size <= g[c.at - SLOT].size
      /\ c.align \in Nat \ {0} /\ c.at % c.align = 0
  <2>1. b.align \in Nat \ {0} /\ b.at % b.align = 0
    BY DEF Owned
  <2> QED BY <2>1
<1>3. \A d, e \in G : d.at = e.at => d = e
  <2>1. \A d, e \in H \ {b} : d.at = e.at => d = e
    BY DEF Owned
  <2> QED BY <2>1, <1>1
<1>4. ASSUME NEW a \in C, g[a].used PROVE \E d \in G : d.at = a + SLOT
  <2>1. CASE a = b.at - SLOT
    <3>1. c.at = a + SLOT
      BY <2>1, <1>0
    <3> QED BY <3>1
  <2>2. CASE a # b.at - SLOT
    <3>1. a \in A /\ h[a].used /\ a \in Nat
      BY <2>2, <1>4
    <3>2. PICK d \in H : d.at = a + SLOT
      BY <3>1 DEF Owned
    <3>3. d # b
      BY <3>1, <3>2, <2>2, <1>0
    <3> QED BY <3>2, <3>3
  <2> QED BY <2>1, <2>2
<1>5. \A d \in G : /\ d.at - SLOT \in C /\ g[d.at - SLOT].used
                   /\ d.size <= g[d.at - SLOT].size
                   /\ d.align \in Nat \ {0} /\ d.at % d.align = 0
  BY <1>1, <1>2
<1> HIDE DEF G
<1> QED BY <1>3, <1>4, <1>5 DEF Owned, G

-----------------------------------------------------------------------------
(* The ring *)

RingTypes == IsFiniteSet(live) /\ \A b \in live : b.at \in Nat /\ b.size \in Nat

\* what the parent has given out is what the client holds of it, aligned to a
\* header at least
RingParent ==
  /\ \A p \in parent : \E b \in live \ Held : p.at = b.at
  /\ \A b \in live \ Held : \E p \in parent : p.at = b.at
  /\ \A b, c \in live \ Held : b.at = c.at => b = c
  /\ \A b \in live \ Held, p \in parent :
       p.at = b.at => /\ p.size = b.size /\ p.align = AtLeast(b.align, SLOT)
                      /\ b.align \in Nat \ {0} /\ (b.align < SLOT => SLOT % b.align = 0)

RingCount == current_alloced = SlotSum(slots, Held)

RingHolds(A, B) ==
  /\ Shape(slots, A, B, last_block_to, last_block_from, remainder_from)
  /\ Owned(slots, A \cup B, Held)

RingInv ==
  /\ RingTypes /\ RingParent /\ RingCount
  /\ \E A, B \in SUBSET Addresses : RingHolds(A, B)

LEMMA ShapeInside ==
  ASSUME NEW h, NEW A, NEW B, NEW t, NEW f, NEW r, Shape(h, A, B, t, f, r)
  PROVE  A \in SUBSET Addresses /\ B \in SUBSET Addresses
<1>1. RingHeads(h) /\ Tiles(h, A, 0, t) /\ Tiles(h, B, r, buffer_to)
  BY DEF Shape
<1> QED BY <1>1 DEF Tiles, RingHeads

\* a step is done when it leaves headers of such a shape
LEMMA RingHeld ==
  ASSUME NEW g, g = slots', NEW t, t = last_block_to', NEW f, f = last_block_from',
         NEW r, r = remainder_from', NEW H, H = Held', NEW A, NEW B,
         Shape(g, A, B, t, f, r), Owned(g, A \cup B, H),
         NEW n, n = current_alloced', n = SlotSum(g, H), RingTypes', RingParent'
  PROVE  RingInv'
<1>1. A \in SUBSET Addresses /\ B \in SUBSET Addresses
  BY ShapeInside
<1>2. RingHolds(A, B)'
  BY DEF RingHolds, Shape, RingHeads, Behind, Tiles, Walkable, Previous, Begins, LastIs, Owned,
         Addresses
<1>3. RingCount'
  <2>1. SlotSum(g, H) = SlotSum(slots', Held')
    OBVIOUS
  <2> QED BY <2>1 DEF RingCount
<1>4. (\E X, Y \in SUBSET Addresses : RingHolds(X, Y))'
  BY <1>1, <1>2 DEF Addresses
<1> QED BY <1>3, <1>4 DEF RingInv

LEMMA HeldFinite == ASSUME RingTypes PROVE IsFiniteSet(Held) /\ Held \subseteq live
<1>1. Held \in SUBSET live
  BY DEF Held
<1> QED BY <1>1, FS_Subset DEF RingTypes

LEMMA RingInit == Ring!Init => RingInv
<1> SUFFICES ASSUME Ring!Init PROVE RingInv
  OBVIOUS
<1>1. /\ last_block_to = 0 /\ last_block_from = 0 /\ remainder_from = buffer_to
      /\ current_alloced = 0 /\ slots = [a \in {} |-> 0] /\ live = {} /\ parent = {}
  BY DEF Ring!Init, Ring!buffer_from
<1>2. Held = {} /\ SlotSum(slots, Held) = 0 /\ buffer_to \in Nat
  <2>1. Held = {}
    BY <1>1 DEF Held
  <2> DEFINE h == slots
             H == Held
  <2>2. H = {}
    BY <2>1
  <2> HIDE DEF h, H
  <2>3. SlotSum(h, H) = 0
    BY <2>2, SlotsNone
  <2> QED BY <2>1, <2>3, AllocatorsAssumption DEF h, H
<1>3. RingTypes /\ RingParent /\ RingCount
  BY <1>1, <1>2, FS_EmptySet DEF RingTypes, RingParent, RingCount
<1>4. DOMAIN slots = {}
  BY <1>1
<1>5. 0 \in Addresses /\ buffer_to \in Addresses
  BY <1>2 DEF Addresses
<1>6. Shape(slots, {}, {}, 0, 0, buffer_to)
  BY <1>2, <1>4, <1>5 DEF Shape, RingHeads, Tiles, Walkable, Begins, LastIs
<1>7. RingHolds({}, {})
  BY <1>1, <1>2, <1>6 DEF RingHolds, Owned
<1> QED BY <1>3, <1>7 DEF RingInv

\* where PlaceBlock puts a block and where what it takes ends
LEMMA RingAligned ==
  ASSUME NEW s \in Nat \ {0}, NEW a \in Nat \ {0}, a < SLOT => SLOT % a = 0, NEW t \in Nat
  PROVE  /\ Ring!PlaceFrom(t, a) \in Nat /\ t + SLOT <= Ring!PlaceFrom(t, a)
         /\ Ring!PlaceFrom(t, a) % a = 0
         /\ Ring!PlaceTo(t, s, a) \in Nat /\ Ring!PlaceFrom(t, a) + s <= Ring!PlaceTo(t, s, a)
<1>1. SLOT \in Nat \ {0} /\ t + SLOT \in Nat
  BY AllocatorsAssumption
<1> DEFINE m == IF a > SLOT THEN a ELSE SLOT
           x == align_forward(t + SLOT, m)
           y == align_forward(x + s, SLOT)
<1>2. m \in Nat \ {0} /\ m % a = 0
  <2>1. a % a = 0
    <3>1. (a * 1 + 0) % a = 0
      BY Remainder
    <3> QED BY <3>1
  <2>2. a = SLOT \/ a > SLOT \/ a < SLOT
    BY <1>1
  <2> QED BY <2>1, <2>2, <1>1
<1>3. Ring!PlaceFrom(t, a) = x
  BY DEF Ring!PlaceFrom, Ring!align_forward, align_forward, Ring!AtLeast
<1>4. Ring!PlaceTo(t, s, a) = align_forward(Ring!PlaceFrom(t, a) + s, SLOT)
  BY DEF Ring!PlaceTo, Ring!align_forward, align_forward
<1>5. Ring!PlaceTo(t, s, a) = y
  BY <1>3, <1>4
<1> HIDE DEF m
<1>6. x \in Nat /\ x >= t + SLOT /\ x % m = 0
  BY <1>1, <1>2, AlignForward
<1> HIDE DEF x
<1>7. x % a = 0
  BY <1>2, <1>6, MultipleOf
<1>8. x + s \in Nat
  BY <1>6
<1>9. y \in Nat /\ y >= x + s
  BY <1>1, <1>8, AlignForward
<1> HIDE DEF y
<1> QED BY <1>3, <1>5, <1>6, <1>7, <1>9, <1>1

\* PlaceBlock, with headers h that are of the shape A, B
LEMMA RingPlace ==
  ASSUME RingTypes, RingParent, NEW h, NEW A, NEW B, NEW t, NEW f, NEW r,
         Shape(h, A, B, t, f, r), Owned(h, A \cup B, Held), current_alloced = SlotSum(h, Held),
         NEW s \in Nat \ {0}, NEW a \in Nat \ {0}, a < SLOT => SLOT % a = 0,
         Ring!Fits(t, r, s, a), Ring!PlaceBlock(h, t, f, r, s, a)
  PROVE  RingInv'
<1> DEFINE x == Ring!PlaceFrom(t, a)
           y == Ring!PlaceTo(t, s, a)
           b == Block(x, s, a)
           C == A \cup {t, x - SLOT}
<1>0. /\ buffer_to \in Nat /\ SLOT \in Nat \ {0} /\ t \in Nat /\ r \in Nat /\ r <= buffer_to
  BY ShapeTypes
<1>1. /\ slots' = Placed(h, t, f, x, y)
      /\ last_block_to' = y /\ last_block_from' = x /\ remainder_from' = r
      /\ current_alloced' = current_alloced + y - x
      /\ live' = live \cup {b} /\ parent' = parent
  BY DEF Ring!PlaceBlock, Placed, Ring!Block, Block
<1>2. y <= r
  BY DEF Ring!Fits
<1>3. /\ x \in Nat /\ t + SLOT <= x /\ x % a = 0 /\ y \in Nat /\ x + s <= y
  BY <1>0, RingAligned
<1>4. b.at = x /\ b.size = s /\ b.align = a
  BY DEF Block
<1>5. PICK g : g = slots'
  OBVIOUS
<1> HIDE DEF x, y, b
<1>6. x < y /\ x < buffer_to
  BY <1>0, <1>2, <1>3
<1>7. /\ Shape(g, C, B, y, x, r)
      /\ x - SLOT \notin A \cup B
      /\ g[x - SLOT].size = y - x /\ g[x - SLOT].used
      /\ \A c \in A \cup B : g[c] = h[c]
      /\ \A c \in C \cup B : g[c].used => c \in A \cup B \cup {x - SLOT}
  <2>1. g = Placed(h, t, f, x, y) /\ C = A \cup {t, x - SLOT}
    BY <1>1, <1>5
  <2> HIDE DEF C
  <2> QED BY <2>1, <1>2, <1>3, <1>6, ShapePlace
<1>8. InBuffer(b)
  BY <1>3, <1>4, <1>6 DEF InBuffer, buffer_from
<1>9. Held' = Held \cup {b} /\ live' \ Held' = live \ Held
  BY <1>1, <1>8 DEF Held, InBuffer, buffer_from
<1>10. Owned(g, C \cup B, Held \cup {b}) /\ b \notin Held
  <2> DEFINE X == A \cup B
             Y == C \cup B
             H == Held
  <2>1. X \subseteq Y /\ x - SLOT \in Y
    OBVIOUS
  <2>2. b.size <= g[x - SLOT].size
    BY <1>0, <1>3, <1>4, <1>7
  <2>6. b.align \in Nat \ {0} /\ x % b.align = 0
    BY <1>3, <1>4
  <2>3. x - SLOT \notin X /\ Owned(h, X, H) /\ \A c \in X : g[c] = h[c]
    BY <1>7
  <2>4. \A c \in Y : g[c].used => c \in X \cup {x - SLOT}
    BY <1>7
  <2> HIDE DEF X, Y, H
  <2>7. x \in Nat /\ b.at = x /\ g[x - SLOT].used
    BY <1>3, <1>4, <1>7
  <2>5. OwnedWith(g, Y, x, H, b)
    BY <2>1, <2>2, <2>3, <2>4, <2>6, <2>7, OwnedPlace
  <2> QED BY <2>5 DEF Y, H, OwnedWith
<1>11. RingTypes'
  <2>1. IsFiniteSet(live')
    BY <1>1, FS_AddElement DEF RingTypes
  <2> QED BY <2>1, <1>1, <1>3, <1>4 DEF RingTypes
<1>12. RingParent'
  BY <1>1, <1>9 DEF RingParent, AtLeast
<1>13. current_alloced' = SlotSum(g, Held \cup {b})
  <2> DEFINE H == Held
             G == Held \cup {b}
  <2>1. IsFiniteSet(H) /\ IsFiniteSet(G) /\ b \in G /\ G \ {b} = H
    BY <1>10, HeldFinite, FS_AddElement
  <2>2. \A c \in H : c.at - SLOT \in A \cup B
    BY DEF Owned
  <2>3. \A c \in A \cup B : h[c].used => h[c].size \in Nat
    BY ShapeTypes
  <2>4. \A c \in H : h[c.at - SLOT].size = g[c.at - SLOT].size /\ h[c.at - SLOT].size \in Nat
    <3> TAKE c \in H
    <3>1. h[c.at - SLOT].used /\ c.at - SLOT \in A \cup B
      BY DEF Owned
    <3> QED BY <3>1, <2>3, <1>7
  <2>5. \A c \in G : g[c.at - SLOT].size \in Nat
    <3>1. g[b.at - SLOT].size \in Nat
      BY <1>3, <1>4, <1>6, <1>7
    <3> QED BY <3>1, <2>4
  <2>6. current_alloced = SlotSum(h, H)
    OBVIOUS
  <2> HIDE DEF G, H
  <2>7. SlotSum(h, H) = SlotSum(g, H)
    BY <2>1, <2>4, SlotsSame
  <2>8. SlotSum(g, G) = g[b.at - SLOT].size + SlotSum(g, G \ {b}) /\ SlotSum(g, G \ {b}) \in Nat
    BY <2>1, <2>5, SlotsTake
  <2>9. SlotSum(g, G) = (y - x) + SlotSum(h, H) /\ SlotSum(h, H) \in Nat
    BY <2>1, <2>7, <2>8, <1>4, <1>7
  <2> QED BY <2>6, <2>9, <1>1, <1>3 DEF G
<1> DEFINE G == Held \cup {b}
<1>14. /\ G = Held' /\ Owned(g, C \cup B, G) /\ current_alloced' = SlotSum(g, G)
  BY <1>9, <1>10, <1>13
<1> HIDE DEF G, C
<1> QED BY <1>1, <1>5, <1>7, <1>11, <1>12, <1>14, RingHeld

-----------------------------------------------------------------------------
(* The steps of the ring *)

\* a block that is asked of the parent leaves the blocks of the buffer alone
LEMMA RingOverflow ==
  ASSUME RingTypes, RingParent, Cardinality(live) < MaxLive,
         NEW s \in Nat \ {0}, NEW a \in Nat \ {0}, a < SLOT => SLOT % a = 0,
         Ring!ParentBlock(s, a)
  PROVE  RingTypes' /\ RingParent' /\ Held' = Held /\ current_alloced' = current_alloced
<1> DEFINE x == CHOOSE y \in PARENT .. PARENT + MaxLive : \A p \in parent : p.at # y
           b == Block(x, s, a)
           q == Block(x, s, AtLeast(a, SLOT))
<1>0. buffer_to \in Nat
  BY AllocatorsAssumption
<1>1. /\ live' = live \cup {b} /\ parent' = parent \cup {q} /\ current_alloced' = current_alloced
  BY DEF Ring!ParentBlock, Ring!ParentAllocate, Ring!PARENT, PARENT,
         Ring!Block, Block, Ring!AtLeast, AtLeast, Ring!counters
<1>2. x \in Nat /\ x >= buffer_to /\ \A p \in parent : p.at # x
  <2>1. x = CHOOSE y \in PARENT .. PARENT + MaxLive : \A p \in parent : p.at # y
    OBVIOUS
  <2>2. \A p \in parent : \E c \in live : p.at = c.at
    BY DEF RingParent
  <2> HIDE DEF x
  <2> QED BY <2>1, <2>2, ParentFree DEF RingTypes
<1>3. /\ b.at = x /\ b.size = s /\ b.align = a
      /\ q.at = x /\ q.size = s /\ q.align = AtLeast(a, SLOT)
  BY DEF Block
<1> HIDE DEF b, q, x
<1>4. ~InBuffer(b)
  BY <1>0, <1>2, <1>3 DEF InBuffer, buffer_from
<1>5. b \notin live /\ \A c \in live \ Held : c.at # x
  BY <1>0, <1>2, <1>3, <1>4 DEF RingParent, Held
<1>6. Held' = Held /\ live' \ Held' = (live \ Held) \cup {b}
  BY <1>1, <1>4, <1>5 DEF Held, InBuffer, buffer_from
<1>7. RingTypes'
  <2>1. IsFiniteSet(live')
    BY <1>1, FS_AddElement DEF RingTypes
  <2> QED BY <2>1, <1>1, <1>2, <1>3 DEF RingTypes
<1>8. RingParent'
  <2>1. /\ \A p \in parent' : \E c \in live' \ Held' : p.at = c.at
        /\ \A c \in live' \ Held' : \E p \in parent' : p.at = c.at
        /\ \A c, d \in live' \ Held' : c.at = d.at => c = d
    BY <1>1, <1>3, <1>5, <1>6 DEF RingParent
  <2>2. ASSUME NEW c \in live' \ Held', NEW p \in parent', p.at = c.at
        PROVE  /\ p.size = c.size /\ p.align = AtLeast(c.align, SLOT)
               /\ c.align \in Nat \ {0} /\ (c.align < SLOT => SLOT % c.align = 0)
    <3>1. CASE c = b
      <4>1. p = q
        BY <2>2, <3>1, <1>1, <1>2, <1>3
      <4> QED BY <3>1, <4>1, <1>3
    <3>2. CASE c # b
      <4>1. c \in live \ Held /\ p \in parent
        BY <2>2, <3>2, <1>1, <1>3, <1>5, <1>6
      <4> QED BY <2>2, <4>1 DEF RingParent
    <3> QED BY <3>1, <3>2
  <2> QED BY <2>1, <2>2 DEF RingParent, AtLeast
<1> QED BY <1>1, <1>6, <1>7, <1>8

\* where headers h of such a shape are all that the step leaves
LEMMA RingLeft ==
  ASSUME NEW g, g = slots', NEW t, t = last_block_to', NEW f, f = last_block_from',
         NEW r, r = remainder_from', NEW A, NEW B,
         Shape(g, A, B, t, f, r), Owned(g, A \cup B, Held),
         current_alloced = SlotSum(g, Held),
         RingTypes', RingParent', Held' = Held, current_alloced' = current_alloced
  PROVE  RingInv'
<1> DEFINE H == Held
           n == current_alloced
<1>1. H = Held' /\ n = current_alloced' /\ Owned(g, A \cup B, H) /\ n = SlotSum(g, H)
  OBVIOUS
<1> HIDE DEF H, n
<1> QED BY <1>1, RingHeld

LEMMA RingAllocate ==
  ASSUME RingInv, NEW s \in Nat \ {0}, NEW a \in Nat \ {0}, a < SLOT => SLOT % a = 0,
         Ring!Allocate(s, a)
  PROVE  RingInv'
<1>1. PICK A, B \in SUBSET Addresses : RingHolds(A, B)
  BY DEF RingInv
<1>2. /\ Shape(slots, A, B, last_block_to, last_block_from, remainder_from)
      /\ Owned(slots, A \cup B, Held) /\ current_alloced = SlotSum(slots, Held)
      /\ RingTypes /\ RingParent
  BY <1>1 DEF RingInv, RingHolds, RingCount
<1>3. PICK h, t, f, r : h = slots /\ t = last_block_to /\ f = last_block_from /\ r = remainder_from
  OBVIOUS
<1>4. Ring!Fits(t, r, s, a) /\ Ring!PlaceBlock(h, t, f, r, s, a)
  BY <1>3 DEF Ring!Allocate
<1> QED BY <1>2, <1>3, <1>4, RingPlace

LEMMA RingStays ==
  ASSUME RingInv, Cardinality(live) < MaxLive,
         NEW s \in Nat \ {0}, NEW a \in Nat \ {0}, a < SLOT => SLOT % a = 0,
         Ring!AllocateTooLarge(s, a) \/ Ring!AllocateStays(s, a)
  PROVE  RingInv'
<1>1. PICK A, B \in SUBSET Addresses : RingHolds(A, B)
  BY DEF RingInv
<1>2. /\ Ring!ParentBlock(s, a)
      /\ UNCHANGED <<last_block_to, last_block_from, remainder_from, slots>>
  BY DEF Ring!AllocateTooLarge, Ring!AllocateStays, Ring!pointers
<1>3. RingTypes' /\ RingParent' /\ Held' = Held /\ current_alloced' = current_alloced
  BY <1>2, RingOverflow DEF RingInv
<1>4. PICK h, t, f, r : h = slots' /\ t = last_block_to' /\ f = last_block_from' /\ r = remainder_from'
  OBVIOUS
<1>5. Shape(h, A, B, t, f, r) /\ Owned(h, A \cup B, Held) /\ current_alloced = SlotSum(h, Held)
  <2>1. h = slots /\ t = last_block_to /\ f = last_block_from /\ r = remainder_from
    BY <1>2, <1>4
  <2> QED BY <2>1, <1>1 DEF RingInv, RingHolds, RingCount
<1> QED BY <1>3, <1>4, <1>5, RingLeft

LEMMA RingFromRemainder ==
  ASSUME RingInv, Cardinality(live) < MaxLive,
         NEW s \in Nat \ {0}, NEW a \in Nat \ {0}, a < SLOT => SLOT % a = 0,
         Ring!AllocateFromRemainder(s, a)
  PROVE  RingInv'
<1>1. PICK A, B \in SUBSET Addresses : RingHolds(A, B)
  BY DEF RingInv
<1>2. PICK h, t, f, r : h = slots /\ t = last_block_to /\ f = last_block_from /\ r = remainder_from
  OBVIOUS
<1>3. /\ Shape(h, A, B, t, f, r) /\ Owned(h, A \cup B, Held)
      /\ current_alloced = SlotSum(h, Held) /\ RingTypes /\ RingParent
  BY <1>1, <1>2 DEF RingInv, RingHolds, RingCount
<1>4. PICK u : u = Ring!deallocate_from_front(remainder_from, buffer_to)
  OBVIOUS
<1> DEFINE C == {c \in B : u <= c}
<1>5. Shape(h, A, C, t, f, u) /\ Owned(h, A \cup C, Held)
  <2>1. RingHeads(slots) /\ Tiles(slots, B, r, buffer_to)
    BY <1>2, <1>3 DEF Shape
  <2>2. FirstUsed(B, r, buffer_to, u)
    BY <2>1, <1>2, <1>4, FrontFinds
  <2>3. u \in B \cup {buffer_to} /\ \A c \in B : c < u => ~h[c].used
    <3>1. \A c \in B : r <= c
      BY <2>1 DEF Tiles
    <3> QED BY <2>2, <3>1, <1>2 DEF FirstUsed
  <2> DEFINE H == Held
  <2>4. Owned(h, A \cup B, H)
    BY <1>3
  <2>5. C = {c \in B : u <= c}
    OBVIOUS
  <2> HIDE DEF C, H
  <2>6. Shape(h, A, C, t, f, u) /\ Owned(h, A \cup C, H)
    BY <2>3, <2>4, <2>5, <1>3, ShapeRemainder
  <2> QED BY <2>6 DEF H
<1> HIDE DEF C
<1>6. CASE Ring!Fits(last_block_to, u, s, a)
  <2>1. Ring!Fits(t, u, s, a) /\ Ring!PlaceBlock(h, t, f, u, s, a)
    BY <1>2, <1>4, <1>6 DEF Ring!AllocateFromRemainder
  <2> QED BY <2>1, <1>3, <1>5, RingPlace
<1>7. CASE ~Ring!Fits(last_block_to, u, s, a)
  <2>1. /\ Ring!ParentBlock(s, a) /\ remainder_from' = u
        /\ UNCHANGED <<last_block_to, last_block_from, slots>>
    BY <1>4, <1>7 DEF Ring!AllocateFromRemainder
  <2>2. RingTypes' /\ RingParent' /\ Held' = Held /\ current_alloced' = current_alloced
    BY <2>1, <1>3, RingOverflow
  <2>3. h = slots' /\ t = last_block_to' /\ f = last_block_from' /\ u = remainder_from'
    BY <2>1, <1>2
  <2> QED BY <2>2, <2>3, <1>3, <1>5, RingLeft
<1> QED BY <1>6, <1>7

\* the blocks of the buffer are all in front of the wrap
LEMMA NoOlder ==
  ASSUME NEW h, NEW A, NEW B, NEW t, NEW f, Shape(h, A, B, t, f, buffer_to)
  PROVE  B = {}
<1>1. \A a \in B : a \in Nat /\ buffer_to <= a /\ a < buffer_to
  BY ShapeTypes
<1> QED BY <1>1, AllocatorsAssumption

LEMMA RingWraps ==
  ASSUME RingInv, Cardinality(live) < MaxLive,
         NEW s \in Nat \ {0}, NEW a \in Nat \ {0}, a < SLOT => SLOT % a = 0,
         Ring!AllocateWraps(s, a)
  PROVE  RingInv'
<1>0. remainder_from = buffer_to
  BY DEF Ring!AllocateWraps
<1>1. PICK A, B \in SUBSET Addresses : RingHolds(A, B)
  BY DEF RingInv
<1>2. PICK h, t, f : h = slots /\ t = last_block_to /\ f = last_block_from
  OBVIOUS
<1>3. /\ Shape(h, A, B, t, f, buffer_to) /\ Owned(h, A \cup B, Held)
      /\ current_alloced = SlotSum(h, Held) /\ RingTypes /\ RingParent
  BY <1>0, <1>1, <1>2 DEF RingInv, RingHolds, RingCount
<1>4. B = {} /\ A \cup B = A
  BY <1>3, NoOlder
<1>5. PICK u : u = Ring!deallocate_from_front(0, last_block_to)
  OBVIOUS
<1>6. PICK g : g = Ring!Put(slots, last_block_to, Ring!EndStub)
  OBVIOUS
<1>7. /\ DOMAIN g = DOMAIN h \cup {t} /\ g[t] = Ring!Stub(buffer_to - (t + SLOT))
      /\ \A c \in DOMAIN h \ {t} : g[c] = h[c]
  BY <1>2, <1>6 DEF Ring!Put, Ring!EndStub
<1> DEFINE C == {c \in A : u <= c} \cup (IF t = buffer_to THEN {} ELSE {t})
<1>8. Shape(g, {}, C, 0, 0, u) /\ Owned(g, C, Held)
  <2>1. RingHeads(slots) /\ Tiles(slots, A, 0, last_block_to)
    BY <1>2, <1>3 DEF Shape
  <2>2. FirstUsed(A, 0, last_block_to, u)
    BY <2>1, <1>5, FrontFinds
  <2>3. u \in A \cup {t} /\ \A c \in A : c < u => ~h[c].used
    <3>1. \A c \in A : 0 <= c
      BY <2>1 DEF Tiles
    <3> QED BY <2>2, <3>1, <1>2 DEF FirstUsed
  <2> DEFINE H == Held
  <2>4. Owned(h, A, H)
    BY <1>3, <1>4
  <2>5. Shape(h, A, {}, t, f, buffer_to)
    BY <1>3, <1>4
  <2>6. C = {c \in A : u <= c} \cup (IF t = buffer_to THEN {} ELSE {t})
    OBVIOUS
  <2> HIDE DEF C, H
  <2>7. Shape(g, {}, C, 0, 0, u) /\ Owned(g, C, H)
    BY <2>3, <2>4, <2>5, <2>6, <1>7, ShapeWrap
  <2> QED BY <2>7 DEF H
<1>9. Owned(g, {} \cup C, Held)
  <2>1. {} \cup C = C
    OBVIOUS
  <2> HIDE DEF C
  <2> QED BY <2>1, <1>8
<1> HIDE DEF C
<1>10. current_alloced = SlotSum(g, Held)
  <2>1. \A c \in A : c \in DOMAIN h /\ c # t /\ (h[c].used => h[c].size \in Nat)
    <3>1. \A c \in A : c \in DOMAIN h /\ c \in Nat /\ c < t
      BY <1>3, ShapeTypes
    <3>2. \A c \in DOMAIN h : h[c].used => h[c].size \in Nat
      BY <1>3, ShapeTypes
    <3> QED BY <3>1, <3>2
  <2> DEFINE H == Held
  <2>2. \A b \in H : h[b.at - SLOT].size = g[b.at - SLOT].size /\ h[b.at - SLOT].size \in Nat
    <3> TAKE b \in H
    <3>1. b.at - SLOT \in A /\ h[b.at - SLOT].used
      BY <1>3, <1>4 DEF Owned
    <3> QED BY <3>1, <2>1, <1>7
  <2>3. IsFiniteSet(H) /\ current_alloced = SlotSum(h, H)
    BY <1>3, HeldFinite
  <2> HIDE DEF H
  <2>4. SlotSum(h, H) = SlotSum(g, H)
    BY <2>2, <2>3, SlotsSame
  <2> QED BY <2>3, <2>4 DEF H
<1>11. CASE Ring!Fits(0, u, s, a)
  <2>1. Ring!PlaceBlock(g, 0, 0, u, s, a)
    BY <1>5, <1>6, <1>11 DEF Ring!AllocateWraps, Ring!buffer_from
  <2> QED BY <2>1, <1>3, <1>8, <1>9, <1>10, <1>11, RingPlace
<1>12. CASE ~Ring!Fits(0, u, s, a)
  <2>1. /\ Ring!ParentBlock(s, a) /\ slots' = g
        /\ last_block_to' = 0 /\ last_block_from' = 0 /\ remainder_from' = u
    BY <1>5, <1>6, <1>12 DEF Ring!AllocateWraps, Ring!buffer_from
  <2>2. RingTypes' /\ RingParent' /\ Held' = Held /\ current_alloced' = current_alloced
    BY <2>1, <1>3, RingOverflow
  <2>3. PICK z : z = 0
    OBVIOUS
  <2>4. g = slots' /\ z = last_block_to' /\ z = last_block_from' /\ u = remainder_from'
    BY <2>1, <2>3
  <2>5. Shape(g, {}, C, z, z, u)
    BY <2>3, <1>8
  <2> QED BY <2>2, <2>4, <2>5, <1>9, <1>10, RingLeft
<1> QED BY <1>11, <1>12

LEMMA RingDeallocate ==
  ASSUME RingInv, NEW b \in live, Ring!Deallocate(b)
  PROVE  RingInv'
<1>1. PICK A, B \in SUBSET Addresses : RingHolds(A, B)
  BY DEF RingInv
<1>2. PICK h, r, H : h = slots /\ r = remainder_from /\ H = Held
  OBVIOUS
<1>3. /\ Shape(h, A, B, last_block_to, last_block_from, r) /\ Owned(h, A \cup B, H)
      /\ current_alloced = SlotSum(h, H) /\ RingTypes /\ RingParent
  BY <1>1, <1>2 DEF RingInv, RingHolds, RingCount
<1>4. PICK g, e : g = Freed(h, b.at - SLOT) /\ e = Ring!deallocate_from_back(g)
  OBVIOUS
<1>5. /\ InBuffer(b) /\ slots' = g
      /\ current_alloced' = current_alloced - h[b.at - SLOT].size
      /\ last_block_from' = e[1] /\ last_block_to' = e[2]
      /\ live' = live \ {b} /\ UNCHANGED <<remainder_from, parent>>
  BY <1>2, <1>4 DEF Ring!Deallocate, Freed, Ring!FreedBytes, Ring!InBuffer, InBuffer,
                    Ring!buffer_from, buffer_from
<1>6. b \in H /\ \A c \in H : c.at \in Nat
  BY <1>2, <1>3, <1>5 DEF Held, RingTypes
<1>7. PICK C \in SUBSET A : Shape(g, C, B, e[2], e[1], r) /\ Owned(g, C \cup B, H \ {b})
  <2>1. Popped(g, A, B, e, r, H \ {b})
    BY <1>3, <1>4, <1>6, ShapePop
  <2> QED BY <2>1 DEF Popped
<1>8. Held' = H \ {b} /\ live' \ Held' = live \ Held
  BY <1>2, <1>5, <1>6 DEF Held, InBuffer, buffer_from
<1>9. RingTypes'
  <2>1. IsFiniteSet(live')
    BY <1>3, <1>5, FS_RemoveElement DEF RingTypes
  <2> QED BY <2>1, <1>3, <1>5 DEF RingTypes
<1>10. RingParent'
  BY <1>3, <1>5, <1>8 DEF RingParent, AtLeast
<1>11. current_alloced' = SlotSum(g, H \ {b})
  <2> DEFINE G == H \ {b}
  <2>1. IsFiniteSet(H) /\ IsFiniteSet(G)
    <3>1. IsFiniteSet(H)
      BY <1>2, <1>3, HeldFinite
    <3> QED BY <3>1, FS_RemoveElement
  <2>2. \A c \in H : c.at - SLOT \in DOMAIN h /\ h[c.at - SLOT].size \in Nat
    <3> TAKE c \in H
    <3>1. c.at - SLOT \in A \cup B /\ h[c.at - SLOT].used
      BY <1>3 DEF Owned
    <3>2. c.at - SLOT \in DOMAIN h
      BY <3>1, <1>3, ShapeTypes
    <3>3. h[c.at - SLOT].size \in Nat
      BY <3>1, <3>2, <1>3, ShapeTypes
    <3> QED BY <3>2, <3>3
  <2>3. \A c \in DOMAIN h : g[c].size = h[c].size
    BY <1>4, <1>6, <2>2, FreedHeads
  <2>4. \A c \in G : h[c.at - SLOT].size = g[c.at - SLOT].size /\ h[c.at - SLOT].size \in Nat
    BY <2>2, <2>3
  <2>5. SlotSum(h, H) = h[b.at - SLOT].size + SlotSum(h, H \ {b}) /\ SlotSum(h, H \ {b}) \in Nat
    BY <1>6, <2>1, <2>2, SlotsTake
  <2>6. h[b.at - SLOT].size \in Nat
    BY <1>6, <2>2
  <2> HIDE DEF G
  <2>7. SlotSum(h, G) = SlotSum(g, G)
    BY <2>1, <2>4, SlotsSame
  <2>8. SlotSum(h, H) = h[b.at - SLOT].size + SlotSum(h, G) /\ SlotSum(h, G) \in Nat
    BY <2>5 DEF G
  <2> QED BY <2>6, <2>7, <2>8, <1>3, <1>5 DEF G
<1>12. PICK t, f, G : t = e[2] /\ f = e[1] /\ G = H \ {b}
  OBVIOUS
<1>13. /\ t = last_block_to' /\ f = last_block_from' /\ r = remainder_from' /\ G = Held'
       /\ Shape(g, C, B, t, f, r) /\ Owned(g, C \cup B, G) /\ current_alloced' = SlotSum(g, G)
  BY <1>2, <1>5, <1>7, <1>8, <1>11, <1>12
<1> QED BY <1>5, <1>9, <1>10, <1>13, RingHeld

\* where the blocks and the headers of the buffer stay what they are
LEMMA RingKept ==
  ASSUME RingInv, RingTypes', RingParent', Held' = Held,
         UNCHANGED <<last_block_to, last_block_from, remainder_from, current_alloced, slots>>
  PROVE  RingInv'
<1>1. PICK A, B \in SUBSET Addresses : RingHolds(A, B)
  BY DEF RingInv
<1>2. PICK h, t, f, r : h = slots' /\ t = last_block_to' /\ f = last_block_from' /\ r = remainder_from'
  OBVIOUS
<1>3. Shape(h, A, B, t, f, r) /\ Owned(h, A \cup B, Held) /\ current_alloced = SlotSum(h, Held)
  <2>1. h = slots /\ t = last_block_to /\ f = last_block_from /\ r = remainder_from
    BY <1>2
  <2> QED BY <2>1, <1>1 DEF RingInv, RingHolds, RingCount
<1> QED BY <1>2, <1>3, RingLeft

LEMMA RingDeallocateOverflow ==
  ASSUME RingInv, NEW b \in live, Ring!DeallocateOverflow(b)
  PROVE  RingInv'
<1>1. /\ ~InBuffer(b) /\ live' = live \ {b} /\ parent' = {p \in parent : p.at # b.at}
      /\ UNCHANGED <<last_block_to, last_block_from, remainder_from, current_alloced, slots>>
  BY DEF Ring!DeallocateOverflow, Ring!ParentDeallocate, Ring!InBuffer, InBuffer,
         Ring!buffer_from, buffer_from, Ring!pointers, Ring!counters
<1>2. b \in live \ Held /\ Held' = Held /\ live' \ Held' = (live \ Held) \ {b}
  BY <1>1 DEF Held, InBuffer, buffer_from
<1>3. RingTypes'
  <2>1. IsFiniteSet(live')
    BY <1>1, FS_RemoveElement DEF RingInv, RingTypes
  <2> QED BY <2>1, <1>1 DEF RingInv, RingTypes
<1>4. RingParent'
  BY <1>1, <1>2 DEF RingInv, RingParent, AtLeast
<1> QED BY <1>1, <1>2, <1>3, <1>4, RingKept

LEMMA RingSame ==
  ASSUME RingInv,
         UNCHANGED <<last_block_to, last_block_from, remainder_from, current_alloced, slots,
                     live, parent>>
  PROVE  RingInv'
<1>1. Held' = Held
  BY DEF Held, InBuffer, buffer_from
<1>2. RingTypes' /\ RingParent'
  BY <1>1 DEF RingInv, RingTypes, RingParent, AtLeast
<1> QED BY <1>1, <1>2, RingKept

\* the next multiple does not lie behind one
LEMMA AlignWithin ==
  ASSUME NEW p \in Nat, NEW a \in Nat \ {0}, NEW q \in Nat, q % a = 0, p <= q
  PROVE  align_forward(p, a) <= q
<1> DEFINE z == align_forward(p, a)
           k == q \div a
           l == z \div a
<1>1. z \in Nat /\ z < p + a /\ z % a = 0
  BY AlignForward
<1> HIDE DEF z
<1>2. k \in Int /\ q = a * k /\ l \in Int /\ z = a * l
  BY <1>1
<1> HIDE DEF k, l
<1>3. ASSUME z > q PROVE FALSE
  <2>1. PICK m \in Int : m = l - k
    BY <1>2
  <2>2. a * m = z - q
    BY <1>2, <2>1
  <2>3. m > 0
    <3>1. ASSUME ~(m > 0) PROVE FALSE
      <4>1. a * m <= 0
        BY <3>1, <2>1
      <4> QED BY <4>1, <2>2, <1>1, <1>3
    <3> QED BY <3>1
  <2>4. a * m >= a
    BY <2>3
  <2> QED BY <2>2, <2>4, <1>1
<1> QED BY <1>1, <1>3 DEF z

\* the headers g are those of h, but for a block at p that now holds n bytes
Resized(h, A, g, C, p, n) ==
  /\ C \subseteq A /\ p - SLOT \in C /\ \A a \in A \ C : ~h[a].used
  /\ g[p - SLOT].used /\ n <= g[p - SLOT].size
  /\ \A a \in C : a # p - SLOT => (g[a].used <=> h[a].used) /\ g[a].size = h[a].size

LEMMA RingResized ==
  ASSUME RingTypes, RingParent, NEW h, NEW A, NEW B, NEW t, NEW f, NEW r, Shape(h, A, B, t, f, r),
         NEW X, X = A \cup B,
         NEW H, H = Held, Owned(h, X, H), current_alloced = SlotSum(h, H),
         NEW b \in H, NEW n \in Nat, NEW c, c = Block(b.at, n, b.align),
         NEW g, g = slots', NEW C, NEW Y, Y = C \cup B, Resized(h, X, g, Y, b.at, n),
         NEW t2, t2 = last_block_to', NEW f2, f2 = last_block_from', NEW r2, r2 = remainder_from',
         Shape(g, C, B, t2, f2, r2),
         current_alloced' = current_alloced + g[b.at - SLOT].size - h[b.at - SLOT].size,
         live' = (live \ {b}) \cup {c}, parent' = parent
  PROVE  RingInv'
<1> DEFINE G == (H \ {b}) \cup {c}
<1>0. /\ \A a \in X : a \in Nat /\ a \in DOMAIN h /\ (h[a].used => h[a].size \in Nat)
      /\ \A a \in Y : a \in DOMAIN g /\ (g[a].used => g[a].size \in Nat)
      /\ SLOT \in Nat
  <2>1. \A a \in X : a \in Nat /\ a \in DOMAIN h
    BY ShapeTypes
  <2>2. \A a \in DOMAIN h : h[a].used => h[a].size \in Nat
    BY ShapeTypes
  <2>3. \A a \in Y : a \in Nat /\ a \in DOMAIN g
    BY ShapeTypes
  <2>4. \A a \in DOMAIN g : g[a].used => g[a].size \in Nat
    BY ShapeTypes
  <2> QED BY <2>1, <2>2, <2>3, <2>4, AllocatorsAssumption
<1>1. c.at = b.at /\ c.size = n /\ c.align = b.align
  BY DEF Block
<1>2. b \in live /\ InBuffer(b) /\ InBuffer(c) /\ b.at \in Nat /\ \A d \in H : d.at \in Nat
  BY <1>1 DEF Held, InBuffer, RingTypes
<1>3. Held' = G /\ live' \ Held' = live \ Held
  BY <1>2 DEF Held, InBuffer, buffer_from
<1>4. Owned(g, Y, G)
  <2>1. /\ Y \subseteq X /\ b.at - SLOT \in Y /\ \A a \in X \ Y : ~h[a].used
        /\ g[b.at - SLOT].used /\ c.size <= g[b.at - SLOT].size
        /\ \A a \in Y : a # b.at - SLOT => (g[a].used <=> h[a].used) /\ g[a].size = h[a].size
    BY <1>1 DEF Resized
  <2>2. \A a \in X : a \in Nat
    BY <1>0
  <2> QED BY <2>1, <2>2, <1>1, <1>2, OwnedResized
<1>5. c \notin H \ {b} /\ G \ {c} = H \ {b} /\ c \in G
  <2>1. c \notin H \ {b}
    BY <1>1 DEF Owned
  <2> QED BY <2>1
<1>6. IsFiniteSet(H) /\ IsFiniteSet(H \ {b}) /\ IsFiniteSet(G)
  <2>1. IsFiniteSet(H)
    BY HeldFinite
  <2>2. IsFiniteSet(H \ {b})
    BY <2>1, FS_RemoveElement
  <2> QED BY <2>1, <2>2, FS_AddElement
<1>7. \A d \in H : d.at - SLOT \in X /\ h[d.at - SLOT].size \in Nat
  BY <1>0 DEF Owned
<1>8. \A d \in G : d.at - SLOT \in Y /\ g[d.at - SLOT].size \in Nat
  <2> HIDE DEF G
  <2> QED BY <1>0, <1>4 DEF Owned
<1>9. \A d \in H \ {b} : g[d.at - SLOT].size = h[d.at - SLOT].size
  <2> TAKE d \in H \ {b}
  <2>1. d.at # b.at /\ d.at \in Nat
    BY <1>2 DEF Owned
  <2>2. d.at - SLOT # b.at - SLOT
    BY <2>1, <1>0, <1>2
  <2>3. d.at - SLOT \in Y
    BY <1>8
  <2> QED BY <2>2, <2>3 DEF Resized
<1> HIDE DEF G
<1>10. current_alloced' = SlotSum(g, G)
  <2> DEFINE K == H \ {b}
  <2>1. /\ IsFiniteSet(K) /\ K = G \ {c}
        /\ \A d \in K : h[d.at - SLOT].size = g[d.at - SLOT].size /\ h[d.at - SLOT].size \in Nat
    BY <1>5, <1>6, <1>7, <1>9
  <2>2. SlotSum(h, H) = h[b.at - SLOT].size + SlotSum(h, H \ {b}) /\ SlotSum(h, H \ {b}) \in Nat
    <3>1. \A d \in H : h[d.at - SLOT].size \in Nat
      BY <1>7
    <3>2. b \in H
      OBVIOUS
    <3> HIDE DEF K
    <3> QED BY ONLY <3>1, <3>2, <1>6, SlotsTake
  <2>3. SlotSum(g, G) = g[c.at - SLOT].size + SlotSum(g, G \ {c}) /\ SlotSum(g, G \ {c}) \in Nat
    <3>1. \A d \in G : g[d.at - SLOT].size \in Nat
      BY <1>8
    <3> HIDE DEF K
    <3> QED BY ONLY <3>1, <1>5, <1>6, SlotsTake
  <2>4. SlotSum(h, H) = h[b.at - SLOT].size + SlotSum(h, K) /\ SlotSum(h, K) \in Nat
    BY <2>2
  <2>5. SlotSum(g, G) = g[b.at - SLOT].size + SlotSum(g, K)
    BY <2>1, <2>3, <1>1
  <2> HIDE DEF K
  <2>6. SlotSum(h, K) = SlotSum(g, K)
    BY <2>1, SlotsSame
  <2>7. h[b.at - SLOT].size \in Nat /\ g[b.at - SLOT].size \in Nat
    BY <1>1, <1>5, <1>7, <1>8
  <2> QED BY <2>4, <2>5, <2>6, <2>7
<1>11. RingTypes'
  <2>1. IsFiniteSet(live \ {b})
    BY FS_RemoveElement DEF RingTypes
  <2>2. IsFiniteSet(live')
    BY <2>1, FS_AddElement
  <2>3. \A d \in live' : d.at \in Nat /\ d.size \in Nat
    BY <1>1, <1>2 DEF RingTypes
  <2> QED BY <2>2, <2>3 DEF RingTypes
<1>12. RingParent'
  BY <1>3 DEF RingParent, AtLeast
<1>13. Owned(g, C \cup B, G) /\ G = Held'
  BY <1>3, <1>4
<1> QED BY <1>10, <1>11, <1>12, <1>13, RingHeld

LEMMA RingResize ==
  ASSUME ~ResizesAnytime, RingInv, NEW b \in live, NEW n \in Nat, Ring!Resize(b, n)
  PROVE  RingInv'
<1>0. PICK A, B \in SUBSET Addresses : RingHolds(A, B)
  BY DEF RingInv
<1>1. PICK h, t, f, r, H : /\ h = slots /\ t = last_block_to /\ f = last_block_from
                           /\ r = remainder_from /\ H = Held
  OBVIOUS
<1>2. PICK e, p : e = Ring!ResizedEnd(p, n) /\ p = b.at
  OBVIOUS
<1>3. /\ InBuffer(b) /\ p <= t /\ e.to <= r /\ e.kind # "none"
      /\ slots' = Ring!Overwritten(
                    [(IF e.kind = "merged" THEN [h EXCEPT ![e.to].prev_offset = e.to - p] ELSE h)
                       EXCEPT ![p - SLOT].size = e.to - p], p, e.to)
      /\ last_block_to' = IF e.kind = "last" THEN e.to ELSE t
      /\ current_alloced' = current_alloced + (e.to - p) - h[p - SLOT].size
      /\ live' = (live \ {b}) \cup {Block(p, n, b.align)}
      /\ UNCHANGED <<last_block_from, remainder_from, parent>>
  BY <1>1, <1>2 DEF Ring!Resize, Ring!ResizesApart, Ring!InBuffer, InBuffer,
                    Ring!buffer_from, buffer_from, Ring!Block, Block
<1>4. PICK X : X = A \cup B
  OBVIOUS
<1>5. /\ Shape(h, A, B, t, f, r) /\ Owned(h, X, H)
      /\ current_alloced = SlotSum(h, H) /\ RingTypes /\ RingParent
  BY <1>0, <1>1, <1>4 DEF RingInv, RingHolds, RingCount
<1>6. /\ buffer_to \in Nat /\ SLOT \in Nat \ {0} /\ t \in Nat /\ r \in Nat /\ t <= r
      /\ r <= buffer_to /\ \A a \in A : a \in Nat /\ a < t
      /\ \A a \in B : a \in Nat /\ r <= a
  BY <1>5, ShapeTypes
<1>7. b \in H /\ p \in Nat /\ p - SLOT \in X /\ h[p - SLOT].used
  BY <1>1, <1>2, <1>3, <1>5 DEF Held, RingTypes, Owned
\* no block behind the wrap
<1>8. p - SLOT \in A /\ \A a \in B : a > p - SLOT
  <2>1. p - SLOT < t
    BY <1>3, <1>6, <1>7
  <2> QED BY <2>1, <1>4, <1>6, <1>7
<1>9. EndsAt(A, p, n, p - SLOT, e)
  <2>1. RingHeads(slots) /\ Tiles(slots, A, 0, last_block_to)
    BY <1>1, <1>5 DEF Shape
  <2> QED BY <2>1, <1>2, <1>7, <1>8, EndFinds
<1>10. PICK c : c = Block(p, n, b.align)
  OBVIOUS
<1>11. PICK g, t2, f2, r2 : /\ g = slots' /\ t2 = last_block_to' /\ f2 = last_block_from'
                            /\ r2 = remainder_from'
  OBVIOUS
<1>12. ASSUME NEW y \in Nat, e = [kind |-> "merged", to |-> y], y \in A, p - SLOT < y,
              ~slots[y].stub, p + n <= y, \A a \in A : p - SLOT < a /\ a < y => ~slots[a].used
       PROVE  RingInv'
  <2>1. /\ g = Reaches(Relinked(h, p, y), p, y) /\ t2 = t /\ f2 = f /\ r2 = r
        /\ current_alloced' = current_alloced + (y - p) - h[p - SLOT].size
    BY <1>1, <1>3, <1>11, <1>12 DEF Reaches, Relinked
  <2> DEFINE C == {a \in A : a <= p - SLOT \/ y <= a}
  <2>2. Shape(g, C, B, t, f, r) /\ Regiven(h, g, C \cup B, p, y)
    <3>1. /\ C = {a \in A : a <= p - SLOT \/ y <= a} /\ ~h[y].stub
          /\ y \in A /\ p - SLOT < y /\ g = Reaches(Relinked(h, p, y), p, y)
      BY <2>1, <1>1, <1>12
    <3> HIDE DEF C
    <3>2. Shape(h, A, B, t, f, r) /\ p \in Nat /\ p - SLOT \in A /\ h[p - SLOT].used
      BY <1>5, <1>7, <1>8
    <3> QED BY ONLY <3>1, <3>2, ShapeMerge
  <2>3. PICK Y : Y = C \cup B
    OBVIOUS
  <2>4. Resized(h, X, g, Y, p, n)
    <3>1. Y \subseteq X /\ p - SLOT \in Y
      BY <2>3, <1>4, <1>6, <1>8
    <3>2. \A a \in X \ Y : ~h[a].used
      BY <2>3, <1>1, <1>4, <1>6, <1>7, <1>12
    <3>3. n <= g[p - SLOT].size
      BY <2>2, <1>7, <1>12 DEF Regiven
    <3> HIDE DEF C
    <3> QED BY <2>2, <2>3, <3>1, <3>2, <3>3 DEF Resized, Regiven
  <2> HIDE DEF C
  <2>5. /\ Shape(g, C, B, t2, f2, r2) /\ Resized(h, X, g, Y, b.at, n)
        /\ current_alloced' = current_alloced + g[b.at - SLOT].size - h[b.at - SLOT].size
        /\ c = Block(b.at, n, b.align) /\ live' = (live \ {b}) \cup {c} /\ parent' = parent
    BY <2>1, <2>2, <2>4, <1>2, <1>3, <1>10 DEF Regiven
  <2> QED BY <2>3, <2>5, <1>1, <1>4, <1>5, <1>7, <1>11, RingResized
<1>13. ASSUME e = [kind |-> "last", to |-> align_forward(p + n, SLOT)], p + n <= buffer_to,
              \A a \in A : p - SLOT < a => ~slots[a].used
       PROVE  RingInv'
  <2>1. PICK y : y = align_forward(p + n, SLOT)
    OBVIOUS
  <2>2. y \in Nat /\ p + n <= y /\ y <= r
    <3>1. p + n \in Nat /\ buffer_to % SLOT = 0
      BY <1>7, RingAssumption
    <3>2. y <= r
      BY <2>1, <1>3, <1>13
    <3> QED BY <3>1, <3>2, <2>1, <1>6, <1>13, AlignForward
  <2>3. /\ g = Reaches(h, p, y) /\ t2 = y /\ f2 = f /\ r2 = r
        /\ current_alloced' = current_alloced + (y - p) - h[p - SLOT].size
    BY <2>1, <1>1, <1>3, <1>11, <1>13 DEF Reaches
  <2> DEFINE C == {a \in A : a <= p - SLOT}
  <2>4. Shape(g, C, B, y, p, r) /\ f = p /\ Regiven(h, g, C \cup B, p, y)
    <3>1. C = {a \in A : a <= p - SLOT}
      OBVIOUS
    <3>2. \A a \in A : a > p - SLOT => ~h[a].used
      BY <1>1, <1>6, <1>7, <1>13
    <3>3. p <= y
      BY <2>2, <1>7
    <3> HIDE DEF C
    <3>4. Shape(h, A, B, t, f, r) /\ p \in Nat /\ p - SLOT \in A /\ h[p - SLOT].used
      BY <1>5, <1>7, <1>8
    <3>5. y \in Nat /\ y <= r /\ g = Reaches(h, p, y)
      BY <2>2, <2>3
    <3> QED BY ONLY <3>1, <3>2, <3>3, <3>4, <3>5, ShapeGrow
  <2>5. PICK Y : Y = C \cup B
    OBVIOUS
  <2>6. Resized(h, X, g, Y, p, n)
    <3>1. Y \subseteq X /\ p - SLOT \in Y
      BY <2>5, <1>4, <1>6, <1>8
    <3>2. \A a \in X \ Y : ~h[a].used
      BY <2>5, <1>1, <1>4, <1>6, <1>7, <1>13
    <3>3. n <= g[p - SLOT].size
      BY <2>2, <2>4, <1>7 DEF Regiven
    <3> HIDE DEF C
    <3> QED BY <2>4, <2>5, <3>1, <3>2, <3>3 DEF Resized, Regiven
  <2> HIDE DEF C
  <2>7. /\ Shape(g, C, B, t2, f2, r2) /\ Resized(h, X, g, Y, b.at, n)
        /\ current_alloced' = current_alloced + g[b.at - SLOT].size - h[b.at - SLOT].size
        /\ c = Block(b.at, n, b.align) /\ live' = (live \ {b}) \cup {c} /\ parent' = parent
    BY <2>3, <2>4, <2>6, <1>2, <1>3, <1>10 DEF Regiven
  <2> QED BY <2>5, <2>7, <1>1, <1>4, <1>5, <1>7, <1>11, RingResized
<1>14. e # NoEnd
  BY <1>3 DEF NoEnd
<1> QED BY <1>6, <1>9, <1>12, <1>13, <1>14 DEF EndsAt

LEMMA RingStep == ASSUME ~ResizesAnytime, RingInv, Ring!Next PROVE RingInv'
<1>1. ASSUME NEW q \in RingRequests, Cardinality(live) < MaxLive,
             \/ Ring!Allocate(q[1], q[2])
             \/ Ring!AllocateTooLarge(q[1], q[2])
             \/ Ring!AllocateFromRemainder(q[1], q[2])
             \/ Ring!AllocateStays(q[1], q[2])
             \/ Ring!AllocateWraps(q[1], q[2])
      PROVE  RingInv'
  <2>1. /\ q[1] \in Nat \ {0} /\ q[2] \in Nat \ {0}
        /\ q[2] < SLOT => SLOT % q[2] = 0
    BY RingAssumption
  <2> QED BY <1>1, <2>1, RingAllocate, RingStays, RingFromRemainder, RingWraps
<1>2. ASSUME NEW b \in live, Ring!Deallocate(b) \/ Ring!DeallocateOverflow(b)
      PROVE  RingInv'
  BY <1>2, RingDeallocate, RingDeallocateOverflow
<1>3. ASSUME NEW b \in live, NEW n \in ResizeSizes,
             Ring!Resize(b, n) \/ Ring!ResizeOverflow(b, n)
      PROVE  RingInv'
  <2>1. n \in Nat
    BY AllocatorsAssumption
  <2>2. CASE Ring!Resize(b, n)
    BY <2>1, <2>2, RingResize
  <2>3. CASE Ring!ResizeOverflow(b, n)
    <3>1. UNCHANGED <<last_block_to, last_block_from, remainder_from, current_alloced, slots,
                      live, parent>>
      BY <2>3 DEF Ring!ResizeOverflow, Ring!ParentResize, Ring!pointers, Ring!counters
    <3> QED BY <3>1, RingSame
  <2> QED BY <1>3, <2>2, <2>3
<1>4. Ring!Cardinality(live) = Cardinality(live)
  BY DEF Ring!Cardinality, Cardinality
<1> QED BY <1>1, <1>2, <1>3, <1>4 DEF Ring!Next

-----------------------------------------------------------------------------
(* What the shape says of the blocks *)

\* a block ends in front of the header of the next one
LEMMA OwnedApart ==
  ASSUME NEW h, NEW A, NEW B, NEW t, NEW f, NEW r, Shape(h, A, B, t, f, r),
         NEW H, Owned(h, A \cup B, H), \A c \in H : c.at \in Nat /\ c.size \in Nat,
         NEW b \in H
  PROVE  /\ End(b) <= buffer_to
         /\ \A c \in H : b.at < c.at => End(b) <= c.at
<1>0. /\ buffer_to \in Nat /\ SLOT \in Nat \ {0} /\ t \in Nat /\ r \in Nat /\ t <= r /\ r <= buffer_to
      /\ \A a \in A : a \in Nat /\ a < t /\ Behind(h, a) \in Nat /\ Behind(h, a) <= t
      /\ \A a \in B : a \in Nat /\ r <= a /\ a < buffer_to
      /\ \A a \in A \cup B : a \in DOMAIN h
      /\ \A a \in DOMAIN h : h[a].used => h[a].size \in Nat
  BY ShapeTypes
<1>1. RingHeads(h) /\ Tiles(h, A, 0, t) /\ Tiles(h, B, r, buffer_to)
  BY DEF Shape
<1>2. \A a \in B : Behind(h, a) \in Nat /\ Behind(h, a) <= buffer_to
  BY <1>1, TilesTypes
<1>3. PICK a : a = b.at - SLOT
  OBVIOUS
<1>4. /\ a \in A \cup B /\ h[a].used /\ b.size <= h[a].size /\ b.at \in Nat /\ b.size \in Nat
  BY <1>3 DEF Owned
<1>5. End(b) <= Behind(h, a) /\ End(b) \in Nat /\ Behind(h, a) \in Nat /\ Behind(h, a) <= buffer_to
  <2>1. h[a].size \in Nat /\ a \in Nat /\ Behind(h, a) = a + h[a].size + SLOT
    BY <1>0, <1>4 DEF Behind
  <2>2. End(b) = a + SLOT + b.size
    BY <1>0, <1>3, <1>4, <2>1 DEF End
  <2>3. Behind(h, a) <= buffer_to
    <3>1. CASE a \in A
      BY <3>1, <1>0
    <3>2. CASE a \in B
      BY <3>2, <1>2
    <3> QED BY <3>1, <3>2, <1>4
  <2> QED BY <2>1, <2>2, <2>3, <1>0, <1>4
<1>6. ASSUME NEW c \in H, b.at < c.at PROVE End(b) <= c.at
  <2>1. PICK d : d = c.at - SLOT
    OBVIOUS
  <2>2. d \in A \cup B /\ d \in Nat /\ c.at \in Nat /\ d > a
    <3>1. d \in A \cup B /\ c.at \in Nat
      BY <2>1 DEF Owned
    <3>2. d \in Nat
      BY <3>1, <1>0
    <3> QED BY <3>1, <3>2, <2>1, <1>0, <1>3, <1>4, <1>6
  <2>3. Behind(h, a) <= d
    <3>1. CASE a \in A /\ d \in A
      <4>1. d >= Behind(h, a)
        BY <3>1, <2>2, <1>1 DEF Tiles
      <4> QED BY <4>1, <2>2, <1>5
    <3>2. CASE a \in B /\ d \in B
      <4>1. d >= Behind(h, a)
        BY <3>2, <2>2, <1>1 DEF Tiles
      <4> QED BY <4>1, <2>2, <1>5
    <3>3. CASE a \in A /\ d \in B
      BY <3>3, <1>0, <2>2
    <3>4. CASE a \in B /\ d \in A
      BY <3>4, <1>0, <2>2
    <3> QED BY <3>1, <3>2, <3>3, <3>4, <2>2, <1>4
  <2> QED BY <2>1, <2>2, <2>3, <1>0, <1>5
<1>7. End(b) <= buffer_to
  BY <1>0, <1>5
<1> QED BY <1>6, <1>7

LEMMA RingInvSound ==
  ASSUME RingInv
  PROVE  /\ LiveDisjoint /\ LiveAligned /\ ParentMatches
         /\ Ring!ChainWhole /\ Ring!RingCounted /\ Ring!WholeWhenFreed
<1>1. PICK A, B \in SUBSET Addresses : RingHolds(A, B)
  BY DEF RingInv
<1>2. /\ Shape(slots, A, B, last_block_to, last_block_from, remainder_from)
      /\ Owned(slots, A \cup B, Held)
      /\ RingTypes /\ RingParent /\ RingCount
  BY <1>1 DEF RingInv, RingHolds
<1>3. /\ buffer_to \in Nat /\ SLOT \in Nat \ {0}
      /\ \A a \in A \cup B : a \in Nat /\ a \in DOMAIN slots
  <2>1. /\ buffer_to \in Nat /\ SLOT \in Nat \ {0}
        /\ \A a \in A : a \in Nat /\ a \in DOMAIN slots
        /\ \A a \in B : a \in Nat /\ a \in DOMAIN slots
    BY <1>2, ShapeTypes
  <2> QED BY <2>1
<1>4. \A b \in live : InBuffer(b) <=> b \in Held
  BY DEF Held
<1>5. \A b \in Held : b.at \in Nat /\ b.size \in Nat
  BY <1>2 DEF RingTypes, Held
<1>6. LiveDisjoint
  <2> DEFINE H == Held
  <2>1. \A b \in H : /\ End(b) <= buffer_to
                     /\ \A c \in H : b.at < c.at => End(b) <= c.at
    <3>1. Owned(slots, A \cup B, H) /\ \A c \in H : c.at \in Nat /\ c.size \in Nat
      BY <1>2, <1>5
    <3> HIDE DEF H
    <3> QED BY <3>1, <1>2, OwnedApart
  <2>2. ASSUME NEW b \in live, NEW c \in live, b # c, InBuffer(b), InBuffer(c)
        PROVE  Bytes(b) \cap Bytes(c) = {}
    <3>1. b \in Held /\ c \in Held /\ b.at # c.at
      BY <2>2, <1>2, <1>4 DEF Owned
    <3>2. b.at \in Nat /\ b.size \in Nat /\ c.at \in Nat /\ c.size \in Nat
      BY <3>1, <1>5
    <3>3. End(b) <= c.at \/ End(c) <= b.at
      BY <2>1, <3>1, <3>2
    <3> QED BY <3>2, <3>3 DEF End, Bytes
  <2>3. \A b \in live : InBuffer(b) => b.at + b.size <= buffer_to
    BY <2>1, <1>4 DEF End
  <2> QED BY <2>2, <2>3 DEF LiveDisjoint
<1>7. LiveAligned
  BY <1>2, <1>4 DEF LiveAligned, Owned
<1>8. ParentMatches
  <2>1. {p.at : p \in parent} = {b.at : b \in {c \in live : ~InBuffer(c)}}
    BY <1>2 DEF RingParent, Held
  <2>2. ASSUME NEW b \in live, NEW p \in parent, p.at = b.at
        PROVE  /\ p.size >= b.size /\ p.align % b.align = 0
               /\ (p.align > SLOT) = (b.align > SLOT)
    <3>1. b \in live \ Held
      <4>1. PICK c \in live \ Held : p.at = c.at
        BY <1>2 DEF RingParent
      <4> QED BY <4>1, <2>2 DEF Held, InBuffer
    <3>2. /\ p.size = b.size /\ p.align = AtLeast(b.align, SLOT) /\ b.size \in Nat
          /\ b.align \in Nat \ {0} /\ (b.align < SLOT => SLOT % b.align = 0)
      BY <3>1, <2>2, <1>2 DEF RingParent, RingTypes
    <3>3. PICK m : m = b.align
      OBVIOUS
    <3>4. AtLeast(m, SLOT) % m = 0 /\ (AtLeast(m, SLOT) > SLOT) = (m > SLOT)
      <4>1. m % m = 0
        <5>1. m \in Nat \ {0}
          BY <3>2, <3>3
        <5>2. (m * 1 + 0) % m = 0
          BY <5>1, Remainder
        <5> QED BY <5>1, <5>2
      <4>2. m = SLOT \/ m > SLOT \/ m < SLOT
        BY <3>2, <3>3, <1>3
      <4> QED BY <4>1, <4>2, <3>2, <3>3, <1>3 DEF AtLeast
    <3> QED BY <3>2, <3>3, <3>4
  <2> QED BY <2>1, <2>2 DEF ParentMatches
<1>9. {b \in live : Ring!InBuffer(b)} = Held
  BY DEF Held, Ring!InBuffer, InBuffer, Ring!buffer_from, buffer_from
<1>10. Ring!ChainWhole
  <2> DEFINE walked == Ring!WalkTo(0, last_block_to) \cup Ring!WalkTo(remainder_from, buffer_to)
  <2>1. walked = A \cup B
    <3>1. /\ RingHeads(slots) /\ Tiles(slots, A, 0, last_block_to)
          /\ Tiles(slots, B, remainder_from, buffer_to)
      BY <1>2 DEF Shape
    <3> QED BY <3>1, MetFinds
  <2>2. walked \subseteq DOMAIN slots
    BY <2>1, <1>3
  <2>3. \A a \in walked : a + slots[a].size + SLOT \in walked \cup {last_block_to, buffer_to}
    <3>1. \A a \in A : Behind(slots, a) \in A \cup {last_block_to}
      BY <1>2 DEF Shape, Tiles
    <3>2. \A a \in B : Behind(slots, a) \in B \cup {buffer_to}
      BY <1>2 DEF Shape, Tiles
    <3> HIDE DEF walked
    <3> QED BY <3>1, <3>2, <2>1 DEF Behind
  <2>4. {a \in walked : slots[a].used} = {b.at - SLOT : b \in Held}
    <3> HIDE DEF walked
    <3>1. ASSUME NEW a \in walked, slots[a].used PROVE \E b \in Held : a = b.at - SLOT
      <4>1. a \in A \cup B /\ a \in Nat
        BY <2>1, <1>3
      <4>2. PICK b \in Held : b.at = a + SLOT
        BY <3>1, <4>1, <1>2 DEF Owned
      <4> QED BY <4>1, <4>2, <1>3
    <3>2. \A b \in Held : b.at - SLOT \in walked /\ slots[b.at - SLOT].used
      BY <2>1, <1>2 DEF Owned
    <3> QED BY <3>1, <3>2
  <2>5. {b.at - SLOT : b \in Held} = {b.at - SLOT : b \in {c \in live : Ring!InBuffer(c)}}
    BY <1>9
  <2> QED BY <2>2, <2>3, <2>4, <2>5 DEF Ring!ChainWhole, Ring!buffer_from
<1>11. Ring!RingCounted
  <2> DEFINE counted == {b \in live : Ring!InBuffer(b)}
             inside == Held
  <2>1. counted = inside
    BY <1>9
  <2> HIDE DEF counted, inside
  <2>2. Ring!MapThenSumSet(LAMBDA b : slots[b.at - SLOT].size, counted) = SlotSum(slots, counted)
    BY DEF SlotSum, Ring!MapThenSumSet, MapThenSumSet, Ring!MapThenFoldSet, MapThenFoldSet
  <2>3. current_alloced = SlotSum(slots, counted)
    BY <2>1, <1>2 DEF RingCount, inside
  <2> QED BY <2>2, <2>3 DEF Ring!RingCounted, counted
<1>12. Ring!WholeWhenFreed
  <2> SUFFICES ASSUME \A b \in live : ~InBuffer(b)
               PROVE  /\ last_block_to = 0 /\ last_block_from = 0
                      /\ Ring!deallocate_from_front(remainder_from, buffer_to) = buffer_to
    BY DEF Ring!WholeWhenFreed, Ring!InBuffer, InBuffer, Ring!buffer_from, buffer_from
  <2>1. Held = {}
    BY DEF Held
  <2>2. \A a \in A \cup B : ~slots[a].used
    BY <2>1, <1>2 DEF Owned
  <2>3. last_block_from = 0 /\ last_block_to = 0
    BY <2>2, <1>2 DEF Shape, LastIs
  <2>4. RingHeads(slots) /\ Tiles(slots, B, remainder_from, buffer_to)
    BY <1>2 DEF Shape
  <2>5. FirstUsed(B, remainder_from, buffer_to,
                  Ring!deallocate_from_front(remainder_from, buffer_to))
    BY <2>4, FrontFinds
  <2> QED BY <2>2, <2>3, <2>5 DEF FirstUsed
<1> QED BY <1>6, <1>7, <1>8, <1>10, <1>11, <1>12

\* For every buffer that ends at a multiple of the header, every header, set of
\* requests and number of blocks, the ring (allocator_stack_ring.h) gives out
\* blocks that are apart, aligned and inside its buffer, asks the parent for the
\* others; its headers fill the buffer on both sides of the gap, the used ones
\* are those of the client's blocks and hold the bytes it counts; and it is whole
\* again once the blocks are freed, in any order, resized and wrapped or not, of
\* clients that resize no block behind the wrap and none over those behind it.
THEOREM RingAllocatorSound ==
  ASSUME ~ResizesAnytime
  PROVE  Spec => []RingSound
<1> DEFINE IInv == kind = "ring" => RingInv
<1>1. Init => IInv
  BY RingInit DEF Init
<1>2. IInv /\ [Next]_vars => IInv'
  <2> SUFFICES ASSUME IInv, [Next]_vars, kind' = "ring" PROVE RingInv'
    OBVIOUS
  <2>1. CASE Next
    <3>1. kind = "ring" /\ Ring!Next
      BY <2>1 DEF Next
    <3> QED BY <3>1, RingStep
  <2>2. CASE UNCHANGED vars
    <3>1. UNCHANGED <<kind, last_block_to, last_block_from, remainder_from, current_alloced,
                      slots, live, parent>>
      BY <2>2 DEF vars, stack_vars
    <3> QED BY <3>1, RingSame
  <2> QED BY <2>1, <2>2
<1>3. IInv => RingSound
  BY RingInvSound DEF RingSound
<1> QED BY <1>1, <1>2, <1>3, PTL DEF Spec
=============================================================================
