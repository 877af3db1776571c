----------------------------- MODULE SetLemmas -----------------------------
(***************************************************************************)
(* What the proofs need of numbers and of sorting, as facts about sets.    *)
(*                                                                         *)
(* Induction over the numbers up to n: the proofs about recursive          *)
(* functions (the bytes of a recording, the events of one stream in the    *)
(* queue, the arguments read so far) instantiate T with the set of numbers *)
(* at which the claim holds.  Sorting: what Ranked returns, and that there *)
(* is no other sorted arrangement of a set.                                *)
(***************************************************************************)
EXTENDS Sorting, Integers, TLAPS, WellFoundedInduction, FiniteSetTheorems

\* A set of numbers that is not empty has a least one.
LEMMA LeastNumber ==
    ASSUME NEW T, T \subseteq Nat, T # {}
    PROVE  \E m \in T : \A n \in T : m <= n
<1>1. IsWellFoundedOn(OpToRel(<, Nat), Nat)
  BY NatLessThanWellFounded
<1>2. PICK m \in T : \A n \in T : <<n, m>> \notin OpToRel(<, Nat)
  BY <1>1, WFMin, Zenon
<1>3. ASSUME NEW n \in T PROVE m <= n
  <2>1. n \in Nat /\ m \in Nat
    OBVIOUS
  <2>2. ~(n < m)
    BY <1>2, <2>1 DEF OpToRel
  <2> QED BY <2>1, <2>2
<1> QED BY <1>3

\* What holds of 0 and of the successor of every number below n it holds of,
\* holds of all numbers up to n.
LEMMA SetInduction ==
    ASSUME NEW n \in Nat, NEW T, 0 \in T, \A i \in 0 .. n : i # n /\ i \in T => i + 1 \in T
    PROVE  \A i \in 0 .. n : i \in T
<1> DEFINE Out == {i \in 0 .. n : i \notin T}
<1>1. SUFFICES ASSUME Out # {} PROVE FALSE
  OBVIOUS
<1>2. PICK m \in Out : \A i \in Out : m <= i
  <2>1. Out \subseteq Nat
    OBVIOUS
  <2> HIDE DEF Out
  <2> QED BY <1>1, <2>1, LeastNumber
<1>3. m # 0 /\ m - 1 \in 0 .. n /\ m - 1 # n
  OBVIOUS
<1>4. m - 1 \notin Out
  BY <1>2, <1>3
<1>5. (m - 1) + 1 \in T
  BY <1>3, <1>4
<1> QED BY <1>3, <1>5

-----------------------------------------------------------------------------
(* Numbers *)

\* Quotient and remainder.
LEMMA Division ==
    ASSUME NEW a \in Nat, NEW w \in Nat \ {0}
    PROVE  (a % w) \in 0 .. w - 1 /\ (a \div w) \in Nat /\ a = w * (a \div w) + (a % w)
OBVIOUS

LEMMA OnlyRemainder ==
    ASSUME NEW a \in Nat, NEW w \in Nat \ {0}, NEW q \in Nat, NEW r \in 0 .. w - 1, a = w * q + r
    PROVE  a % w = r
OBVIOUS

LEMMA OnlyQuotient ==
    ASSUME NEW a \in Nat, NEW w \in Nat \ {0}, NEW q \in Nat, NEW r \in 0 .. w - 1, a = w * q + r
    PROVE  a \div w = q
OBVIOUS

\* A sum that wraps at every step is the wrapped sum.
LEMMA RemainderAdds ==
    ASSUME NEW a \in Nat, NEW b \in Nat, NEW w \in Nat \ {0}
    PROVE  ((a % w) + b) % w = (a + b) % w
<1> DEFINE q == a \div w
           r == a % w
           p == (r + b) \div w
           s == (r + b) % w
<1>1. q \in Nat /\ r \in 0 .. w - 1 /\ a = w * q + r
  BY Division
<1> HIDE DEF q, r
<1>2. r + b \in Nat
  BY <1>1
<1>3. p \in Nat /\ s \in 0 .. w - 1 /\ r + b = w * p + s
  BY <1>2, Division
<1> HIDE DEF p, s
<1>4. a + b = w * (q + p) + s /\ q + p \in Nat /\ a + b \in Nat
  BY <1>1, <1>3
<1>5. (a + b) % w = s
  BY <1>3, <1>4, OnlyRemainder
<1> QED BY <1>5 DEF s, r

-----------------------------------------------------------------------------
(* Sorting *)

\* A set of positions that has every position below one of its own is a whole
\* beginning: what a binary search finds the end of.
LEMMA Beginning ==
    ASSUME NEW n \in Nat, NEW D, D \subseteq 1 .. n, \A i \in D : \A j \in 1 .. i : j \in D
    PROVE  IsFiniteSet(D) /\ Cardinality(D) \in 0 .. n /\ D = 1 .. Cardinality(D)
<1> DEFINE Out == {i \in 1 .. n + 1 : i \notin D}
<1>1. PICK m \in Out : \A i \in Out : m <= i
  <2>1. Out \subseteq Nat /\ n + 1 \in Out
    OBVIOUS
  <2> HIDE DEF Out
  <2> QED BY <2>1, LeastNumber
<1>2. ASSUME NEW i \in D PROVE i \in 1 .. m - 1
  <2>1. i \in 1 .. n /\ m \in 1 .. n + 1 /\ m \notin D
    BY <1>1
  <2>2. m \in 1 .. i => m \in D
    OBVIOUS
  <2> QED BY <2>1, <2>2
<1>3. ASSUME NEW i \in 1 .. m - 1 PROVE i \in D
  <2>1. i \in 1 .. n + 1 /\ ~(m <= i)
    BY <1>1
  <2> QED BY <1>1, <2>1
<1>4. D = 1 .. m - 1
  BY <1>2, <1>3
<1>5. m - 1 \in 0 .. n /\ m - 1 \in Int
  BY <1>1
<1>6. IsFiniteSet(1 .. m - 1) /\ Cardinality(1 .. m - 1) = m - 1
  BY <1>5, FS_Interval
<1> QED BY <1>4, <1>5, <1>6

\* The elements before x.
Below(S, r, x) == {y \in S : <<y, x>> \in r}

\* A sequence without repetition has as many elements as places.
LEMMA PlacesCount ==
    ASSUME NEW S, NEW n \in Nat, NEW t \in [1 .. n -> S],
           \A x \in S : \E k \in 1 .. n : t[k] = x,
           \A j, k \in 1 .. n : t[j] = t[k] => j = k
    PROVE  IsFiniteSet(S) /\ Cardinality(S) = n
<1>1. t \in Bijection(1 .. n, S)
  BY DEF Bijection, Injection, Surjection, IsInjective
<1>2. ExistsBijection(1 .. n, S)
  BY <1>1 DEF ExistsBijection
<1>3. IsFiniteSet(1 .. n) /\ Cardinality(1 .. n) = n
  BY FS_Interval
<1> QED BY <1>2, <1>3, FS_Bijection

\* There is only one sorted arrangement, and Ranked is it.
LEMMA SortedIsRanked ==
    ASSUME NEW S, NEW r, NEW n \in Nat, NEW t \in [1 .. n -> S],
           \A x \in S : \E k \in 1 .. n : t[k] = x,
           \A j, k \in 1 .. n : <<t[j], t[k]>> \in r <=> j < k
    PROVE  IsFiniteSet(S) /\ Cardinality(S) = n /\ Ranked(S, r) = t
<1>1. \A j, k \in 1 .. n : t[j] = t[k] => j = k
  <2> SUFFICES ASSUME NEW j \in 1 .. n, NEW k \in 1 .. n, t[j] = t[k], j # k PROVE FALSE
    OBVIOUS
  <2>1. (<<t[j], t[k]>> \in r <=> j < k) /\ (<<t[k], t[k]>> \in r <=> k < k)
        /\ (<<t[k], t[j]>> \in r <=> k < j)
    OBVIOUS
  <2> QED BY <2>1
<1>2. IsFiniteSet(S) /\ Cardinality(S) = n
  BY <1>1, PlacesCount
<1>3. ASSUME NEW k \in 1 .. n PROVE Cardinality(Below(S, r, t[k])) = k - 1
  <2> DEFINE u == [j \in 1 .. k - 1 |-> t[j]]
  <2>1. k - 1 \in Nat /\ u \in [1 .. k - 1 -> Below(S, r, t[k])]
    <3>1. ASSUME NEW j \in 1 .. k - 1 PROVE j \in 1 .. n /\ t[j] \in S /\ <<t[j], t[k]>> \in r
      <4>1. j \in 1 .. n /\ j < k
        OBVIOUS
      <4> QED BY <4>1
    <3> QED BY <3>1 DEF Below
  <2>2. ASSUME NEW x \in Below(S, r, t[k]) PROVE \E j \in 1 .. k - 1 : u[j] = x
    <3>1. PICK j \in 1 .. n : t[j] = x
      BY DEF Below
    <3>2. j < k
      BY <3>1 DEF Below
    <3>3. j \in 1 .. k - 1
      BY <3>2
    <3> QED BY <3>1, <3>3
  <2>3. \A i, j \in 1 .. k - 1 : u[i] = u[j] => i = j
    BY <1>1
  <2> HIDE DEF u
  <2> QED BY <2>1, <2>2, <2>3, PlacesCount
<1>4. ASSUME NEW k \in 1 .. n
      PROVE  (CHOOSE x \in S : Cardinality(Below(S, r, x)) = k - 1) = t[k]
  <2>1. ASSUME NEW x \in S, Cardinality(Below(S, r, x)) = k - 1 PROVE x = t[k]
    <3>1. PICK j \in 1 .. n : t[j] = x
      OBVIOUS
    <3>2. j - 1 = k - 1
      BY <1>3, <2>1, <3>1
    <3> QED BY <3>1, <3>2
  <2>2. t[k] \in S /\ Cardinality(Below(S, r, t[k])) = k - 1
    BY <1>3
  <2> QED BY <2>1, <2>2
<1>5. Ranked(S, r) = [k \in 1 .. n |-> CHOOSE x \in S : Cardinality(Below(S, r, x)) = k - 1]
  BY <1>2 DEF Ranked, Below
<1> QED BY <1>2, <1>4, <1>5

\* A strict order in which any two elements compare.
Orders(r, S) ==
    /\ \A x \in S : <<x, x>> \notin r
    /\ \A x, y, z \in S : <<x, y>> \in r /\ <<y, z>> \in r => <<x, z>> \in r
    /\ \A x, y \in S : x # y => <<x, y>> \in r \/ <<y, x>> \in r

\* What Ranked returns: every element once, in order.
LEMMA RankedSorts ==
    ASSUME NEW S, IsFiniteSet(S), NEW r, Orders(r, S)
    PROVE  /\ Cardinality(S) \in Nat
           /\ Ranked(S, r) \in [1 .. Cardinality(S) -> S]
           /\ \A x \in S : \E k \in 1 .. Cardinality(S) : Ranked(S, r)[k] = x
           /\ \A j, k \in 1 .. Cardinality(S) :
                <<Ranked(S, r)[j], Ranked(S, r)[k]>> \in r <=> j < k
<1> DEFINE n == Cardinality(S)
           Rank == [x \in S |-> Cardinality(Below(S, r, x)) + 1]
<1>1. n \in Nat
  BY FS_CardinalityType
<1>2. ASSUME NEW x \in S
      PROVE  IsFiniteSet(Below(S, r, x)) /\ Cardinality(Below(S, r, x)) \in 0 .. n - 1
  <2>1. Below(S, r, x) \in SUBSET S /\ x \notin Below(S, r, x)
    BY DEF Below, Orders
  <2>2. /\ IsFiniteSet(Below(S, r, x)) /\ Cardinality(Below(S, r, x)) <= n
        /\ (n = Cardinality(Below(S, r, x)) => S = Below(S, r, x))
    BY <2>1, FS_Subset
  <2>3. Cardinality(Below(S, r, x)) \in Nat
    BY <2>2, FS_CardinalityType
  <2> QED BY <1>1, <2>1, <2>2, <2>3
<1>3. ASSUME NEW x \in S, NEW y \in S, <<x, y>> \in r PROVE Rank[x] < Rank[y]
  <2>1. Below(S, r, x) \in SUBSET Below(S, r, y) /\ x \in Below(S, r, y) /\ x \notin Below(S, r, x)
    BY <1>3 DEF Below, Orders
  <2>2. /\ Cardinality(Below(S, r, x)) <= Cardinality(Below(S, r, y))
        /\ (Cardinality(Below(S, r, y)) = Cardinality(Below(S, r, x)) =>
              Below(S, r, y) = Below(S, r, x))
    BY <1>2, <2>1, FS_Subset
  <2> QED BY <1>1, <1>2, <2>1, <2>2
<1>4. Rank \in [S -> 1 .. n]
  <2>1. ASSUME NEW x \in S PROVE Cardinality(Below(S, r, x)) + 1 \in 1 .. n
    BY <1>1, <1>2
  <2> QED BY <2>1
<1> HIDE DEF n
<1>5. ASSUME NEW x \in S, NEW y \in S, Rank[x] = Rank[y] PROVE x = y
  <2> HIDE DEF Rank
  <2>1. Rank[x] \in Nat /\ Rank[y] \in Nat
    BY <1>1, <1>4
  <2>2. <<x, y>> \in r => Rank[x] < Rank[y]
    BY <1>3
  <2>3. <<y, x>> \in r => Rank[y] < Rank[x]
    BY <1>3
  <2>4. x # y => <<x, y>> \in r \/ <<y, x>> \in r
    BY DEF Orders
  <2> QED BY <1>5, <2>1, <2>2, <2>3, <2>4
<1>6. \A k \in 1 .. n : \E x \in S : Rank[x] = k
  <2> HIDE DEF Rank
  <2>1. Rank \in Injection(S, 1 .. n)
    BY <1>4, <1>5 DEF Injection, IsInjective
  <2>2. IsFiniteSet(1 .. n) /\ Cardinality(1 .. n) = n
    BY <1>1, FS_Interval
  <2>3. Rank \in Surjection(S, 1 .. n)
    BY <2>1, <2>2, FS_Injection DEF n
  <2> QED BY <2>3 DEF Surjection
<1>7. ASSUME NEW k \in 1 .. n PROVE Ranked(S, r)[k] \in S /\ Rank[Ranked(S, r)[k]] = k
  <2>1. Ranked(S, r)[k] = CHOOSE x \in S : Cardinality(Below(S, r, x)) = k - 1
    BY DEF Ranked, Below, n
  <2>2. PICK x \in S : Rank[x] = k
    BY <1>6
  <2>3. Cardinality(Below(S, r, x)) = k - 1
    BY <1>2, <2>2
  <2> DEFINE c == Ranked(S, r)[k]
  <2>4. c \in S /\ Cardinality(Below(S, r, c)) = k - 1
    BY <2>1, <2>3
  <2> QED BY <2>4
<1>8. Ranked(S, r) \in [1 .. n -> S]
  <2>1. Ranked(S, r) = [k \in 1 .. n |-> CHOOSE x \in S : Cardinality({y \in S : <<y, x>> \in r}) = k - 1]
    BY DEF Ranked, n
  <2> QED BY <1>7, <2>1
<1>9. ASSUME NEW x \in S PROVE \E k \in 1 .. n : Ranked(S, r)[k] = x
  <2> DEFINE k == Rank[x]
  <2>1. k \in 1 .. n
    BY <1>4
  <2>2. Ranked(S, r)[k] \in S /\ Rank[Ranked(S, r)[k]] = Rank[x]
    BY <1>7, <2>1
  <2>3. Ranked(S, r)[k] = x
    <3> HIDE DEF Rank
    <3> QED BY <1>5, <2>2
  <2> QED BY <2>1, <2>3
<1>10. ASSUME NEW j \in 1 .. n, NEW k \in 1 .. n
       PROVE  <<Ranked(S, r)[j], Ranked(S, r)[k]>> \in r <=> j < k
  <2> HIDE DEF Rank
  <2> DEFINE x == Ranked(S, r)[j]
             y == Ranked(S, r)[k]
  <2>1. x \in S /\ y \in S /\ Rank[x] = j /\ Rank[y] = k
    BY <1>7
  <2> HIDE DEF x, y
  <2>2. (<<x, y>> \in r => Rank[x] < Rank[y]) /\ (<<y, x>> \in r => Rank[y] < Rank[x])
    BY <1>3, <2>1
  <2>3. x # y => <<x, y>> \in r \/ <<y, x>> \in r
    BY <2>1 DEF Orders
  <2>4. <<x, y>> \in r <=> j < k
    BY <2>1, <2>2, <2>3
  <2> QED BY <2>4 DEF x, y
<1> QED BY <1>1, <1>8, <1>9, <1>10 DEF n
=============================================================================
