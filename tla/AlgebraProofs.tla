---------------------------- MODULE AlgebraProofs ----------------------------
(***************************************************************************)
(* What the operators of Algebra compute, for every message: aggregated    *)
(* hashing is the standards' hash of the blocks one after the other.       *)
(* What a recursive definition returns is proved by induction on sets of   *)
(* numbers.                                                                *)
(***************************************************************************)
EXTENDS Integers, Algebra, SequenceTheorems, WellFoundedInduction, TLAPS

-----------------------------------------------------------------------------
(* Induction. *)

Less == {p \in Nat \X Nat : p[1] < p[2]}

LEMMA LessWellFounded == IsWellFoundedOn(Less, Nat)
<1>1. OpToRel(<, Nat) = Less
  BY DEF OpToRel, Less
<1> QED BY <1>1, NatLessThanWellFounded

LEMMA Least ==
  ASSUME NEW T \in SUBSET Nat, T # {}
  PROVE  \E x \in T : \A y \in T : x <= y
<1>1. \E x \in T : \A y \in T : ~ (<<y, x>> \in Less)
  BY LessWellFounded, WFMin
<1>2. \A a, b \in Nat : a < b => <<a, b>> \in Less
  BY DEF Less
<1>3. PICK x \in T : \A y \in T : ~ (<<y, x>> \in Less)
  BY <1>1
<1>4. \A y \in T : ~ (y < x)
  BY <1>2, <1>3
<1> QED BY <1>4

LEMMA Induct ==
  ASSUME NEW n \in Nat, NEW T, 0 \in T,
         \A i \in 0 .. n : i # n /\ i \in T => i + 1 \in T
  PROVE  \A i \in 0 .. n : i \in T
<1> DEFINE Rest == {i \in 0 .. n : i \notin T}
<1> SUFFICES ASSUME Rest # {} PROVE FALSE
  OBVIOUS
<1>1. Rest \in SUBSET Nat
  OBVIOUS
<1>2. \A i : i \in Rest <=> i \in 0 .. n /\ i \notin T
  OBVIOUS
<1> HIDE DEF Rest
<1>3. PICK x \in Rest : \A y \in Rest : x <= y
  BY <1>1, Least
<1>4. x \in 0 .. n /\ x \notin T /\ x # 0
  BY <1>2
<1>5. x - 1 \in 0 .. n /\ x - 1 # n /\ (x - 1) + 1 = x /\ ~ (x <= x - 1)
  BY <1>4
<1>6. x - 1 \in T
  BY <1>2, <1>3, <1>5
<1> QED BY <1>4, <1>5, <1>6

-----------------------------------------------------------------------------
(* Multiples, quotients and remainders. *)

LEMMA DivMod ==
  ASSUME NEW a \in Nat, NEW m \in Nat \ {0}
  PROVE  /\ a \div m \in Nat /\ a % m \in 0 .. m - 1
         /\ a = (a \div m) * m + (a % m)
OBVIOUS

LEMMA Monotone ==
  ASSUME NEW a \in Nat, NEW b \in Nat, NEW m \in Nat, a <= b
  PROVE  a * m <= b * m /\ a * m \in Nat /\ b * m \in Nat
<1>1. b * m = a * m + (b - a) * m /\ (b - a) * m \in Nat
  BY SMT
<1>2. a * m \in Nat /\ b * m \in Nat
  BY SMT
<1> QED BY <1>1, <1>2

LEMMA Distribute ==
  ASSUME NEW a \in Nat, NEW b \in Nat, NEW m \in Nat
  PROVE  (a + b) * m = a * m + b * m /\ a * m \in Nat /\ b * m \in Nat
OBVIOUS

(* A multiple that lies within a block of another.                          *)
LEMMA Cancel ==
  ASSUME NEW a \in Nat, NEW b \in Nat, NEW m \in Nat, a * m < (b + 1) * m
  PROVE  a <= b
<1>1. CASE b + 1 <= a
  BY <1>1, Monotone
<1> QED BY <1>1

(* The quotient is the only one.                                            *)
LEMMA Quotient ==
  ASSUME NEW a \in Nat, NEW q \in Nat, NEW m \in Nat \ {0},
         q * m <= a, a < (q + 1) * m
  PROVE  a \div m = q
<1> DEFINE k == a \div m
           s == a % m
<1>1. k \in Nat /\ s \in 0 .. m - 1 /\ a = k * m + s
  BY DivMod
<1> HIDE DEF k, s
<1>2. k * m \in Nat /\ q * m \in Nat /\ (q + 1) * m \in Nat /\ (k + 1) * m = k * m + m
  BY <1>1, Distribute
<1>3. k <= q
  BY <1>1, <1>2, Cancel
<1>4. q <= k
  BY <1>1, <1>2, Cancel
<1> QED BY <1>1, <1>3, <1>4 DEF k

(* A remainder of 0 makes a multiple, and the other way round.              *)
LEMMA WholeMultiple ==
  ASSUME NEW a \in Nat, NEW m \in Nat \ {0}, a % m = 0
  PROVE  a \div m \in Nat /\ a = (a \div m) * m
BY DivMod

LEMMA MultipleMod ==
  ASSUME NEW q \in Nat, NEW m \in Nat \ {0}
  PROVE  q * m \in Nat /\ (q * m) % m = 0
<1>1. q * m \in Nat /\ (q + 1) * m = q * m + m
  BY Distribute
<1>2. (q * m) \div m = q
  BY <1>1, Quotient
<1> QED BY <1>1, <1>2, DivMod

LEMMA SmallMod ==
  ASSUME NEW a \in Nat, NEW m \in Nat \ {0}, a < m
  PROVE  a % m = a
<1>1. 0 * m = 0 /\ (0 + 1) * m = m
  OBVIOUS
<1>2. a \div m = 0
  BY <1>1, Quotient
<1> QED BY <1>1, <1>2, DivMod

LEMMA ModUnique ==
  ASSUME NEW q \in Nat, NEW m \in Nat \ {0}, NEW r \in 0 .. m - 1
  PROVE  (q * m + r) % m = r
<1> DEFINE a == q * m + r
           k == a \div m
           s == a % m
<1>1. a \in Nat /\ k \in Nat /\ s \in 0 .. m - 1 /\ a = k * m + s
  <2>1. a \in Nat
    OBVIOUS
  <2> QED BY <2>1, DivMod
<1>2. a = q * m + r /\ s = a % m
  OBVIOUS
<1> HIDE DEF a, k, s
<1>3. CASE k < q
  <2>1. (k + 1) * m <= q * m
    BY <1>1, <1>3, Monotone
  <2>2. (k + 1) * m = k * m + m /\ k * m \in Nat /\ q * m \in Nat
    BY <1>1, Distribute
  <2> QED BY <1>1, <1>2, <2>1, <2>2
<1>4. CASE q < k
  <2>1. (q + 1) * m <= k * m
    BY <1>1, <1>4, Monotone
  <2>2. (q + 1) * m = q * m + m /\ k * m \in Nat /\ q * m \in Nat
    BY <1>1, Distribute
  <2> QED BY <1>1, <1>2, <2>1, <2>2
<1>5. CASE k = q
  BY <1>1, <1>2, <1>5
<1> QED BY <1>1, <1>2, <1>3, <1>4, <1>5

(* A remainder may be taken first.                                          *)
LEMMA ModAdd ==
  ASSUME NEW a \in Nat, NEW b \in Nat, NEW m \in Nat \ {0}
  PROVE  ((a % m) + b) % m = (a + b) % m
<1> DEFINE k == a \div m
           r == a % m
           j == (r + b) \div m
           s == (r + b) % m
<1>1. k \in Nat /\ r \in 0 .. m - 1 /\ a = k * m + r
  BY DivMod
<1>2. j \in Nat /\ s \in 0 .. m - 1 /\ r + b = j * m + s
  <2>1. r + b \in Nat
    BY <1>1
  <2> QED BY <2>1, DivMod
<1> HIDE DEF k, j
<1>3. a + b = (k + j) * m + s
  <2>1. (k + j) * m = k * m + j * m /\ k * m \in Nat /\ j * m \in Nat
    BY <1>1, <1>2, Distribute
  <2> HIDE DEF r, s
  <2> QED BY <1>1, <1>2, <2>1
<1>4. (a + b) % m = s
  <2> HIDE DEF r, s
  <2>1. k + j \in Nat
    BY <1>1, <1>2
  <2>2. ((k + j) * m + s) % m = s
    BY <1>2, <2>1, ModUnique
  <2> QED BY <1>3, <2>2
<1> QED BY <1>4

(* Two numbers less than m apart have different remainders.                 *)
LEMMA ModDistinct ==
  ASSUME NEW a \in Nat, NEW b \in Nat, NEW m \in Nat \ {0}, a < b, b < a + m
  PROVE  a % m # b % m
<1> SUFFICES ASSUME a % m = b % m PROVE FALSE
  OBVIOUS
<1> DEFINE p == a \div m
           q == b \div m
           r == a % m
<1>1. p \in Nat /\ q \in Nat /\ r \in 0 .. m - 1 /\ a = p * m + r /\ b = q * m + r
  BY DivMod
<1> HIDE DEF p, q, r
<1>2. p * m \in Nat /\ q * m \in Nat /\ (p + 1) * m = p * m + m
  BY <1>1, Distribute
<1>3. CASE q <= p
  <2>1. q * m <= p * m
    BY <1>1, <1>3, Monotone
  <2> QED BY <1>1, <1>2, <2>1
<1>4. CASE p < q
  <2>1. (p + 1) * m <= q * m
    BY <1>1, <1>4, Monotone
  <2> QED BY <1>1, <1>2, <2>1
<1> QED BY <1>1, <1>3, <1>4

-----------------------------------------------------------------------------
(* Quotients rounded up: how many blocks of m hold n bytes.                 *)

LEMMA RoundUp ==
  ASSUME NEW n \in Nat, NEW m \in Nat \ {0}
  PROVE  LET b == (n + m - 1) \div m
         IN  b \in Nat /\ b * m \in Nat /\ n <= b * m /\ b * m < n + m
<1> DEFINE a == n + m - 1
           b == a \div m
<1>1. a \in Nat
  OBVIOUS
<1>2. b \in Nat /\ a % m \in 0 .. m - 1 /\ a = b * m + (a % m)
  BY <1>1, DivMod
<1>3. b * m \in Nat /\ a = n + m - 1
  BY <1>2, Distribute
<1>4. n <= b * m /\ b * m < n + m
  <2> HIDE DEF a, b
  <2> QED BY <1>2, <1>3
<1> QED BY <1>2, <1>3, <1>4

(* n more bytes after k whole blocks.                                       *)
LEMMA RoundUpAfter ==
  ASSUME NEW k \in Nat, NEW n \in Nat, NEW m \in Nat \ {0}
  PROVE  k * m \in Nat /\ (k * m + n + m - 1) \div m = k + ((n + m - 1) \div m)
<1> DEFINE a == k * m
           b == (n + m - 1) \div m
<1>1. a \in Nat
  BY Distribute
<1>2. b \in Nat /\ n <= b * m /\ b * m < n + m /\ b * m \in Nat
  BY RoundUp
<1> HIDE DEF b
<1>3. /\ (k + b) * m = a + b * m
      /\ (k + b + 1) * m = (k + b) * m + m /\ (k + b) * m \in Nat
  BY <1>2, Distribute
<1> HIDE DEF a
<1>4. (a + n + m - 1) \div m = k + b
  BY <1>1, <1>2, <1>3, Quotient
<1> QED BY <1>1, <1>4 DEF a, b

LEMMA RoundUpNone ==
  ASSUME NEW m \in Nat \ {0}
  PROVE  (0 + m - 1) \div m = 0
<1>1. 0 * m = 0 /\ (0 + 1) * m = m
  OBVIOUS
<1> QED BY <1>1, Quotient

-----------------------------------------------------------------------------
(* Polynomials. *)

(* The hash of the first n blocks, written out: each block by the power of  *)
(* H that the blocks after it raise it to.                                  *)
Poly(blocks, n) == UNION {{<<n - i + 1, x[1], x[2]>> : x \in blocks[i]} : i \in 1 .. n}

LEMMA PolyMember ==
  ASSUME NEW blocks, NEW n, NEW t
  PROVE  t \in Poly(blocks, n) <=>
           \E i \in 1 .. n : \E x \in blocks[i] : t = <<n - i + 1, x[1], x[2]>>
BY DEF Poly

LEMMA TimesHMember ==
  ASSUME NEW y, NEW k, NEW t
  PROVE  t \in TimesH(y, k) <=> \E s \in y : t = <<s[1] + k, s[2], s[3]>>
BY DEF TimesH

LEMMA TermsMember ==
  ASSUME NEW block, NEW t
  PROVE  t \in Terms(block) <=> \E x \in block : t = <<0, x[1], x[2]>>
BY DEF Terms

LEMMA XorMember ==
  ASSUME NEW a, NEW b, NEW t
  PROVE  t \in Xor(a, b) <=> (t \in a /\ t \notin b) \/ (t \in b /\ t \notin a)
BY DEF Xor

LEMMA TimesHTerms ==
  ASSUME NEW block, NEW k \in Nat
  PROVE  TimesH(Terms(block), k) = {<<k, x[1], x[2]>> : x \in block}
<1> DEFINE P == {<<k, x[1], x[2]>> : x \in block}
<1>1. ASSUME NEW x \in block
      PROVE  <<0 + k, x[1], x[2]>> = <<k, x[1], x[2]>> /\ <<0, x[1], x[2]>> \in Terms(block)
  BY DEF Terms
<1>2. ASSUME NEW t \in TimesH(Terms(block), k) PROVE t \in P
  <2>1. PICK s \in Terms(block) : t = <<s[1] + k, s[2], s[3]>>
    BY TimesHMember
  <2>2. PICK x \in block : s = <<0, x[1], x[2]>>
    BY TermsMember
  <2>3. t = <<0 + k, x[1], x[2]>>
    BY <2>1, <2>2
  <2> QED BY <1>1, <2>3
<1>3. ASSUME NEW x \in block PROVE <<k, x[1], x[2]>> \in TimesH(Terms(block), k)
  <2>1. <<0, x[1], x[2]>> \in Terms(block) /\ <<0 + k, x[1], x[2]>> = <<k, x[1], x[2]>>
    BY <1>1
  <2> QED BY <2>1, TimesHMember
<1> QED BY <1>2, <1>3

LEMMA PolyStep ==
  ASSUME NEW blocks, NEW n \in Nat \ {0}
  PROVE  TimesH(Xor(Poly(blocks, n - 1), Terms(blocks[n])), 1) = Poly(blocks, n)
<1> DEFINE sum == Xor(Poly(blocks, n - 1), Terms(blocks[n]))
<1>1. ASSUME NEW i \in 1 .. n - 1, NEW x \in blocks[i]
      PROVE  <<n - i, x[1], x[2]>> \in sum
  <2>1. <<n - i, x[1], x[2]>> \in Poly(blocks, n - 1)
    <3>1. n - i = (n - 1) - i + 1
      OBVIOUS
    <3> QED BY <3>1, PolyMember
  <2>2. \A z : <<n - i, x[1], x[2]>> # <<0, z[1], z[2]>>
    OBVIOUS
  <2> QED BY <2>1, <2>2, TermsMember, XorMember
<1>2. ASSUME NEW x \in blocks[n] PROVE <<0, x[1], x[2]>> \in sum
  <2>1. <<0, x[1], x[2]>> \in Terms(blocks[n])
    BY TermsMember
  <2>2. \A i \in 1 .. n - 1 : \A z : <<0, x[1], x[2]>> # <<(n - 1) - i + 1, z[1], z[2]>>
    OBVIOUS
  <2> QED BY <2>1, <2>2, PolyMember, XorMember
<1>3. ASSUME NEW s \in sum
      PROVE  \E i \in 1 .. n : \E x \in blocks[i] : s = <<n - i, x[1], x[2]>>
  <2>1. s \in Poly(blocks, n - 1) \/ s \in Terms(blocks[n])
    BY XorMember
  <2>2. CASE s \in Poly(blocks, n - 1)
    <3>1. PICK i \in 1 .. n - 1 : \E x \in blocks[i] : s = <<(n - 1) - i + 1, x[1], x[2]>>
      BY <2>2, PolyMember
    <3>2. i \in 1 .. n /\ (n - 1) - i + 1 = n - i
      OBVIOUS
    <3> QED BY <3>1, <3>2
  <2>3. CASE s \in Terms(blocks[n])
    <3>1. PICK x \in blocks[n] : s = <<0, x[1], x[2]>>
      BY <2>3, TermsMember
    <3>2. n \in 1 .. n /\ n - n = 0
      OBVIOUS
    <3> QED BY <3>1, <3>2
  <2> QED BY <2>1, <2>2, <2>3
<1> HIDE DEF sum
<1>4. ASSUME NEW t \in TimesH(sum, 1) PROVE t \in Poly(blocks, n)
  <2>1. PICK s \in sum : t = <<s[1] + 1, s[2], s[3]>>
    BY TimesHMember
  <2>2. PICK i \in 1 .. n : \E x \in blocks[i] : s = <<n - i, x[1], x[2]>>
    BY <1>3
  <2>3. \E x \in blocks[i] : t = <<n - i + 1, x[1], x[2]>>
    BY <2>1, <2>2
  <2> QED BY <2>3, PolyMember
<1>5. ASSUME NEW t \in Poly(blocks, n) PROVE t \in TimesH(sum, 1)
  <2>1. PICK i \in 1 .. n : \E x \in blocks[i] : t = <<n - i + 1, x[1], x[2]>>
    BY PolyMember
  <2>2. \A x \in blocks[i] : <<n - i, x[1], x[2]>> \in sum
    <3>1. CASE i = n
      <4>1. n - i = 0
        BY <3>1
      <4> QED BY <1>2, <3>1, <4>1
    <3>2. CASE i # n
      <4>1. i \in 1 .. n - 1
        BY <3>2
      <4> QED BY <1>1, <4>1
    <3> QED BY <3>1, <3>2
  <2> QED BY <2>1, <2>2, TimesHMember
<1>6. TimesH(sum, 1) = Poly(blocks, n)
  BY <1>4, <1>5
<1> QED BY <1>6 DEF sum

LEMMA NoPoly == ASSUME NEW blocks PROVE Poly(blocks, 0) = {}
BY DEF Poly

(* The standards' hash, written out.                                        *)
LEMMA HashIsPoly ==
  ASSUME NEW blocks, Len(blocks) \in Nat
  PROVE  HashOf(blocks) = Poly(blocks, Len(blocks))
<1> DEFINE n == Len(blocks)
           Horner(y) == [i \in 0 .. n |-> IF i = 0 THEN {}
                                          ELSE TimesH(Xor(y[i - 1], Terms(blocks[i])), 1)]
           y == CHOOSE z : z = Horner(z)
           written == [i \in 0 .. n |-> Poly(blocks, i)]
<1>1. n \in Nat /\ 0 \in 0 .. n
  OBVIOUS
<1>2. HashOf(blocks) = y[n]
  BY DEF HashOf
<1> HIDE DEF n
<1>3. written = Horner(written)
  <2>1. ASSUME NEW i \in 0 .. n, i # 0
        PROVE  Poly(blocks, i) = TimesH(Xor(written[i - 1], Terms(blocks[i])), 1)
    <3>1. i \in Nat \ {0} /\ i - 1 \in 0 .. n
      BY <1>1, <2>1
    <3>2. written[i - 1] = Poly(blocks, i - 1)
      BY <3>1
    <3> HIDE DEF written
    <3> QED BY <3>1, <3>2, PolyStep
  <2> QED BY <2>1, NoPoly
<1>4. y = Horner(y)
  BY <1>3
<1> HIDE DEF y, written
<1>5. y[0] = {} /\ \A i \in 0 .. n : i # 0 => y[i] = TimesH(Xor(y[i - 1], Terms(blocks[i])), 1)
  BY <1>1, <1>4
<1> HIDE DEF Horner
<1> DEFINE T == {i \in 0 .. n : y[i] = Poly(blocks, i)}
<1>6. 0 \in T
  BY <1>1, <1>5, NoPoly
<1>7. ASSUME NEW i \in 0 .. n, i # n, i \in T PROVE i + 1 \in T
  <2>1. i + 1 \in 0 .. n /\ i + 1 # 0 /\ (i + 1) - 1 = i /\ i + 1 \in Nat \ {0}
    BY <1>1, <1>7
  <2>2. y[i + 1] = TimesH(Xor(Poly(blocks, i), Terms(blocks[i + 1])), 1)
    BY <1>5, <1>7, <2>1
  <2>3. y[i + 1] = Poly(blocks, i + 1)
    BY <2>1, <2>2, PolyStep
  <2> QED BY <2>1, <2>3
<1>8. \A i \in 0 .. n : i \in T
  <2> HIDE DEF T
  <2> QED BY <1>1, <1>6, <1>7, Induct
<1> QED BY <1>1, <1>2, <1>8 DEF n

-----------------------------------------------------------------------------
(* Blocks under one reduction. *)

(* A sum of polynomials that share no term is their union.                  *)
LEMMA XorSumDisjoint ==
  ASSUME NEW n \in Nat, NEW s, Len(s) = n,
         \A i, j \in 1 .. n : i # j => s[i] \cap s[j] = {}
  PROVE  XorSum(s) = UNION {s[i] : i \in 1 .. n}
<1> DEFINE Sum(y) == [i \in 0 .. n |-> IF i = 0 THEN {} ELSE Xor(y[i - 1], s[i])]
           y == CHOOSE z : z = Sum(z)
           Part(i) == UNION {s[k] : k \in 1 .. i}
           written == [i \in 0 .. n |-> Part(i)]
<1>1. 0 \in 0 .. n /\ Part(0) = {}
  OBVIOUS
<1>2. XorSum(s) = y[n]
  BY DEF XorSum
<1>3. ASSUME NEW i \in 0 .. n, i # 0
      PROVE  i - 1 \in 0 .. n /\ Part(i) = Xor(Part(i - 1), s[i])
  <2>1. i - 1 \in 0 .. n /\ i \in 1 .. n /\ \A k \in 1 .. i - 1 : k \in 1 .. n /\ k # i
    BY <1>3
  <2>2. Part(i - 1) \cap s[i] = {}
    BY <2>1
  <2>3. Part(i) = Part(i - 1) \cup s[i]
    <3>1. \A k : k \in 1 .. i <=> k \in 1 .. i - 1 \/ k = i
      BY <2>1
    <3> QED BY <3>1
  <2> HIDE DEF Part
  <2> QED BY <2>1, <2>2, <2>3 DEF Xor
<1> HIDE DEF Part
<1>4. written = Sum(written)
  BY <1>1, <1>3
<1>5. y = Sum(y)
  BY <1>4
<1> HIDE DEF y, written
<1>6. y[0] = {} /\ \A i \in 0 .. n : i # 0 => y[i] = Xor(y[i - 1], s[i])
  BY <1>1, <1>5
<1> HIDE DEF Sum
<1> DEFINE T == {i \in 0 .. n : y[i] = Part(i)}
<1>7. 0 \in T
  BY <1>1, <1>6
<1>8. ASSUME NEW i \in 0 .. n, i # n, i \in T PROVE i + 1 \in T
  <2>1. i + 1 \in 0 .. n /\ i + 1 # 0 /\ (i + 1) - 1 = i
    BY <1>8
  <2> QED BY <1>3, <1>6, <1>8, <2>1
<1>9. \A i \in 0 .. n : i \in T
  <2> HIDE DEF T
  <2> QED BY <1>7, <1>8, Induct
<1> QED BY <1>1, <1>2, <1>9 DEF Part

(* No term of an accumulator is free of H.                                  *)
Accumulated(y) == \A t \in y : t[1] \in Nat \ {0} /\ t = <<t[1], t[2], t[3]>>

LEMMA PolyAccumulated ==
  ASSUME NEW blocks, NEW n \in Nat
  PROVE  Accumulated(Poly(blocks, n))
<1> SUFFICES ASSUME NEW t \in Poly(blocks, n)
             PROVE  t[1] \in Nat \ {0} /\ t = <<t[1], t[2], t[3]>>
  BY DEF Accumulated
<1>1. PICK i \in 1 .. n : \E x \in blocks[i] : t = <<n - i + 1, x[1], x[2]>>
  BY PolyMember
<1> QED BY <1>1

LEMMA KeyPowers == \A i \in 1 .. 8 : h_pows[i] = i
BY DEF h_pows

LEMMA UpdateIsPoly ==
  ASSUME NEW y, Accumulated(y), NEW n \in 1 .. 8, NEW lanes, Len(lanes) = n
  PROVE  update_blocks(y, lanes) = TimesH(y, n) \cup Poly(lanes, n)
<1> DEFINE first == Xor(y, Terms(lanes[1]))
           s == [i \in 1 .. n |->
                   TimesH(IF i = 1 THEN Xor(y, Terms(lanes[i])) ELSE Terms(lanes[i]),
                          h_pows[n - i + 1])]
           P(i) == {<<n - i + 1, x[1], x[2]>> : x \in lanes[i]}
<1>1. update_blocks(y, lanes) = XorSum(s)
  BY DEF update_blocks
<1>2. n \in Nat /\ 1 \in 1 .. n /\ Len(s) = n
  OBVIOUS
<1>3. ASSUME NEW i \in 1 .. n
      PROVE  h_pows[n - i + 1] = n - i + 1 /\ TimesH(Terms(lanes[i]), n - i + 1) = P(i)
  <2>1. n - i + 1 \in 1 .. 8 /\ 0 + (n - i + 1) = n - i + 1
    OBVIOUS
  <2>2. TimesH(Terms(lanes[i]), n - i + 1) = P(i)
    BY <2>1, TimesHTerms
  <2> QED BY <2>1, <2>2, KeyPowers
<1>4. first = y \cup Terms(lanes[1])
  <2>1. y \cap Terms(lanes[1]) = {}
    BY DEF Accumulated, Terms
  <2> QED BY <2>1 DEF Xor
<1>5. s[1] = TimesH(y, n) \cup P(1)
  <2>1. s[1] = TimesH(first, n - 1 + 1)
    BY <1>2, <1>3
  <2>2. TimesH(first, n) = TimesH(y, n) \cup TimesH(Terms(lanes[1]), n)
    BY <1>4 DEF TimesH
  <2>3. n - 1 + 1 = n
    OBVIOUS
  <2> QED BY <1>2, <1>3, <2>1, <2>2, <2>3
<1>6. \A i \in 1 .. n : i # 1 => s[i] = P(i)
  BY <1>3
<1>7. \A t \in s[1] : t[1] >= n
  <2>1. \A t \in TimesH(y, n) : t[1] >= n
    BY DEF TimesH, Accumulated
  <2>2. \A t \in P(1) : t[1] >= n
    OBVIOUS
  <2> QED BY <1>5, <2>1, <2>2
<1>8. \A i \in 1 .. n : i # 1 => \A t \in s[i] : t[1] = n - i + 1 /\ n - i + 1 < n
  BY <1>6
<1> HIDE DEF s
<1>9. \A i, j \in 1 .. n : i # j => s[i] \cap s[j] = {}
  BY <1>7, <1>8
<1>10. XorSum(s) = UNION {s[i] : i \in 1 .. n}
  BY <1>2, <1>9, XorSumDisjoint
<1>11. Poly(lanes, n) = UNION {P(i) : i \in 1 .. n}
  BY DEF Poly
<1> HIDE DEF P
<1>12. UNION {s[i] : i \in 1 .. n} = TimesH(y, n) \cup UNION {P(i) : i \in 1 .. n}
  BY <1>2, <1>5, <1>6
<1> QED BY <1>1, <1>10, <1>11, <1>12

-----------------------------------------------------------------------------
(* One run of blocks after another. *)

LEMMA PolyJoin ==
  ASSUME NEW S, NEW X \in Seq(S), NEW L \in Seq(S)
  PROVE  Poly(X \o L, Len(X) + Len(L)) =
           TimesH(Poly(X, Len(X)), Len(L)) \cup Poly(L, Len(L))
<1> DEFINE m == Len(X)
           n == Len(L)
           C == X \o L
           all == m + n
<1>1. m \in Nat /\ n \in Nat
  BY LenProperties
<1>2. all \in Nat /\ all = m + n
  BY <1>1
<1>3. (\A i \in 1 .. m : C[i] = X[i]) /\ (\A i \in 1 .. n : C[m + i] = L[i])
  <2>1. ASSUME NEW i \in 1 .. m PROVE C[i] = X[i]
    BY <1>1, ConcatProperties
  <2>2. ASSUME NEW i \in 1 .. n PROVE C[m + i] = L[i]
    <3>1. m + i \in 1 .. m + n /\ ~ (m + i <= m) /\ (m + i) - m = i
      BY <1>1
    <3> QED BY <3>1, ConcatProperties
  <2> QED BY <2>1, <2>2
<1> HIDE DEF C, m, n, all
<1>4. ASSUME NEW t \in Poly(C, all)
      PROVE  t \in TimesH(Poly(X, m), n) \cup Poly(L, n)
  <2>1. PICK i \in 1 .. all : \E x \in C[i] : t = <<all - i + 1, x[1], x[2]>>
    BY PolyMember
  <2>2. PICK x \in C[i] : t = <<all - i + 1, x[1], x[2]>>
    BY <2>1
  <2>3. CASE i <= m
    <3>1. i \in 1 .. m /\ (m - i + 1) + n = all - i + 1
      BY <1>1, <1>2, <2>3
    <3>2. <<m - i + 1, x[1], x[2]>> \in Poly(X, m)
      BY <1>3, <2>2, <3>1, PolyMember
    <3> QED BY <2>2, <3>1, <3>2, TimesHMember
  <2>4. CASE ~ (i <= m)
    <3> DEFINE j == i - m
    <3>1. j \in 1 .. n /\ m + j = i /\ n - j + 1 = all - i + 1
      BY <1>1, <1>2, <2>4
    <3> HIDE DEF j
    <3>2. x \in L[j]
      BY <1>3, <2>2, <3>1
    <3> QED BY <2>2, <3>1, <3>2, PolyMember
  <2> QED BY <2>3, <2>4
<1>5. ASSUME NEW t \in TimesH(Poly(X, m), n) PROVE t \in Poly(C, all)
  <2>1. PICK s \in Poly(X, m) : t = <<s[1] + n, s[2], s[3]>>
    BY TimesHMember
  <2>2. PICK i \in 1 .. m : \E x \in X[i] : s = <<m - i + 1, x[1], x[2]>>
    BY PolyMember
  <2>3. PICK x \in X[i] : s = <<m - i + 1, x[1], x[2]>>
    BY <2>2
  <2>4. t = <<all - i + 1, x[1], x[2]>>
    <3>1. (m - i + 1) + n = all - i + 1
      BY <1>1, <1>2
    <3> QED BY <2>1, <2>3, <3>1
  <2>5. i \in 1 .. all /\ x \in C[i]
    BY <1>1, <1>2, <1>3
  <2> QED BY <2>4, <2>5, PolyMember
<1>6. ASSUME NEW t \in Poly(L, n) PROVE t \in Poly(C, all)
  <2>1. PICK j \in 1 .. n : \E x \in L[j] : t = <<n - j + 1, x[1], x[2]>>
    BY PolyMember
  <2>2. PICK x \in L[j] : t = <<n - j + 1, x[1], x[2]>>
    BY <2>1
  <2>3. m + j \in 1 .. all /\ all - (m + j) + 1 = n - j + 1
    BY <1>1, <1>2
  <2>4. x \in C[m + j]
    BY <1>3
  <2> QED BY <2>2, <2>3, <2>4, PolyMember
<1>7. Poly(C, all) = TimesH(Poly(X, m), n) \cup Poly(L, n)
  BY <1>4, <1>5, <1>6
<1> QED BY <1>7 DEF C, m, n, all

(* Up to eight blocks under one reduction are those blocks one by one.      *)
LEMMA UpdateIsHash ==
  ASSUME NEW S, NEW X \in Seq(S), NEW L \in Seq(S), Len(L) \in 1 .. 8
  PROVE  update_blocks(HashOf(X), L) = HashOf(X \o L)
<1>1. Len(X) \in Nat /\ X \o L \in Seq(S) /\ Len(X \o L) = Len(X) + Len(L)
      /\ Len(X \o L) \in Nat
  BY LenProperties, ConcatProperties
<1>2. HashOf(X) = Poly(X, Len(X)) /\ HashOf(X \o L) = Poly(X \o L, Len(X) + Len(L))
  BY <1>1, HashIsPoly
<1>3. Accumulated(Poly(X, Len(X)))
  BY <1>1, PolyAccumulated
<1>4. update_blocks(Poly(X, Len(X)), L) = TimesH(Poly(X, Len(X)), Len(L)) \cup Poly(L, Len(L))
  BY <1>3, UpdateIsPoly
<1> QED BY <1>2, <1>4, PolyJoin

-----------------------------------------------------------------------------
(* A run of blocks cut in pieces. *)

LEMMA Division ==
  ASSUME NEW n \in Nat
  PROVE  /\ Octets(n) \in Nat /\ Quads(n) \in 0 .. 1 /\ n % 4 \in 0 .. 3
         /\ n = 8 * Octets(n) + 4 * Quads(n) + (n % 4)
BY DEF Octets, Quads

LEMMA PieceShape ==
  ASSUME NEW n \in Nat
  PROVE  /\ Pieces(n) \in Nat /\ PieceEnd(n, 0) = 0 /\ PieceEnd(n, Pieces(n)) = n
         /\ \A i \in 0 .. Pieces(n) : PieceEnd(n, i) \in 0 .. n
         /\ \A i \in 1 .. Pieces(n) : PieceEnd(n, i) - PieceEnd(n, i - 1) \in {1, 4, 8}
<1> DEFINE o == Octets(n)
           q == Quads(n)
           s == n % 4
<1>1. o \in Nat /\ q \in 0 .. 1 /\ s \in 0 .. 3 /\ n = 8 * o + 4 * q + s
  BY Division, Zenon
<1>2. /\ Pieces(n) = o + q + s
      /\ \A i : PieceEnd(n, i) = IF i <= o THEN 8 * i
                                 ELSE 8 * o + IF i <= o + q THEN 4 ELSE 4 * q + (i - o - q)
  BY DEF Pieces, PieceEnd
<1> HIDE DEF o, q, s
<1>3. Pieces(n) \in Nat /\ PieceEnd(n, 0) = 0
  BY <1>1, <1>2
<1>4. PieceEnd(n, Pieces(n)) = n
  BY <1>1, <1>2
<1>5. ASSUME NEW i \in 0 .. Pieces(n) PROVE PieceEnd(n, i) \in 0 .. n
  BY <1>1, <1>2
<1>6. ASSUME NEW i \in 1 .. Pieces(n)
      PROVE  PieceEnd(n, i) - PieceEnd(n, i - 1) \in {1, 4, 8}
  BY <1>1, <1>2
<1> QED BY <1>3, <1>4, <1>5, <1>6

LEMMA Append3 ==
  ASSUME NEW S, NEW s \in Seq(S), NEW t \in Seq(S), NEW u \in Seq(S)
  PROVE  s \o t \in Seq(S) /\ (s \o t) \o u = s \o (t \o u)
BY ConcatProperties, ConcatAssociative

(* Any run of blocks, eight, four and one at a time, is hashed in order.    *)
LEMMA AbsorbIsHash ==
  ASSUME NEW S, NEW X \in Seq(S), NEW L \in Seq(S)
  PROVE  absorb_blocks(HashOf(X), L) = HashOf(X \o L)
<1> DEFINE n == Len(L)
           last == Pieces(n)
           Piece(i) == SubSeq(L, PieceEnd(n, i - 1) + 1, PieceEnd(n, i))
           Absorb(y) == [i \in 0 .. last |-> IF i = 0 THEN HashOf(X)
                                             ELSE update_blocks(y[i - 1], Piece(i))]
           y == CHOOSE z : z = Absorb(z)
           Hashed(i) == HashOf(X \o SubSeq(L, 1, PieceEnd(n, i)))
           written == [i \in 0 .. last |-> Hashed(i)]
<1>1. n \in Nat
  BY LenProperties
<1>2. /\ last \in Nat /\ 0 \in 0 .. last
      /\ PieceEnd(n, 0) = 0 /\ PieceEnd(n, last) = n
      /\ \A i \in 0 .. last : PieceEnd(n, i) \in 0 .. n
      /\ \A i \in 1 .. last : PieceEnd(n, i) - PieceEnd(n, i - 1) \in {1, 4, 8}
  BY <1>1, PieceShape
<1>3. absorb_blocks(HashOf(X), L) = y[last]
  BY DEF absorb_blocks
<1> HIDE DEF last, n
<1>4. Hashed(0) = HashOf(X)
  <2>1. SubSeq(L, 1, 0) = << >>
    BY SubSeqEmpty
  <2>2. X \o << >> = X
    BY ConcatEmptySeq
  <2> QED BY <1>2, <2>1, <2>2
<1>5. ASSUME NEW i \in 0 .. last, i # 0
      PROVE  i - 1 \in 0 .. last /\ update_blocks(Hashed(i - 1), Piece(i)) = Hashed(i)
  <2> DEFINE a == PieceEnd(n, i - 1)
             b == PieceEnd(n, i)
             done == SubSeq(L, 1, a)
             piece == SubSeq(L, a + 1, b)
  <2>1. i - 1 \in 0 .. last /\ i \in 1 .. last
    BY <1>2, <1>5
  <2>2. a \in 0 .. n /\ b \in 0 .. n /\ b - a \in 1 .. 8
    <3>1. a \in 0 .. n /\ b \in 0 .. n
      BY <1>2, <2>1
    <3>2. b - a \in {1, 4, 8}
      BY <1>2, <2>1
    <3> QED BY <3>1, <3>2
  <2> HIDE DEF a, b
  <2>3. /\ done \in Seq(S) /\ piece \in Seq(S) /\ Len(piece) = b - a
        /\ done \o piece = SubSeq(L, 1, b)
    <3>1. \A k \in 1 .. a : L[k] \in S
      BY <1>1, <2>2, ElementOfSeq DEF n
    <3>2. \A k \in a + 1 .. b : L[k] \in S
      BY <1>1, <2>2, ElementOfSeq DEF n
    <3>3. done \in Seq(S) /\ piece \in Seq(S) /\ Len(piece) = b - a
      BY <1>1, <2>2, <3>1, <3>2, SubSeqProperties
    <3>4. done \o piece = SubSeq(L, 1, b)
      BY <1>1, <2>2, ConcatAdjacentSubSeq DEF n
    <3> QED BY <3>3, <3>4
  <2> HIDE DEF done, piece
  <2>4. X \o done \in Seq(S) /\ (X \o done) \o piece = X \o (done \o piece)
    <3>1. done \in Seq(S) /\ piece \in Seq(S)
      BY <2>3
    <3> QED BY ONLY X \in Seq(S), <3>1, Append3
  <2>5. update_blocks(HashOf(X \o done), piece) = HashOf((X \o done) \o piece)
    BY <2>2, <2>3, <2>4, UpdateIsHash
  <2> QED BY <2>1, <2>3, <2>4, <2>5 DEF a, b, done, piece
<1> HIDE DEF Hashed, Piece
<1>6. written = Absorb(written)
  BY <1>4, <1>5
<1>7. y = Absorb(y)
  BY <1>6
<1> HIDE DEF y, written
<1>8. y[0] = HashOf(X) /\ \A i \in 0 .. last : i # 0 => y[i] = update_blocks(y[i - 1], Piece(i))
  BY <1>2, <1>7
<1> HIDE DEF Absorb
<1> DEFINE T == {i \in 0 .. last : y[i] = Hashed(i)}
<1>9. 0 \in T
  BY <1>2, <1>4, <1>8
<1>10. ASSUME NEW i \in 0 .. last, i # last, i \in T PROVE i + 1 \in T
  <2>1. i + 1 \in 0 .. last /\ i + 1 # 0 /\ (i + 1) - 1 = i
    BY <1>2, <1>10
  <2> QED BY <1>5, <1>8, <1>10, <2>1
<1>11. \A i \in 0 .. last : i \in T
  <2> HIDE DEF T
  <2> QED BY <1>2, <1>9, <1>10, Induct
<1>12. y[last] = HashOf(X \o SubSeq(L, 1, n))
  BY <1>2, <1>11 DEF Hashed
<1>13. SubSeq(L, 1, n) = L
  BY SubSeqFull DEF n
<1> QED BY <1>3, <1>12, <1>13

-----------------------------------------------------------------------------
(* Strings of bytes, and their blocks. *)

LEMMA BlocksOf ==
  ASSUME NEW n \in Nat
  PROVE  /\ BlocksIn(n) \in Nat
         /\ n <= BlocksIn(n) * BlockSize
         /\ BlocksIn(n) * BlockSize < n + BlockSize
BY AlgebraAssumption, RoundUp DEF BlocksIn

(* n more bytes after k whole blocks.                                       *)
LEMMA BlocksAfter ==
  ASSUME NEW k \in Nat, NEW n \in Nat
  PROVE  k * BlockSize \in Nat /\ BlocksIn(k * BlockSize + n) = k + BlocksIn(n)
BY AlgebraAssumption, RoundUpAfter DEF BlocksIn

LEMMA NoBlocks == BlocksIn(0) = 0
BY AlgebraAssumption, RoundUpNone DEF BlocksIn

LEMMA WholeBlocks ==
  ASSUME NEW n \in Nat, n % BlockSize = 0
  PROVE  BlocksIn(n) \in Nat /\ n = BlocksIn(n) * BlockSize
<1>1. BlockSize \in Nat \ {0}
  BY AlgebraAssumption
<1> DEFINE q == n \div BlockSize
<1>2. q \in Nat /\ n = q * BlockSize
  BY <1>1, WholeMultiple
<1> HIDE DEF q
<1>3. BlocksIn(q * BlockSize + 0) = q + BlocksIn(0) /\ q * BlockSize \in Nat
  BY <1>2, BlocksAfter
<1>4. BlocksIn(n) = q
  BY <1>2, <1>3, NoBlocks
<1> QED BY <1>2, <1>4

(* What the blocks of bytes of S are.                                       *)
BlockOf(S) == SUBSET ((0 .. BlockSize - 1) \X UNION S)

(* The block that begins after the first n bytes of s.                      *)
BlockAt(s, n) ==
  UNION {{<<o, a>> : a \in s[n + o + 1]} : o \in {x \in 0 .. BlockSize - 1 : n + x < Len(s)}}

LEMMA BlocksAt ==
  ASSUME NEW s
  PROVE  Blocks(s) = [b \in 1 .. BlocksIn(Len(s)) |-> BlockAt(s, (b - 1) * BlockSize)]
BY DEF Blocks, BlockAt

LEMMA BlockAtType ==
  ASSUME NEW S, NEW s \in Seq(S), NEW n \in Nat
  PROVE  BlockAt(s, n) \in BlockOf(S)
<1> SUFFICES ASSUME NEW t \in BlockAt(s, n)
             PROVE  t \in (0 .. BlockSize - 1) \X UNION S
  BY DEF BlockOf
<1>1. PICK o \in {x \in 0 .. BlockSize - 1 : n + x < Len(s)} :
        \E a \in s[n + o + 1] : t = <<o, a>>
  BY DEF BlockAt
<1>2. PICK a \in s[n + o + 1] : t = <<o, a>>
  BY <1>1
<1>3. n + o + 1 \in 1 .. Len(s)
  BY LenProperties, AlgebraAssumption
<1>4. a \in UNION S
  BY <1>3, ElementOfSeq
<1> QED BY <1>2, <1>4

LEMMA BlocksType ==
  ASSUME NEW S, NEW s \in Seq(S)
  PROVE  Blocks(s) \in Seq(BlockOf(S)) /\ Len(Blocks(s)) = BlocksIn(Len(s))
         /\ BlocksIn(Len(s)) \in Nat
<1> DEFINE n == BlocksIn(Len(s))
<1>1. Len(s) \in Nat /\ n \in Nat /\ BlockSize \in Nat
  BY LenProperties, BlocksOf, AlgebraAssumption
<1>2. \A b \in 1 .. n : BlockAt(s, (b - 1) * BlockSize) \in BlockOf(S)
  <2>1. ASSUME NEW b \in 1 .. n PROVE BlockAt(s, (b - 1) * BlockSize) \in BlockOf(S)
    <3>1. b - 1 \in Nat
      BY <1>1
    <3>2. (b - 1) * BlockSize \in Nat
      BY <1>1, <3>1, Distribute
    <3> QED BY <3>2, BlockAtType
  <2> QED BY <2>1
<1>3. Blocks(s) = [b \in 1 .. n |-> BlockAt(s, (b - 1) * BlockSize)]
  BY BlocksAt
<1> HIDE DEF n
<1>4. Blocks(s) \in [1 .. n -> BlockOf(S)]
  BY <1>2, <1>3
<1>5. Blocks(s) \in Seq(BlockOf(S))
  BY <1>1, <1>4, SeqDef
<1>6. Len(Blocks(s)) = n
  BY <1>1, <1>4, <1>5, LenProperties
<1> QED BY <1>1, <1>5, <1>6 DEF n

(* Sequences that agree on the bytes of a block have the same block there.  *)
LEMMA SameBlock ==
  ASSUME NEW s, NEW n, NEW t, NEW m,
         \A x \in 0 .. BlockSize - 1 : n + x < Len(s) <=> m + x < Len(t),
         \A x \in 0 .. BlockSize - 1 : n + x < Len(s) => s[n + x + 1] = t[m + x + 1]
  PROVE  BlockAt(s, n) = BlockAt(t, m)
<1>1. {x \in 0 .. BlockSize - 1 : n + x < Len(s)} = {x \in 0 .. BlockSize - 1 : m + x < Len(t)}
  OBVIOUS
<1> QED BY <1>1 DEF BlockAt

(* Whole blocks, and then the blocks of the rest.                           *)
LEMMA BlocksJoin ==
  ASSUME NEW S, NEW s \in Seq(S), NEW t \in Seq(S), Len(s) % BlockSize = 0
  PROVE  Blocks(s \o t) = Blocks(s) \o Blocks(t)
<1> DEFINE B == BlockSize
           q == BlocksIn(Len(s))
           r == BlocksIn(Len(t))
           c == s \o t
<1>1. B \in Nat \ {0} /\ Len(s) \in Nat /\ Len(t) \in Nat
  BY AlgebraAssumption, LenProperties
<1>2. q \in Nat /\ Len(s) = q * B /\ r \in Nat
  BY <1>1, WholeBlocks, BlocksOf
<1>3. c \in Seq(S) /\ Len(c) = q * B + Len(t)
      /\ \A i \in 1 .. Len(s) + Len(t) : c[i] = IF i <= Len(s) THEN s[i] ELSE t[i - Len(s)]
  BY <1>2, ConcatProperties
<1>4. BlocksIn(Len(c)) = q + r
  BY <1>1, <1>2, <1>3, BlocksAfter
<1>5. /\ Blocks(s) \in Seq(BlockOf(S)) /\ Len(Blocks(s)) = q
      /\ Blocks(t) \in Seq(BlockOf(S)) /\ Len(Blocks(t)) = r
      /\ Blocks(c) \in Seq(BlockOf(S)) /\ Len(Blocks(c)) = q + r
  BY <1>3, <1>4, BlocksType
<1>6. /\ \A b \in 1 .. q : Blocks(s)[b] = BlockAt(s, (b - 1) * B)
      /\ \A b \in 1 .. r : Blocks(t)[b] = BlockAt(t, (b - 1) * B)
      /\ \A b \in 1 .. q + r : Blocks(c)[b] = BlockAt(c, (b - 1) * B)
  BY <1>4, BlocksAt
<1> HIDE DEF q, r, c
<1>7. ASSUME NEW b \in 1 .. q PROVE BlockAt(c, (b - 1) * B) = BlockAt(s, (b - 1) * B)
  <2> DEFINE n == (b - 1) * B
  <2>1. n \in Nat /\ n + B <= Len(s)
    <3>1. (b - 1 + 1) * B <= q * B
      BY <1>1, <1>2, Monotone
    <3>2. (b - 1 + 1) * B = n + B /\ n \in Nat
      BY <1>1, Distribute
    <3> QED BY <1>2, <3>1, <3>2
  <2> HIDE DEF n
  <2>2. ASSUME NEW x \in 0 .. B - 1
        PROVE  n + x < Len(s) /\ n + x < Len(c) /\ c[n + x + 1] = s[n + x + 1]
    BY <1>1, <1>2, <1>3, <2>1
  <2> QED BY <2>2, SameBlock DEF n
<1>8. ASSUME NEW b \in 1 .. r
      PROVE  BlockAt(c, (q + b - 1) * B) = BlockAt(t, (b - 1) * B)
  <2> DEFINE n == (b - 1) * B
  <2>1. n \in Nat /\ (q + b - 1) * B = Len(s) + n
    <3>1. (q + (b - 1)) * B = q * B + (b - 1) * B /\ n \in Nat
      BY <1>1, <1>2, Distribute
    <3>2. q + (b - 1) = q + b - 1
      BY <1>2
    <3> QED BY <1>2, <3>1, <3>2
  <2> HIDE DEF n
  <2>2. ASSUME NEW x \in 0 .. B - 1
        PROVE  /\ Len(s) + n + x < Len(c) <=> n + x < Len(t)
               /\ Len(s) + n + x < Len(c) => c[Len(s) + n + x + 1] = t[n + x + 1]
    <3>1. Len(s) + n + x < Len(c) <=> n + x < Len(t)
      BY <1>1, <1>2, <1>3, <2>1
    <3>2. ASSUME n + x < Len(t) PROVE c[Len(s) + n + x + 1] = t[n + x + 1]
      <4> DEFINE i == Len(s) + n + x + 1
      <4>1. i \in 1 .. Len(s) + Len(t) /\ ~ (i <= Len(s)) /\ i - Len(s) = n + x + 1
        BY <1>1, <2>1, <3>2
      <4> HIDE DEF i
      <4>2. c[i] = t[n + x + 1]
        BY <1>3, <4>1
      <4> QED BY <4>2 DEF i
    <3> QED BY <3>1, <3>2
  <2>3. BlockAt(c, Len(s) + n) = BlockAt(t, n)
    BY <2>2, SameBlock
  <2> QED BY <2>1, <2>3 DEF n
<1>9. /\ Blocks(s) \o Blocks(t) \in Seq(BlockOf(S)) /\ Len(Blocks(s) \o Blocks(t)) = q + r
      /\ \A i \in 1 .. q + r : (Blocks(s) \o Blocks(t))[i] =
                                 IF i <= q THEN Blocks(s)[i] ELSE Blocks(t)[i - q]
  BY <1>5, ConcatProperties
<1>10. ASSUME NEW i \in 1 .. q + r PROVE Blocks(c)[i] = (Blocks(s) \o Blocks(t))[i]
  <2>1. CASE i <= q
    <3>1. i \in 1 .. q
      BY <1>2, <2>1
    <3> QED BY <1>6, <1>7, <1>9, <2>1, <3>1
  <2>2. CASE ~ (i <= q)
    <3> DEFINE b == i - q
    <3>1. b \in 1 .. r /\ q + b - 1 = i - 1
      BY <1>2, <2>2
    <3> HIDE DEF b
    <3>2. Blocks(c)[i] = BlockAt(t, (b - 1) * B)
      <4>1. Blocks(c)[i] = BlockAt(c, (i - 1) * B)
        BY <1>6
      <4>2. BlockAt(c, (q + b - 1) * B) = BlockAt(t, (b - 1) * B)
        BY <1>8, <3>1
      <4> QED BY <3>1, <4>1, <4>2
    <3>3. (Blocks(s) \o Blocks(t))[i] = Blocks(t)[b]
      BY <1>9, <2>2 DEF b
    <3> QED BY <1>6, <3>1, <3>2, <3>3
  <2> QED BY <2>1, <2>2
<1>11. Blocks(c) = Blocks(s) \o Blocks(t)
  BY <1>5, <1>9, <1>10, SeqEqual
<1> QED BY <1>11 DEF c

LEMMA SubSeqType ==
  ASSUME NEW S, NEW s \in Seq(S), NEW m \in Nat, NEW n \in Nat, n <= Len(s)
  PROVE  /\ SubSeq(s, m + 1, n) \in Seq(S)
         /\ m <= n => Len(SubSeq(s, m + 1, n)) = n - m
         /\ \A i \in 1 .. n - m : SubSeq(s, m + 1, n)[i] = s[m + i]
<1>1. \A i \in m + 1 .. n : s[i] \in S
  BY ElementOfSeq, LenProperties
<1>2. /\ SubSeq(s, m + 1, n) \in Seq(S)
      /\ Len(SubSeq(s, m + 1, n)) = IF m + 1 <= n THEN n - (m + 1) + 1 ELSE 0
      /\ \A i \in 1 .. n - (m + 1) + 1 : SubSeq(s, m + 1, n)[i] = s[m + 1 + i - 1]
  BY <1>1, SubSeqProperties
<1>3. \A i \in 1 .. n - m : m + 1 + i - 1 = m + i
  OBVIOUS
<1>4. n - (m + 1) + 1 = n - m /\ (m <= n => (IF m + 1 <= n THEN n - (m + 1) + 1 ELSE 0) = n - m)
  OBVIOUS
<1> QED BY <1>2, <1>3, <1>4

LEMMA PrefixType ==
  ASSUME NEW S, NEW s \in Seq(S), NEW n \in Nat, n <= Len(s)
  PROVE  SubSeq(s, 1, n) \in Seq(S) /\ Len(SubSeq(s, 1, n)) = n
         /\ \A i \in 1 .. n : SubSeq(s, 1, n)[i] = s[i]
BY SubSeqType, 0 + 1 = 1, n - 0 = n, \A i \in 1 .. n : 0 + i = i

(* The blocks of a prefix of whole blocks, and of the bytes after it.       *)
LEMMA PrefixBlocks ==
  ASSUME NEW S, NEW s \in Seq(S), NEW p \in Nat, NEW n \in Nat,
         p + n <= Len(s), p % BlockSize = 0
  PROVE  Blocks(SubSeq(s, 1, p + n)) =
           Blocks(SubSeq(s, 1, p)) \o Blocks(SubSeq(s, p + 1, p + n))
<1> DEFINE a == SubSeq(s, 1, p)
           b == SubSeq(s, p + 1, p + n)
<1>1. Len(s) \in Nat /\ p <= Len(s) /\ p + n \in p .. Len(s)
  BY LenProperties
<1>2. a \in Seq(S) /\ Len(a) = p /\ b \in Seq(S)
  BY <1>1, PrefixType, SubSeqType
<1>3. a \o b = SubSeq(s, 1, p + n)
  BY <1>1, ConcatAdjacentSubSeq
<1> HIDE DEF a, b
<1>4. Blocks(a \o b) = Blocks(a) \o Blocks(b)
  BY <1>2, BlocksJoin
<1> QED BY <1>3, <1>4 DEF a, b

(* Sequences of two kinds are sequences of one.                             *)
LEMMA Widen ==
  ASSUME NEW A, NEW B, NEW s \in Seq(A), NEW t \in Seq(B)
  PROVE  s \in Seq(A \cup B) /\ t \in Seq(A \cup B)
<1>1. s \in Seq(A \cup B)
  BY SeqMonotonic, A \subseteq A \cup B
<1>2. t \in Seq(A \cup B)
  BY SeqMonotonic, B \subseteq A \cup B
<1> QED BY <1>1, <1>2

(* A section is hashed with its last block padded, however it is cut.       *)
LEMMA PaddedIsHash ==
  ASSUME NEW A, NEW X \in Seq(A), NEW S, NEW s \in Seq(S)
  PROVE  absorb_padded(HashOf(X), s) = HashOf(X \o Blocks(s))
<1> DEFINE n == Len(s)
           r == n % BlockSize
           full == n - r
           whole == SubSeq(s, 1, full)
           rest == SubSeq(s, full + 1, n)
           U == A \cup BlockOf(S)
           k == n \div BlockSize
<1>1. n \in Nat /\ BlockSize \in Nat \ {0}
  BY LenProperties, AlgebraAssumption
<1>2. k \in Nat /\ r \in 0 .. BlockSize - 1 /\ n = k * BlockSize + r
  BY <1>1, DivMod
<1>3. absorb_padded(HashOf(X), s) =
        IF full = n THEN absorb_blocks(HashOf(X), Blocks(whole))
        ELSE update_blocks(absorb_blocks(HashOf(X), Blocks(whole)), Blocks(rest))
  BY DEF absorb_padded
<1>4. full \in Nat /\ full + r = n /\ full % BlockSize = 0 /\ full = k * BlockSize
  <2>1. k * BlockSize \in Nat /\ (k * BlockSize) % BlockSize = 0
    BY <1>1, <1>2, MultipleMod
  <2> HIDE DEF r, n, k
  <2>2. full = k * BlockSize
    BY <1>1, <1>2, <2>1
  <2> QED BY <1>1, <1>2, <2>1, <2>2
<1> HIDE DEF full, r, k
<1>5. /\ whole \in Seq(S) /\ rest \in Seq(S) /\ Len(rest) = r
  <2>1. full <= n /\ n - full = r
    BY <1>1, <1>2, <1>4
  <2> QED BY <1>1, <1>4, <2>1, PrefixType, SubSeqType
<1>6. Blocks(s) = Blocks(whole) \o Blocks(rest)
  <2>1. full + r <= Len(s) /\ full + r = n /\ r \in Nat
    BY <1>1, <1>2, <1>4
  <2>2. Blocks(SubSeq(s, 1, full + r)) = Blocks(whole) \o Blocks(SubSeq(s, full + 1, full + r))
    BY <1>4, <2>1, PrefixBlocks
  <2>3. SubSeq(s, 1, n) = s
    BY SubSeqFull
  <2> QED BY <2>1, <2>2, <2>3
<1>7. /\ X \in Seq(U) /\ Blocks(whole) \in Seq(U) /\ Blocks(rest) \in Seq(U)
      /\ Len(Blocks(rest)) = BlocksIn(r)
  <2>1. Blocks(whole) \in Seq(BlockOf(S)) /\ Blocks(rest) \in Seq(BlockOf(S))
        /\ Len(Blocks(rest)) = BlocksIn(r)
    BY <1>5, BlocksType
  <2> QED BY <2>1, Widen
<1> HIDE DEF whole, rest, U
<1>8. absorb_blocks(HashOf(X), Blocks(whole)) = HashOf(X \o Blocks(whole))
  BY <1>7, AbsorbIsHash
<1>9. X \o Blocks(whole) \in Seq(U)
      /\ (X \o Blocks(whole)) \o Blocks(rest) = X \o (Blocks(whole) \o Blocks(rest))
  BY <1>7, Append3
<1>10. CASE full = n
  <2>1. r = 0
    BY <1>1, <1>2, <1>4, <1>10
  <2>2. Blocks(rest) = << >>
    BY <1>7, <2>1, NoBlocks, EmptySeq
  <2>3. Blocks(whole) \o << >> = Blocks(whole)
    BY <1>7, ConcatEmptySeq
  <2> QED BY <1>3, <1>6, <1>8, <1>10, <2>2, <2>3
<1>11. CASE full # n
  <2>1. r \in 1 .. BlockSize - 1
    BY <1>1, <1>2, <1>4, <1>11
  <2>2. BlocksIn(r) = 1
    <3>1. r + BlockSize - 1 >= 1 * BlockSize /\ r + BlockSize - 1 < (1 + 1) * BlockSize
          /\ r + BlockSize - 1 \in Nat
      BY <1>1, <2>1
    <3> QED BY <1>1, <3>1, Quotient DEF BlocksIn
  <2>3. update_blocks(HashOf(X \o Blocks(whole)), Blocks(rest)) =
          HashOf((X \o Blocks(whole)) \o Blocks(rest))
    <3> DEFINE Y == X \o Blocks(whole)
               Z == Blocks(rest)
    <3>1. Y \in Seq(U) /\ Z \in Seq(U) /\ Len(Z) \in 1 .. 8
      BY <1>7, <1>9, <2>2
    <3> HIDE DEF Y, Z
    <3>2. update_blocks(HashOf(Y), Z) = HashOf(Y \o Z)
      BY <3>1, UpdateIsHash
    <3> QED BY <3>2 DEF Y, Z
  <2> QED BY <1>3, <1>6, <1>8, <1>9, <1>11, <2>3
<1> QED BY <1>10, <1>11

-----------------------------------------------------------------------------
(* The hash of a message, bit by bit. *)

LEMMA EmptyHash == HashOf(<< >>) = {}
BY EmptySeq, HashIsPoly, NoPoly

LEMMA NoBlocksOfNothing == Blocks(<< >>) = << >>
<1>1. << >> \in Seq({}) /\ Len(<< >>) = 0
  BY EmptySeq
<1>2. Blocks(<< >>) \in Seq(BlockOf({})) /\ Len(Blocks(<< >>)) = 0
  BY <1>1, BlocksType, NoBlocks
<1> QED BY <1>2, EmptySeq

(* The associated data, from nothing.                                       *)
LEMMA AadHash ==
  ASSUME NEW S, NEW aad \in Seq(S)
  PROVE  absorb_padded({}, aad) = HashOf(Blocks(aad))
<1>1. << >> \in Seq({}) /\ Blocks(aad) \in Seq(BlockOf(S))
  BY EmptySeq, BlocksType
<1>2. absorb_padded(HashOf(<< >>), aad) = HashOf(<< >> \o Blocks(aad))
  BY <1>1, PaddedIsHash
<1> QED BY <1>1, <1>2, EmptyHash, ConcatEmptySeq

(* n more bytes of s, after p bytes that are whole blocks: at most eight    *)
(* blocks under one reduction, or a section of its own.                     *)
LEMMA HashMore ==
  ASSUME NEW A, NEW X \in Seq(A), NEW S, NEW s \in Seq(S), NEW p \in Nat, NEW n \in Nat,
         p + n <= Len(s), p % BlockSize = 0
  PROVE  LET before == HashOf(X \o Blocks(SubSeq(s, 1, p)))
             more == SubSeq(s, p + 1, p + n)
             after == HashOf(X \o Blocks(SubSeq(s, 1, p + n)))
         IN /\ absorb_padded(before, more) = after
            /\ BlocksIn(n) \in 1 .. 8 => update_blocks(before, Blocks(more)) = after
<1> DEFINE U == A \cup BlockOf(S)
           done == Blocks(SubSeq(s, 1, p))
           more == SubSeq(s, p + 1, p + n)
           Y == X \o done
           Z == Blocks(more)
           all == Blocks(SubSeq(s, 1, p + n))
<1>1. p <= Len(s) /\ p <= p + n /\ (p + n) - p = n
  BY LenProperties
<1>2. SubSeq(s, 1, p) \in Seq(S) /\ more \in Seq(S) /\ Len(more) = n
  BY <1>1, PrefixType, SubSeqType
<1>3. /\ X \in Seq(U) /\ done \in Seq(U) /\ Z \in Seq(U) /\ Len(Z) = BlocksIn(n)
  <2>1. done \in Seq(BlockOf(S)) /\ Z \in Seq(BlockOf(S)) /\ Len(Z) = BlocksIn(n)
    BY <1>2, BlocksType
  <2> QED BY <2>1, Widen
<1>4. all = done \o Z
  BY PrefixBlocks
<1> HIDE DEF done, more, Z, U, all
<1>5. Y \in Seq(U) /\ Y \o Z = X \o all
  <2>1. X \in Seq(U) /\ done \in Seq(U) /\ Z \in Seq(U)
    BY <1>3
  <2>2. \A u, v, w \in Seq(U) : u \o v \in Seq(U) /\ (u \o v) \o w = u \o (v \o w)
    BY Append3, SMTT(30)
  <2>3. X \o done \in Seq(U) /\ (X \o done) \o Z = X \o (done \o Z)
    BY <2>1, <2>2, ZenonT(30)
  <2> QED BY <1>4, <2>3
<1> HIDE DEF Y
<1>6. absorb_padded(HashOf(Y), more) = HashOf(Y \o Z)
  BY <1>2, <1>5, PaddedIsHash DEF Z
<1>7. BlocksIn(n) \in 1 .. 8 => update_blocks(HashOf(Y), Z) = HashOf(Y \o Z)
  BY <1>3, <1>5, UpdateIsHash
<1> QED BY <1>5, <1>6, <1>7 DEF Y, Z, done, more, all

(* The length block ends it.                                                *)
LEMMA LengthsLast ==
  ASSUME NEW S, NEW aad \in Seq(S), NEW T, NEW text \in Seq(T)
  PROVE  finalize(HashOf(Blocks(aad) \o Blocks(text)), Len(aad), Len(text)) =
           HashOfMessage(aad, text)
<1> DEFINE U == BlockOf(S) \cup BlockOf(T)
           B == LengthBlock(Len(aad), Len(text))
           X == Blocks(aad) \o Blocks(text)
           L == <<B>>
<1>1. Blocks(aad) \in Seq(BlockOf(S)) /\ Blocks(text) \in Seq(BlockOf(T))
  BY BlocksType
<1>2. Blocks(aad) \in Seq(U) /\ Blocks(text) \in Seq(U)
  BY <1>1, Widen
<1>3. X \in Seq(U) /\ L \in Seq({B}) /\ Len(L) = 1
  BY <1>2, ConcatProperties
<1>4. X \in Seq(U \cup {B}) /\ L \in Seq(U \cup {B})
  BY <1>3, Widen
<1> HIDE DEF X, L, B, U
<1>5. update_blocks(HashOf(X), L) = HashOf(X \o L)
  BY <1>3, <1>4, UpdateIsHash
<1> QED BY <1>5 DEF finalize, HashOfMessage, X, L, B

(* What the Ghasher and the Polyval compute in blocks of eight, four and    *)
(* one, with powers of the hash key and one reduction for each, is the      *)
(* standards' hash, block by block, for every message and every associated  *)
(* data (absorb_blocks, absorb_padded, update_blocks8, finalize).           *)
THEOREM AggregationIsStandard ==
  ASSUME NEW S, NEW aad \in Seq(S), NEW T, NEW text \in Seq(T)
  PROVE  finalize(absorb_padded(absorb_padded({}, aad), text), Len(aad), Len(text)) =
           HashOfMessage(aad, text)
<1>1. Blocks(aad) \in Seq(BlockOf(S))
  BY BlocksType
<1>2. absorb_padded(absorb_padded({}, aad), text) = HashOf(Blocks(aad) \o Blocks(text))
  BY <1>1, AadHash, PaddedIsHash
<1> QED BY <1>2, LengthsLast

-----------------------------------------------------------------------------
(* Counter mode. *)

CtrByte(stream, first, s, i) ==
  Xor(s[i], KeystreamByte(stream, (first + ((i - 1) \div BlockSize)) % CtrMod,
                          (i - 1) % BlockSize))

LEMMA CtrModeBytes ==
  ASSUME NEW S, NEW s \in Seq(S), NEW stream, NEW first
  PROVE  LET text == CtrMode(stream, first, s)
         IN /\ text = [i \in 1 .. Len(s) |-> text[i]]
            /\ \A i \in 1 .. Len(s) : text[i] = CtrByte(stream, first, s, i)
<1> DEFINE n == Len(s)
           key == [i \in DOMAIN s |->
                     KeystreamByte(stream, (first + ((i - 1) \div BlockSize)) % CtrMod,
                                   (i - 1) % BlockSize)]
           text == CtrMode(stream, first, s)
<1>1. n \in Nat /\ DOMAIN s = 1 .. n
  BY LenProperties
<1>2. text = [i \in 1 .. n |-> Xor(s[i], key[i])]
  BY <1>1 DEF CtrMode, XorBytes
<1>3. \A i \in 1 .. n : text[i] = CtrByte(stream, first, s, i)
  BY <1>1, <1>2 DEF CtrByte
<1> HIDE DEF key, text
<1>4. text = [i \in 1 .. n |-> text[i]]
  BY <1>2
<1> QED BY <1>3, <1>4 DEF n, text

(* A byte beyond whole blocks, from the counter that those blocks left.     *)
LEMMA CtrModeAfter ==
  ASSUME NEW S, NEW s \in Seq(S), NEW stream, NEW first \in Nat,
         NEW p \in Nat, p % BlockSize = 0, NEW i \in 1 .. Len(s), p < i,
         NEW word, word = (first + BlocksIn(p)) % CtrMod
  PROVE  CtrMode(stream, first, s)[i] =
           Xor(s[i], KeystreamByte(stream, (word + ((i - p - 1) \div BlockSize)) % CtrMod,
                                   (i - p - 1) % BlockSize))
<1> DEFINE B == BlockSize
           k == BlocksIn(p)
           d == i - p - 1
           q == d \div B
           r == d % B
           j == i - 1
<1>1. B \in Nat \ {0} /\ CtrMod \in Nat \ {0} /\ Len(s) \in Nat
  BY AlgebraAssumption, LenProperties
<1>6. CtrMode(stream, first, s)[i] =
        Xor(s[i], KeystreamByte(stream, (first + (j \div B)) % CtrMod, j % B))
  <2> DEFINE text == CtrMode(stream, first, s)
  <2>1. \A l \in 1 .. Len(s) : text[l] = CtrByte(stream, first, s, l)
    BY CtrModeBytes
  <2> HIDE DEF text
  <2>2. text[i] = CtrByte(stream, first, s, i)
    BY <2>1
  <2> QED BY <2>2 DEF text, CtrByte
<1>2. k \in Nat /\ p = k * B
  BY WholeBlocks
<1>3. d \in Nat /\ i - 1 = p + d
  BY <1>1
<1>4. q \in Nat /\ r \in 0 .. B - 1 /\ d = q * B + r
  BY <1>1, <1>3, DivMod
<1> HIDE DEF k, d, q, r, B
<1> DEFINE c == k + q
<1>5. j \in Nat /\ c \in Nat /\ c = k + q
  BY <1>2, <1>3, <1>4
<1> HIDE DEF c
<1>7. c * B = p + q * B /\ c * B \in Nat
  BY <1>1, <1>2, <1>4, <1>5, Distribute
<1>8. j = c * B + r
  BY <1>1, <1>3, <1>4, <1>7
<1> HIDE DEF j
<1>9. j % B = r
  BY <1>1, <1>4, <1>5, <1>8, ModUnique
<1>10. j \div B = c
  <2>1. (c + 1) * B = c * B + B
    BY <1>1, <1>5, Distribute
  <2> DEFINE e == c * B
  <2> HIDE DEF e
  <2>2. e = c * B /\ e \in Nat /\ j = e + r /\ (c + 1) * B = e + B
    BY <1>7, <1>8, <2>1 DEF e
  <2>3. c * B <= j /\ j < (c + 1) * B
    BY <1>1, <1>4, <2>2
  <2> QED BY <1>1, <1>5, <2>3, Quotient
<1>11. (word + q) % CtrMod = (first + c) % CtrMod
  <2> DEFINE f == first + k
  <2>1. f \in Nat /\ word = f % CtrMod /\ f + q = first + c
    BY <1>2, <1>4, <1>5 DEF k
  <2> HIDE DEF f
  <2>2. ((f % CtrMod) + q) % CtrMod = (f + q) % CtrMod
    BY <1>1, <1>4, <2>1, ModAdd
  <2> QED BY <2>1, <2>2
<1> QED BY <1>6, <1>9, <1>10, <1>11 DEF d, q, r, B

-----------------------------------------------------------------------------
(* Buffers overwritten from the front. *)

Over(b, s) == s \o SubSeq(b, Len(s) + 1, Len(b))

LEMMA OverBytes ==
  ASSUME NEW S, NEW b \in Seq(S), NEW s \in Seq(S), Len(s) <= Len(b)
  PROVE  /\ Over(b, s) \in Seq(S) /\ Len(Over(b, s)) = Len(b)
         /\ \A i \in 1 .. Len(b) : Over(b, s)[i] = IF i <= Len(s) THEN s[i] ELSE b[i]
<1> DEFINE m == Len(s)
           n == Len(b)
           t == SubSeq(b, m + 1, n)
<1>1. m \in Nat /\ n \in Nat /\ m <= n
  BY LenProperties
<1>2. t \in Seq(S) /\ Len(t) = n - m /\ \A i \in 1 .. n - m : t[i] = b[m + i]
  BY <1>1, SubSeqType
<1> HIDE DEF t
<1>3. /\ s \o t \in Seq(S) /\ Len(s \o t) = m + Len(t)
      /\ \A i \in 1 .. m + Len(t) : (s \o t)[i] = IF i <= m THEN s[i] ELSE t[i - m]
  BY <1>2, ConcatProperties
<1> HIDE DEF m, n
<1>4. ASSUME NEW i \in 1 .. n PROVE (s \o t)[i] = IF i <= m THEN s[i] ELSE b[i]
  <2>1. i \in 1 .. m + Len(t)
    BY <1>1, <1>2
  <2>2. CASE i <= m
    BY <1>3, <2>1, <2>2
  <2>3. CASE ~ (i <= m)
    <3>1. i - m \in 1 .. n - m /\ m + (i - m) = i
      BY <1>1, <2>3
    <3> QED BY <1>2, <1>3, <2>1, <2>3, <3>1
  <2> QED BY <2>2, <2>3
<1> QED BY <1>1, <1>2, <1>3, <1>4 DEF Over, m, n, t

LEMMA OverNothing ==
  ASSUME NEW S, NEW b \in Seq(S)
  PROVE  Over(b, << >>) = b
<1>1. Len(<< >>) + 1 = 1 /\ SubSeq(b, 1, Len(b)) = b
  BY EmptySeq, SubSeqFull
<1>2. << >> \o b = b
  BY ConcatEmptySeq
<1> QED BY <1>1, <1>2 DEF Over

(* What is written over again does not matter.                              *)
LEMMA OverTwice ==
  ASSUME NEW S, NEW b \in Seq(S), NEW s \in Seq(S), NEW t \in Seq(S),
         Len(s) <= Len(b), Len(s) <= Len(t)
  PROVE  Over(Over(b, s), t) = Over(b, t)
<1> DEFINE m == Len(t)
           n == Len(b)
           c == Over(b, s)
<1>1. m \in Nat /\ n \in Nat /\ Len(s) \in Nat
  BY LenProperties
<1>2. c \in Seq(S) /\ Len(c) = n
      /\ \A i \in 1 .. n : c[i] = IF i <= Len(s) THEN s[i] ELSE b[i]
  BY OverBytes
<1> HIDE DEF c
<1>3. SubSeq(c, m + 1, n) = SubSeq(b, m + 1, n)
  <2>1. CASE m < n
    <3>1. /\ SubSeq(c, m + 1, n) \in Seq(S) /\ SubSeq(b, m + 1, n) \in Seq(S)
          /\ Len(SubSeq(c, m + 1, n)) = n - m /\ Len(SubSeq(b, m + 1, n)) = n - m
          /\ \A i \in 1 .. n - m : SubSeq(c, m + 1, n)[i] = c[m + i]
          /\ \A i \in 1 .. n - m : SubSeq(b, m + 1, n)[i] = b[m + i]
      BY <1>1, <1>2, <2>1, SubSeqType
    <3>2. ASSUME NEW i \in 1 .. n - m PROVE c[m + i] = b[m + i]
      <4>1. m + i \in 1 .. n /\ ~ (m + i <= Len(s))
        BY <1>1, <2>1
      <4> QED BY <1>2, <4>1
    <3> QED BY <3>1, <3>2, SeqEqual
  <2>2. CASE ~ (m < n)
    <3>1. SubSeq(c, m + 1, n) = << >> /\ SubSeq(b, m + 1, n) = << >>
      BY <1>1, <2>2, SubSeqEmpty
    <3> QED BY <3>1
  <2> QED BY <2>1, <2>2
<1> QED BY <1>2, <1>3 DEF Over, c, m, n

-----------------------------------------------------------------------------
(* Strings given by their bytes. *)

LEMMA FunctionIsSeq ==
  ASSUME NEW n \in Nat, NEW f, f = [i \in 1 .. n |-> f[i]]
  PROVE  f \in Seq({f[i] : i \in DOMAIN f}) /\ Len(f) = n /\ DOMAIN f = 1 .. n
<1> DEFINE T == {f[i] : i \in DOMAIN f}
<1>1. DOMAIN f = 1 .. n
  OBVIOUS
<1>2. f \in [1 .. n -> T]
  BY <1>1
<1> HIDE DEF T
<1>3. f \in Seq(T)
  BY <1>2, SeqDef
<1>4. Len(f) = n
  BY <1>1, <1>3, LenProperties
<1> QED BY <1>1, <1>3, <1>4 DEF T

LEMMA IsOver ==
  ASSUME NEW S, NEW b \in Seq(S), NEW v \in Seq(S), Len(v) <= Len(b),
         NEW c, c = [i \in 1 .. Len(b) |-> c[i]],
         \A i \in 1 .. Len(b) : c[i] = IF i <= Len(v) THEN v[i] ELSE b[i]
  PROVE  c = Over(b, v) /\ c \in Seq(S) /\ Len(c) = Len(b)
<1> DEFINE o == Over(b, v)
<1>1. /\ o \in Seq(S) /\ Len(o) = Len(b)
      /\ \A i \in 1 .. Len(b) : o[i] = IF i <= Len(v) THEN v[i] ELSE b[i]
  BY OverBytes
<1> HIDE DEF o
<1>2. o = [i \in 1 .. Len(b) |-> o[i]]
  BY <1>1, LenProperties
<1>3. \A i \in 1 .. Len(b) : c[i] = o[i]
  BY <1>1
<1>4. c = o
  BY <1>2, <1>3
<1> QED BY <1>1, <1>4 DEF o

LEMMA SameSubSeq ==
  ASSUME NEW S, NEW s \in Seq(S), NEW t \in Seq(S), NEW m \in Nat, NEW n \in Nat,
         m <= n, n <= Len(s), n <= Len(t), \A i \in m + 1 .. n : s[i] = t[i]
  PROVE  SubSeq(s, m + 1, n) = SubSeq(t, m + 1, n)
<1> DEFINE x == SubSeq(s, m + 1, n)
           y == SubSeq(t, m + 1, n)
<1>1. /\ x \in Seq(S) /\ Len(x) = n - m /\ \A i \in 1 .. n - m : x[i] = s[m + i]
      /\ y \in Seq(S) /\ Len(y) = n - m /\ \A i \in 1 .. n - m : y[i] = t[m + i]
  BY SubSeqType
<1>2. \A i \in 1 .. n - m : m + i \in m + 1 .. n
  OBVIOUS
<1> HIDE DEF x, y
<1>3. \A i \in 1 .. n - m : x[i] = y[i]
  BY <1>1, <1>2
<1>4. x = y
  BY <1>1, <1>3, SeqEqual
<1> QED BY <1>4 DEF x, y

(* Every term of a hash is a power of H, at an offset in a block.           *)
LEMMA HashTerms ==
  ASSUME NEW S, NEW X \in Seq(BlockOf(S))
  PROVE  \A t \in HashOf(X) : t[1] \in Nat /\ t[2] \in 0 .. BlockSize - 1
<1> DEFINE n == Len(X)
<1>1. n \in Nat /\ \A i \in 1 .. n : X[i] \in BlockOf(S)
  BY LenProperties, ElementOfSeq
<1>2. HashOf(X) = Poly(X, n)
  BY <1>1, HashIsPoly
<1> HIDE DEF n
<1>3. ASSUME NEW t \in Poly(X, n)
      PROVE  t[1] \in Nat /\ t[2] \in 0 .. BlockSize - 1
  <2>1. PICK i \in 1 .. n : \E x \in X[i] : t = <<n - i + 1, x[1], x[2]>>
    BY PolyMember
  <2>2. PICK x \in X[i] : t = <<n - i + 1, x[1], x[2]>>
    BY <2>1
  <2>3. x[1] \in 0 .. BlockSize - 1
    BY <1>1, <2>2 DEF BlockOf
  <2> QED BY <1>1, <2>2, <2>3
<1> QED BY <1>2, <1>3
=============================================================================
