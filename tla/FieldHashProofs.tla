-------------------------- MODULE FieldHashProofs ---------------------------
(***************************************************************************)
(* Both back ends of ghash.rs compute the hashes of SP 800-38D and         *)
(* RFC 8452: the proof, for every key and message of 128-bit blocks and    *)
(* every cut of it into updates.                                           *)
(*                                                                         *)
(* Bits are sets, sums are symmetric differences, and a product is a       *)
(* matter of parity: equally many pairs of bits meet at a place wherever   *)
(* one set of pairs maps onto the other. The reductions of the code clear  *)
(* what is below x^128 one lane at a time, the standard's a block at a     *)
(* time; both keep the residue (Divided). That the product of blocks       *)
(* associates, which key powers need, is seen from the top bit down, by    *)
(* dividing by x. GHASH is all this in a mirror.                           *)
(***************************************************************************)
EXTENDS
  FieldHash, FiniteSetTheorems, FunctionTheorems, SequenceTheorems,
  WellFoundedInduction, TLAPS

-----------------------------------------------------------------------------
(* Induction. *)

Less == {p \in Nat \X Nat : p[1] < p[2]}

LEMMA LessWellFounded == IsWellFoundedOn(Less, Nat)
<1>1. OpToRel(<, Nat) = Less
  BY DEF OpToRel, Less
<1> QED BY <1>1, NatLessThanWellFounded

LEMMA Least ==
  ASSUME NEW T \in SUBSET Nat, T # {}
  PROVE  \E x \in T : \A z \in T : x <= z
<1>1. \E x \in T : \A z \in T : ~ (<<z, x>> \in Less)
  BY LessWellFounded, WFMin
<1>2. \A a, b \in Nat : a < b => <<a, b>> \in Less
  BY DEF Less
<1>3. PICK x \in T : \A z \in T : ~ (<<z, x>> \in Less)
  BY <1>1
<1>4. \A z \in T : ~ (z < x)
  BY <1>2, <1>3
<1> QED BY <1>4

LEMMA Induct ==
  ASSUME NEW n \in Nat, NEW T, 0 \in T,
         \A i \in 0 .. n : i # n /\ i \in T => i + 1 \in T
  PROVE  \A i \in 0 .. n : i \in T
<1> DEFINE Rest == {i \in 0 .. n : i \notin T}
<1> SUFFICES ASSUME Rest # {} PROVE FALSE
  OBVIOUS
<1>1. Rest \in SUBSET Nat
  OBVIOUS
<1>2. \A i : i \in Rest <=> i \in 0 .. n /\ i \notin T
  OBVIOUS
<1> HIDE DEF Rest
<1>3. PICK x \in Rest : \A z \in Rest : x <= z
  BY <1>1, Least
<1>4. x \in 0 .. n /\ x \notin T /\ x # 0
  BY <1>2
<1>5. x - 1 \in 0 .. n /\ x - 1 # n /\ (x - 1) + 1 = x /\ ~ (x <= x - 1)
  BY <1>4
<1>6. x - 1 \in T
  BY <1>2, <1>3, <1>5
<1> QED BY <1>4, <1>5, <1>6

-----------------------------------------------------------------------------
(* Bits under XOR. *)

LEMMA XorMember ==
  ASSUME NEW a, NEW b, NEW x
  PROVE  x \in Xor(a, b) <=> ~ (x \in a <=> x \in b)
BY DEF Xor

LEMMA XorCommutes == ASSUME NEW a, NEW b PROVE Xor(a, b) = Xor(b, a)
BY DEF Xor

LEMMA XorAssociates ==
  ASSUME NEW a, NEW b, NEW c
  PROVE  Xor(Xor(a, b), c) = Xor(a, Xor(b, c))
<1>1. \A x : x \in Xor(Xor(a, b), c) <=> x \in Xor(a, Xor(b, c))
  BY XorMember
<1> QED BY <1>1

LEMMA XorNone == ASSUME NEW a PROVE Xor(a, {}) = a /\ Xor({}, a) = a /\ Xor(a, a) = {}
BY DEF Xor

LEMMA XorIn ==
  ASSUME NEW S, NEW a \in SUBSET S, NEW b \in SUBSET S
  PROVE  Xor(a, b) \in SUBSET S
BY DEF Xor

(* Two sums of two, added.                                                  *)
LEMMA XorPairs ==
  ASSUME NEW a, NEW b, NEW c, NEW d
  PROVE  Xor(Xor(a, b), Xor(c, d)) = Xor(Xor(a, c), Xor(b, d))
<1>1. \A x : x \in Xor(Xor(a, b), Xor(c, d)) <=> x \in Xor(Xor(a, c), Xor(b, d))
  BY XorMember
<1> QED BY <1>1

-----------------------------------------------------------------------------
(* Parity. *)

Odd(S) == Cardinality(S) % 2 = 1

LEMMA OddOfXor ==
  ASSUME NEW S, NEW T, IsFiniteSet(S), IsFiniteSet(T)
  PROVE  Odd(Xor(S, T)) <=> ~ (Odd(S) <=> Odd(T))
<1> DEFINE s == Cardinality(S)
           t == Cardinality(T)
           c == Cardinality(S \cap T)
<1>1. Xor(S, T) = (S \cup T) \ (S \cap T) /\ (S \cup T) \cap (S \cap T) = S \cap T
  BY DEF Xor
<1>2. IsFiniteSet(S \cup T) /\ Cardinality(S \cup T) = s + t - c
  BY FS_Union
<1>3. Cardinality(Xor(S, T)) = (s + t - c) - c
  <2>1. Cardinality((S \cup T) \ (S \cap T)) =
          Cardinality(S \cup T) - Cardinality((S \cup T) \cap (S \cap T))
    BY <1>2, FS_Difference
  <2> QED BY <1>1, <1>2, <2>1
<1>4. s \in Nat /\ t \in Nat /\ c \in Nat
  BY FS_CardinalityType, FS_Intersection
<1> HIDE DEF s, t, c
<1>5. (((s + t - c) - c) % 2 = 1) <=> ~ ((s % 2 = 1) <=> (t % 2 = 1))
  BY <1>4
<1> QED BY <1>3, <1>5 DEF Odd, s, t

LEMMA OddOfOne == ASSUME NEW x PROVE Odd({x})
BY FS_Singleton DEF Odd

LEMMA OddOfNone == ~Odd({})
BY FS_EmptySet DEF Odd

-----------------------------------------------------------------------------
(* Products of polynomials over GF(2). *)

Bits64 == 0 .. 63
Bits128 == 0 .. 127
Bits256 == 0 .. 255

(* The pairs that meet at k.                                                *)
Meet(a, b, k) == {i \in a : k - i \in b}

LEMMA ProductMember ==
  ASSUME NEW a, NEW b, NEW k
  PROVE  /\ k \in Times(a, b) <=> k \in Bits256 /\ Odd(Meet(a, b, k))
         /\ k \in pmull(a, b) <=> k \in 0 .. 126 /\ Odd(Meet(a, b, k))
BY DEF Times, pmull, Odd, Meet, Bits256

LEMMA FiniteBits ==
  ASSUME NEW a \in SUBSET Bits256
  PROVE  IsFiniteSet(a)
<1>1. 0 \in Int /\ 255 \in Int
  OBVIOUS
<1>2. IsFiniteSet(0 .. 255)
  BY <1>1, FS_Interval
<1> QED BY <1>2, FS_Subset DEF Bits256

LEMMA FiniteMeet ==
  ASSUME NEW a \in SUBSET Bits256, NEW b, NEW k
  PROVE  IsFiniteSet(Meet(a, b, k))
<1>1. Meet(a, b, k) \in SUBSET Bits256
  BY DEF Meet
<1> QED BY <1>1, FiniteBits

LEMMA MeetLeft ==
  ASSUME NEW a \in SUBSET Bits256, NEW c \in SUBSET Bits256, NEW b, NEW k
  PROVE  Odd(Meet(Xor(a, c), b, k)) <=> ~ (Odd(Meet(a, b, k)) <=> Odd(Meet(c, b, k)))
<1>1. Meet(Xor(a, c), b, k) = Xor(Meet(a, b, k), Meet(c, b, k))
  BY DEF Xor, Meet
<1> QED BY <1>1, FiniteMeet, OddOfXor

LEMMA MeetRight ==
  ASSUME NEW a \in SUBSET Bits256, NEW b, NEW c, NEW k
  PROVE  Odd(Meet(a, Xor(b, c), k)) <=> ~ (Odd(Meet(a, b, k)) <=> Odd(Meet(a, c, k)))
<1>1. Meet(a, Xor(b, c), k) = Xor(Meet(a, b, k), Meet(a, c, k))
  BY DEF Xor, Meet
<1> QED BY <1>1, FiniteMeet, OddOfXor

LEMMA TimesIn == ASSUME NEW a, NEW b PROVE Times(a, b) \in SUBSET Bits256 /\ Times(a, b) \in SUBSET Int
<1>1. \A k : k \in Times(a, b) => k \in Bits256
  BY ProductMember
<1> QED BY <1>1 DEF Bits256

(* Products are linear in each factor.                                      *)
LEMMA TimesLeft ==
  ASSUME NEW a \in SUBSET Bits256, NEW c \in SUBSET Bits256, NEW b
  PROVE  Times(Xor(a, c), b) = Xor(Times(a, b), Times(c, b))
<1>1. \A k : k \in Times(Xor(a, c), b) <=> k \in Xor(Times(a, b), Times(c, b))
  BY ProductMember, XorMember, MeetLeft
<1> QED BY <1>1

LEMMA TimesRight ==
  ASSUME NEW a \in SUBSET Bits256, NEW b, NEW d
  PROVE  Times(a, Xor(b, d)) = Xor(Times(a, b), Times(a, d))
<1>1. \A k : k \in Times(a, Xor(b, d)) <=> k \in Xor(Times(a, b), Times(a, d))
  BY ProductMember, XorMember, MeetRight
<1> QED BY <1>1

LEMMA PmullLeft ==
  ASSUME NEW a \in SUBSET Bits256, NEW c \in SUBSET Bits256, NEW b
  PROVE  pmull(Xor(a, c), b) = Xor(pmull(a, b), pmull(c, b))
<1>1. \A k : k \in pmull(Xor(a, c), b) <=> k \in Xor(pmull(a, b), pmull(c, b))
  BY ProductMember, XorMember, MeetLeft
<1> QED BY <1>1

LEMMA PmullRight ==
  ASSUME NEW a \in SUBSET Bits256, NEW b, NEW d
  PROVE  pmull(a, Xor(b, d)) = Xor(pmull(a, b), pmull(a, d))
<1>1. \A k : k \in pmull(a, Xor(b, d)) <=> k \in Xor(pmull(a, b), pmull(a, d))
  BY ProductMember, XorMember, MeetRight
<1> QED BY <1>1

LEMMA TimesNone == ASSUME NEW b PROVE Times({}, b) = {}
<1>1. \A k : Meet({}, b, k) = {}
  BY DEF Meet
<1>2. ASSUME NEW k PROVE ~ (k \in Times({}, b))
  <2>1. ~ Odd(Meet({}, b, k))
    BY <1>1, OddOfNone
  <2> QED BY <2>1, ProductMember
<1> QED BY <1>2

(* A product by a power of x is a shift.                                    *)
LEMMA MeetOne ==
  ASSUME NEW a \in SUBSET Int, NEW b \in SUBSET Int, NEW e \in Int, NEW k \in Int
  PROVE  /\ Odd(Meet({e}, b, k)) <=> k - e \in b
         /\ Odd(Meet(a, {e}, k)) <=> k - e \in a
<1>1. Meet({e}, b, k) = IF k - e \in b THEN {e} ELSE {}
  BY DEF Meet
<1>2. Meet(a, {e}, k) = IF k - e \in a THEN {k - e} ELSE {}
  <2>1. \A i \in a : k - i = e <=> i = k - e
    OBVIOUS
  <2> QED BY <2>1 DEF Meet
<1> QED BY <1>1, <1>2, OddOfOne, OddOfNone

(* Equally many pairs meet where one set of pairs is mapped to the other.    *)
LEMMA SameParity ==
  ASSUME NEW S, NEW T, IsFiniteSet(S), NEW f \in [S -> T],
         \A i, j \in S : f[i] = f[j] => i = j,
         \A j \in T : \E i \in S : f[i] = j
  PROVE  Odd(S) <=> Odd(T)
<1>1. f \in Bijection(S, T)
  BY DEF Bijection, Injection, Surjection, IsInjective
<1>2. ExistsBijection(S, T)
  BY <1>1 DEF ExistsBijection
<1> QED BY <1>2, FS_Bijection DEF Odd

LEMMA MeetCommutes ==
  ASSUME NEW a \in SUBSET Bits256, NEW b \in SUBSET Bits256, NEW k \in Int
  PROVE  Odd(Meet(a, b, k)) <=> Odd(Meet(b, a, k))
<1> DEFINE S == Meet(a, b, k)
           T == Meet(b, a, k)
           f == [i \in S |-> k - i]
<1>1. \A i : i \in S <=> i \in a /\ k - i \in b
  BY DEF Meet
<1>2. \A i : i \in T <=> i \in b /\ k - i \in a
  BY DEF Meet
<1>3. a \subseteq Int /\ b \subseteq Int
  BY DEF Bits256
<1>4. IsFiniteSet(S)
  BY FiniteMeet
<1> HIDE DEF S, T
<1>5. \A i \in Int : k - (k - i) = i
  OBVIOUS
<1>6. f \in [S -> T] /\ \A i \in S : f[i] = k - i
  BY <1>1, <1>2, <1>3, <1>5
<1>7. ASSUME NEW j \in T PROVE k - j \in S /\ f[k - j] = j
  <2>1. j \in Int /\ j \in b /\ k - j \in a /\ k - (k - j) = j
    BY <1>2, <1>3, <1>5
  <2>2. k - j \in S
    BY <1>1, <2>1
  <2> QED BY <1>6, <2>1, <2>2
<1>8. ASSUME NEW i \in S, NEW j \in S, f[i] = f[j] PROVE i = j
  <2>1. i \in Int /\ j \in Int /\ k - i = k - j
    BY <1>1, <1>3, <1>6, <1>8
  <2> QED BY <2>1
<1> HIDE DEF f
<1>9. Odd(S) <=> Odd(T)
  BY <1>4, <1>6, <1>7, <1>8, SameParity
<1> QED BY <1>9 DEF S, T

LEMMA MeetShifted ==
  ASSUME NEW a \in SUBSET Bits256, NEW b, NEW s \in Int, NEW k \in Int
  PROVE  Odd(Meet({i + s : i \in a}, b, k)) <=> Odd(Meet(a, b, k - s))
<1> DEFINE S == Meet(a, b, k - s)
           T == Meet({i + s : i \in a}, b, k)
           f == [i \in S |-> i + s]
<1>1. a \subseteq Int
  BY DEF Bits256
<1>2. \A i \in Int : (k - s) - i = k - (i + s) /\ (i + s) - s = i
  OBVIOUS
<1>3. \A i : i \in S <=> i \in a /\ (k - s) - i \in b
  BY DEF Meet
<1>4. \A j : j \in T <=> (\E i \in a : j = i + s) /\ k - j \in b
  BY DEF Meet
<1>5. IsFiniteSet(S)
  BY FiniteMeet
<1> HIDE DEF S, T
<1>6. f \in [S -> T] /\ \A i \in S : f[i] = i + s
  BY <1>1, <1>2, <1>3, <1>4
<1>7. ASSUME NEW j \in T PROVE \E i \in S : f[i] = j
  <2>1. PICK i \in a : j = i + s /\ k - j \in b
    BY <1>4
  <2>2. i \in S
    BY <1>1, <1>2, <1>3, <2>1
  <2> QED BY <1>6, <2>1, <2>2
<1>8. ASSUME NEW i \in S, NEW j \in S, f[i] = f[j] PROVE i = j
  <2>1. i \in Int /\ j \in Int /\ i + s = j + s
    BY <1>1, <1>3, <1>6, <1>8
  <2> QED BY <2>1
<1> HIDE DEF f
<1>9. Odd(S) <=> Odd(T)
  BY <1>5, <1>6, <1>7, <1>8, SameParity
<1> QED BY <1>9 DEF S, T

LEMMA TimesCommutes ==
  ASSUME NEW a \in SUBSET Bits256, NEW b \in SUBSET Bits256
  PROVE  Times(a, b) = Times(b, a)
<1>1. \A k \in Bits256 : k \in Int
  BY DEF Bits256
<1>2. \A k : k \in Times(a, b) <=> k \in Times(b, a)
  BY <1>1, ProductMember, MeetCommutes
<1> QED BY <1>2

Shifted(w, n) == {i + n : i \in w}

LEMMA ShiftedMember ==
  ASSUME NEW w \in SUBSET Int, NEW n \in Int, NEW k \in Int
  PROVE  k \in Shifted(w, n) <=> k - n \in w
BY DEF Shifted

LEMMA ShiftedIn ==
  ASSUME NEW w \in SUBSET Int, NEW n \in Int
  PROVE  Shifted(w, n) \in SUBSET Int
BY DEF Shifted

LEMMA ShiftedTwice ==
  ASSUME NEW w \in SUBSET Int, NEW m \in Int, NEW n \in Int
  PROVE  Shifted(Shifted(w, m), n) = Shifted(w, m + n)
<1>1. Shifted(w, m) \in SUBSET Int /\ m + n \in Int
  BY DEF Shifted
<1>2. Shifted(Shifted(w, m), n) \in SUBSET Int /\ Shifted(w, m + n) \in SUBSET Int
  BY <1>1 DEF Shifted
<1>3. ASSUME NEW k \in Int
      PROVE  k \in Shifted(Shifted(w, m), n) <=> k \in Shifted(w, m + n)
  <2>1. k - n \in Int /\ (k - n) - m = k - (m + n)
    OBVIOUS
  <2> QED BY <1>1, <2>1, ShiftedMember
<1> QED BY <1>2, <1>3

LEMMA ShiftedXor ==
  ASSUME NEW a \in SUBSET Int, NEW b \in SUBSET Int, NEW n \in Int
  PROVE  Shifted(Xor(a, b), n) = Xor(Shifted(a, n), Shifted(b, n))
<1>1. Xor(a, b) \in SUBSET Int /\ Shifted(Xor(a, b), n) \in SUBSET Int
  BY DEF Xor, Shifted
<1>2. Xor(Shifted(a, n), Shifted(b, n)) \in SUBSET Int
  BY DEF Xor, Shifted
<1>3. \A k \in Int : k \in Shifted(Xor(a, b), n) <=> k \in Xor(Shifted(a, n), Shifted(b, n))
  BY <1>1, ShiftedMember, XorMember
<1> QED BY <1>1, <1>2, <1>3

LEMMA TimesRange ==
  ASSUME NEW a \in SUBSET Bits128, NEW b \in SUBSET Bits128
  PROVE  Times(a, b) \in SUBSET (0 .. 254)
<1>1. ~ (255 \in Times(a, b))
  <2>1. \A i \in Bits128 : ~ (255 - i \in Bits128)
    BY DEF Bits128
  <2>2. Meet(a, b, 255) = {}
    BY <2>1 DEF Meet
  <2> QED BY <2>2, OddOfNone, ProductMember
<1>2. Times(a, b) \subseteq 0 .. 255
  BY DEF Times
<1> QED BY <1>1, <1>2

(* A factor times a power of x, as long as the product fits.                *)
LEMMA TimesShifted ==
  ASSUME NEW a \in SUBSET Bits128, NEW b \in SUBSET Bits256, NEW n \in Nat,
         \A i \in a : \A j \in b : i + j + n <= 255
  PROVE  /\ Times(Shifted(a, n), b) = Shifted(Times(a, b), n)
         /\ Shifted(a, n) \in SUBSET Bits256 => Times(b, Shifted(a, n)) = Shifted(Times(b, a), n)
<1>1. a \in SUBSET Bits256 /\ a \subseteq Int /\ b \subseteq Int
  BY DEF Bits128, Bits256
<1>2. Times(a, b) \in SUBSET Int /\ Times(Shifted(a, n), b) \in SUBSET Int
  BY DEF Times
<1>3. Shifted(Times(a, b), n) \in SUBSET Int
  BY <1>2 DEF Shifted
<1>4. ASSUME NEW k \in Int PROVE k \in Times(Shifted(a, n), b) <=> k \in Shifted(Times(a, b), n)
  <2>1. Odd(Meet(Shifted(a, n), b, k)) <=> Odd(Meet(a, b, k - n))
    <3>1. n \in Int
      OBVIOUS
    <3>2. Odd(Meet({i + n : i \in a}, b, k)) <=> Odd(Meet(a, b, k - n))
      BY <1>1, <3>1, MeetShifted
    <3> QED BY <3>2 DEF Shifted
  <2>2. ASSUME Odd(Meet(a, b, k - n)) PROVE k \in Bits256 /\ k - n \in Bits256
    <3>1. Meet(a, b, k - n) # {}
      BY <2>2, OddOfNone
    <3>2. PICK i \in a : (k - n) - i \in b
      BY <3>1 DEF Meet
    <3>3. i \in Int /\ i >= 0 /\ (k - n) - i >= 0 /\ i + ((k - n) - i) + n <= 255
      BY <3>2 DEF Bits128, Bits256
    <3> QED BY <3>3 DEF Bits256
  <2>3. k - n \in Int
    OBVIOUS
  <2> QED BY <1>2, <2>1, <2>2, <2>3, ProductMember, ShiftedMember
<1>5. Times(Shifted(a, n), b) = Shifted(Times(a, b), n)
  BY <1>2, <1>3, <1>4
<1> QED BY <1>1, <1>5, TimesCommutes

(* A product by a few powers of x is a sum of shifts.                       *)
LEMMA MeetThree ==
  ASSUME NEW a \in SUBSET Bits256, NEW p \in Int, NEW q \in Int, NEW r \in Int,
         p # q, p # r, q # r, NEW k \in Int
  PROVE  Odd(Meet(a, {p, q, r}, k)) <=> ~ (~ (k - p \in a <=> k - q \in a) <=> k - r \in a)
<1>1. {p, q, r} = Xor(Xor({p}, {q}), {r})
  BY DEF Xor
<1>2. a \in SUBSET Int
  BY DEF Bits256
<1>3. \A e \in Int : Odd(Meet(a, {e}, k)) <=> k - e \in a
  BY <1>2, MeetOne
<1>4. Odd(Meet(a, Xor({p}, {q}), k)) <=> ~ (Odd(Meet(a, {p}, k)) <=> Odd(Meet(a, {q}, k)))
  BY MeetRight
<1>5. Odd(Meet(a, Xor(Xor({p}, {q}), {r}), k)) <=>
        ~ (Odd(Meet(a, Xor({p}, {q}), k)) <=> Odd(Meet(a, {r}, k)))
  BY MeetRight
<1> QED BY <1>1, <1>3, <1>4, <1>5

LEMMA MeetFour ==
  ASSUME NEW a \in SUBSET Bits256, NEW p \in Int, NEW q \in Int, NEW r \in Int, NEW s \in Int,
         p # q, p # r, p # s, q # r, q # s, r # s, NEW k \in Int
  PROVE  Odd(Meet(a, {p, q, r, s}, k)) <=>
           ~ (~ (k - p \in a <=> k - q \in a) <=> ~ (k - r \in a <=> k - s \in a))
<1>1. {p, q, r, s} = Xor(Xor({p}, {q}), Xor({r}, {s}))
  BY DEF Xor
<1>2. a \in SUBSET Int
  BY DEF Bits256
<1>3. \A e \in Int : Odd(Meet(a, {e}, k)) <=> k - e \in a
  BY <1>2, MeetOne
<1>4. /\ Odd(Meet(a, Xor({p}, {q}), k)) <=> ~ (Odd(Meet(a, {p}, k)) <=> Odd(Meet(a, {q}, k)))
      /\ Odd(Meet(a, Xor({r}, {s}), k)) <=> ~ (Odd(Meet(a, {r}, k)) <=> Odd(Meet(a, {s}, k)))
  BY MeetRight
<1>5. Odd(Meet(a, Xor(Xor({p}, {q}), Xor({r}, {s})), k)) <=>
        ~ (Odd(Meet(a, Xor({p}, {q}), k)) <=> Odd(Meet(a, Xor({r}, {s}), k)))
  BY MeetRight
<1> QED BY <1>1, <1>3, <1>4, <1>5

-----------------------------------------------------------------------------
(* Reduction by the standard. *)

Taps == {121, 126, 127, 128}

Up(v) == LET low == v \cap Bits128 IN Xor(v \ low, Times(low, Taps))

Divided(w) == Shifted(Up(Up(w)), 0 - 128)

LEMMA UpIn ==
  ASSUME NEW v \in SUBSET Bits256
  PROVE  Up(v) \in SUBSET Bits256
<1>1. Times(v \cap Bits128, Taps) \in SUBSET Bits256
  BY DEF Times, Bits256
<1> QED BY <1>1 DEF Up, Xor

LEMMA DotIsDivided ==
  ASSUME NEW a, NEW b
  PROVE  Dot(a, b) = Divided(Times(a, b))
<1>1. Times(a, b) \in SUBSET Bits256
  BY DEF Times, Bits256
<1>2. Up(Up(Times(a, b))) \in SUBSET Int
  BY <1>1, UpIn DEF Bits256
<1>3. \A i \in Int : i - 128 = i + (0 - 128)
  OBVIOUS
<1>4. Dot(a, b) = {i - 128 : i \in Up(Up(Times(a, b)))}
  BY DEF Dot, Up, Taps, Bits128
<1> QED BY <1>2, <1>3, <1>4 DEF Divided, Shifted

LEMMA UpMember ==
  ASSUME NEW v \in SUBSET Bits256, NEW k \in Int
  PROVE  LET low(i) == i \in v /\ i <= 127
         IN k \in Up(v) <=>
              /\ k \in Bits256
              /\ ~ ((k \in v /\ k >= 128) <=>
                    ~ (~ (low(k - 121) <=> low(k - 126)) <=> ~ (low(k - 127) <=> low(k - 128))))
<1> DEFINE l == v \cap Bits128
<1>1. \A i \in Int : i \in l <=> i \in v /\ i <= 127
  BY DEF Bits128, Bits256
<1>2. l \in SUBSET Bits256
  OBVIOUS
<1>3. k \in v \ l <=> k \in v /\ k >= 128
  BY DEF Bits128, Bits256
<1>4. k \in v => k \in Bits256
  OBVIOUS
<1>5. k \in Up(v) <=> ~ (k \in v \ l <=> k \in Times(l, Taps))
  BY XorMember DEF Up
<1> HIDE DEF l
<1>6. k \in Times(l, Taps) <=>
        /\ k \in Bits256
        /\ ~ (~ (k - 121 \in l <=> k - 126 \in l) <=> ~ (k - 127 \in l <=> k - 128 \in l))
  <2>1. Odd(Meet(l, {121, 126, 127, 128}, k)) <=>
          ~ (~ (k - 121 \in l <=> k - 126 \in l) <=> ~ (k - 127 \in l <=> k - 128 \in l))
    <3>1. /\ 121 \in Int /\ 126 \in Int /\ 127 \in Int /\ 128 \in Int
          /\ 121 # 126 /\ 121 # 127 /\ 121 # 128 /\ 126 # 127 /\ 126 # 128 /\ 127 # 128
      OBVIOUS
    <3>2. \A p, q, r, s \in Int :
            p # q /\ p # r /\ p # s /\ q # r /\ q # s /\ r # s =>
              (Odd(Meet(l, {p, q, r, s}, k)) <=>
                 ~ (~ (k - p \in l <=> k - q \in l) <=> ~ (k - r \in l <=> k - s \in l)))
      BY <1>2, MeetFour
    <3> HIDE DEF Meet
    <3> QED BY <3>1, <3>2, SMTT(30)
  <2> QED BY <2>1, ProductMember DEF Taps
<1>7. k - 121 \in Int /\ k - 126 \in Int /\ k - 127 \in Int /\ k - 128 \in Int
  OBVIOUS
<1> QED BY <1>1, <1>3, <1>4, <1>5, <1>6, <1>7

LEMMA UpXor ==
  ASSUME NEW v \in SUBSET Bits256, NEW w \in SUBSET Bits256
  PROVE  Up(Xor(v, w)) = Xor(Up(v), Up(w))
<1> DEFINE low(x) == x \cap Bits128
           high(x) == x \ low(x)
<1>1. low(Xor(v, w)) = Xor(low(v), low(w)) /\ high(Xor(v, w)) = Xor(high(v), high(w))
  BY DEF Xor
<1>2. low(v) \in SUBSET Bits256 /\ low(w) \in SUBSET Bits256
  OBVIOUS
<1>3. \A x : Up(x) = Xor(high(x), Times(low(x), Taps))
  BY DEF Up
<1> HIDE DEF low, high
<1>4. Times(Xor(low(v), low(w)), Taps) = Xor(Times(low(v), Taps), Times(low(w), Taps))
  BY <1>2, TimesLeft
<1> QED BY <1>1, <1>3, <1>4, XorPairs

(* One round leaves only bits that the second clears.                       *)
LEMMA UpFirst ==
  ASSUME NEW v \in SUBSET Bits256
  PROVE  Up(v) \in SUBSET (121 .. 255)
<1>1. ASSUME NEW k \in Up(v) PROVE k \in 121 .. 255
  <2>1. k \in Bits256 /\ k \in Int
    BY UpIn DEF Bits256
  <2>2. ASSUME k < 121 PROVE FALSE
    <3>1. ~ (k >= 128) /\ ~ (k - 121 \in v) /\ ~ (k - 126 \in v) /\ ~ (k - 127 \in v)
            /\ ~ (k - 128 \in v)
      BY <2>1, <2>2 DEF Bits256
    <3> QED BY <1>1, <2>1, <3>1, UpMember
  <2> QED BY <2>1, <2>2 DEF Bits256
<1> QED BY <1>1

LEMMA UpSecond ==
  ASSUME NEW v \in SUBSET (121 .. 255)
  PROVE  Up(v) \in SUBSET (128 .. 255)
<1>1. v \in SUBSET Bits256
  BY DEF Bits256
<1>2. ASSUME NEW k \in Up(v) PROVE k \in 128 .. 255
  <2>1. k \in Bits256 /\ k \in Int
    BY <1>1, UpIn DEF Bits256
  <2>2. ASSUME k < 128 PROVE FALSE
    <3>1. ~ (k >= 128) /\ ~ (k - 121 \in v) /\ ~ (k - 126 \in v) /\ ~ (k - 127 \in v)
            /\ ~ (k - 128 \in v)
      BY <2>1, <2>2
    <3> QED BY <1>1, <1>2, <2>1, <3>1, UpMember
  <2> QED BY <2>1, <2>2 DEF Bits256
<1> QED BY <1>2

LEMMA UpHigh ==
  ASSUME NEW v \in SUBSET (128 .. 255)
  PROVE  Up(v) = v
<1>1. v \cap Bits128 = {} /\ v \ {} = v
  BY DEF Bits128
<1> QED BY <1>1, TimesNone, XorNone DEF Up

LEMMA UpTwice ==
  ASSUME NEW v \in SUBSET Bits256
  PROVE  /\ Up(Up(v)) \in SUBSET (128 .. 255)
         /\ Up(Up(Up(v))) = Up(Up(v))
<1>1. Up(v) \in SUBSET (121 .. 255)
  BY UpFirst
<1>2. Up(Up(v)) \in SUBSET (128 .. 255)
  BY <1>1, UpSecond
<1> QED BY <1>2, UpHigh

(* The residue of a product.                                                *)

LEMMA DividedIn ==
  ASSUME NEW w \in SUBSET Bits256
  PROVE  Divided(w) \in SUBSET Bits128
<1>1. Up(Up(w)) \in SUBSET (128 .. 255)
  BY UpTwice
<1>2. \A i \in 128 .. 255 : i + (0 - 128) \in Bits128
  BY DEF Bits128
<1> QED BY <1>1, <1>2 DEF Divided, Shifted

LEMMA DividedXor ==
  ASSUME NEW v \in SUBSET Bits256, NEW w \in SUBSET Bits256
  PROVE  Divided(Xor(v, w)) = Xor(Divided(v), Divided(w))
<1>1. Up(v) \in SUBSET Bits256 /\ Up(w) \in SUBSET Bits256
  BY UpIn
<1>2. Up(Up(Xor(v, w))) = Xor(Up(Up(v)), Up(Up(w)))
  BY <1>1, UpXor
<1>3. Up(Up(v)) \in SUBSET Int /\ Up(Up(w)) \in SUBSET Int /\ 0 - 128 \in Int
  BY <1>1, UpIn DEF Bits256
<1> QED BY <1>2, <1>3, ShiftedXor DEF Divided

LEMMA DividedUp ==
  ASSUME NEW w \in SUBSET Bits256
  PROVE  Divided(Up(w)) = Divided(w)
BY UpTwice DEF Divided

LEMMA DividedHigh ==
  ASSUME NEW w \in SUBSET (128 .. 255)
  PROVE  Divided(w) = Shifted(w, 0 - 128)
BY UpHigh DEF Divided

LEMMA DividedNone == Divided({}) = {}
<1>1. {} \in SUBSET (128 .. 255)
  OBVIOUS
<1> QED BY <1>1, DividedHigh DEF Shifted

(* A multiple of the modulus leaves nothing.                                *)
Modulus == Xor({0}, Taps)

LEMMA DividedMultiple ==
  ASSUME NEW a \in SUBSET Bits128
  PROVE  Divided(Times(a, Modulus)) = {}
<1>1. a \in SUBSET Bits256 /\ a \in SUBSET Int
  BY DEF Bits128, Bits256
<1>2. Times(a, {0}) = a
  <2>1. \A k \in Int : Odd(Meet(a, {0}, k)) <=> k - 0 \in a
    <3>1. 0 \in Int
      OBVIOUS
    <3> QED BY <1>1, <3>1, MeetOne
  <2>2. \A k \in Int : k - 0 = k
    OBVIOUS
  <2>3. \A k \in Bits256 : k \in Int
    BY DEF Bits256
  <2>4. \A k : k \in Times(a, {0}) <=> k \in a
    BY <1>1, <2>1, <2>2, <2>3, ProductMember
  <2> QED BY <2>4
<1>3. Times(a, Taps) = Up(a)
  <2>1. a \cap Bits128 = a /\ a \ a = {}
    OBVIOUS
  <2> QED BY <2>1, XorNone DEF Up
<1>4. Times(a, Modulus) = Xor(a, Up(a))
  BY <1>1, <1>2, <1>3, TimesRight DEF Modulus
<1>5. Divided(Xor(a, Up(a))) = Xor(Divided(a), Divided(a))
  BY <1>1, UpIn, DividedXor, DividedUp
<1> QED BY <1>4, <1>5, XorNone

-----------------------------------------------------------------------------
(* Division by x. *)

OverX(b) == Xor(Shifted(b \ {0}, 0 - 1), IF 0 \in b THEN {120, 125, 126, 127} ELSE {})

LEMMA OverXMember ==
  ASSUME NEW b \in SUBSET Bits128, NEW k \in Int
  PROVE  k \in OverX(b) <=> ~ ((k + 1 \in b /\ k # -1) <=> (0 \in b /\ k \in {120, 125, 126, 127}))
<1>1. b \ {0} \in SUBSET Int
  BY DEF Bits128
<1>2. k \in Shifted(b \ {0}, 0 - 1) <=> k - (0 - 1) \in b \ {0}
  BY <1>1, ShiftedMember
<1>3. k - (0 - 1) = k + 1 /\ (k + 1 = 0 <=> k = -1)
  OBVIOUS
<1>4. k \in (IF 0 \in b THEN {120, 125, 126, 127} ELSE {}) <=> 0 \in b /\ k \in {120, 125, 126, 127}
  OBVIOUS
<1> QED BY <1>2, <1>3, <1>4, XorMember DEF OverX

LEMMA OverXIn ==
  ASSUME NEW b \in SUBSET Bits128
  PROVE  OverX(b) \in SUBSET Bits128
<1>1. Shifted(b \ {0}, 0 - 1) \in SUBSET Bits128
  BY DEF Shifted, Bits128
<1>2. (IF 0 \in b THEN {120, 125, 126, 127} ELSE {}) \in SUBSET Bits128
  BY DEF Bits128
<1> DEFINE s == Shifted(b \ {0}, 0 - 1)
           m == IF 0 \in b THEN {120, 125, 126, 127} ELSE {}
<1> HIDE DEF s, m
<1>3. s \in SUBSET Bits128 /\ m \in SUBSET Bits128
  BY <1>1, <1>2 DEF s, m
<1>4. Xor(s, m) \in SUBSET Bits128
  BY <1>3, XorIn
<1> QED BY <1>4 DEF OverX, s, m

LEMMA OverXXor ==
  ASSUME NEW a \in SUBSET Bits128, NEW b \in SUBSET Bits128
  PROVE  OverX(Xor(a, b)) = Xor(OverX(a), OverX(b))
<1>1. Xor(a, b) \in SUBSET Bits128
  BY XorIn
<1>2. OverX(Xor(a, b)) \subseteq Int /\ OverX(a) \subseteq Int /\ OverX(b) \subseteq Int
  BY <1>1, OverXIn DEF Bits128
<1>3. \A k : k \in Xor(a, b) <=> ~ (k \in a <=> k \in b)
  BY XorMember
<1>4. \A k \in Int : k \in OverX(Xor(a, b)) <=> ~ (k \in OverX(a) <=> k \in OverX(b))
  BY <1>1, <1>3, OverXMember
<1>5. \A k : k \in OverX(Xor(a, b)) <=> k \in Xor(OverX(a), OverX(b))
  BY <1>2, <1>4, XorMember
<1> QED BY <1>5

(* Multiplied by x again.                                                   *)
LEMMA OverXBack ==
  ASSUME NEW b \in SUBSET Bits128
  PROVE  Shifted(OverX(b), 1) = Xor(b, IF 0 \in b THEN Modulus ELSE {})
<1> DEFINE m == IF 0 \in b THEN Modulus ELSE {}
<1>1. OverX(b) \in SUBSET Int /\ Shifted(OverX(b), 1) \in SUBSET Int
  BY OverXIn DEF Bits128, Shifted
<1>2. Xor(b, m) \in SUBSET Int
  BY DEF Bits128, Xor, Modulus, Taps
<1>3. ASSUME NEW k \in Int PROVE k \in Shifted(OverX(b), 1) <=> k \in Xor(b, m)
  <2>1. k \in Shifted(OverX(b), 1) <=> k - 1 \in OverX(b)
    BY <1>1, ShiftedMember
  <2>2. k - 1 \in Int /\ (k - 1) + 1 = k /\ (k - 1 = -1 <=> k = 0)
          /\ (k - 1 \in {120, 125, 126, 127} <=> k \in Taps)
    BY DEF Taps
  <2>3. k - 1 \in OverX(b) <=> ~ ((k \in b /\ k # 0) <=> (0 \in b /\ k \in Taps))
    BY <2>2, OverXMember
  <2>4. k \in m <=> 0 \in b /\ (k = 0 \/ k \in Taps)
    BY DEF Modulus, Taps, Xor
  <2>5. k \in Xor(b, m) <=> ~ (k \in b <=> k \in m)
    BY XorMember
  <2>6. ~ (0 \in Taps)
    BY DEF Taps
  <2> HIDE DEF m
  <2>7. CASE k = 0
    BY <2>1, <2>3, <2>4, <2>5, <2>6, <2>7
  <2>8. CASE k # 0
    BY <2>1, <2>3, <2>4, <2>5, <2>8
  <2> QED BY <2>7, <2>8
<1> HIDE DEF m
<1>4. Shifted(OverX(b), 1) = Xor(b, m)
  BY <1>1, <1>2, <1>3
<1> QED BY <1>4 DEF m

(* The products that fit, and whose residue falls as they do.               *)
Fits == SUBSET (0 .. 254)
Falls == {w \in Fits : Divided(w) = OverX(Divided(Shifted(w, 1)))}

LEMMA FitsBits ==
  ASSUME NEW w \in Fits
  PROVE  w \in SUBSET Bits256 /\ w \in SUBSET Int /\ Shifted(w, 1) \in SUBSET Bits256
<1>1. \A i \in w : i \in 0 .. 254
  BY DEF Fits
<1>2. \A i \in w : i \in Bits256 /\ i \in Int /\ i + 1 \in Bits256
  BY <1>1 DEF Bits256
<1> QED BY <1>2 DEF Shifted

LEMMA FallsXor ==
  ASSUME NEW v \in Falls, NEW w \in Falls
  PROVE  Xor(v, w) \in Falls
<1>1. v \in Fits /\ w \in Fits
  BY DEF Falls
<1>2. Xor(v, w) \in Fits
  BY <1>1, XorIn, ZenonT(30) DEF Fits
<1>3. /\ v \in SUBSET Bits256 /\ v \in SUBSET Int /\ Shifted(v, 1) \in SUBSET Bits256
      /\ w \in SUBSET Bits256 /\ w \in SUBSET Int /\ Shifted(w, 1) \in SUBSET Bits256
  BY <1>1, FitsBits
<1>4. Shifted(Xor(v, w), 1) = Xor(Shifted(v, 1), Shifted(w, 1))
  <2>1. 1 \in Int
    OBVIOUS
  <2> QED BY <1>3, <2>1, ShiftedXor
<1>5. Divided(Shifted(Xor(v, w), 1)) = Xor(Divided(Shifted(v, 1)), Divided(Shifted(w, 1)))
  BY <1>3, <1>4, DividedXor
<1>6. Divided(Shifted(v, 1)) \in SUBSET Bits128 /\ Divided(Shifted(w, 1)) \in SUBSET Bits128
  BY <1>3, DividedIn
<1>7. OverX(Divided(Shifted(Xor(v, w), 1))) =
        Xor(OverX(Divided(Shifted(v, 1))), OverX(Divided(Shifted(w, 1))))
  BY <1>5, <1>6, OverXXor
<1>8. Divided(Xor(v, w)) = Xor(Divided(v), Divided(w))
  BY <1>3, DividedXor
<1>9. /\ Divided(v) = OverX(Divided(Shifted(v, 1)))
      /\ Divided(w) = OverX(Divided(Shifted(w, 1)))
  BY DEF Falls
<1> QED BY <1>2, <1>7, <1>8, <1>9 DEF Falls

LEMMA FallsHigh ==
  ASSUME NEW w \in SUBSET (128 .. 254)
  PROVE  w \in Falls
<1> DEFINE v == Divided(Shifted(w, 1))
<1>1. w \in Fits /\ w \in SUBSET Int /\ w \in SUBSET (128 .. 255)
  BY DEF Fits
<1>2. Shifted(w, 1) \in SUBSET (128 .. 255)
  BY DEF Shifted
<1>3. v = Shifted(Shifted(w, 1), 0 - 128)
  BY <1>2, DividedHigh
<1>4. v = Shifted(w, 0 - 127) /\ Shifted(v, 0 - 1) = Shifted(w, 0 - 128)
  <2>1. 1 \in Int /\ 0 - 128 \in Int /\ 0 - 127 \in Int /\ 0 - 1 \in Int
          /\ 1 + (0 - 128) = 0 - 127 /\ (0 - 127) + (0 - 1) = 0 - 128
    OBVIOUS
  <2> HIDE DEF v
  <2>2. v = Shifted(w, 0 - 127)
    BY <1>1, <1>3, <2>1, ShiftedTwice
  <2> QED BY <1>1, <2>1, <2>2, ShiftedTwice
<1>5. ~ (0 \in v)
  <2>1. 0 \in Shifted(w, 0 - 127) <=> 0 - (0 - 127) \in w
    BY <1>1, ShiftedMember
  <2> QED BY <1>4, <2>1
<1>6. OverX(v) = Shifted(v, 0 - 1)
  <2> HIDE DEF v
  <2>1. v \ {0} = v
    BY <1>5
  <2>2. OverX(v) = Xor(Shifted(v, 0 - 1), {})
    BY <1>5, <2>1 DEF OverX
  <2> QED BY <2>2, XorNone
<1>8. Divided(w) = OverX(v)
  BY <1>1, <1>4, <1>6, DividedHigh
<1> QED BY <1>1, <1>8 DEF Falls

LEMMA FallsTop == {127} \in Falls
<1>1. {127} \in Fits /\ {127} \in SUBSET Bits256 /\ 127 \in Int /\ 128 \in Int /\ 1 \in Int
  BY DEF Fits, Bits256
<1>2. Shifted({127}, 1) = {128} /\ {128} \in SUBSET (128 .. 255)
  BY DEF Shifted
<1>3. Divided({128}) = {0}
  <2>1. Divided({128}) = Shifted({128}, 0 - 128)
    BY <1>2, DividedHigh
  <2> QED BY <2>1 DEF Shifted
<1>4. OverX({0}) = {120, 125, 126, 127}
  <2>1. {0} \ {0} = {} /\ Shifted({}, 0 - 1) = {}
    BY DEF Shifted
  <2> QED BY <2>1, XorNone DEF OverX
<1>5. Times({127}, Taps) = {248, 253, 254, 255}
  <2>1. Taps \in SUBSET Int
    BY DEF Taps
  <2>2. \A k \in Int : Odd(Meet({127}, Taps, k)) <=> k - 127 \in Taps
    <3>1. \A k \in Int : \A e \in Int : Odd(Meet({e}, Taps, k)) <=> k - e \in Taps
      BY <2>1, MeetOne
    <3> QED BY <1>1, <3>1
  <2>3. \A k \in Int : k - 127 \in Taps <=> k \in {248, 253, 254, 255}
    BY DEF Taps
  <2>4. \A k : k \in Times({127}, Taps) <=> k \in Bits256 /\ Odd(Meet({127}, Taps, k))
    BY ProductMember
  <2>5. \A k : k \in {248, 253, 254, 255} => k \in Bits256
    BY DEF Bits256
  <2>6. \A k \in Bits256 : k \in Int
    BY DEF Bits256
  <2> QED BY <2>2, <2>3, <2>4, <2>5, <2>6
<1>6. Up({127}) = {248, 253, 254, 255}
  <2>1. {127} \cap Bits128 = {127} /\ {127} \ {127} = {}
    BY DEF Bits128
  <2> QED BY <1>5, <2>1, XorNone DEF Up
<1>7. Divided({127}) = {120, 125, 126, 127}
  <2>1. {248, 253, 254, 255} \in SUBSET (128 .. 255)
    OBVIOUS
  <2>2. Divided(Up({127})) = Shifted({248, 253, 254, 255}, 0 - 128)
    BY <1>6, <2>1, DividedHigh
  <2>3. Shifted({248, 253, 254, 255}, 0 - 128) = {120, 125, 126, 127}
    BY DEF Shifted
  <2> QED BY <1>1, <2>2, <2>3, DividedUp
<1> QED BY <1>1, <1>2, <1>3, <1>4, <1>7 DEF Falls

LEMMA UpShifted ==
  ASSUME NEW w \in Fits, 127 \notin w
  PROVE  /\ Up(w) \in Fits
         /\ Up(Shifted(w, 1)) = Shifted(Up(w), 1)
<1> DEFINE s == Shifted(w, 1)
           low == w \cap Bits128
<1>1. w \in SUBSET Bits256 /\ w \in SUBSET Int /\ s \in SUBSET Bits256 /\ 1 \in Int
  BY FitsBits
<1>2. Up(w) \in Fits
  <2>1. 255 \in Int /\ ~ (255 \in w) /\ ~ (255 - 121 <= 127) /\ ~ (255 - 126 <= 127)
          /\ ~ (255 - 127 <= 127) /\ 255 - 128 = 127
    BY DEF Fits
  <2>2. ~ (255 \in Up(w))
    BY <1>1, <2>1, UpMember
  <2>3. Up(w) \subseteq 0 .. 255
    BY <1>1, UpIn DEF Bits256
  <2> QED BY <2>2, <2>3 DEF Fits
<1>3. s \cap Bits128 = Shifted(low, 1)
  <2>1. low \in SUBSET Int /\ Shifted(low, 1) \in SUBSET Int
    BY <1>1, ShiftedIn
  <2>2. ASSUME NEW k \in Int PROVE k \in s \cap Bits128 <=> k \in Shifted(low, 1)
    <3>1. (k \in s <=> k - 1 \in w) /\ (k \in Shifted(low, 1) <=> k - 1 \in low)
      BY <1>1, <2>1, ShiftedMember
    <3>2. k - 1 \in w => k - 1 # 127 /\ k - 1 >= 0
      BY DEF Fits
    <3>3. k - 1 \in low <=> k - 1 \in w /\ k - 1 \in Bits128
      OBVIOUS
    <3> QED BY <3>1, <3>2, <3>3 DEF Bits128
  <2>3. s \cap Bits128 \subseteq Int
    BY DEF Bits128
  <2> HIDE DEF low, s
  <2> QED BY <2>1, <2>2, <2>3
<1>4. s \ (s \cap Bits128) = Shifted(w \ low, 1)
  <2>1. w \ low \in SUBSET Int /\ Shifted(w \ low, 1) \in SUBSET Int
    BY <1>1, ShiftedIn
  <2>2. ASSUME NEW k \in Int PROVE k \in s \ (s \cap Bits128) <=> k \in Shifted(w \ low, 1)
    <3>1. (k \in s <=> k - 1 \in w) /\ (k \in Shifted(w \ low, 1) <=> k - 1 \in w \ low)
      BY <1>1, <2>1, ShiftedMember
    <3>2. k - 1 \in w => k - 1 # 127 /\ k - 1 >= 0
      BY DEF Fits
    <3>3. k - 1 \in w \ low <=> k - 1 \in w /\ ~ (k - 1 \in Bits128)
      OBVIOUS
    <3>4. k \in s \ (s \cap Bits128) <=> k \in s /\ ~ (k \in Bits128)
      OBVIOUS
    <3> QED BY <3>1, <3>2, <3>3, <3>4 DEF Bits128
  <2>3. s \ (s \cap Bits128) \subseteq Int
    BY <1>1 DEF Bits256
  <2> HIDE DEF low, s
  <2> QED BY <2>1, <2>2, <2>3
<1>5. Times(Shifted(low, 1), Taps) = Shifted(Times(low, Taps), 1)
  <2>1. low \in SUBSET Bits128 /\ Taps \in SUBSET Bits256 /\ 1 \in Nat
    BY DEF Taps, Bits256
  <2>2. \A i \in low : \A j \in Taps : i + j + 1 <= 255
    BY DEF Bits128, Taps
  <2> HIDE DEF low
  <2> QED BY <2>1, <2>2, TimesShifted
<1>6. (w \ low) \in SUBSET Int /\ Times(low, Taps) \in SUBSET Int
  BY <1>1, TimesIn
<1>7. Up(w) = Xor(w \ low, Times(low, Taps))
  BY DEF Up
<1>8. Up(s) = Xor(s \ (s \cap Bits128), Times(s \cap Bits128, Taps))
  BY DEF Up
<1> HIDE DEF s, low
<1>9. Up(s) = Xor(Shifted(w \ low, 1), Shifted(Times(low, Taps), 1))
  BY <1>3, <1>4, <1>5, <1>8
<1>10. Up(s) = Shifted(Up(w), 1)
  BY <1>1, <1>6, <1>7, <1>9, ShiftedXor
<1> QED BY <1>2, <1>10 DEF s

LEMMA FallsUp ==
  ASSUME NEW w \in Fits, 127 \notin w, Up(w) \in Falls
  PROVE  w \in Falls
<1>1. w \in SUBSET Bits256 /\ Shifted(w, 1) \in SUBSET Bits256
  BY FitsBits
<1>2. Divided(w) = Divided(Up(w))
  BY <1>1, DividedUp
<1>3. Divided(Shifted(w, 1)) = Divided(Shifted(Up(w), 1))
  <2>1. Divided(Up(Shifted(w, 1))) = Divided(Shifted(w, 1))
    BY <1>1, DividedUp
  <2> QED BY <2>1, UpShifted
<1>4. Divided(Up(w)) = OverX(Divided(Shifted(Up(w), 1)))
  BY DEF Falls
<1> QED BY <1>2, <1>3, <1>4 DEF Falls

(* The bit that leaves a block on its own.                                  *)
LEMMA FallsBut ==
  ASSUME NEW w \in Fits, w \ {127} \in Falls
  PROVE  w \in Falls
<1>1. CASE 127 \in w
  <2>1. w = Xor(w \ {127}, {127})
    BY <1>1 DEF Xor
  <2> QED BY <2>1, FallsTop, FallsXor
<1>2. CASE 127 \notin w
  <2>1. w \ {127} = w
    BY <1>2
  <2> QED BY <2>1
<1> QED BY <1>1, <1>2

LEMMA FallsLate ==
  ASSUME NEW w \in SUBSET (121 .. 254)
  PROVE  w \in Falls
<1> DEFINE v == w \ {127}
<1>1. w \in Fits /\ v \in Fits /\ v \in SUBSET (121 .. 255) /\ 127 \notin v
  BY DEF Fits
<1> HIDE DEF v
<1>2. Up(v) \in SUBSET (128 .. 255) /\ Up(v) \in Fits
  BY <1>1, UpSecond, UpShifted
<1>3. Up(v) \in SUBSET (128 .. 254)
  BY <1>2 DEF Fits
<1>4. v \in Falls
  BY <1>1, <1>3, FallsHigh, FallsUp
<1> QED BY <1>1, <1>4, FallsBut DEF v

(* Of every product: its residue is x times as far from that of x times it. *)
LEMMA DividedOverX ==
  ASSUME NEW w \in Fits
  PROVE  Divided(w) = OverX(Divided(Shifted(w, 1)))
<1> DEFINE v == w \ {127}
<1>1. v \in Fits /\ v \in SUBSET Bits256 /\ 127 \notin v
  BY FitsBits DEF Fits
<1> HIDE DEF v
<1>2. Up(v) \in SUBSET (121 .. 255) /\ Up(v) \in Fits
  BY <1>1, UpFirst, UpShifted
<1>3. Up(v) \in SUBSET (121 .. 254)
  BY <1>2 DEF Fits
<1>4. v \in Falls
  BY <1>1, <1>3, FallsLate, FallsUp
<1>5. w \in Falls
  BY <1>4, FallsBut DEF v
<1> QED BY <1>5 DEF Falls

-----------------------------------------------------------------------------
(* The field. *)

LEMMA BlockBits ==
  ASSUME NEW a \in Block
  PROVE  a \in SUBSET Bits128 /\ a \in SUBSET Bits256 /\ a \in SUBSET Int
BY DEF Block, Bits128, Bits256

LEMMA BlockXor ==
  ASSUME NEW a \in Block, NEW b \in Block
  PROVE  Xor(a, b) \in Block
BY XorIn DEF Block

LEMMA DotIn ==
  ASSUME NEW a \in Block, NEW b \in Block
  PROVE  Dot(a, b) \in Block /\ Times(a, b) \in Fits
<1>1. Times(a, b) \in SUBSET Bits256
  BY TimesIn
<1>2. Dot(a, b) \in SUBSET Bits128
  BY <1>1, DotIsDivided, DividedIn
<1>3. Times(a, b) \in Fits
  BY BlockBits, TimesRange DEF Fits
<1> QED BY <1>2, <1>3 DEF Block, Bits128

LEMMA DotLeft ==
  ASSUME NEW a \in Block, NEW b \in Block, NEW c \in Block
  PROVE  Dot(Xor(a, b), c) = Xor(Dot(a, c), Dot(b, c))
<1>1. a \in SUBSET Bits256 /\ b \in SUBSET Bits256
  BY BlockBits
<1>2. Times(Xor(a, b), c) = Xor(Times(a, c), Times(b, c))
  BY <1>1, TimesLeft
<1>3. Times(a, c) \in SUBSET Bits256 /\ Times(b, c) \in SUBSET Bits256
  BY TimesIn
<1>4. Divided(Times(Xor(a, b), c)) = Xor(Divided(Times(a, c)), Divided(Times(b, c)))
  BY <1>2, <1>3, DividedXor
<1> QED BY <1>4, DotIsDivided

LEMMA DotCommutes ==
  ASSUME NEW a \in Block, NEW b \in Block
  PROVE  Dot(a, b) = Dot(b, a)
<1>1. a \in SUBSET Bits256 /\ b \in SUBSET Bits256
  BY BlockBits
<1>2. Times(a, b) = Times(b, a)
  BY <1>1, TimesCommutes
<1> QED BY <1>2, DotIsDivided

LEMMA DotNone ==
  ASSUME NEW b \in Block
  PROVE  Dot({}, b) = {} /\ Dot(b, {}) = {} /\ {} \in Block
<1>1. {} \in Block
  BY DEF Block
<1>2. Dot({}, b) = {}
  BY TimesNone, DividedNone, DotIsDivided
<1> QED BY <1>1, <1>2, DotCommutes

(* Times the modulus or nothing: no difference.                             *)
LEMMA DividedBut ==
  ASSUME NEW a \in Block, NEW w \in SUBSET Bits256, NEW P
  PROVE  Divided(Times(a, Xor(w, IF P THEN Modulus ELSE {}))) = Divided(Times(a, w))
<1> DEFINE m == IF P THEN Modulus ELSE {}
<1>1. a \in SUBSET Bits128 /\ a \in SUBSET Bits256
  BY BlockBits
<1>2. Divided(Times(a, m)) = {}
  <2>1. CASE P
    BY <1>1, <2>1, DividedMultiple
  <2>2. CASE ~P
    <3>1. Times(a, {}) = {}
      BY <1>1, TimesNone, TimesCommutes
    <3> QED BY <2>2, <3>1, DividedNone
  <2> QED BY <2>1, <2>2
<1> HIDE DEF m
<1>3. Times(a, Xor(w, m)) = Xor(Times(a, w), Times(a, m))
  BY <1>1, TimesRight
<1>4. Times(a, w) \in SUBSET Bits256 /\ Times(a, m) \in SUBSET Bits256
  BY TimesIn
<1>5. Divided(Times(a, Xor(w, m))) = Xor(Divided(Times(a, w)), {})
  BY <1>2, <1>3, <1>4, DividedXor
<1> QED BY <1>5, XorNone DEF m

LEMMA TimesOneMore ==
  ASSUME NEW a \in Block, NEW b \in Block
  PROVE  /\ Shifted(b, 1) \in SUBSET Bits256
         /\ Times(a, Shifted(b, 1)) = Shifted(Times(a, b), 1)
<1>1. a \in SUBSET Bits256 /\ b \in SUBSET Bits128 /\ 1 \in Nat
  BY BlockBits
<1>2. \A i \in b : \A j \in a : i + j + 1 <= 255
  BY DEF Block
<1>3. Shifted(b, 1) \in SUBSET Bits256
  BY DEF Block, Bits256, Shifted
<1> QED BY <1>1, <1>2, <1>3, TimesShifted

LEMMA DotOverX ==
  ASSUME NEW a \in Block, NEW b \in Block
  PROVE  OverX(b) \in Block /\ Dot(a, OverX(b)) = OverX(Dot(a, b))
<1> DEFINE w == Times(a, OverX(b))
<1>1. b \in SUBSET Bits128 /\ b \in SUBSET Bits256
  BY BlockBits
<1>2. OverX(b) \in Block
  BY <1>1, OverXIn DEF Block, Bits128
<1>3. w \in Fits
  BY <1>2, DotIn
<1>4. Shifted(w, 1) = Times(a, Xor(b, IF 0 \in b THEN Modulus ELSE {}))
  BY <1>1, <1>2, TimesOneMore, OverXBack
<1>5. Divided(Shifted(w, 1)) = Divided(Times(a, b))
  BY <1>1, <1>4, DividedBut
<1>6. Divided(w) = OverX(Divided(Times(a, b)))
  BY <1>3, <1>5, DividedOverX
<1> QED BY <1>2, <1>6, DotIsDivided

LEMMA DotTop ==
  ASSUME NEW b \in Block
  PROVE  {127} \in Block /\ Dot({127}, b) = OverX(b)
<1>1. {127} \in Block /\ 127 \in Int /\ 1 \in Int /\ 128 \in Int /\ 0 - 128 \in Int
  BY DEF Block
<1>2. b \in SUBSET Int
  BY BlockBits
<1>3. Times({127}, b) = Shifted(b, 127)
  <2>1. \A k \in Int : \A e \in Int : Odd(Meet({e}, b, k)) <=> k - e \in b
    BY <1>2, MeetOne
  <2>2. \A k \in Int : Odd(Meet({127}, b, k)) <=> k \in Shifted(b, 127)
    BY <1>1, <1>2, <2>1, ShiftedMember
  <2>3. Shifted(b, 127) \in SUBSET Bits256
    BY DEF Shifted, Block, Bits256
  <2>4. \A k : k \in Times({127}, b) <=> k \in Bits256 /\ Odd(Meet({127}, b, k))
    BY ProductMember
  <2>5. \A k \in Bits256 : k \in Int
    BY DEF Bits256
  <2> QED BY <2>2, <2>3, <2>4, <2>5
<1>4. Shifted(Times({127}, b), 1) = Shifted(b, 128)
  <2>1. 127 + 1 = 128
    OBVIOUS
  <2>2. Shifted(Shifted(b, 127), 1) = Shifted(b, 127 + 1)
    BY <1>1, <1>2, ShiftedTwice
  <2> QED BY <1>3, <2>1, <2>2
<1>5. Divided(Shifted(b, 128)) = b
  <2>1. Shifted(b, 128) \in SUBSET (128 .. 255)
    BY DEF Shifted, Block
  <2>2. Shifted(Shifted(b, 128), 0 - 128) = Shifted(b, 128 + (0 - 128))
    BY <1>1, <1>2, ShiftedTwice
  <2>3. 128 + (0 - 128) = 0 /\ 0 \in Int
    OBVIOUS
  <2>4. Shifted(b, 0) = b
    <3>1. \A i \in b : i + 0 = i
      BY <1>2
    <3> QED BY <3>1 DEF Shifted
  <2>5. Divided(Shifted(b, 128)) = Shifted(Shifted(b, 128), 0 - 128)
    BY <2>1, DividedHigh
  <2> QED BY <2>2, <2>3, <2>4, <2>5
<1>6. Times({127}, b) \in Fits
  BY <1>1, DotIn
<1>7. Divided(Times({127}, b)) = OverX(b)
  BY <1>4, <1>5, <1>6, DividedOverX
<1> QED BY <1>1, <1>7, DotIsDivided

(* The product of blocks is associative: it is for the top bit, hence for   *)
(* every bit, one division by x after the other, hence for their sums.      *)
Associates == {a \in Block : \A b, c \in Block : Dot(Dot(a, b), c) = Dot(a, Dot(b, c))}

LEMMA DotOverXLeft ==
  ASSUME NEW a \in Block, NEW b \in Block
  PROVE  Dot(OverX(a), b) = OverX(Dot(a, b))
BY DotOverX, DotCommutes

LEMMA AssociatesXor ==
  ASSUME NEW a \in Associates, NEW d \in Associates
  PROVE  Xor(a, d) \in Associates
<1>1. a \in Block /\ d \in Block /\ Xor(a, d) \in Block
  BY BlockXor DEF Associates
<1>2. ASSUME NEW b \in Block, NEW c \in Block
      PROVE  Dot(Dot(Xor(a, d), b), c) = Dot(Xor(a, d), Dot(b, c))
  <2>1. Dot(a, b) \in Block /\ Dot(d, b) \in Block /\ Dot(b, c) \in Block
    BY <1>1, DotIn
  <2>2. Dot(Dot(Xor(a, d), b), c) = Xor(Dot(Dot(a, b), c), Dot(Dot(d, b), c))
    BY <1>1, <2>1, DotLeft
  <2>3. Dot(Xor(a, d), Dot(b, c)) = Xor(Dot(a, Dot(b, c)), Dot(d, Dot(b, c)))
    BY <1>1, <2>1, DotLeft
  <2> QED BY <2>2, <2>3 DEF Associates
<1> QED BY <1>1, <1>2 DEF Associates

LEMMA AssociatesOverX ==
  ASSUME NEW a \in Associates
  PROVE  OverX(a) \in Associates
<1>1. a \in Block /\ OverX(a) \in Block
  BY DotOverX DEF Associates
<1>2. ASSUME NEW b \in Block, NEW c \in Block
      PROVE  Dot(Dot(OverX(a), b), c) = Dot(OverX(a), Dot(b, c))
  <2>1. Dot(a, b) \in Block /\ Dot(b, c) \in Block
    BY <1>1, DotIn
  <2>2. Dot(Dot(OverX(a), b), c) = OverX(Dot(Dot(a, b), c))
    BY <1>1, <2>1, DotOverXLeft
  <2>3. Dot(OverX(a), Dot(b, c)) = OverX(Dot(a, Dot(b, c)))
    BY <1>1, <2>1, DotOverXLeft
  <2> QED BY <2>2, <2>3 DEF Associates
<1> QED BY <1>1, <1>2 DEF Associates

LEMMA AssociatesTop == {127} \in Associates
<1>1. ASSUME NEW b \in Block, NEW c \in Block
      PROVE  Dot(Dot({127}, b), c) = Dot({127}, Dot(b, c))
  <2>1. Dot(b, c) \in Block
    BY DotIn
  <2> QED BY <2>1, DotTop, DotOverXLeft
<1>2. {127} \in Block
  BY DEF Block
<1> QED BY <1>1, <1>2 DEF Associates

LEMMA AssociatesOne ==
  ASSUME NEW i \in 0 .. 127
  PROVE  {i} \in Associates
<1> DEFINE T == {j \in 0 .. 127 : {127 - j} \in Associates}
<1>1. 0 \in T
  <2>1. 127 - 0 = 127
    OBVIOUS
  <2> QED BY <2>1, AssociatesTop
<1>2. ASSUME NEW j \in 0 .. 127, j # 127, j \in T PROVE j + 1 \in T
  <2>1. {127 - j} \in Associates /\ 127 - j # 0 /\ 127 - j \in Int
    BY <1>2
  <2>2. OverX({127 - j}) = {127 - (j + 1)}
    <3>1. {127 - j} \ {0} = {127 - j} /\ ~ (0 \in {127 - j})
      BY <2>1
    <3>2. Shifted({127 - j}, 0 - 1) = {127 - (j + 1)}
      BY <2>1 DEF Shifted
    <3> QED BY <3>1, <3>2, XorNone DEF OverX
  <2> QED BY <1>2, <2>1, <2>2, AssociatesOverX
<1>3. 127 \in Nat
  OBVIOUS
<1> HIDE DEF T
<1>4. \A j \in 0 .. 127 : j \in T
  BY <1>1, <1>2, <1>3, Induct
<1>5. 127 - i \in 0 .. 127 /\ 127 - (127 - i) = i
  OBVIOUS
<1>6. 127 - i \in T
  BY <1>4, <1>5
<1> QED BY <1>5, <1>6 DEF T

LEMMA AssociatesAll == Associates = Block
<1>1. ASSUME NEW a \in Block PROVE a \in Associates
  <2> DEFINE low(n) == a \cap (0 .. n - 1)
             T == {n \in 0 .. 128 : low(n) \in Associates}
  <2>1. 0 \in T
    <3>1. low(0) = {}
      OBVIOUS
    <3>2. {} \in Associates
      <4>1. {127} \in Associates /\ Xor({127}, {127}) = {}
        BY AssociatesTop, XorNone
      <4> QED BY <4>1, AssociatesXor
    <3> QED BY <3>1, <3>2
  <2>2. ASSUME NEW n \in 0 .. 128, n # 128, n \in T PROVE n + 1 \in T
    <3>1. low(n) \in Associates /\ n \in 0 .. 127 /\ (n + 1) - 1 = n
      BY <2>2
    <3>2. CASE n \in a
      <4>1. \A i : i \in 0 .. (n + 1) - 1 <=> i \in 0 .. n - 1 \/ i = n
        BY <3>1
      <4>2. n \notin 0 .. n - 1
        BY <3>1
      <4>3. low(n + 1) = Xor(low(n), {n})
        BY <3>2, <4>1, <4>2 DEF Xor
      <4>4. {n} \in Associates
        BY <3>1, AssociatesOne
      <4>5. low(n + 1) \in Associates
        <5> HIDE DEF low
        <5> QED BY <3>1, <4>3, <4>4, AssociatesXor
      <4> QED BY <2>2, <4>5
    <3>3. CASE n \notin a
      <4>1. \A i : i \in 0 .. (n + 1) - 1 <=> i \in 0 .. n - 1 \/ i = n
        BY <3>1
      <4>2. low(n + 1) = low(n)
        BY <3>3, <4>1
      <4> QED BY <2>2, <4>2
    <3> QED BY <3>2, <3>3
  <2>3. 128 \in Nat /\ 128 \in 0 .. 128
    OBVIOUS
  <2> HIDE DEF T
  <2>4. 128 \in T
    BY <2>1, <2>2, <2>3, Induct
  <2>5. low(128) = a
    <3>1. 128 - 1 = 127
      OBVIOUS
    <3>2. a \cap (0 .. 127) = a
      BY DEF Block
    <3> QED BY <3>1, <3>2
  <2> QED BY <2>4, <2>5 DEF T
<1> QED BY <1>1 DEF Associates

(* The product of blocks is associative: what lets the key powers be made   *)
(* in any order (Polyval::key_powers).                                      *)
THEOREM DotAssociates ==
  ASSUME NEW a \in Block, NEW b \in Block, NEW c \in Block
  PROVE  Dot(Dot(a, b), c) = Dot(a, Dot(b, c))
BY AssociatesAll DEF Associates

-----------------------------------------------------------------------------
(* Lanes. *)

Lane == SUBSET (0 .. 63)

LEMMA LoMember ==
  ASSUME NEW v \in Block, NEW k \in Int
  PROVE  k \in Lo(v) <=> k \in v /\ k <= 63
BY DEF Lo, Block

LEMMA HiMember ==
  ASSUME NEW v \in Block, NEW k \in Int
  PROVE  k \in Hi(v) <=> k >= 0 /\ k + 64 \in v
<1>1. \A i \in v : i \in Int /\ i >= 0
  BY DEF Block
<1>2. k \in Hi(v) <=> \E i \in v : i > 63 /\ k = i - 64
  BY <1>1 DEF Hi
<1> QED BY <1>1, <1>2

LEMMA RegisterMember ==
  ASSUME NEW h \in Lane, NEW l \in Lane, NEW k \in Int
  PROVE  k \in Register(h, l) <=> k \in l \/ k - 64 \in h
BY DEF Register, Lane

LEMMA LanesIn ==
  ASSUME NEW v \in Block
  PROVE  Lo(v) \in Lane /\ Hi(v) \in Lane
<1>1. Hi(v) \in SUBSET Int
  BY DEF Hi, Block
<1>2. \A k \in Hi(v) : k >= 0 /\ k + 64 \in 0 .. 127
  BY <1>1, HiMember DEF Block
<1>3. Hi(v) \subseteq 0 .. 63
  BY <1>1, <1>2
<1>4. Lo(v) \subseteq 0 .. 63
  BY DEF Lo
<1> QED BY <1>3, <1>4 DEF Lane

LEMMA RegisterIn ==
  ASSUME NEW h \in Lane, NEW l \in Lane
  PROVE  Register(h, l) \in Block
<1>1. \A i \in h : i + 64 \in 0 .. 127
  BY DEF Lane
<1>2. \A i \in l : i \in 0 .. 127
  BY DEF Lane
<1> QED BY <1>1, <1>2 DEF Register, Block

LEMMA LaneInt ==
  ASSUME NEW v \in Lane
  PROVE  v \in SUBSET Int /\ v \in Block /\ v \in SUBSET Bits128 /\ v \in SUBSET Bits256
BY DEF Lane, Block, Bits128, Bits256

LEMMA LaneXor ==
  ASSUME NEW a \in Lane, NEW b \in Lane
  PROVE  Xor(a, b) \in Lane
BY XorIn DEF Lane

LEMMA LanesOf ==
  ASSUME NEW h \in Lane, NEW l \in Lane
  PROVE  Lo(Register(h, l)) = l /\ Hi(Register(h, l)) = h
<1> DEFINE r == Register(h, l)
<1>0. r \in Block
  BY RegisterIn
<1>1. r \in Block /\ Lo(r) \in SUBSET Int /\ Hi(r) \in SUBSET Int
        /\ h \in SUBSET Int /\ l \in SUBSET Int
  <2>1. h \in SUBSET Int /\ l \in SUBSET Int
    BY LaneInt
  <2> HIDE DEF r
  <2>2. Lo(r) \in Lane /\ Hi(r) \in Lane
    BY <1>0, LanesIn
  <2> QED BY <1>0, <2>1, <2>2, LaneInt
<1>2. \A k \in Int : k \in r <=> k \in l \/ k - 64 \in h
  BY RegisterMember
<1> HIDE DEF r
<1>3. ASSUME NEW k \in Int PROVE (k \in Lo(r) <=> k \in l) /\ (k \in Hi(r) <=> k \in h)
  <2>1. k + 64 \in Int /\ (k + 64) - 64 = k
    OBVIOUS
  <2>2. /\ k \in l => k >= 0 /\ k <= 63
        /\ k \in h => k >= 0 /\ k <= 63
        /\ k + 64 \in l => k + 64 <= 63
        /\ k - 64 \in h => k - 64 >= 0
    BY DEF Lane
  <2>3. k \in Lo(r) <=> k \in r /\ k <= 63
    BY <1>1, LoMember
  <2>4. k \in Hi(r) <=> k >= 0 /\ k + 64 \in r
    BY <1>1, HiMember
  <2> QED BY <1>2, <2>1, <2>2, <2>3, <2>4
<1>4. Lo(r) = l /\ Hi(r) = h
  BY <1>1, <1>3
<1> QED BY <1>4 DEF r

(* A block is its lanes.                                                    *)
LEMMA SameLanes ==
  ASSUME NEW v \in Block, NEW w \in Block, Lo(v) = Lo(w), Hi(v) = Hi(w)
  PROVE  v = w
<1>1. ASSUME NEW k \in Int PROVE k \in v <=> k \in w
  <2>1. CASE k <= 63
    BY <2>1, LoMember
  <2>2. CASE ~ (k <= 63)
    <3>1. k - 64 \in Int /\ k - 64 >= 0 /\ (k - 64) + 64 = k
      BY <2>2
    <3>2. (k - 64 \in Hi(v) <=> k \in v) /\ (k - 64 \in Hi(w) <=> k \in w)
      BY <3>1, HiMember
    <3> QED BY <3>2
  <2> QED BY <2>1, <2>2
<1>2. v \in SUBSET Int /\ w \in SUBSET Int
  BY BlockBits
<1> QED BY <1>1, <1>2

LEMMA LoXor ==
  ASSUME NEW v \in Block, NEW w \in Block
  PROVE  Lo(Xor(v, w)) = Xor(Lo(v), Lo(w))
BY DEF Lo, Xor

LEMMA HiXor ==
  ASSUME NEW v \in Block, NEW w \in Block
  PROVE  Hi(Xor(v, w)) = Xor(Hi(v), Hi(w))
<1>1. Xor(v, w) \in Block
  BY BlockXor
<1>2. Hi(v) \in SUBSET Int /\ Hi(w) \in SUBSET Int /\ Hi(Xor(v, w)) \in SUBSET Int
  BY <1>1, LanesIn, LaneInt
<1>3. Xor(Hi(v), Hi(w)) \in SUBSET Int
  BY <1>2, XorIn
<1>4. \A k \in Int : k \in Hi(Xor(v, w)) <=> k \in Xor(Hi(v), Hi(w))
  BY <1>1, HiMember, XorMember
<1> QED BY <1>2, <1>3, <1>4

(* The instructions, lane by lane.                                          *)
LEMMA Vext8Lanes ==
  ASSUME NEW v \in Block, NEW w \in Block
  PROVE  vext8(v, w) \in Block /\ Lo(vext8(v, w)) = Hi(v) /\ Hi(vext8(v, w)) = Lo(w)
BY LanesIn, LanesOf, RegisterIn DEF vext8

LEMMA ShuffleLanes ==
  ASSUME NEW v \in Block
  PROVE  shuffle0E(v) \in Block /\ Lo(shuffle0E(v)) = Hi(v)
<1> DEFINE word == v \cap (0 .. 31)
           twice == word \cup {i + 32 : i \in word}
<1>1. twice \in Lane
  BY DEF Lane
<1>2. shuffle0E(v) = Register(twice, Hi(v))
  BY DEF shuffle0E
<1> HIDE DEF twice
<1> QED BY <1>1, <1>2, LanesIn, LanesOf, RegisterIn

Shr(v, n) == {i - n : i \in {x \in v : x >= n}}
Shl(v, n) == {i + n : i \in {x \in v : x + n < 64}}

LEMMA ShrMember ==
  ASSUME NEW v \in Lane, NEW n \in 0 .. 63, NEW k \in Int
  PROVE  k \in Shr(v, n) <=> k >= 0 /\ k + n \in v
<1>1. \A i \in v : i \in Int
  BY DEF Lane
<1>2. k \in Shr(v, n) <=> \E i \in v : i >= n /\ k = i - n
  BY DEF Shr
<1> QED BY <1>1, <1>2

LEMMA ShlMember ==
  ASSUME NEW v \in Lane, NEW n \in 0 .. 63, NEW k \in Int
  PROVE  k \in Shl(v, n) <=> k < 64 /\ k - n \in v
<1>1. \A i \in v : i \in Int
  BY DEF Lane
<1>2. k \in Shl(v, n) <=> \E i \in v : i + n < 64 /\ k = i + n
  BY DEF Shl
<1> QED BY <1>1, <1>2

LEMMA ShiftsIn ==
  ASSUME NEW v \in Lane, NEW n \in 0 .. 63
  PROVE  Shr(v, n) \in Lane /\ Shl(v, n) \in Lane
BY DEF Shr, Shl, Lane

LEMMA SrliLanes ==
  ASSUME NEW v \in Block, NEW n \in 0 .. 63
  PROVE  srli(v, n) \in Block /\ Lo(srli(v, n)) = Shr(Lo(v), n)
<1>1. \A i \in v : i \in 0 .. 127
  BY DEF Block
<1>2. \A i \in v : i % 64 >= n => i - n \in 0 .. 127 /\ (i - n <= 63 <=> i <= 63)
  <2>1. \A i \in 0 .. 63 : i % 64 = i
    OBVIOUS
  <2>2. \A i \in 64 .. 127 : i % 64 = i - 64
    OBVIOUS
  <2>3. \A i \in v : i \in 0 .. 63 \/ i \in 64 .. 127
    BY <1>1
  <2> QED BY <1>1, <2>1, <2>2, <2>3
<1>3. srli(v, n) \in Block
  BY <1>2 DEF srli, Block
<1>4. Lo(srli(v, n)) \in SUBSET Int /\ Shr(Lo(v), n) \in SUBSET Int /\ Lo(v) \in Lane
  BY <1>3, LanesIn, LaneInt, ShiftsIn
<1>5. ASSUME NEW k \in Int PROVE k \in Lo(srli(v, n)) <=> k \in Shr(Lo(v), n)
  <2>1. k \in Lo(srli(v, n)) <=> k \in srli(v, n) /\ k <= 63
    BY <1>3, LoMember
  <2>2. k \in Shr(Lo(v), n) <=> k >= 0 /\ k + n \in v /\ k + n <= 63
    <3>1. k + n \in Int
      OBVIOUS
    <3>2. k + n \in Lo(v) <=> k + n \in v /\ k + n <= 63
      BY <3>1, LoMember
    <3>3. k \in Shr(Lo(v), n) <=> k >= 0 /\ k + n \in Lo(v)
      BY <1>4, ShrMember
    <3> QED BY <3>2, <3>3
  <2>3. k \in srli(v, n) <=> k + n \in v /\ (k + n) % 64 >= n
    BY <1>1 DEF srli
  <2>4. k + n \in v /\ k >= 0 /\ k + n <= 63 => (k + n) % 64 = k + n
    OBVIOUS
  <2>5. k + n \in v /\ (k + n) % 64 >= n => (k + n) - n = k /\ (k + n) - n \in 0 .. 127
            /\ ((k + n) - n <= 63 <=> k + n <= 63)
    BY <1>2
  <2> QED BY <2>1, <2>2, <2>3, <2>4, <2>5
<1> QED BY <1>3, <1>4, <1>5

LEMMA SlliLanes ==
  ASSUME NEW v \in Block, NEW n \in 0 .. 63
  PROVE  slli(v, n) \in Block /\ Lo(slli(v, n)) = Shl(Lo(v), n)
<1>1. \A i \in v : i \in 0 .. 127
  BY DEF Block
<1>2. \A i \in v : (i % 64) + n < 64 => i + n \in 0 .. 127 /\ (i + n <= 63 <=> i <= 63)
  <2>1. \A i \in 0 .. 63 : i % 64 = i
    OBVIOUS
  <2>2. \A i \in 64 .. 127 : i % 64 = i - 64
    OBVIOUS
  <2>3. \A i \in v : i \in 0 .. 63 \/ i \in 64 .. 127
    BY <1>1
  <2> QED BY <1>1, <2>1, <2>2, <2>3
<1>3. slli(v, n) \in Block
  BY <1>2 DEF slli, Block
<1>4. Lo(slli(v, n)) \in SUBSET Int /\ Shl(Lo(v), n) \in SUBSET Int /\ Lo(v) \in Lane
  BY <1>3, LanesIn, LaneInt, ShiftsIn
<1>5. ASSUME NEW k \in Int PROVE k \in Lo(slli(v, n)) <=> k \in Shl(Lo(v), n)
  <2>1. k \in Lo(slli(v, n)) <=> k \in slli(v, n) /\ k <= 63
    BY <1>3, LoMember
  <2>2. k \in Shl(Lo(v), n) <=> k < 64 /\ k - n \in v /\ k - n <= 63
    <3>1. k - n \in Int
      OBVIOUS
    <3>2. k - n \in Lo(v) <=> k - n \in v /\ k - n <= 63
      BY <3>1, LoMember
    <3>3. k \in Shl(Lo(v), n) <=> k < 64 /\ k - n \in Lo(v)
      BY <1>4, ShlMember
    <3> QED BY <3>2, <3>3
  <2>3. k \in slli(v, n) <=> k - n \in v /\ ((k - n) % 64) + n < 64
    <3>1. \A i \in v : i \in Int /\ (k = i + n <=> i = k - n)
      BY <1>1
    <3>2. k \in slli(v, n) <=> \E i \in v : (i % 64) + n < 64 /\ k = i + n
      BY DEF slli
    <3> QED BY <3>1, <3>2
  <2>4. k - n \in v /\ k < 64 => (k - n) % 64 = k - n
    BY <1>1
  <2>5. k - n \in v /\ ((k - n) % 64) + n < 64 => (k - n) + n = k
            /\ ((k - n) + n <= 63 <=> k - n <= 63)
    BY <1>2
  <2> QED BY <2>1, <2>2, <2>3, <2>4, <2>5
<1> QED BY <1>3, <1>4, <1>5

(* A lane times the middle of the modulus.                                  *)
Folded(v) == pmull(v, {63, 62, 57})

LEMMA FoldedIn ==
  ASSUME NEW v \in Lane
  PROVE  Folded(v) \in Block
BY ProductMember DEF Folded, Block

LEMMA FoldedMember ==
  ASSUME NEW v \in Lane, NEW k \in Int
  PROVE  k \in Folded(v) <=>
           /\ k \in 0 .. 126
           /\ ~ (~ (k - 63 \in v <=> k - 62 \in v) <=> k - 57 \in v)
<1>1. v \in SUBSET Bits256 /\ 63 \in Int /\ 62 \in Int /\ 57 \in Int
        /\ 63 # 62 /\ 63 # 57 /\ 62 # 57
  BY LaneInt
<1>2. \A p, q, r \in Int : p # q /\ p # r /\ q # r =>
        (Odd(Meet(v, {p, q, r}, k)) <=> ~ (~ (k - p \in v <=> k - q \in v) <=> k - r \in v))
  BY <1>1, MeetThree
<1>3. Odd(Meet(v, {63, 62, 57}, k)) <=> ~ (~ (k - 63 \in v <=> k - 62 \in v) <=> k - 57 \in v)
  <2> HIDE DEF Meet
  <2> QED BY <1>1, <1>2, SMTT(30)
<1> QED BY <1>3, ProductMember DEF Folded

LEMMA FoldedLanes ==
  ASSUME NEW v \in Lane
  PROVE  /\ Lo(Folded(v)) = Xor(Xor(Shl(v, 63), Shl(v, 62)), Shl(v, 57))
         /\ Hi(Folded(v)) = Xor(Xor(Shr(v, 1), Shr(v, 2)), Shr(v, 7))
<1> DEFINE l == Xor(Xor(Shl(v, 63), Shl(v, 62)), Shl(v, 57))
           h == Xor(Xor(Shr(v, 1), Shr(v, 2)), Shr(v, 7))
<1>1. l \in Lane /\ h \in Lane
  <2>1. 63 \in 0 .. 63 /\ 62 \in 0 .. 63 /\ 57 \in 0 .. 63 /\ 1 \in 0 .. 63 /\ 2 \in 0 .. 63 /\ 7 \in 0 .. 63
    OBVIOUS
  <2>2. /\ Shl(v, 63) \in Lane /\ Shl(v, 62) \in Lane /\ Shl(v, 57) \in Lane
        /\ Shr(v, 1) \in Lane /\ Shr(v, 2) \in Lane /\ Shr(v, 7) \in Lane
    BY <2>1, ShiftsIn
  <2> QED BY <2>2, LaneXor
<1>2. Folded(v) \in Block
  BY FoldedIn
<1>3. ASSUME NEW k \in Int PROVE (k \in Lo(Folded(v)) <=> k \in l) /\ (k \in Hi(Folded(v)) <=> k \in h)
  <2>1. k \in Lo(Folded(v)) <=> k \in Folded(v) /\ k <= 63
    BY <1>2, LoMember
  <2>2. k \in Hi(Folded(v)) <=> k >= 0 /\ k + 64 \in Folded(v)
    BY <1>2, HiMember
  <2>3. k \in l <=> ~ (~ (k < 64 /\ k - 63 \in v <=> k < 64 /\ k - 62 \in v) <=> k < 64 /\ k - 57 \in v)
    <3>1. \A n \in 0 .. 63 : k \in Shl(v, n) <=> k < 64 /\ k - n \in v
      BY ShlMember
    <3> QED BY <3>1, XorMember
  <2>4. k \in h <=> ~ (~ (k >= 0 /\ k + 1 \in v <=> k >= 0 /\ k + 2 \in v) <=> k >= 0 /\ k + 7 \in v)
    <3>1. \A n \in 0 .. 63 : k \in Shr(v, n) <=> k >= 0 /\ k + n \in v
      BY ShrMember
    <3> QED BY <3>1, XorMember
  <2>5. \A i \in v : i \in Int /\ i >= 0 /\ i <= 63
    BY DEF Lane
  <2>6. k + 64 \in Int /\ (k + 64) - 63 = k + 1 /\ (k + 64) - 62 = k + 2 /\ (k + 64) - 57 = k + 7
    OBVIOUS
  <2>7. k \in Folded(v) <=>
          /\ k \in 0 .. 126
          /\ ~ (~ (k - 63 \in v <=> k - 62 \in v) <=> k - 57 \in v)
    BY FoldedMember
  <2>8. k + 64 \in Folded(v) <=>
          /\ k + 64 \in 0 .. 126
          /\ ~ (~ (k + 1 \in v <=> k + 2 \in v) <=> k + 7 \in v)
    BY <2>6, FoldedMember
  <2> HIDE DEF l, h
  <2>9. k \in Lo(Folded(v)) <=> k \in l
    BY <2>1, <2>3, <2>5, <2>7
  <2>10. k \in Hi(Folded(v)) <=> k \in h
    BY <2>2, <2>4, <2>5, <2>8
  <2> QED BY <2>9, <2>10
<1>4. Lo(Folded(v)) \in SUBSET Int /\ Hi(Folded(v)) \in SUBSET Int
        /\ l \in SUBSET Int /\ h \in SUBSET Int
  <2> HIDE DEF l, h
  <2> QED BY <1>1, <1>2, LanesIn, LaneInt
<1> HIDE DEF l, h
<1>5. Lo(Folded(v)) = l /\ Hi(Folded(v)) = h
  BY <1>3, <1>4
<1> QED BY <1>5 DEF l, h

-----------------------------------------------------------------------------
(* Reduction as the code does it: what is below x^128 is cleared a lane at  *)
(* a time.                                                                  *)

LEMMA ShiftedBlock ==
  ASSUME NEW v \in Block, NEW s \in 0 .. 128
  PROVE  Shifted(v, s) \in SUBSET Bits256 /\ Shifted(v, s) \in SUBSET Int
BY DEF Shifted, Block, Bits256

LEMMA DividedOfShifted ==
  ASSUME NEW v \in Block
  PROVE  Divided(Shifted(v, 128)) = v
<1>1. v \in SUBSET Int /\ 128 \in Int /\ 0 - 128 \in Int /\ 128 + (0 - 128) = 0
  BY BlockBits
<1>2. Shifted(v, 128) \in SUBSET (128 .. 255)
  BY DEF Shifted, Block
<1>3. Divided(Shifted(v, 128)) = Shifted(Shifted(v, 128), 0 - 128)
  BY <1>2, DividedHigh
<1>4. Shifted(Shifted(v, 128), 0 - 128) = Shifted(v, 128 + (0 - 128))
  BY <1>1, ShiftedTwice
<1>5. Shifted(v, 0) = v
  <2>1. \A i \in v : i + 0 = i
    BY <1>1
  <2> QED BY <2>1 DEF Shifted
<1> QED BY <1>1, <1>3, <1>4, <1>5

LEMMA SplitShifted ==
  ASSUME NEW v \in Block, NEW s \in {0, 64}
  PROVE  Shifted(v, s) = Xor(Shifted(Lo(v), s), Shifted(Hi(v), s + 64))
<1> DEFINE l == Lo(v)
           h == Hi(v)
<1>1. v \in SUBSET Int /\ l \in SUBSET Int /\ h \in SUBSET Int /\ s \in Int /\ s + 64 \in Int
  BY BlockBits, LanesIn, LaneInt
<1>2. \A k \in Int : (k \in l <=> k \in v /\ k <= 63) /\ (k \in h <=> k >= 0 /\ k + 64 \in v)
  BY LoMember, HiMember
<1> HIDE DEF l, h
<1>3. Shifted(v, s) \in SUBSET Int /\ Shifted(l, s) \in SUBSET Int /\ Shifted(h, s + 64) \in SUBSET Int
  BY <1>1, ShiftedIn
<1>4. Xor(Shifted(l, s), Shifted(h, s + 64)) \in SUBSET Int
  BY <1>3, XorIn
<1>5. ASSUME NEW k \in Int
      PROVE  k \in Shifted(v, s) <=> k \in Xor(Shifted(l, s), Shifted(h, s + 64))
  <2>1. /\ k \in Shifted(v, s) <=> k - s \in v
        /\ k \in Shifted(l, s) <=> k - s \in l
        /\ k \in Shifted(h, s + 64) <=> k - (s + 64) \in h
    BY <1>1, ShiftedMember
  <2>2. k - s \in Int /\ k - (s + 64) \in Int /\ (k - (s + 64)) + 64 = k - s
    OBVIOUS
  <2>3. /\ k - s \in l <=> k - s \in v /\ k - s <= 63
        /\ k - (s + 64) \in h <=> k - (s + 64) >= 0 /\ k - s \in v
    BY <1>2, <2>2
  <2>4. k - (s + 64) >= 0 <=> ~ (k - s <= 63)
    BY <1>1
  <2> QED BY <2>1, <2>3, <2>4, XorMember
<1>6. Shifted(v, s) = Xor(Shifted(l, s), Shifted(h, s + 64))
  BY <1>3, <1>4, <1>5
<1> QED BY <1>6 DEF l, h

LEMMA UpOfLane ==
  ASSUME NEW v \in Lane, NEW s \in {0, 64}
  PROVE  Up(Shifted(v, s)) = Xor(Shifted(Folded(v), s + 64), Shifted(v, s + 128))
<1> DEFINE f == Folded(v)
<1>1. v \in SUBSET Int /\ f \in SUBSET Int /\ s \in Int /\ s + 64 \in Int /\ s + 128 \in Int
  BY LaneInt, FoldedIn, BlockBits
<1>2. Shifted(v, s) \in SUBSET Bits256
  BY DEF Shifted, Lane, Bits256
<1>3. \A k \in Int : k \in f <=>
         /\ k \in 0 .. 126
         /\ ~ (~ (k - 63 \in v <=> k - 62 \in v) <=> k - 57 \in v)
  BY FoldedMember
<1> HIDE DEF f
<1>4. Shifted(f, s + 64) \in SUBSET Int /\ Shifted(v, s + 128) \in SUBSET Int
  BY <1>1, ShiftedIn
<1>5. Xor(Shifted(f, s + 64), Shifted(v, s + 128)) \in SUBSET Int /\ Up(Shifted(v, s)) \in SUBSET Int
  BY <1>2, <1>4, XorIn, UpIn DEF Bits256
<1>6. ASSUME NEW k \in Int
      PROVE  k \in Up(Shifted(v, s)) <=> k \in Xor(Shifted(f, s + 64), Shifted(v, s + 128))
  <2> DEFINE in(e) == (k - s) - e \in v
  <2>1. \A i \in Int : i \in Shifted(v, s) <=> i - s \in v
    BY <1>1, ShiftedMember
  <2>2. \A i \in v : i \in Int /\ i >= 0 /\ i <= 63
    BY DEF Lane
  <2>3. \A e \in {121, 126, 127, 128} :
          (k - e \in Shifted(v, s) /\ k - e <= 127 <=> in(e)) /\ k - e \in Int
    <3>1. ASSUME NEW e \in Int PROVE k - e \in Int /\ (k - e) - s = (k - s) - e
      OBVIOUS
    <3>2. ASSUME NEW e \in Int, (k - s) - e \in v PROVE k - e <= 127
      <4>1. (k - s) - e <= 63
        BY <2>2, <3>2
      <4> QED BY <4>1
    <3> QED BY <2>1, <3>1, <3>2
  <2>4. k \in Shifted(v, s) => k <= 127
    <3>1. k \in Shifted(v, s) => k - s <= 63
      BY <2>1, <2>2
    <3> QED BY <3>1
  <2>5. k \in Up(Shifted(v, s)) <=>
          k \in Bits256 /\ ~ (~ (in(121) <=> in(126)) <=> ~ (in(127) <=> in(128)))
    <3> DEFINE low(i) == i \in Shifted(v, s) /\ i <= 127
    <3>1. k \in Up(Shifted(v, s)) <=>
             /\ k \in Bits256
             /\ ~ ((k \in Shifted(v, s) /\ k >= 128) <=>
                   ~ (~ (low(k - 121) <=> low(k - 126)) <=> ~ (low(k - 127) <=> low(k - 128))))
      BY <1>2, UpMember
    <3>2. ~ (k \in Shifted(v, s) /\ k >= 128)
      BY <2>4
    <3>3. \A e \in {121, 126, 127, 128} : low(k - e) <=> in(e)
      BY <2>3
    <3> HIDE DEF low, in
    <3> QED BY <3>1, <3>2, <3>3
  <2>6. k \in Shifted(f, s + 64) <=>
          k - (s + 64) \in 0 .. 126 /\ ~ (~ (in(127) <=> in(126)) <=> in(121))
    <3>1. k \in Shifted(f, s + 64) <=> k - (s + 64) \in f
      BY <1>1, ShiftedMember
    <3>2. /\ k - (s + 64) \in Int
          /\ (k - (s + 64)) - 63 = (k - s) - 127
          /\ (k - (s + 64)) - 62 = (k - s) - 126
          /\ (k - (s + 64)) - 57 = (k - s) - 121
      OBVIOUS
    <3> QED BY <1>3, <3>1, <3>2
  <2>7. k \in Shifted(v, s + 128) <=> in(128)
    <3>1. k \in Shifted(v, s + 128) <=> k - (s + 128) \in v
      BY <1>1, ShiftedMember
    <3>2. k - (s + 128) = (k - s) - 128
      OBVIOUS
    <3> QED BY <3>1, <3>2
  <2>8. /\ in(121) => k - (s + 64) \in 0 .. 126 /\ k \in Bits256
        /\ in(126) => k - (s + 64) \in 0 .. 126 /\ k \in Bits256
        /\ in(127) => k - (s + 64) \in 0 .. 126 /\ k \in Bits256
        /\ in(128) => k \in Bits256
    <3>1. \A e \in Int : in(e) => k >= s + e /\ k <= s + e + 63
      <4>1. ASSUME NEW e \in Int, in(e) PROVE k >= s + e /\ k <= s + e + 63
        <5>1. (k - s) - e >= 0 /\ (k - s) - e <= 63
          BY <2>2, <4>1
        <5> QED BY <5>1
      <4> QED BY <4>1
    <3>2. s = 0 \/ s = 64
      OBVIOUS
    <3> HIDE DEF in
    <3> QED BY <3>1, <3>2 DEF Bits256
  <2> HIDE DEF in
  <2> QED BY <2>5, <2>6, <2>7, <2>8, XorMember
<1>7. Up(Shifted(v, s)) = Xor(Shifted(f, s + 64), Shifted(v, s + 128))
  BY <1>4, <1>5, <1>6
<1> QED BY <1>7 DEF f

LEMMA DividedLane ==
  ASSUME NEW v \in Lane
  PROVE  /\ Divided(v) = Xor(Divided(Shifted(Folded(v), 64)), v)
         /\ Divided(Shifted(v, 64)) = Xor(Folded(v), Shifted(v, 64))
<1>1. v \in Block /\ v \in SUBSET Int /\ Folded(v) \in Block /\ v \in SUBSET Bits256
  BY LaneInt, FoldedIn
<1>2. /\ Shifted(Folded(v), 64) \in SUBSET Bits256 /\ Shifted(v, 128) \in SUBSET Bits256
      /\ Shifted(v, 64) \in SUBSET Bits256 /\ Shifted(Folded(v), 128) \in SUBSET Bits256
  BY <1>1, ShiftedBlock
<1>3. Divided(v) = Xor(Divided(Shifted(Folded(v), 64)), v)
  <2>1. Shifted(v, 0) = v
    <3>1. \A i \in v : i + 0 = i
      BY <1>1
    <3> QED BY <3>1 DEF Shifted
  <2>2. Up(Shifted(v, 0)) = Xor(Shifted(Folded(v), 0 + 64), Shifted(v, 0 + 128))
    <3>1. 0 \in {0, 64}
      OBVIOUS
    <3> QED BY <3>1, UpOfLane
  <2>3. Up(v) = Xor(Shifted(Folded(v), 64), Shifted(v, 128))
    <3>1. 0 + 64 = 64 /\ 0 + 128 = 128
      OBVIOUS
    <3> QED BY <2>1, <2>2, <3>1
  <2>4. Divided(Up(v)) = Xor(Divided(Shifted(Folded(v), 64)), Divided(Shifted(v, 128)))
    BY <1>2, <2>3, DividedXor
  <2>5. Divided(Shifted(v, 128)) = v
    BY <1>1, DividedOfShifted
  <2> QED BY <1>1, <2>4, <2>5, DividedUp
<1>4. Divided(Shifted(v, 64)) = Xor(Folded(v), Shifted(v, 64))
  <2>1. Up(Shifted(v, 64)) = Xor(Shifted(Folded(v), 64 + 64), Shifted(v, 64 + 128))
    <3>1. 64 \in {0, 64}
      OBVIOUS
    <3> QED BY <3>1, UpOfLane
  <2>2. Shifted(v, 64) \in Block
    BY DEF Lane, Shifted, Block
  <2>3. Shifted(v, 64 + 128) = Shifted(Shifted(v, 64), 128)
    <3>1. 64 \in Int /\ 128 \in Int
      OBVIOUS
    <3> QED BY <1>1, <3>1, ShiftedTwice
  <2>4. Up(Shifted(v, 64)) = Xor(Shifted(Folded(v), 128), Shifted(Shifted(v, 64), 128))
    <3>1. 64 + 64 = 128
      OBVIOUS
    <3> QED BY <2>1, <2>3, <3>1
  <2>5. Shifted(Shifted(v, 64), 128) \in SUBSET Bits256
    BY <2>2, ShiftedBlock
  <2>6. Divided(Up(Shifted(v, 64))) =
          Xor(Divided(Shifted(Folded(v), 128)), Divided(Shifted(Shifted(v, 64), 128)))
    BY <1>2, <2>4, <2>5, DividedXor
  <2>7. Divided(Shifted(Folded(v), 128)) = Folded(v) /\ Divided(Shifted(Shifted(v, 64), 128)) = Shifted(v, 64)
    BY <1>1, <2>2, DividedOfShifted
  <2>8. Divided(Up(Shifted(v, 64))) = Divided(Shifted(v, 64))
    BY <1>2, DividedUp
  <2> QED BY <2>6, <2>7, <2>8
<1> QED BY <1>3, <1>4

(* A block half way up.                                                     *)
Half(m) == Divided(Shifted(m, 64))

LEMMA HalfXor ==
  ASSUME NEW a \in Block, NEW b \in Block
  PROVE  Half(Xor(a, b)) = Xor(Half(a), Half(b))
<1>1. a \in SUBSET Int /\ b \in SUBSET Int /\ 64 \in Int
  BY BlockBits
<1>2. Shifted(Xor(a, b), 64) = Xor(Shifted(a, 64), Shifted(b, 64))
  BY <1>1, ShiftedXor
<1>3. Shifted(a, 64) \in SUBSET Bits256 /\ Shifted(b, 64) \in SUBSET Bits256
  BY ShiftedBlock
<1> QED BY <1>2, <1>3, DividedXor DEF Half

LEMMA HalfIs ==
  ASSUME NEW m \in Block
  PROVE  Half(m) = Xor(Xor(Folded(Lo(m)), Shifted(Lo(m), 64)), Hi(m))
<1> DEFINE l == Lo(m)
           h == Hi(m)
<1>1. l \in Lane /\ h \in Lane
  BY LanesIn
<1>2. Shifted(m, 64) = Xor(Shifted(l, 64), Shifted(h, 128))
  <2>1. 64 \in {0, 64} /\ 64 + 64 = 128
    OBVIOUS
  <2>2. Shifted(m, 64) = Xor(Shifted(l, 64), Shifted(h, 64 + 64))
    BY <2>1, SplitShifted
  <2> QED BY <2>1, <2>2
<1> HIDE DEF l, h
<1>3. l \in Block /\ h \in Block
  BY <1>1, LaneInt
<1>4. Shifted(l, 64) \in SUBSET Bits256 /\ Shifted(h, 128) \in SUBSET Bits256
  BY <1>3, ShiftedBlock
<1>5. Divided(Shifted(m, 64)) = Xor(Divided(Shifted(l, 64)), Divided(Shifted(h, 128)))
  BY <1>2, <1>4, DividedXor
<1>6. Divided(Shifted(h, 128)) = h
  BY <1>3, DividedOfShifted
<1>7. Half(m) = Xor(Xor(Folded(l), Shifted(l, 64)), h)
  BY <1>1, <1>5, <1>6, DividedLane DEF Half
<1> QED BY <1>7 DEF l, h

LEMMA SplitBlock ==
  ASSUME NEW v \in Block
  PROVE  v = Xor(Lo(v), Shifted(Hi(v), 64))
<1> DEFINE a == Lo(v)
           b == Hi(v)
<1>1. a \in SUBSET Int /\ v \in SUBSET Int
  BY LanesIn, LaneInt, BlockBits
<1>2. 0 \in {0, 64} /\ 0 + 64 = 64
  OBVIOUS
<1>3. Shifted(v, 0) = Xor(Shifted(a, 0), Shifted(b, 0 + 64))
  BY <1>2, SplitShifted
<1>4. \A w \in SUBSET Int : Shifted(w, 0) = w
  <2>1. ASSUME NEW w \in SUBSET Int PROVE Shifted(w, 0) = w
    <3>1. \A i \in w : i + 0 = i
      OBVIOUS
    <3> QED BY <3>1 DEF Shifted
  <2> QED BY <2>1
<1> HIDE DEF a, b
<1>5. v = Xor(a, Shifted(b, 64))
  BY <1>1, <1>2, <1>3, <1>4
<1> QED BY <1>5 DEF a, b

LEMMA DividedBlock ==
  ASSUME NEW l \in Block
  PROVE  Divided(l) = Xor(Half(Xor(Folded(Lo(l)), Hi(l))), Lo(l))
<1> DEFINE a == Lo(l)
           b == Hi(l)
<1>1. a \in Lane /\ b \in Lane
  BY LanesIn
<1>2. l = Xor(a, Shifted(b, 64))
  BY SplitBlock
<1> HIDE DEF a, b
<1>3. a \in Block /\ b \in Block /\ a \in SUBSET Bits256 /\ Folded(a) \in Block
  BY <1>1, LaneInt, FoldedIn
<1>4. Shifted(b, 64) \in SUBSET Bits256
  BY <1>3, ShiftedBlock
<1>5. Divided(l) = Xor(Divided(a), Half(b))
  BY <1>2, <1>3, <1>4, DividedXor DEF Half
<1>6. Divided(a) = Xor(Half(Folded(a)), a)
  BY <1>1, DividedLane DEF Half
<1>7. Half(Xor(Folded(a), b)) = Xor(Half(Folded(a)), Half(b))
  BY <1>3, HalfXor
<1>8. Xor(Xor(Half(Folded(a)), a), Half(b)) = Xor(Xor(Half(Folded(a)), Half(b)), a)
  <2> DEFINE u == Half(Folded(a))
             v == Half(b)
  <2> HIDE DEF u, v
  <2>1. \A x : x \in Xor(Xor(u, a), v) <=> x \in Xor(Xor(u, v), a)
    BY XorMember
  <2>2. Xor(Xor(u, a), v) = Xor(Xor(u, v), a)
    BY <2>1
  <2> QED BY <2>2 DEF u, v
<1>9. Divided(l) = Xor(Half(Xor(Folded(a), b)), a)
  BY <1>5, <1>6, <1>7, <1>8
<1> QED BY <1>9 DEF a, b

(* Three blocks, each half over the last.                                   *)
Spread(l, m, h) == Xor(Xor(l, Shifted(m, 64)), Shifted(h, 128))

(* What is carried out of the lowest lane, and what then is left.           *)
Carried(l, m) == Xor(Xor(Folded(Lo(l)), Hi(l)), m)

Residue(l, u, h) ==
  Xor(Xor(h, Lo(l)), Xor(Xor(Folded(Lo(u)), Shifted(Lo(u), 64)), Hi(u)))

LEMMA SpreadIn ==
  ASSUME NEW l \in Block, NEW m \in Block, NEW h \in Block
  PROVE  Spread(l, m, h) \in SUBSET Bits256
<1>1. l \in SUBSET Bits256 /\ Shifted(m, 64) \in SUBSET Bits256 /\ Shifted(h, 128) \in SUBSET Bits256
  BY BlockBits, ShiftedBlock
<1> QED BY <1>1, XorIn DEF Spread

LEMMA DividedSpread ==
  ASSUME NEW l \in Block, NEW m \in Block, NEW h \in Block
  PROVE  /\ Carried(l, m) \in Block
         /\ Divided(Spread(l, m, h)) = Residue(l, Carried(l, m), h)
<1> DEFINE f == Xor(Folded(Lo(l)), Hi(l))
           a == Lo(l)
           u == Carried(l, m)
<1>1. f \in Block
  <2>1. Folded(Lo(l)) \in Block /\ Hi(l) \in Block
    BY LanesIn, LaneInt, FoldedIn
  <2> QED BY <2>1, BlockXor
<1>2. u = Xor(f, m)
  BY DEF Carried
<1>3. Divided(l) = Xor(Half(f), a)
  BY DividedBlock
<1>4. Residue(l, u, h) = Xor(Xor(h, a), Xor(Xor(Folded(Lo(u)), Shifted(Lo(u), 64)), Hi(u)))
  BY DEF Residue
<1> HIDE DEF f, a, u
<1>5. u \in Block
  BY <1>1, <1>2, BlockXor
<1>6. Half(u) = Xor(Half(f), Half(m))
  BY <1>1, <1>2, HalfXor
<1>7. Divided(Spread(l, m, h)) = Xor(Xor(Divided(l), Half(m)), h)
  <2>1. l \in SUBSET Bits256 /\ Shifted(m, 64) \in SUBSET Bits256 /\ Shifted(h, 128) \in SUBSET Bits256
    BY BlockBits, ShiftedBlock
  <2>2. Xor(l, Shifted(m, 64)) \in SUBSET Bits256
    BY <2>1, XorIn
  <2>3. Divided(Xor(l, Shifted(m, 64))) = Xor(Divided(l), Half(m))
    BY <2>1, DividedXor DEF Half
  <2>4. Divided(Shifted(h, 128)) = h
    BY DividedOfShifted
  <2>5. Divided(Spread(l, m, h)) = Xor(Divided(Xor(l, Shifted(m, 64))), Divided(Shifted(h, 128)))
    BY <2>1, <2>2, DividedXor DEF Spread
  <2> QED BY <2>3, <2>4, <2>5
<1>8. Residue(l, u, h) = Xor(Xor(h, a), Xor(Half(f), Half(m)))
  BY <1>4, <1>5, <1>6, HalfIs
<1>9. Xor(Xor(Xor(Half(f), a), Half(m)), h) = Xor(Xor(h, a), Xor(Half(f), Half(m)))
  <2> DEFINE v == Half(f)
             w == Half(m)
  <2> HIDE DEF v, w
  <2>1. \A x : x \in Xor(Xor(Xor(v, a), w), h) <=> x \in Xor(Xor(h, a), Xor(v, w))
    BY XorMember
  <2>2. Xor(Xor(Xor(v, a), w), h) = Xor(Xor(h, a), Xor(v, w))
    BY <2>1
  <2> QED BY <2>2 DEF v, w
<1>10. Divided(Spread(l, m, h)) = Residue(l, u, h)
  BY <1>3, <1>7, <1>8, <1>9
<1> QED BY <1>5, <1>10 DEF u

LEMMA LanePlaces ==
  ASSUME NEW v \in Lane
  PROVE  /\ v \in Block /\ Lo(v) = v /\ Hi(v) = {}
         /\ Shifted(v, 64) \in Block /\ Lo(Shifted(v, 64)) = {} /\ Hi(Shifted(v, 64)) = v
<1>1. {} \in Lane
  BY DEF Lane
<1>2. Register({}, v) = v /\ Register(v, {}) = Shifted(v, 64)
  BY DEF Register, Shifted
<1>3. Lo(Register({}, v)) = v /\ Hi(Register({}, v)) = {} /\ Register({}, v) \in Block
  BY <1>1, LanesOf, RegisterIn
<1>4. Lo(Register(v, {})) = {} /\ Hi(Register(v, {})) = v /\ Register(v, {}) \in Block
  BY <1>1, LanesOf, RegisterIn
<1> QED BY <1>2, <1>3, <1>4

LEMMA CarriedLanes ==
  ASSUME NEW l \in Block, NEW m \in Block
  PROVE  LET f == Folded(Lo(l)) IN
         /\ Lo(Carried(l, m)) = Xor(Xor(Lo(f), Hi(l)), Lo(m))
         /\ Hi(Carried(l, m)) = Xor(Hi(f), Hi(m))
<1> DEFINE f == Folded(Lo(l))
           h == Hi(l)
<1>1. Carried(l, m) = Xor(Xor(f, h), m)
  BY DEF Carried
<1>2. f \in Block /\ h \in Block /\ Lo(h) = h /\ Hi(h) = {}
  BY LanesIn, FoldedIn, LanePlaces
<1> HIDE DEF f, h
<1>3. Xor(f, h) \in Block /\ Lo(Xor(f, h)) = Xor(Lo(f), h) /\ Hi(Xor(f, h)) = Hi(f)
  <2>1. Xor(Hi(f), {}) = Hi(f)
    BY XorNone
  <2>2. Xor(f, h) \in Block /\ Lo(Xor(f, h)) = Xor(Lo(f), Lo(h)) /\ Hi(Xor(f, h)) = Xor(Hi(f), Hi(h))
    BY <1>2, BlockXor, LoXor, HiXor
  <2> QED BY <1>2, <2>1, <2>2
<1>4. /\ Lo(Carried(l, m)) = Xor(Xor(Lo(f), h), Lo(m))
      /\ Hi(Carried(l, m)) = Xor(Hi(f), Hi(m))
  BY <1>1, <1>3, LoXor, HiXor
<1> QED BY <1>4 DEF f, h

LEMMA ResidueLanes ==
  ASSUME NEW l \in Block, NEW u \in Block, NEW h \in Block
  PROVE  LET f == Folded(Lo(u)) IN
         /\ Residue(l, u, h) \in Block
         /\ Lo(Residue(l, u, h)) = Xor(Xor(Lo(h), Lo(l)), Xor(Lo(f), Hi(u)))
         /\ Hi(Residue(l, u, h)) = Xor(Hi(h), Xor(Hi(f), Lo(u)))
<1> DEFINE f == Folded(Lo(u))
           a == Lo(l)
           b == Shifted(Lo(u), 64)
           c == Hi(u)
           d == Lo(u)
<1>1. Residue(l, u, h) = Xor(Xor(h, a), Xor(Xor(f, b), c))
  BY DEF Residue
<1>2. f \in Block /\ a \in Block /\ b \in Block /\ c \in Block
  BY LanesIn, FoldedIn, LanePlaces
<1>3. Lo(a) = a /\ Hi(a) = {} /\ Lo(b) = {} /\ Hi(b) = d /\ Lo(c) = c /\ Hi(c) = {}
  BY LanesIn, LanePlaces
<1> HIDE DEF f, a, b, c, d
<1>4. Xor(h, a) \in Block /\ Lo(Xor(h, a)) = Xor(Lo(h), a) /\ Hi(Xor(h, a)) = Hi(h)
  <2>1. Xor(Hi(h), {}) = Hi(h)
    BY XorNone
  <2>2. Xor(h, a) \in Block /\ Lo(Xor(h, a)) = Xor(Lo(h), Lo(a)) /\ Hi(Xor(h, a)) = Xor(Hi(h), Hi(a))
    BY <1>2, BlockXor, LoXor, HiXor
  <2> QED BY <1>3, <2>1, <2>2
<1>5. Xor(f, b) \in Block /\ Lo(Xor(f, b)) = Lo(f) /\ Hi(Xor(f, b)) = Xor(Hi(f), d)
  <2>1. Xor(Lo(f), {}) = Lo(f)
    BY XorNone
  <2>2. Xor(f, b) \in Block /\ Lo(Xor(f, b)) = Xor(Lo(f), Lo(b)) /\ Hi(Xor(f, b)) = Xor(Hi(f), Hi(b))
    BY <1>2, BlockXor, LoXor, HiXor
  <2> QED BY <1>3, <2>1, <2>2
<1>6. /\ Xor(Xor(f, b), c) \in Block
      /\ Lo(Xor(Xor(f, b), c)) = Xor(Lo(f), c)
      /\ Hi(Xor(Xor(f, b), c)) = Xor(Hi(f), d)
  <2>1. Xor(Xor(Hi(f), d), {}) = Xor(Hi(f), d)
    BY XorNone
  <2>2. Xor(Xor(f, b), c) \in Block /\ Lo(Xor(Xor(f, b), c)) = Xor(Lo(Xor(f, b)), Lo(c)) /\ Hi(Xor(Xor(f, b), c)) = Xor(Hi(Xor(f, b)), Hi(c))
    BY <1>2, <1>5, BlockXor, LoXor, HiXor
  <2> QED BY <1>3, <1>5, <2>1, <2>2
<1>7. /\ Residue(l, u, h) \in Block
      /\ Lo(Residue(l, u, h)) = Xor(Xor(Lo(h), a), Xor(Lo(f), c))
      /\ Hi(Residue(l, u, h)) = Xor(Hi(h), Xor(Hi(f), d))
  BY <1>1, <1>4, <1>6, BlockXor, LoXor, HiXor
<1> QED BY <1>7 DEF f, a, c, d

LEMMA PolyLanes ==
  LET poly == {127, 126, 121, 63, 62, 57}
  IN Lo(poly) = {63, 62, 57} /\ Hi(poly) = {63, 62, 57}
<1>1. {63, 62, 57} \in Lane
  BY DEF Lane
<1>2. Register({63, 62, 57}, {63, 62, 57}) = {127, 126, 121, 63, 62, 57}
  <2>1. {i + 64 : i \in {63, 62, 57}} = {127, 126, 121}
    OBVIOUS
  <2> QED BY <2>1 DEF Register
<1> QED BY <1>1, <1>2, LanesOf

(* aarch64: the reduction of three partial products.                        *)
LEMMA Karatsuba2 ==
  ASSUME NEW h \in Block, NEW m \in Block, NEW l \in Block
  PROVE  karatsuba2(h, m, l) = Divided(Spread(l, Xor(Xor(m, h), l), h))
<1> DEFINE M == Xor(Xor(m, h), l)
           u == Carried(l, M)
           t == xor4(m, vext8(l, h), h, l)
           x23 == vext8(t, vext8(h, h))
           x01 == vext8(vext8(l, l), t)
           a == Folded(Lo(l))
           b == Xor(x01, vext8(a, a))
           c == Folded(Lo(u))
<1>1. M \in Block /\ u \in Block /\ Divided(Spread(l, M, h)) = Residue(l, u, h)
  BY BlockXor, DividedSpread
<1>2. /\ Lo(M) = Xor(Xor(Lo(m), Lo(h)), Lo(l))
      /\ Hi(M) = Xor(Xor(Hi(m), Hi(h)), Hi(l))
  BY BlockXor, LoXor, HiXor
<1>3. /\ Lo(u) = Xor(Xor(Lo(a), Hi(l)), Lo(M))
      /\ Hi(u) = Xor(Hi(a), Hi(M))
  BY <1>1, CarriedLanes
<1>4. /\ t \in Block
      /\ Lo(t) = Xor(Xor(Lo(m), Hi(l)), Xor(Lo(h), Lo(l)))
      /\ Hi(t) = Xor(Xor(Hi(m), Lo(h)), Xor(Hi(h), Hi(l)))
  <2> DEFINE v == vext8(l, h)
  <2>1. v \in Block /\ Lo(v) = Hi(l) /\ Hi(v) = Lo(h)
    BY Vext8Lanes
  <2>2. t = Xor(Xor(m, v), Xor(h, l))
    BY DEF xor4
  <2> HIDE DEF v, t
  <2>3. Xor(m, v) \in Block /\ Xor(h, l) \in Block
    BY <2>1, BlockXor
  <2> QED BY <2>1, <2>2, <2>3, BlockXor, LoXor, HiXor
<1>5. x23 \in Block /\ Lo(x23) = Hi(t) /\ Hi(x23) = Hi(h)
  <2>1. vext8(h, h) \in Block /\ Lo(vext8(h, h)) = Hi(h)
    BY Vext8Lanes
  <2> HIDE DEF t
  <2> QED BY <1>4, <2>1, Vext8Lanes
<1>6. x01 \in Block /\ Lo(x01) = Lo(l) /\ Hi(x01) = Lo(t)
  <2>1. vext8(l, l) \in Block /\ Hi(vext8(l, l)) = Lo(l)
    BY Vext8Lanes
  <2> HIDE DEF t
  <2> QED BY <1>4, <2>1, Vext8Lanes
<1>7. a \in Block /\ Lo(a) \in Lane /\ Hi(a) \in Lane
  <2>1. a \in Block
    BY LanesIn, FoldedIn
  <2> HIDE DEF a
  <2> QED BY <2>1, LanesIn
<1>8. b \in Block /\ Lo(b) = Xor(Lo(l), Hi(a)) /\ Hi(b) = Xor(Lo(t), Lo(a))
  <2>1. vext8(a, a) \in Block /\ Lo(vext8(a, a)) = Hi(a) /\ Hi(vext8(a, a)) = Lo(a)
    BY <1>7, Vext8Lanes
  <2> HIDE DEF x01, t, a
  <2> QED BY <1>6, <2>1, BlockXor, LoXor, HiXor
<1>9. karatsuba2(h, m, l) = Xor(x23, Xor(Folded(Hi(b)), b))
  <2> DEFINE poly == {127, 126, 121, 63, 62, 57}
  <2>1. Lo(poly) = {63, 62, 57} /\ Hi(poly) = {63, 62, 57}
    BY PolyLanes
  <2>2. karatsuba2(h, m, l) = mont_reduce(x23, x01)
    BY DEF karatsuba2
  <2>3. Lo(x01) = Lo(l)
    BY <1>6
  <2> HIDE DEF x23, x01
  <2>4. mont_reduce(x23, x01) =
          LET aa == pmull(Lo(x01), Lo(poly))
              bb == Xor(x01, vext8(aa, aa))
              cc == pmull(Hi(bb), Hi(poly))
          IN Xor(x23, Xor(cc, bb))
    BY DEF mont_reduce
  <2> HIDE DEF poly
  <2>5. pmull(Lo(x01), Lo(poly)) = a
    BY <2>1, <2>3 DEF Folded
  <2> HIDE DEF a
  <2>6. mont_reduce(x23, x01) = Xor(x23, Xor(pmull(Hi(b), Hi(poly)), b))
    BY <2>4, <2>5
  <2> QED BY <2>1, <2>2, <2>6 DEF Folded
<1> HIDE DEF M, u, t, x23, x01, a, b, c
<1>10. Hi(b) = Lo(u)
  <2>1. \A x : x \in Hi(b) <=> x \in Lo(u)
    BY <1>2, <1>3, <1>4, <1>8, XorMember
  <2> QED BY <2>1
<1>11. Folded(Hi(b)) = c /\ c \in Block
  BY <1>1, <1>10, LanesIn, FoldedIn DEF c
<1>12. karatsuba2(h, m, l) = Xor(x23, Xor(c, b)) /\ Xor(c, b) \in Block
  BY <1>8, <1>9, <1>11, BlockXor
<1>13. /\ karatsuba2(h, m, l) \in Block
       /\ Lo(karatsuba2(h, m, l)) = Xor(Hi(t), Xor(Lo(c), Xor(Lo(l), Hi(a))))
       /\ Hi(karatsuba2(h, m, l)) = Xor(Hi(h), Xor(Hi(c), Lo(u)))
  BY <1>5, <1>8, <1>10, <1>11, <1>12, BlockXor, LoXor, HiXor
<1>14. /\ Residue(l, u, h) \in Block
       /\ Lo(Residue(l, u, h)) = Xor(Xor(Lo(h), Lo(l)), Xor(Lo(c), Hi(u)))
       /\ Hi(Residue(l, u, h)) = Xor(Hi(h), Xor(Hi(c), Lo(u)))
  BY <1>1, ResidueLanes DEF c
<1>15. Xor(Hi(t), Xor(Lo(c), Xor(Lo(l), Hi(a)))) = Xor(Xor(Lo(h), Lo(l)), Xor(Lo(c), Hi(u)))
  <2>1. \A x : x \in Xor(Hi(t), Xor(Lo(c), Xor(Lo(l), Hi(a)))) <=>
               x \in Xor(Xor(Lo(h), Lo(l)), Xor(Lo(c), Hi(u)))
    BY <1>2, <1>3, <1>4, XorMember
  <2> QED BY <2>1
<1>16. karatsuba2(h, m, l) = Residue(l, u, h)
  BY <1>13, <1>14, <1>15, SameLanes
<1> QED BY <1>1, <1>16 DEF M

(* x86: the same by shifts.                                                 *)
LEMMA FoldLanes ==
  ASSUME NEW v \in Block, NEW into \in Block, NEW over \in Block
  PROVE  LET f == Folded(Lo(v)) IN
         /\ Fold(v, into, over)[1] \in Block
         /\ Fold(v, into, over)[2] \in Block
         /\ Lo(Fold(v, into, over)[1]) = Xor(Lo(into), Xor(Lo(v), Hi(f)))
         /\ Lo(Fold(v, into, over)[2]) = Xor(Lo(over), Lo(f))
<1> DEFINE f == Folded(Lo(v))
           r(n) == srli(v, n)
           s(n) == slli(v, n)
           w == Lo(v)
<1>1. w \in Lane /\ f \in Block
  BY LanesIn, FoldedIn
<1>2. /\ Fold(v, into, over)[1] = Xor(into, Xor(Xor(v, r(1)), Xor(r(2), r(7))))
      /\ Fold(v, into, over)[2] = Xor(Xor(over, s(63)), Xor(s(62), s(57)))
  BY DEF Fold, xor4, xor5
<1>3. 63 \in 0 .. 63 /\ 62 \in 0 .. 63 /\ 57 \in 0 .. 63 /\ 1 \in 0 .. 63 /\ 2 \in 0 .. 63 /\ 7 \in 0 .. 63
  OBVIOUS
<1>4. \A n \in 0 .. 63 : r(n) \in Block /\ Lo(r(n)) = Shr(w, n) /\ s(n) \in Block /\ Lo(s(n)) = Shl(w, n)
  BY SrliLanes, SlliLanes
<1>5. /\ Lo(f) = Xor(Xor(Shl(w, 63), Shl(w, 62)), Shl(w, 57))
      /\ Hi(f) = Xor(Xor(Shr(w, 1), Shr(w, 2)), Shr(w, 7))
  BY <1>1, FoldedLanes
<1> HIDE DEF f, r, s
<1>6. /\ Fold(v, into, over)[1] \in Block
      /\ Lo(Fold(v, into, over)[1]) = Xor(Lo(into), Xor(Xor(w, Shr(w, 1)), Xor(Shr(w, 2), Shr(w, 7))))
  <2>1. Xor(v, r(1)) \in Block /\ Lo(Xor(v, r(1))) = Xor(w, Shr(w, 1))
    BY <1>3, <1>4, BlockXor, LoXor
  <2>2. Xor(r(2), r(7)) \in Block /\ Lo(Xor(r(2), r(7))) = Xor(Shr(w, 2), Shr(w, 7))
    BY <1>3, <1>4, BlockXor, LoXor
  <2> HIDE DEF w
  <2>3. /\ Xor(Xor(v, r(1)), Xor(r(2), r(7))) \in Block
        /\ Lo(Xor(Xor(v, r(1)), Xor(r(2), r(7)))) = Xor(Xor(w, Shr(w, 1)), Xor(Shr(w, 2), Shr(w, 7)))
    BY <2>1, <2>2, BlockXor, LoXor
  <2> QED BY <1>2, <2>3, BlockXor, LoXor
<1>7. /\ Fold(v, into, over)[2] \in Block
      /\ Lo(Fold(v, into, over)[2]) = Xor(Xor(Lo(over), Shl(w, 63)), Xor(Shl(w, 62), Shl(w, 57)))
  <2>1. Xor(over, s(63)) \in Block /\ Lo(Xor(over, s(63))) = Xor(Lo(over), Shl(w, 63))
    BY <1>3, <1>4, BlockXor, LoXor
  <2>2. Xor(s(62), s(57)) \in Block /\ Lo(Xor(s(62), s(57))) = Xor(Shl(w, 62), Shl(w, 57))
    BY <1>3, <1>4, BlockXor, LoXor
  <2> HIDE DEF w
  <2> QED BY <1>2, <2>1, <2>2, BlockXor, LoXor
<1> HIDE DEF w
<1>8. Xor(Xor(w, Shr(w, 1)), Xor(Shr(w, 2), Shr(w, 7))) = Xor(w, Hi(f))
  <2>1. \A x : x \in Xor(Xor(w, Shr(w, 1)), Xor(Shr(w, 2), Shr(w, 7))) <=> x \in Xor(w, Hi(f))
    BY <1>5, XorMember
  <2> QED BY <2>1
<1>9. Xor(Xor(Lo(over), Shl(w, 63)), Xor(Shl(w, 62), Shl(w, 57))) = Xor(Lo(over), Lo(f))
  <2>1. \A x : x \in Xor(Xor(Lo(over), Shl(w, 63)), Xor(Shl(w, 62), Shl(w, 57))) <=>
               x \in Xor(Lo(over), Lo(f))
    BY <1>5, XorMember
  <2> QED BY <2>1
<1>10. /\ Lo(Fold(v, into, over)[1]) = Xor(Lo(into), Xor(w, Hi(f)))
       /\ Lo(Fold(v, into, over)[2]) = Xor(Lo(over), Lo(f))
  BY <1>6, <1>7, <1>8, <1>9
<1> QED BY <1>6, <1>7, <1>10 DEF f, w

LEMMA Reduce ==
  ASSUME NEW h \in Block, NEW m \in Block, NEW l \in Block
  PROVE  reduce(l, h, m) = Divided(Spread(l, Xor(Xor(m, h), l), h))
<1> DEFINE M == Xor(Xor(m, h), l)
           u == Carried(l, M)
           t2 == Xor(m, Xor(l, h))
           v1 == Xor(shuffle0E(l), t2)
           v2 == Xor(h, shuffle0E(t2))
           a == Folded(Lo(l))
           c == Folded(Lo(u))
           first == Fold(l, v2, v1)
           second == Fold(first[2], shuffle0E(h), first[1])
<1>1. M \in Block /\ u \in Block /\ Divided(Spread(l, M, h)) = Residue(l, u, h)
  BY BlockXor, DividedSpread
<1>2. /\ Lo(M) = Xor(Xor(Lo(m), Lo(h)), Lo(l))
      /\ Hi(M) = Xor(Xor(Hi(m), Hi(h)), Hi(l))
  BY BlockXor, LoXor, HiXor
<1>3. /\ Lo(u) = Xor(Xor(Lo(a), Hi(l)), Lo(M))
      /\ Hi(u) = Xor(Hi(a), Hi(M))
  BY <1>1, CarriedLanes
<1>4. /\ Residue(l, u, h) \in Block
      /\ Lo(Residue(l, u, h)) = Xor(Xor(Lo(h), Lo(l)), Xor(Lo(c), Hi(u)))
      /\ Hi(Residue(l, u, h)) = Xor(Hi(h), Xor(Hi(c), Lo(u)))
  BY <1>1, ResidueLanes
<1>5. reduce(l, h, m) = Register(Lo(second[1]), Lo(second[2]))
  BY DEF reduce
<1>6. t2 \in Block /\ Lo(t2) = Xor(Lo(m), Xor(Lo(l), Lo(h))) /\ Hi(t2) = Xor(Hi(m), Xor(Hi(l), Hi(h)))
  <2>1. Xor(l, h) \in Block
    BY BlockXor
  <2> QED BY <2>1, BlockXor, LoXor, HiXor
<1>7. v1 \in Block /\ Lo(v1) = Xor(Hi(l), Lo(t2))
  <2> HIDE DEF t2
  <2> QED BY <1>6, ShuffleLanes, BlockXor, LoXor
<1>8. v2 \in Block /\ Lo(v2) = Xor(Lo(h), Hi(t2))
  <2> HIDE DEF t2
  <2> QED BY <1>6, ShuffleLanes, BlockXor, LoXor
<1>9. /\ first[1] \in Block /\ first[2] \in Block
      /\ Lo(first[1]) = Xor(Lo(v2), Xor(Lo(l), Hi(a)))
      /\ Lo(first[2]) = Xor(Lo(v1), Lo(a))
  <2> HIDE DEF v1, v2
  <2> QED BY <1>7, <1>8, FoldLanes
<1> HIDE DEF M, u, t2, v1, v2, a, first
<1>10. Lo(first[2]) = Lo(u)
  <2>1. \A x : x \in Xor(Lo(v1), Lo(a)) <=> x \in Lo(u)
    BY <1>2, <1>3, <1>6, <1>7, XorMember
  <2> QED BY <1>9, <2>1
<1>11. /\ second[1] \in Block /\ second[2] \in Block
       /\ Lo(second[1]) = Xor(Hi(h), Xor(Lo(u), Hi(c)))
       /\ Lo(second[2]) = Xor(Lo(first[1]), Lo(c))
  <2>1. shuffle0E(h) \in Block /\ Lo(shuffle0E(h)) = Hi(h)
    BY ShuffleLanes
  <2> QED BY <1>9, <1>10, <2>1, FoldLanes
<1> HIDE DEF second, c
<1>12. Xor(Hi(h), Xor(Lo(u), Hi(c))) = Xor(Hi(h), Xor(Hi(c), Lo(u)))
  BY XorCommutes
<1>13. Lo(second[2]) = Xor(Xor(Lo(h), Lo(l)), Xor(Lo(c), Hi(u)))
  <2>1. \A x : x \in Xor(Lo(first[1]), Lo(c)) <=> x \in Xor(Xor(Lo(h), Lo(l)), Xor(Lo(c), Hi(u)))
    BY <1>2, <1>3, <1>6, <1>8, <1>9, XorMember
  <2> QED BY <1>11, <2>1
<1>14. /\ reduce(l, h, m) \in Block
       /\ Lo(reduce(l, h, m)) = Lo(second[2])
       /\ Hi(reduce(l, h, m)) = Lo(second[1])
  BY <1>5, <1>11, LanesIn, LanesOf, RegisterIn
<1>15. reduce(l, h, m) = Residue(l, u, h)
  BY <1>4, <1>11, <1>12, <1>13, <1>14, SameLanes
<1> QED BY <1>1, <1>15 DEF M

-----------------------------------------------------------------------------
(* Multiplication. *)

LEMMA LanesTimes ==
  ASSUME NEW a \in Lane, NEW b \in Lane
  PROVE  pmull(a, b) = Times(a, b) /\ Times(a, b) \in Block
<1>1. \A k : k \in Times(a, b) => k \in 0 .. 126
  <2>1. ASSUME NEW k, k \in Times(a, b) PROVE k \in 0 .. 126
    <3>1. k \in Bits256 /\ Odd(Meet(a, b, k))
      BY <2>1, ProductMember
    <3>2. Meet(a, b, k) # {}
      BY <3>1, OddOfNone
    <3>3. PICK i \in a : k - i \in b
      BY <3>2 DEF Meet
    <3>4. k \in Int /\ i \in Int /\ i >= 0 /\ i <= 63 /\ k - i >= 0 /\ k - i <= 63
      BY <3>1, <3>3 DEF Lane, Bits256
    <3> QED BY <3>4
  <2> QED BY <2>1
<1>2. \A k \in 0 .. 126 : k \in Bits256
  BY DEF Bits256
<1>3. pmull(a, b) = Times(a, b)
  <2>1. \A k : k \in pmull(a, b) <=> k \in Times(a, b)
    BY <1>1, <1>2, ProductMember
  <2> QED BY <2>1
<1>4. Times(a, b) \in Block
  BY <1>1 DEF Block
<1> QED BY <1>3, <1>4

LEMMA TimesShiftedLeft ==
  ASSUME NEW a \in Lane, NEW b \in Block
  PROVE  Times(Shifted(a, 64), b) = Shifted(Times(a, b), 64)
<1>1. a \in SUBSET Bits128 /\ b \in SUBSET Bits256 /\ 64 \in Nat
  BY LaneInt, BlockBits
<1>2. \A i \in a : \A j \in b : i + j + 64 <= 255
  BY DEF Lane, Block
<1> QED BY <1>1, <1>2, TimesShifted

LEMMA TimesShiftedRight ==
  ASSUME NEW a \in Lane, NEW b \in Lane
  PROVE  Times(a, Shifted(b, 64)) = Shifted(Times(a, b), 64)
<1>1. a \in Block /\ b \in Block /\ Shifted(b, 64) \in Block
  BY LaneInt, LanePlaces
<1>2. Times(a, Shifted(b, 64)) = Times(Shifted(b, 64), a) /\ Times(b, a) = Times(a, b)
  BY <1>1, BlockBits, TimesCommutes
<1> QED BY <1>1, <1>2, TimesShiftedLeft

(* Three products of lanes make the product of two blocks.                  *)
LEMMA Karatsuba ==
  ASSUME NEW a \in Block, NEW b \in Block
  PROVE  LET l == pmull(Lo(a), Lo(b))
             h == pmull(Hi(a), Hi(b))
             m == pmull(Xor(Lo(a), Hi(a)), Xor(Lo(b), Hi(b)))
         IN /\ l \in Block /\ h \in Block /\ m \in Block
            /\ Times(a, b) = Spread(l, Xor(Xor(m, h), l), h)
<1> DEFINE a0 == Lo(a)
           a1 == Hi(a)
           b0 == Lo(b)
           b1 == Hi(b)
           l == Times(a0, b0)
           h == Times(a1, b1)
           p == Times(a0, b1)
           q == Times(a1, b0)
           m == Times(Xor(a0, a1), Xor(b0, b1))
           au == Shifted(a1, 64)
           bu == Shifted(b1, 64)
<1>1. a0 \in Lane /\ a1 \in Lane /\ b0 \in Lane /\ b1 \in Lane
  BY LanesIn
<1>2. a = Xor(a0, au) /\ b = Xor(b0, bu)
  BY SplitBlock
<1> HIDE DEF a0, a1, b0, b1
<1>3. /\ a0 \in SUBSET Bits256 /\ a1 \in SUBSET Bits256 /\ au \in SUBSET Bits256
      /\ au \in Block /\ bu \in Block
  BY <1>1, LaneInt, LanePlaces, BlockBits
<1>4. Xor(a0, a1) \in Lane /\ Xor(b0, b1) \in Lane
  BY <1>1, LaneXor
<1>5. /\ pmull(a0, b0) = l /\ l \in Block
      /\ pmull(a1, b1) = h /\ h \in Block
      /\ pmull(Xor(a0, a1), Xor(b0, b1)) = m /\ m \in Block
      /\ p \in Block /\ q \in Block
  BY <1>1, <1>4, LanesTimes
<1>6. Times(a0, bu) = Shifted(p, 64) /\ Times(au, b0) = Shifted(q, 64)
        /\ Times(au, bu) = Shifted(h, 128)
  <2>1. Times(a0, bu) = Shifted(p, 64)
    BY <1>1, TimesShiftedRight
  <2>2. Times(au, b0) = Shifted(q, 64)
    BY <1>1, LaneInt, TimesShiftedLeft
  <2>3. Times(au, bu) = Shifted(Times(a1, bu), 64) /\ Times(a1, bu) = Shifted(h, 64)
    BY <1>1, <1>3, TimesShiftedLeft, TimesShiftedRight
  <2>4. h \in SUBSET Int /\ 64 \in Int /\ 64 + 64 = 128
    BY <1>5, BlockBits
  <2>5. Shifted(Shifted(h, 64), 64) = Shifted(h, 64 + 64)
    BY <2>4, ShiftedTwice
  <2> QED BY <2>1, <2>2, <2>3, <2>4, <2>5
<1>7. m = Xor(Xor(l, p), Xor(q, h))
  <2>1. m = Xor(Times(a0, Xor(b0, b1)), Times(a1, Xor(b0, b1)))
    BY <1>3, TimesLeft
  <2>2. Times(a0, Xor(b0, b1)) = Xor(l, p) /\ Times(a1, Xor(b0, b1)) = Xor(q, h)
    BY <1>3, TimesRight
  <2> QED BY <2>1, <2>2
<1>8. Times(a, b) = Xor(Xor(l, Shifted(p, 64)), Xor(Shifted(q, 64), Shifted(h, 128)))
  <2>1. Times(a, b) = Xor(Times(a0, b), Times(au, b))
    BY <1>2, <1>3, TimesLeft
  <2>2. Times(a0, b) = Xor(l, Times(a0, bu)) /\ Times(au, b) = Xor(Times(au, b0), Times(au, bu))
    BY <1>2, <1>3, TimesRight
  <2> QED BY <1>6, <2>1, <2>2
<1> HIDE DEF l, h, p, q, m, au, bu
<1>9. Xor(Xor(m, h), l) = Xor(p, q)
  <2>1. \A x : x \in Xor(Xor(m, h), l) <=> x \in Xor(p, q)
    BY <1>7, XorMember
  <2> QED BY <2>1
<1>10. Shifted(Xor(p, q), 64) = Xor(Shifted(p, 64), Shifted(q, 64))
  <2>1. p \in SUBSET Int /\ q \in SUBSET Int /\ 64 \in Int
    BY <1>5, BlockBits
  <2> QED BY <2>1, ShiftedXor
<1>11. Times(a, b) = Spread(l, Xor(Xor(m, h), l), h)
  <2> DEFINE P == Shifted(p, 64)
             Q == Shifted(q, 64)
             H == Shifted(h, 128)
  <2>1. Spread(l, Xor(p, q), h) = Xor(Xor(l, Xor(P, Q)), H)
    BY <1>10 DEF Spread
  <2>2. Times(a, b) = Xor(Xor(l, P), Xor(Q, H))
    BY <1>8
  <2> HIDE DEF P, Q, H
  <2>3. \A x : x \in Xor(Xor(l, P), Xor(Q, H)) <=> x \in Xor(Xor(l, Xor(P, Q)), H)
    BY XorMember
  <2>4. Xor(Xor(l, P), Xor(Q, H)) = Xor(Xor(l, Xor(P, Q)), H)
    BY <2>3
  <2> QED BY <1>9, <2>1, <2>2, <2>4
<1> QED BY <1>5, <1>11 DEF a0, a1, b0, b1

(* What the partial products of a build stand for.                          *)
Parts == Block \X Block \X Block

Whole(build, w) ==
  IF build = "aarch64" THEN Spread(w[3], Xor(Xor(w[2], w[1]), w[3]), w[1])
  ELSE Spread(w[1], Xor(Xor(w[3], w[2]), w[1]), w[2])

LEMMA ReducedWhole ==
  ASSUME NEW build \in Builds, NEW w \in Parts
  PROVE  /\ Whole(build, w) \in SUBSET Bits256
         /\ Reduced(build, w) = Divided(Whole(build, w))
<1>1. w[1] \in Block /\ w[2] \in Block /\ w[3] \in Block
  BY DEF Parts
<1>2. CASE build = "aarch64"
  <2>1. Whole(build, w) = Spread(w[3], Xor(Xor(w[2], w[1]), w[3]), w[1])
    BY <1>2 DEF Whole
  <2>2. Reduced(build, w) = karatsuba2(w[1], w[2], w[3])
    BY <1>2 DEF Reduced
  <2>3. Xor(Xor(w[2], w[1]), w[3]) \in Block
    BY <1>1, BlockXor
  <2> QED BY <1>1, <2>1, <2>2, <2>3, Karatsuba2, SpreadIn
<1>3. CASE build = "x86"
  <2>1. Whole(build, w) = Spread(w[1], Xor(Xor(w[3], w[2]), w[1]), w[2])
    BY <1>3 DEF Whole
  <2>2. Reduced(build, w) = reduce(w[1], w[2], w[3])
    BY <1>3 DEF Reduced
  <2>3. Xor(Xor(w[3], w[2]), w[1]) \in Block
    BY <1>1, BlockXor
  <2> QED BY <1>1, <2>1, <2>2, <2>3, Reduce, SpreadIn
<1> QED BY <1>2, <1>3 DEF Builds

LEMMA WideWhole ==
  ASSUME NEW build \in Builds, NEW a \in Block, NEW b \in Block
  PROVE  /\ Wide(build, a, b) \in Parts
         /\ Whole(build, Wide(build, a, b)) = Times(a, b)
<1>1. /\ Lo(Xor(a, vext8(a, a))) = Xor(Lo(a), Hi(a))
      /\ Lo(Xor(b, vext8(b, b))) = Xor(Lo(b), Hi(b))
  BY Vext8Lanes, LoXor
<1>2. /\ Lo(Xor(a, shuffle0E(a))) = Xor(Lo(a), Hi(a))
      /\ Lo(Xor(b, shuffle0E(b))) = Xor(Lo(b), Hi(b))
  BY ShuffleLanes, LoXor
<1>3. CASE build = "aarch64"
  <2> DEFINE l == pmull(Lo(b), Lo(a))
             h == pmull(Hi(b), Hi(a))
             m == pmull(Xor(Lo(b), Hi(b)), Xor(Lo(a), Hi(a)))
  <2>1. Wide(build, a, b) = <<h, m, l>>
    BY <1>1, <1>3 DEF Wide, karatsuba1
  <2>2. l \in Block /\ h \in Block /\ m \in Block /\ Times(b, a) = Spread(l, Xor(Xor(m, h), l), h)
    BY Karatsuba
  <2>3. Times(a, b) = Times(b, a)
    BY BlockBits, TimesCommutes
  <2> HIDE DEF l, h, m
  <2>4. Whole(build, <<h, m, l>>) = Spread(l, Xor(Xor(m, h), l), h)
    BY <1>3 DEF Whole
  <2> QED BY <2>1, <2>2, <2>3, <2>4 DEF Parts
<1>4. CASE build = "x86"
  <2> DEFINE l == pmull(Lo(a), Lo(b))
             h == pmull(Hi(a), Hi(b))
             m == pmull(Xor(Lo(a), Hi(a)), Xor(Lo(b), Hi(b)))
  <2>1. Wide(build, a, b) = <<l, h, m>>
    BY <1>2, <1>4 DEF Wide, clmul_wide
  <2>2. l \in Block /\ h \in Block /\ m \in Block /\ Times(a, b) = Spread(l, Xor(Xor(m, h), l), h)
    BY Karatsuba
  <2> HIDE DEF l, h, m
  <2>3. Whole(build, <<l, h, m>>) = Spread(l, Xor(Xor(m, h), l), h)
    BY <1>4 DEF Whole
  <2> QED BY <2>1, <2>2, <2>3 DEF Parts
<1> QED BY <1>3, <1>4 DEF Builds

(* Multiplication on either build (mul: three carry-less products and a     *)
(* reduction of its own) is the product of RFC 8452, for every two blocks.  *)
THEOREM MulIsDot ==
  ASSUME NEW build \in Builds, NEW a \in Block, NEW b \in Block
  PROVE  mul(build, a, b) = Dot(a, b) /\ mul(build, a, b) \in Block
<1>1. mul(build, a, b) = Divided(Times(a, b))
  BY ReducedWhole, WideWhole DEF mul
<1> QED BY <1>1, DotIsDivided, DotIn

-----------------------------------------------------------------------------
(* Key powers and updates. *)

IsPowers(h, g) ==
  /\ h \in [1 .. 8 -> Block]
  /\ h[1] = g
  /\ \A i \in 1 .. 7 : h[i + 1] = Dot(h[i], g)

(* The eight powers, four of them made from others than the last.           *)
LEMMA KeyPowers ==
  ASSUME NEW build \in Builds, NEW g \in Block
  PROVE  IsPowers(key_powers(build, g), g)
<1> DEFINE h2 == Dot(g, g)    h3 == Dot(h2, g)
           h4 == Dot(h2, h2)  h5 == Dot(h4, g)
           h6 == Dot(h4, h2)  h7 == Dot(h4, h3)
           h8 == Dot(h4, h4)
           h == <<g, h2, h3, h4, h5, h6, h7, h8>>
<1>1. /\ mul(build, g, g) = h2 /\ h2 \in Block
      /\ mul(build, h2, g) = h3 /\ h3 \in Block
      /\ mul(build, h2, h2) = h4 /\ h4 \in Block
      /\ mul(build, h4, g) = h5 /\ h5 \in Block
      /\ mul(build, h4, h2) = h6 /\ h6 \in Block
      /\ mul(build, h4, h3) = h7 /\ h7 \in Block
      /\ mul(build, h4, h4) = h8 /\ h8 \in Block
  BY MulIsDot
<1>2. key_powers(build, g) = h
  BY <1>1 DEF key_powers
<1>3. h4 = Dot(h3, g)
  BY <1>1, DotAssociates
<1>4. h6 = Dot(h5, g)
  BY <1>1, DotAssociates
<1>5. h7 = Dot(h6, g)
  BY <1>1, DotAssociates
<1>6. h8 = Dot(h7, g)
  BY <1>1, DotAssociates
<1>7. h2 = Dot(g, g) /\ h3 = Dot(h2, g) /\ h5 = Dot(h4, g)
  OBVIOUS
<1> HIDE DEF h2, h3, h4, h5, h6, h7, h8
<1>8. h \in [1 .. 8 -> Block]
  BY <1>1
<1>9. ASSUME NEW i \in 1 .. 7 PROVE h[i + 1] = Dot(h[i], g)
  <2>1. i = 1 \/ i = 2 \/ i = 3 \/ i = 4 \/ i = 5 \/ i = 6 \/ i = 7
    OBVIOUS
  <2>2. /\ h[1] = g /\ h[2] = h2 /\ h[3] = h3 /\ h[4] = h4
        /\ h[5] = h5 /\ h[6] = h6 /\ h[7] = h7 /\ h[8] = h8
    OBVIOUS
  <2> HIDE DEF h
  <2>3. /\ h[2] = Dot(h[1], g) /\ h[3] = Dot(h[2], g) /\ h[4] = Dot(h[3], g) /\ h[5] = Dot(h[4], g)
        /\ h[6] = Dot(h[5], g) /\ h[7] = Dot(h[6], g) /\ h[8] = Dot(h[7], g)
    BY <1>3, <1>4, <1>5, <1>6, <1>7, <2>2
  <2>4. /\ i = 1 => i + 1 = 2
        /\ i = 2 => i + 1 = 3
        /\ i = 3 => i + 1 = 4
        /\ i = 4 => i + 1 = 5
        /\ i = 5 => i + 1 = 6
        /\ i = 6 => i + 1 = 7
        /\ i = 7 => i + 1 = 8
    OBVIOUS
  <2> QED BY <2>1, <2>3, <2>4
<1>10. h[1] = g
  OBVIOUS
<1> QED BY <1>2, <1>8, <1>9, <1>10 DEF IsPowers

(* A function of one step has its iterates.                                 *)
Steps(S, n) == [S \X (1 .. n) -> S]

Iterates(S, s, n, G) ==
  {f \in [0 .. n -> S] : f[0] = s /\ \A i \in 1 .. n : f[i] = G[<<f[i - 1], i>>]}

LEMMA Recursion ==
  ASSUME NEW S, NEW s \in S, NEW n \in Nat, NEW G \in Steps(S, n)
  PROVE  Iterates(S, s, n, G) # {}
<1> DEFINE Runs(m, f) == f[0] = s /\ \A i \in 1 .. m : f[i] = G[<<f[i - 1], i>>]
           T == {m \in 0 .. n : \E f \in [0 .. m -> S] : Runs(m, f)}
<1>1. 0 \in T
  <2>1. [i \in 0 .. 0 |-> s] \in [0 .. 0 -> S] /\ Runs(0, [i \in 0 .. 0 |-> s])
    OBVIOUS
  <2>2. 0 \in 0 .. n
    OBVIOUS
  <2> HIDE DEF Runs
  <2> QED BY <2>1, <2>2
<1>2. ASSUME NEW m \in 0 .. n, m # n, m \in T PROVE m + 1 \in T
  <2>1. PICK f \in [0 .. m -> S] : Runs(m, f)
    BY <1>2
  <2> DEFINE g == [i \in 0 .. m + 1 |-> IF i = m + 1 THEN G[<<f[m], m + 1>>] ELSE f[i]]
  <2>2. m + 1 \in 1 .. n /\ m \in Int /\ m >= 0
    BY <1>2
  <2>3. G[<<f[m], m + 1>>] \in S
    BY <2>2 DEF Steps
  <2>4. \A i \in 0 .. m + 1 : i = m + 1 \/ i \in 0 .. m
    BY <2>2
  <2>5. g \in [0 .. m + 1 -> S]
    BY <2>3, <2>4
  <2>6. g[0] = f[0] /\ g[m + 1] = G[<<f[m], m + 1>>] /\ \A i \in 0 .. m : g[i] = f[i]
    BY <2>2
  <2> HIDE DEF g
  <2>7. ASSUME NEW i \in 1 .. m + 1 PROVE g[i] = G[<<g[i - 1], i>>]
    <3>1. CASE i = m + 1
      <4>1. i - 1 = m /\ m \in 0 .. m
        BY <2>2, <3>1
      <4> QED BY <2>6, <3>1, <4>1
    <3>2. CASE i # m + 1
      <4>1. i \in 1 .. m /\ i \in 0 .. m /\ i - 1 \in 0 .. m
        BY <2>2, <3>2
      <4> QED BY <2>1, <2>6, <4>1
    <3> QED BY <3>1, <3>2
  <2>8. Runs(m + 1, g)
    BY <2>1, <2>6, <2>7
  <2> HIDE DEF Runs
  <2> QED BY <2>2, <2>5, <2>8
<1> HIDE DEF T
<1>3. n \in T
  BY <1>1, <1>2, Induct
<1> QED BY <1>3 DEF T, Iterates

LEMMA WholeAccumulated ==
  ASSUME NEW build \in Builds, NEW v \in Parts, NEW w \in Parts
  PROVE  /\ Accumulated(v, w) \in Parts
         /\ Whole(build, Accumulated(v, w)) = Xor(Whole(build, v), Whole(build, w))
<1>1. /\ v[1] \in Block /\ v[2] \in Block /\ v[3] \in Block
      /\ w[1] \in Block /\ w[2] \in Block /\ w[3] \in Block
  BY DEF Parts
<1> DEFINE x == Accumulated(v, w)
           Joined(l, m, h) == Spread(l, Xor(Xor(m, h), l), h)
<1>2. x[1] = Xor(v[1], w[1]) /\ x[2] = Xor(v[2], w[2]) /\ x[3] = Xor(v[3], w[3])
  BY DEF Accumulated
<1>3. x \in Parts
  <2>1. Xor(v[1], w[1]) \in Block /\ Xor(v[2], w[2]) \in Block /\ Xor(v[3], w[3]) \in Block
    BY <1>1, BlockXor
  <2> QED BY <2>1 DEF Parts, Accumulated
<1>4. ASSUME NEW a \in Block, NEW b \in Block, NEW c \in Block,
             NEW d \in Block, NEW e \in Block, NEW f \in Block
      PROVE  Spread(Xor(a, d), Xor(Xor(Xor(b, e), Xor(c, f)), Xor(a, d)), Xor(c, f)) =
               Xor(Spread(a, Xor(Xor(b, c), a), c), Spread(d, Xor(Xor(e, f), d), f))
  <2> DEFINE m == Xor(Xor(b, c), a)
             p == Xor(Xor(e, f), d)
  <2>1. Xor(Xor(Xor(b, e), Xor(c, f)), Xor(a, d)) = Xor(m, p)
    <3>1. \A i : i \in Xor(Xor(Xor(b, e), Xor(c, f)), Xor(a, d)) <=> i \in Xor(m, p)
      BY XorMember
    <3> QED BY <3>1
  <2>2. m \in SUBSET Int /\ p \in SUBSET Int
    BY BlockXor, BlockBits
  <2> HIDE DEF m, p
  <2>3. /\ Shifted(Xor(m, p), 64) = Xor(Shifted(m, 64), Shifted(p, 64))
        /\ Shifted(Xor(c, f), 128) = Xor(Shifted(c, 128), Shifted(f, 128))
    <3>1. c \in SUBSET Int /\ f \in SUBSET Int /\ 64 \in Int /\ 128 \in Int
      BY BlockBits
    <3> QED BY <2>2, <3>1, ShiftedXor
  <2> DEFINE M == Shifted(m, 64)
             P == Shifted(p, 64)
             C == Shifted(c, 128)
             F == Shifted(f, 128)
  <2>4. /\ Spread(Xor(a, d), Xor(m, p), Xor(c, f)) = Xor(Xor(Xor(a, d), Xor(M, P)), Xor(C, F))
        /\ Spread(a, m, c) = Xor(Xor(a, M), C)
        /\ Spread(d, p, f) = Xor(Xor(d, P), F)
    BY <2>3 DEF Spread
  <2> HIDE DEF M, P, C, F
  <2>5. Xor(Xor(Xor(a, d), Xor(M, P)), Xor(C, F)) = Xor(Xor(Xor(a, M), C), Xor(Xor(d, P), F))
    BY XorPairs
  <2>6. Spread(Xor(a, d), Xor(m, p), Xor(c, f)) = Xor(Spread(a, m, c), Spread(d, p, f))
    BY <2>4, <2>5
  <2> QED BY <2>1, <2>6 DEF m, p
<1>5. \A a, b, c, d, e, f \in Block :
        Joined(Xor(a, d), Xor(b, e), Xor(c, f)) = Xor(Joined(a, b, c), Joined(d, e, f))
  BY <1>4
<1> HIDE DEF x
<1>7. Whole(build, x) = Xor(Whole(build, v), Whole(build, w))
  <2>1. CASE build = "aarch64"
    <3>1. /\ Whole(build, x) = Joined(x[3], x[2], x[1])
          /\ Whole(build, v) = Joined(v[3], v[2], v[1])
          /\ Whole(build, w) = Joined(w[3], w[2], w[1])
      BY <2>1 DEF Whole
    <3> HIDE DEF Joined
    <3>2. Joined(Xor(v[3], w[3]), Xor(v[2], w[2]), Xor(v[1], w[1])) =
            Xor(Joined(v[3], v[2], v[1]), Joined(w[3], w[2], w[1]))
      <4> DEFINE a == v[3]  b == v[2]  c == v[1]
                 d == w[3]  e == w[2]  f == w[1]
      <4>1. a \in Block /\ b \in Block /\ c \in Block /\ d \in Block /\ e \in Block /\ f \in Block
        BY <1>1
      <4> HIDE DEF a, b, c, d, e, f
      <4>2. Joined(Xor(a, d), Xor(b, e), Xor(c, f)) = Xor(Joined(a, b, c), Joined(d, e, f))
        BY <1>5, <4>1
      <4> QED BY <4>2 DEF a, b, c, d, e, f
    <3> QED BY <1>2, <3>1, <3>2
  <2>2. CASE build = "x86"
    <3>1. /\ Whole(build, x) = Joined(x[1], x[3], x[2])
          /\ Whole(build, v) = Joined(v[1], v[3], v[2])
          /\ Whole(build, w) = Joined(w[1], w[3], w[2])
      BY <2>2 DEF Whole
    <3> HIDE DEF Joined
    <3>2. Joined(Xor(v[1], w[1]), Xor(v[3], w[3]), Xor(v[2], w[2])) =
            Xor(Joined(v[1], v[3], v[2]), Joined(w[1], w[3], w[2]))
      <4> DEFINE a == v[1]  b == v[3]  c == v[2]
                 d == w[1]  e == w[3]  f == w[2]
      <4>1. a \in Block /\ b \in Block /\ c \in Block /\ d \in Block /\ e \in Block /\ f \in Block
        BY <1>1
      <4> HIDE DEF a, b, c, d, e, f
      <4>2. Joined(Xor(a, d), Xor(b, e), Xor(c, f)) = Xor(Joined(a, b, c), Joined(d, e, f))
        BY <1>5, <4>1
      <4> QED BY <4>2 DEF a, b, c, d, e, f
    <3> QED BY <1>2, <3>1, <3>2
  <2> QED BY <2>1, <2>2 DEF Builds
<1> QED BY <1>3, <1>7 DEF x

LEMMA PowersIn ==
  ASSUME NEW h, NEW g \in Block, IsPowers(h, g)
  PROVE  /\ \A j \in 1 .. 8 : h[j] \in Block
         /\ h[1] = g
         /\ \A j \in 1 .. 7 : h[j + 1] = Dot(h[j], g)
BY DEF IsPowers

(* The sum an update reduces exists, one partial product after the other.   *)
LEMMA PartialSums ==
  ASSUME NEW n \in Nat \ {0}, NEW W \in [1 .. n -> Parts]
  PROVE  \E f \in [1 .. n -> Parts] :
           /\ f[1] = W[1]
           /\ \A i \in 1 .. n : i # 1 => f[i] = Accumulated(f[i - 1], W[i])
<1> DEFINE none == <<{}, {}, {}>>
           G == [p \in Parts \X (1 .. n) |-> Accumulated(p[1], W[p[2]])]
<1>1. none \in Parts
  BY DEF Parts, Block
<1>2. \A v, w \in Parts : Accumulated(v, w) \in Parts
  BY WholeAccumulated DEF Builds
<1>3. G \in Steps(Parts, n)
  BY <1>2 DEF Steps
<1>4. \A v \in Parts : \A i \in 1 .. n : G[<<v, i>>] = Accumulated(v, W[i])
  OBVIOUS
<1>5. Accumulated(none, W[1]) = W[1]
  <2>1. W[1] \in Parts
    OBVIOUS
  <2>2. W[1] = <<W[1][1], W[1][2], W[1][3]>>
    BY <2>1 DEF Parts
  <2> QED BY <2>2, XorNone DEF Accumulated
<1> HIDE DEF G, none
<1>6. PICK f \in [0 .. n -> Parts] : f[0] = none /\ \A i \in 1 .. n : f[i] = G[<<f[i - 1], i>>]
  <2>1. n \in Nat
    OBVIOUS
  <2>2. Iterates(Parts, none, n, G) # {}
    BY <1>1, <1>3, <2>1, Recursion
  <2> QED BY <2>2 DEF Iterates
<1> DEFINE g == [i \in 1 .. n |-> f[i]]
<1>7. g \in [1 .. n -> Parts] /\ \A i \in 1 .. n : g[i] = f[i]
  OBVIOUS
<1> HIDE DEF g
<1>8. ASSUME NEW i \in 1 .. n PROVE f[i] = Accumulated(f[i - 1], W[i])
  <2>1. i - 1 \in 0 .. n
    OBVIOUS
  <2>2. f[i - 1] \in Parts
    BY <2>1
  <2> QED BY <1>4, <1>6, <2>2
<1>9. g[1] = W[1]
  <2>1. 1 \in 1 .. n /\ 1 - 1 = 0
    OBVIOUS
  <2> QED BY <1>5, <1>6, <1>7, <1>8, <2>1
<1>10. ASSUME NEW i \in 1 .. n, i # 1 PROVE g[i] = Accumulated(g[i - 1], W[i])
  <2>1. i - 1 \in 1 .. n
    BY <1>10
  <2> QED BY <1>7, <1>8, <2>1
<1> QED BY <1>7, <1>9, <1>10

Messages(n) == {b \in [1 .. n -> Block] : Len(b) = n}

(* The hashes of the first blocks of a message, with the key g.             *)
Hashes(n, acc, blocks, g) ==
  {f \in [0 .. n -> Block] :
     f[0] = acc /\ \A i \in 1 .. n : f[i] = Dot(Xor(f[i - 1], blocks[i]), g)}

(* An update of n blocks is n steps of the hash: at the i-th, the sum of    *)
(* the products so far lacks only the powers of the key still to come.      *)
LEMMA UpdateIsHorner ==
  ASSUME NEW build \in Builds, NEW n \in 1 .. 8, NEW acc \in Block,
         NEW blocks \in Messages(n), NEW g \in Block, IsPowers(h_pows[build], g),
         NEW hash \in Hashes(n, acc, blocks, g)
  PROVE  update_blocks(build, acc, blocks) = hash[n]
<1> DEFINE h == h_pows[build]
           in(i) == IF i = 1 THEN Xor(acc, blocks[1]) ELSE blocks[i]
           W(i) == Wide(build, in(i), h[n - i + 1])
           Equation(f) == [i \in 1 .. n |-> IF i = 1 THEN W(1) ELSE Accumulated(f[i - 1], W(i))]
           sum == CHOOSE f : f = Equation(f)
           w == [i \in 1 .. n |-> W(i)]
<1>0. /\ blocks \in [1 .. n -> Block] /\ Len(blocks) = n
      /\ hash \in [0 .. n -> Block] /\ hash[0] = acc
      /\ \A i \in 1 .. n : hash[i] = Dot(Xor(hash[i - 1], blocks[i]), g)
  BY DEF Messages, Hashes
<1>1. update_blocks(build, acc, blocks) = Reduced(build, sum[n])
  BY <1>0 DEF update_blocks
<1>2. \A j \in 1 .. 8 : h[j] \in Block
  BY PowersIn
<1>3. h[1] = g /\ \A j \in 1 .. 7 : h[j + 1] = Dot(h[j], g)
  BY PowersIn
<1> HIDE DEF h
<1>4. ASSUME NEW i \in 1 .. n
      PROVE  /\ W(i) \in Parts
             /\ Divided(Whole(build, W(i))) = Dot(in(i), h[n - i + 1])
             /\ in(i) \in Block
  <2>1. in(i) \in Block
    <3>1. 1 \in 1 .. n /\ blocks[1] \in Block /\ blocks[i] \in Block
      BY <1>0
    <3> QED BY <3>1, BlockXor
  <2>2. h[n - i + 1] \in Block
    <3>1. n - i + 1 \in 1 .. 8
      OBVIOUS
    <3> QED BY <1>2, <3>1
  <2> HIDE DEF in
  <2>3. W(i) \in Parts /\ Whole(build, W(i)) = Times(in(i), h[n - i + 1])
    BY <2>1, <2>2, WideWhole
  <2> QED BY <2>1, <2>3, DotIsDivided
<1> HIDE DEF W
<1>5. w \in [1 .. n -> Parts] /\ \A i \in 1 .. n : w[i] = W(i)
  BY <1>4
<1> HIDE DEF w
<1>6. \E f : f = Equation(f)
  <2>1. n \in Nat \ {0} /\ 1 \in 1 .. n
    OBVIOUS
  <2>2. PICK f \in [1 .. n -> Parts] :
           f[1] = w[1] /\ \A i \in 1 .. n : i # 1 => f[i] = Accumulated(f[i - 1], w[i])
    BY <1>5, <2>1, PartialSums
  <2>3. \A i \in 1 .. n : f[i] = IF i = 1 THEN W(1) ELSE Accumulated(f[i - 1], W(i))
    BY <1>5, <2>1, <2>2
  <2>4. f = [i \in 1 .. n |-> f[i]]
    OBVIOUS
  <2>5. f = Equation(f)
    BY <2>3, <2>4
  <2> QED BY <2>5
<1>7. sum = Equation(sum)
  BY <1>6
<1> HIDE DEF sum
<1>8. sum[1] = W(1) /\ \A i \in 1 .. n : i # 1 => sum[i] = Accumulated(sum[i - 1], W(i))
  <2>1. 1 \in 1 .. n
    OBVIOUS
  <2> QED BY <1>7, <2>1
<1> HIDE DEF Equation
<1> DEFINE Good(i) == /\ sum[i] \in Parts
                      /\ Divided(Whole(build, sum[i])) = Dot(Xor(hash[i - 1], blocks[i]), h[n - i + 1])
           T == {j \in 0 .. n - 1 : Good(j + 1)}
<1>9. 0 \in T
  <2>1. 1 \in 1 .. n /\ 0 + 1 = 1 /\ 1 - 1 = 0 /\ 0 \in 0 .. n - 1
    OBVIOUS
  <2>2. in(1) = Xor(hash[0], blocks[1])
    BY <1>0
  <2>3. Good(1)
    BY <1>4, <1>8, <2>1, <2>2
  <2> QED BY <2>1, <2>3
<1>10. ASSUME NEW j \in 0 .. n - 1, j # n - 1, j \in T PROVE j + 1 \in T
  <2> DEFINE i == j + 1
             x == Xor(hash[i - 1], blocks[i])
             p == h[n - i]
  <2>1. /\ i \in 1 .. n /\ i + 1 \in 1 .. n /\ i + 1 # 1 /\ (i + 1) - 1 = i /\ i - 1 \in 0 .. n /\ i \in 0 .. n
        /\ n - i \in 1 .. 7 /\ n - i \in 1 .. 8 /\ n - (i + 1) + 1 = n - i /\ j + 1 \in 0 .. n - 1 /\ n - i + 1 = (n - i) + 1
    BY <1>10
  <2>2. sum[i] \in Parts /\ Divided(Whole(build, sum[i])) = Dot(x, h[n - i + 1])
    BY <1>10
  <2>3. x \in Block /\ hash[i] \in Block /\ blocks[i + 1] \in Block /\ hash[i] = Dot(x, g)
    <3>1. hash[i - 1] \in Block /\ blocks[i] \in Block /\ hash[i] \in Block /\ blocks[i + 1] \in Block
      BY <1>0, <2>1
    <3>2. hash[i] = Dot(x, g)
      BY <1>0, <2>1
    <3> QED BY <3>1, <3>2, BlockXor
  <2>4. p \in Block /\ h[n - i + 1] = Dot(g, p)
    <3>1. p \in Block
      BY <1>2, <2>1
    <3>2. h[n - i + 1] = Dot(p, g)
      BY <1>3, <2>1
    <3> QED BY <3>1, <3>2, DotCommutes
  <2>5. /\ W(i + 1) \in Parts
        /\ Divided(Whole(build, W(i + 1))) = Dot(blocks[i + 1], p)
    <3>1. /\ W(i + 1) \in Parts
          /\ Divided(Whole(build, W(i + 1))) = Dot(in(i + 1), h[n - (i + 1) + 1])
      BY <1>4, <2>1
    <3>2. in(i + 1) = blocks[i + 1] /\ h[n - (i + 1) + 1] = p
      BY <2>1
    <3> QED BY <3>1, <3>2
  <2>6. sum[i + 1] = Accumulated(sum[i], W(i + 1))
    BY <1>8, <2>1
  <2>7. Dot(x, h[n - i + 1]) = Dot(hash[i], p)
    BY <2>3, <2>4, DotAssociates
  <2> HIDE DEF x, p
  <2>8. /\ sum[i + 1] \in Parts
        /\ Divided(Whole(build, sum[i + 1])) = Xor(Dot(hash[i], p), Dot(blocks[i + 1], p))
    <3>1. Whole(build, sum[i]) \in SUBSET Bits256 /\ Whole(build, W(i + 1)) \in SUBSET Bits256
      BY <2>2, <2>5, ReducedWhole
    <3>2. /\ Accumulated(sum[i], W(i + 1)) \in Parts
          /\ Whole(build, Accumulated(sum[i], W(i + 1))) = Xor(Whole(build, sum[i]), Whole(build, W(i + 1)))
      BY <2>2, <2>5, WholeAccumulated
    <3> QED BY <2>2, <2>5, <2>6, <2>7, <3>1, <3>2, DividedXor
  <2>9. Xor(Dot(hash[i], p), Dot(blocks[i + 1], p)) = Dot(Xor(hash[i], blocks[i + 1]), p)
    BY <2>3, <2>4, DotLeft
  <2>10. p = h[n - (i + 1) + 1]
    BY <2>1 DEF p
  <2>11. Good(i + 1)
    BY <2>1, <2>8, <2>9, <2>10
  <2> QED BY <2>1, <2>11
<1> HIDE DEF T
<1>11. n - 1 \in T
  <2>1. n - 1 \in Nat /\ n - 1 \in 0 .. n - 1
    OBVIOUS
  <2> QED BY <1>9, <1>10, <2>1, Induct
<1>12. Good(n)
  <2>1. (n - 1) + 1 = n
    OBVIOUS
  <2> HIDE DEF Good
  <2> QED BY <1>11, <2>1 DEF T
<1>13. Reduced(build, sum[n]) = Dot(Xor(hash[n - 1], blocks[n]), h[n - n + 1])
  BY <1>12, ReducedWhole
<1>14. n - n + 1 = 1 /\ n \in 1 .. n
  OBVIOUS
<1> QED BY <1>0, <1>1, <1>3, <1>13, <1>14

-----------------------------------------------------------------------------
(* GHASH is POLYVAL of reversed blocks by x times the reversed key.         *)

Rho(p) == 8 * (15 - p \div 8) + (p % 8)

LEMMA RhoIs ==
  ASSUME NEW p \in 0 .. 127
  PROVE  /\ Rho(p) \in 0 .. 127
         /\ Rho(Rho(p)) = p
         /\ 8 * (p \div 8) + 7 - (p % 8) = Rho(127 - p)
<1> DEFINE q == p \div 8
           r == p % 8
<1>1. q \in 0 .. 15 /\ r \in 0 .. 7 /\ p = 8 * q + r
  OBVIOUS
<1>2. Rho(p) = 8 * (15 - q) + r
  BY DEF Rho
<1> HIDE DEF q, r
<1>3. \A c \in 0 .. 15 : \A d \in 0 .. 7 : (8 * c + d) \div 8 = c /\ (8 * c + d) % 8 = d
  OBVIOUS
<1>4. Rho(p) \div 8 = 15 - q /\ Rho(p) % 8 = r
  BY <1>1, <1>2, <1>3
<1>5. Rho(Rho(p)) = 8 * (15 - (15 - q)) + r
  BY <1>4 DEF Rho
<1>6. 127 - p = 8 * (15 - q) + (7 - r)
  BY <1>1
<1>7. (127 - p) \div 8 = 15 - q /\ (127 - p) % 8 = 7 - r
  BY <1>1, <1>3, <1>6
<1>8. Rho(127 - p) = 8 * (15 - (15 - q)) + (7 - r)
  BY <1>7 DEF Rho
<1>9. 8 * q + 7 - r = Rho(127 - p)
  BY <1>1, <1>8
<1> QED BY <1>1, <1>2, <1>5, <1>9 DEF q, r

LEMMA ReversedMember ==
  ASSUME NEW v \in Block, NEW p \in 0 .. 127
  PROVE  p \in reversed(v) <=> Rho(p) \in v
<1>1. reversed(v) = {Rho(i) : i \in v}
  BY DEF reversed, Rho
<1>2. ASSUME NEW i \in v PROVE i \in 0 .. 127 /\ Rho(Rho(i)) = i
  BY RhoIs DEF Block
<1>3. Rho(Rho(p)) = p
  BY RhoIs
<1> QED BY <1>1, <1>2, <1>3

LEMMA ReversedIn ==
  ASSUME NEW v \in Block
  PROVE  reversed(v) \in Block
<1>1. reversed(v) = {Rho(i) : i \in v}
  BY DEF reversed, Rho
<1>2. \A i \in v : Rho(i) \in 0 .. 127
  BY RhoIs DEF Block
<1> QED BY <1>1, <1>2 DEF Block

LEMMA SameBlock ==
  ASSUME NEW v \in Block, NEW w \in Block, \A p \in 0 .. 127 : p \in v <=> p \in w
  PROVE  v = w
BY DEF Block

LEMMA ReversedTwice ==
  ASSUME NEW v \in Block
  PROVE  reversed(reversed(v)) = v
<1>1. reversed(v) \in Block /\ reversed(reversed(v)) \in Block
  BY ReversedIn
<1>2. ASSUME NEW p \in 0 .. 127 PROVE p \in reversed(reversed(v)) <=> p \in v
  <2>1. Rho(p) \in 0 .. 127 /\ Rho(Rho(p)) = p
    BY RhoIs
  <2>2. p \in reversed(reversed(v)) <=> Rho(p) \in reversed(v)
    BY <1>1, ReversedMember
  <2>3. Rho(p) \in reversed(v) <=> Rho(Rho(p)) \in v
    BY <2>1, ReversedMember
  <2> QED BY <2>1, <2>2, <2>3
<1> QED BY <1>1, <1>2, SameBlock

LEMMA ReversedXor ==
  ASSUME NEW v \in Block, NEW w \in Block
  PROVE  reversed(Xor(v, w)) = Xor(reversed(v), reversed(w))
<1>1. /\ Xor(v, w) \in Block /\ reversed(Xor(v, w)) \in Block
      /\ Xor(reversed(v), reversed(w)) \in Block
  BY ReversedIn, BlockXor
<1>2. ASSUME NEW p \in 0 .. 127
      PROVE  p \in reversed(Xor(v, w)) <=> p \in Xor(reversed(v), reversed(w))
  BY <1>1, ReversedMember, XorMember
<1> QED BY <1>1, <1>2, SameBlock

Mirror(v, n) == {n - i : i \in v}

LEMMA MirrorMember ==
  ASSUME NEW v \in SUBSET Int, NEW n \in Int, NEW k \in Int
  PROVE  k \in Mirror(v, n) <=> n - k \in v
<1>1. \A i \in v : i \in Int /\ (k = n - i <=> i = n - k)
  OBVIOUS
<1> QED BY <1>1 DEF Mirror

LEMMA MirrorIn ==
  ASSUME NEW v \in SUBSET Int, NEW n \in Int
  PROVE  Mirror(v, n) \in SUBSET Int
BY DEF Mirror

LEMMA MirrorBlock ==
  ASSUME NEW v \in Block
  PROVE  Mirror(v, 127) \in Block
BY DEF Mirror, Block

LEMMA LeftmostIs ==
  ASSUME NEW v \in Block
  PROVE  /\ Leftmost(v) = reversed(Mirror(v, 127))
         /\ Leftmost(v) = Mirror(reversed(v), 127)
         /\ Leftmost(v) \in Block
<1>1. Leftmost(v) = {Rho(127 - p) : p \in v}
  BY RhoIs DEF Leftmost, Block
<1>2. reversed(Mirror(v, 127)) = {Rho(127 - p) : p \in v}
  BY DEF reversed, Mirror, Rho
<1>3. reversed(Mirror(v, 127)) \in Block
  BY MirrorBlock, ReversedIn
<1>4. Mirror(reversed(v), 127) \in Block /\ Mirror(v, 127) \in Block /\ reversed(v) \in Block
  BY MirrorBlock, ReversedIn
<1>5. ASSUME NEW p \in 0 .. 127
      PROVE  p \in reversed(Mirror(v, 127)) <=> p \in Mirror(reversed(v), 127)
  <2>1. p \in reversed(Mirror(v, 127)) <=> Rho(p) \in Mirror(v, 127)
    BY <1>4, ReversedMember
  <2>2. Rho(p) \in Int /\ 127 \in Int /\ v \in SUBSET Int /\ reversed(v) \in SUBSET Int /\ p \in Int
          /\ 127 - p \in 0 .. 127
    BY <1>4, RhoIs, BlockBits
  <2>3. Rho(p) \in Mirror(v, 127) <=> 127 - Rho(p) \in v
    BY <2>2, MirrorMember
  <2>4. p \in Mirror(reversed(v), 127) <=> 127 - p \in reversed(v)
    BY <2>2, MirrorMember
  <2>5. 127 - p \in reversed(v) <=> Rho(127 - p) \in v
    BY <2>2, ReversedMember
  <2>6. Rho(127 - p) = 127 - Rho(p)
    <3>1. 8 * (p \div 8) + 7 - (p % 8) = Rho(127 - p)
      BY RhoIs
    <3>2. 127 - (8 * (15 - p \div 8) + (p % 8)) = 8 * (p \div 8) + 7 - (p % 8)
      OBVIOUS
    <3> QED BY <3>1, <3>2 DEF Rho
  <2> QED BY <2>1, <2>3, <2>4, <2>5, <2>6
<1>6. reversed(Mirror(v, 127)) = Mirror(reversed(v), 127)
  BY <1>3, <1>4, <1>5, SameBlock
<1> QED BY <1>1, <1>2, <1>3, <1>6

(* The product of mirrored blocks is the mirrored product.                  *)
LEMMA TimesMirrored ==
  ASSUME NEW a \in Block, NEW b \in Block
  PROVE  Times(Mirror(a, 127), Mirror(b, 127)) = Mirror(Times(a, b), 254)
<1> DEFINE c == Mirror(a, 127)
           d == Mirror(b, 127)
<1>1. a \in SUBSET Int /\ b \in SUBSET Int /\ c \in SUBSET Int /\ d \in SUBSET Int
        /\ c \in Block /\ d \in Block /\ 127 \in Int /\ 254 \in Int
  BY BlockBits, MirrorBlock, MirrorIn
<1>2. Times(c, d) \in SUBSET (0 .. 254) /\ Times(a, b) \in SUBSET (0 .. 254)
  <2> HIDE DEF c, d
  <2> QED BY <1>1, BlockBits, TimesRange
<1>3. Times(c, d) \in SUBSET Int /\ Mirror(Times(a, b), 254) \in SUBSET Int /\ Times(a, b) \in SUBSET Int
  BY <1>2, TimesIn, MirrorIn
<1>4. ASSUME NEW k \in Int PROVE k \in Times(c, d) <=> k \in Mirror(Times(a, b), 254)
  <2> DEFINE S == Meet(a, b, 254 - k)
             U == Meet(c, d, k)
             f == [i \in S |-> 127 - i]
  <2>1. \A i : i \in S <=> i \in a /\ (254 - k) - i \in b
    BY DEF Meet
  <2>2. \A i : i \in U <=> i \in c /\ k - i \in d
    BY DEF Meet
  <2>3. \A i \in Int : (i \in c <=> 127 - i \in a) /\ (i \in d <=> 127 - i \in b)
    BY <1>1, MirrorMember
  <2>4. IsFiniteSet(S)
    BY BlockBits, FiniteMeet
  <2>5. \A i \in Int : 127 - (127 - i) = i /\ 127 - (k - (127 - i)) = (254 - k) - i /\ 127 - i \in Int
            /\ k - (127 - i) \in Int
    OBVIOUS
  <2> HIDE DEF S, U, c, d
  <2>6. \A i \in S : i \in Int /\ 127 - i \in U
    <3>1. ASSUME NEW i \in S PROVE i \in Int /\ 127 - i \in U
      <4>1. i \in a /\ (254 - k) - i \in b
        BY <2>1
      <4>2. i \in Int /\ 127 - i \in Int /\ k - (127 - i) \in Int
        BY <1>1, <4>1
      <4>3. 127 - i \in c
        BY <2>3, <2>5, <4>1, <4>2
      <4>4. k - (127 - i) \in d
        BY <2>3, <2>5, <4>1, <4>2
      <4> QED BY <2>2, <4>2, <4>3, <4>4
    <3> QED BY <3>1
  <2>7. \A j \in U : j \in Int /\ 127 - j \in S
    <3>1. ASSUME NEW j \in U PROVE j \in Int /\ 127 - j \in S
      <4>1. j \in Int /\ j \in c /\ k - j \in d /\ k - j \in Int
        BY <1>1, <2>2
      <4>2. 127 - j \in a /\ 127 - (k - j) \in b
        BY <2>3, <4>1
      <4>3. 127 - (k - j) = (254 - k) - (127 - j)
        BY <4>1
      <4> QED BY <2>1, <4>1, <4>2, <4>3
    <3> QED BY <3>1
  <2>8. f \in [S -> U] /\ \A i \in S : f[i] = 127 - i
    BY <2>6
  <2> HIDE DEF f
  <2>9. ASSUME NEW i \in S, NEW j \in S, f[i] = f[j] PROVE i = j
    <3>1. 127 - i = 127 - j /\ i \in Int /\ j \in Int
      BY <2>6, <2>8, <2>9
    <3> QED BY <3>1
  <2>10. ASSUME NEW j \in U PROVE \E i \in S : f[i] = j
    <3>1. 127 - j \in S /\ j \in Int /\ 127 - (127 - j) = j
      BY <2>5, <2>7
    <3> QED BY <2>8, <3>1
  <2>11. Odd(S) <=> Odd(U)
    BY <2>4, <2>8, <2>9, <2>10, SameParity
  <2>12. k \in Mirror(Times(a, b), 254) <=> 254 - k \in Times(a, b)
    BY <1>1, <1>3, MirrorMember
  <2>13. 254 - k \in Times(a, b) <=> 254 - k \in Bits256 /\ Odd(S)
    BY ProductMember DEF S
  <2>14. k \in Times(c, d) <=> k \in Bits256 /\ Odd(U)
    BY ProductMember DEF U
  <2>15. k \in Times(c, d) => k \in 0 .. 254
    BY <1>2
  <2>16. 254 - k \in Times(a, b) => 254 - k \in 0 .. 254
    BY <1>2
  <2>17. (k \in 0 .. 254 => 254 - k \in Bits256) /\ (254 - k \in 0 .. 254 => k \in Bits256)
    BY DEF Bits256
  <2> QED BY <2>11, <2>12, <2>13, <2>14, <2>15, <2>16, <2>17
<1> HIDE DEF c, d
<1>5. Times(c, d) = Mirror(Times(a, b), 254)
  BY <1>3, <1>4
<1> QED BY <1>5 DEF c, d

(* A round of GHASH's reduction is one of POLYVAL's, mirrored.              *)
Down(v) == LET low == v \cap Bits128
           IN Xor(low, Times({i - 128 : i \in v \ low}, {7, 2, 1, 0}))

LEMMA DownMirrored ==
  ASSUME NEW u \in SUBSET Bits256
  PROVE  Down(Mirror(u, 255)) = Mirror(Up(u), 255)
<1> DEFINE v == Mirror(u, 255)
           l == v \cap Bits128
           h == {i - 128 : i \in v \ l}
<1>1. u \in SUBSET Int /\ Up(u) \in SUBSET Bits256 /\ Up(u) \in SUBSET Int /\ 255 \in Int
  BY UpIn DEF Bits256
<1>2. v \in SUBSET Int /\ \A k \in Int : k \in v <=> 255 - k \in u
  BY <1>1, MirrorIn, MirrorMember
<1>3. \A k \in Int : 255 - k \in u => k \in Bits256
  BY DEF Bits256
<1>4. Down(v) = Xor(l, Times(h, {7, 2, 1, 0}))
  BY DEF Down
<1> HIDE DEF v
<1>5. \A k \in Int : k \in l <=> 255 - k \in u /\ 255 - k >= 128
  <2>1. \A k \in Int : k \in l <=> 255 - k \in u /\ k \in Bits128
    BY <1>2
  <2>2. \A k \in Int : 255 - k \in u => (k \in Bits128 <=> 255 - k >= 128)
    BY DEF Bits128, Bits256
  <2> QED BY <2>1, <2>2
<1>6. h \in SUBSET Bits256 /\ \A k \in Int : k \in h <=> 127 - k \in u /\ 127 - k <= 127
  <2>1. ASSUME NEW k \in Int PROVE k \in h <=> 127 - k \in u /\ 127 - k <= 127
    <3>1. k \in h <=> k + 128 \in v \ l
      BY <1>2
    <3>2. k + 128 \in Int /\ 255 - (k + 128) = 127 - k
      OBVIOUS
    <3>3. k + 128 \in v <=> 127 - k \in u
      BY <1>2, <3>2
    <3>4. k + 128 \in l <=> 127 - k \in u /\ 127 - k >= 128
      BY <1>5, <3>2
    <3> HIDE DEF l, h
    <3> QED BY <3>1, <3>3, <3>4
  <2>2. h \in SUBSET Int
    BY <1>2
  <2>3. \A k \in Int : 127 - k \in u /\ 127 - k <= 127 => k \in Bits256
    BY DEF Bits256
  <2> HIDE DEF h
  <2>4. \A k \in h : k \in Bits256
    BY <2>1, <2>2, <2>3
  <2> QED BY <2>1, <2>4
<1> HIDE DEF l, h
<1>7. Down(v) \in SUBSET Int /\ Mirror(Up(u), 255) \in SUBSET Int
  <2>1. Times(h, {7, 2, 1, 0}) \in SUBSET Int /\ l \in SUBSET Int
    BY TimesIn DEF l, Bits128
  <2>2. Xor(l, Times(h, {7, 2, 1, 0})) \in SUBSET Int
    <3> DEFINE t == Times(h, {7, 2, 1, 0})
    <3>1. t \in SUBSET Int /\ l \in SUBSET Int
      BY <2>1
    <3> HIDE DEF t
    <3>2. Xor(l, t) \in SUBSET Int
      BY <3>1, XorIn
    <3> QED BY <3>2 DEF t
  <2>3. Mirror(Up(u), 255) \in SUBSET Int
    BY <1>1, MirrorIn
  <2> QED BY <1>4, <2>2, <2>3
<1>8. ASSUME NEW k \in Int PROVE k \in Down(v) <=> k \in Mirror(Up(u), 255)
  <2> DEFINE low(i) == i \in u /\ i <= 127
             top == 255 - k \in u /\ 255 - k >= 128
             j == 255 - k
  <2>1. k \in Mirror(Up(u), 255) <=> j \in Up(u)
    BY <1>1, MirrorMember
  <2>2. j \in Up(u) <=>
          /\ j \in Bits256
          /\ ~ (top <=> ~ (~ (low(j - 121) <=> low(j - 126)) <=> ~ (low(j - 127) <=> low(j - 128))))
    <3>1. j \in Int
      OBVIOUS
    <3> HIDE DEF j
    <3>2. j \in Up(u) <=>
          /\ j \in Bits256
          /\ ~ ((j \in u /\ j >= 128) <=>
                ~ (~ (low(j - 121) <=> low(j - 126)) <=> ~ (low(j - 127) <=> low(j - 128))))
      BY <3>1, UpMember
    <3> QED BY <3>2 DEF j
  <2>3. k \in Times(h, {7, 2, 1, 0}) <=>
          k \in Bits256 /\ ~ (~ (k - 7 \in h <=> k - 2 \in h) <=> ~ (k - 1 \in h <=> k - 0 \in h))
    <3>1. \A p, q, r, s \in Int :
            p # q /\ p # r /\ p # s /\ q # r /\ q # s /\ r # s =>
              (Odd(Meet(h, {p, q, r, s}, k)) <=>
                 ~ (~ (k - p \in h <=> k - q \in h) <=> ~ (k - r \in h <=> k - s \in h)))
      BY <1>6, MeetFour
    <3>2. Odd(Meet(h, {7, 2, 1, 0}, k)) <=>
            ~ (~ (k - 7 \in h <=> k - 2 \in h) <=> ~ (k - 1 \in h <=> k - 0 \in h))
      <4>1. 7 \in Int /\ 2 \in Int /\ 1 \in Int /\ 0 \in Int
        OBVIOUS
      <4> HIDE DEF Meet
      <4> QED BY <3>1, <4>1, SMTT(30)
    <3> QED BY <3>2, ProductMember
  <2>4. /\ k - 7 \in h <=> low(j - 121)
        /\ k - 2 \in h <=> low(j - 126)
        /\ k - 1 \in h <=> low(j - 127)
        /\ k - 0 \in h <=> low(j - 128)
    <3>1. /\ 127 - (k - 7) = j - 121 /\ 127 - (k - 2) = j - 126
          /\ 127 - (k - 1) = j - 127 /\ 127 - (k - 0) = j - 128
          /\ k - 7 \in Int /\ k - 2 \in Int /\ k - 1 \in Int /\ k - 0 \in Int
      OBVIOUS
    <3> HIDE DEF j
    <3> QED BY <1>6, <3>1
  <2>5. k \in l <=> top
    BY <1>5
  <2>6. k \in Down(v) <=> ~ (k \in l <=> k \in Times(h, {7, 2, 1, 0}))
    BY <1>4, XorMember
  <2>7. (j \in Bits256 <=> k \in Bits256) /\ (top => k \in Bits256)
    BY <1>3 DEF Bits256
  <2> HIDE DEF low, top, j
  <2> QED BY <2>1, <2>2, <2>3, <2>4, <2>5, <2>6, <2>7
<1>9. Down(v) = Mirror(Up(u), 255)
  BY <1>7, <1>8
<1> QED BY <1>9 DEF v

(* The carry of mulx is the modulus.                                        *)
LEMMA MulxIs ==
  ASSUME NEW b \in Block
  PROVE  /\ mulx(b) \in Block
         /\ mulx(b) = Xor(Shifted(b, 1), IF 127 \in b THEN Modulus ELSE {})
<1> DEFINE s == {i + 1 : i \in b \ {127}}
<1>1. s \in Block /\ {0, 127, 126, 121} \in Block /\ {} \in Block
  BY DEF Block
<1>2. mulx(b) = Xor(s, IF 127 \in b THEN {0, 127, 126, 121} ELSE {})
  BY DEF mulx
<1>3. mulx(b) \in Block
  <2> HIDE DEF s
  <2> QED BY <1>1, <1>2, BlockXor
<1>4. CASE 127 \in b
  <2>1. Shifted(b, 1) = Xor(s, {128})
    <3>1. Shifted(b, 1) = s \cup {128}
      <4>1. b = (b \ {127}) \cup {127} /\ 127 + 1 = 128
        BY <1>4
      <4> QED BY <4>1 DEF Shifted
    <3>2. ~ (128 \in s)
      BY <1>1 DEF Block
    <3> HIDE DEF s
    <3> QED BY <3>1, <3>2 DEF Xor
  <2>2. Modulus = Xor({0, 127, 126, 121}, {128})
    BY DEF Modulus, Taps, Xor
  <2> HIDE DEF s
  <2> DEFINE m == {0, 127, 126, 121}
             t == {128}
  <2>3. Shifted(b, 1) = Xor(s, t) /\ Modulus = Xor(m, t) /\ mulx(b) = Xor(s, m)
    BY <1>2, <1>4, <2>1, <2>2
  <2> HIDE DEF m, t
  <2>4. \A x : x \in Xor(s, m) <=> x \in Xor(Xor(s, t), Xor(m, t))
    BY XorMember
  <2>5. Xor(s, m) = Xor(Xor(s, t), Xor(m, t))
    BY <2>4
  <2> QED BY <1>3, <1>4, <2>3, <2>5
<1>5. CASE 127 \notin b
  <2>1. b \ {127} = b
    BY <1>5
  <2> QED BY <1>2, <1>3, <1>5, <2>1 DEF Shifted
<1> QED BY <1>4, <1>5

(* The product of SP 800-38D is that of RFC 8452 between reversed blocks,   *)
(* by the key reversed and multiplied by x, as GHashKey::init_in_place and  *)
(* byte_reverse have it.                                                    *)
THEOREM GcmProductIs ==
  ASSUME NEW a \in Block, NEW b \in Block
  PROVE  GcmProduct(a, b) = reversed(Dot(reversed(a), mulx(reversed(b))))
<1> DEFINE r == reversed(a)
           s == reversed(b)
           w == Shifted(Times(r, s), 1)
           u == Up(Up(w))
<1>1. r \in Block /\ s \in Block
  BY ReversedIn
<1>2. GcmProduct(a, b) = Leftmost(Down(Down(Times(Leftmost(a), Leftmost(b)))))
  BY DEF GcmProduct, Down, Bits128
<1>3. Leftmost(a) = Mirror(r, 127) /\ Leftmost(b) = Mirror(s, 127)
  BY LeftmostIs
<1> HIDE DEF r, s
<1>4. Times(r, s) \in SUBSET Int /\ w \in SUBSET Int /\ w \in SUBSET Bits256
  <2>1. Times(r, s) \in SUBSET Int /\ Times(r, s) \in SUBSET (0 .. 254)
    BY <1>1, BlockBits, TimesIn, TimesRange
  <2>2. w \in SUBSET Bits256
    BY <2>1 DEF Shifted, Bits256
  <2> QED BY <2>1, <2>2 DEF Bits256
<1>5. Times(Leftmost(a), Leftmost(b)) = Mirror(w, 255)
  <2>1. Times(Leftmost(a), Leftmost(b)) = Mirror(Times(r, s), 254)
    BY <1>1, <1>3, TimesMirrored
  <2>2. Mirror(Times(r, s), 254) = Mirror(w, 255)
    <3> DEFINE t == Times(r, s)
    <3>1. t \in SUBSET Int
      BY <1>4
    <3> HIDE DEF t
    <3>2. \A i \in t : 254 - i = 255 - (i + 1)
      BY <3>1
    <3>3. Mirror(t, 254) = Mirror(Shifted(t, 1), 255)
      BY <3>2 DEF Mirror, Shifted
    <3> QED BY <3>3 DEF t
  <2> QED BY <2>1, <2>2
<1> HIDE DEF w
<1>6. Up(w) \in SUBSET Bits256 /\ u \in SUBSET (128 .. 255) /\ u \in SUBSET Int
  BY <1>4, UpIn, UpTwice
<1>7. Down(Down(Mirror(w, 255))) = Mirror(u, 255)
  BY <1>4, <1>6, DownMirrored
<1>8. Shifted(u, 0 - 128) = Divided(w)
  BY DEF Divided
<1> HIDE DEF u
<1>9. Mirror(u, 255) \in Block
  <2>1. \A i \in u : 255 - i \in 0 .. 127
    BY <1>6
  <2> QED BY <2>1 DEF Mirror, Block
<1>10. GcmProduct(a, b) = reversed(Mirror(Mirror(u, 255), 127))
  BY <1>2, <1>5, <1>7, <1>9, LeftmostIs
<1>11. Mirror(Mirror(u, 255), 127) = Shifted(u, 0 - 128)
  <2>1. \A i \in u : 127 - (255 - i) = i + (0 - 128)
    BY <1>6
  <2> QED BY <2>1 DEF Mirror, Shifted
<1>12. Divided(w) = Dot(r, mulx(s))
  <2>1. Shifted(s, 1) \in SUBSET Bits256 /\ Times(r, Shifted(s, 1)) = w
    BY <1>1, TimesOneMore DEF w
  <2>2. Dot(r, mulx(s)) = Divided(Times(r, Xor(Shifted(s, 1), IF 127 \in s THEN Modulus ELSE {})))
    BY <1>1, MulxIs, DotIsDivided
  <2> QED BY <1>1, <2>1, <2>2, DividedBut
<1>13. GcmProduct(a, b) = reversed(Dot(r, mulx(s)))
  BY <1>8, <1>10, <1>11, <1>12
<1> QED BY <1>13 DEF r, s

-----------------------------------------------------------------------------
(* The standard's hash, step by step. *)

Product(a) == IF scheme = "ghash" THEN GcmProduct(a, key) ELSE Dot(a, key)

LEMMA LoadedIs ==
  ASSUME NEW a \in Block
  PROVE  /\ Loaded(a) \in Block
         /\ Loaded(Loaded(a)) = a
BY ReversedIn, ReversedTwice DEF Loaded

LEMMA LoadedXor ==
  ASSUME NEW a \in Block, NEW b \in Block
  PROVE  Loaded(Xor(a, b)) = Xor(Loaded(a), Loaded(b))
BY ReversedXor DEF Loaded

(* In registers, either scheme multiplies by the first power.               *)
LEMMA ProductIs ==
  ASSUME scheme \in {"ghash", "polyval"}, key \in Block, NEW a \in Block
  PROVE  /\ FirstPower(scheme, key) \in Block
         /\ Product(a) \in Block
         /\ Loaded(Product(a)) = Dot(Loaded(a), FirstPower(scheme, key))
<1>1. CASE scheme = "ghash"
  <2>1. reversed(key) \in Block /\ reversed(a) \in Block
    BY ReversedIn
  <2>2. FirstPower(scheme, key) = mulx(reversed(key)) /\ mulx(reversed(key)) \in Block
    BY <1>1, <2>1, MulxIs DEF FirstPower
  <2>3. Dot(reversed(a), mulx(reversed(key))) \in Block
    BY <2>1, <2>2, DotIn
  <2>4. Product(a) = reversed(Dot(reversed(a), mulx(reversed(key))))
    BY <1>1, GcmProductIs DEF Product
  <2> QED BY <1>1, <2>2, <2>3, <2>4, ReversedIn, ReversedTwice DEF Loaded
<1>2. CASE scheme = "polyval"
  BY <1>2, DotIn DEF FirstPower, Product, Loaded
<1> QED BY <1>1, <1>2

LEMMA StandardSteps ==
  ASSUME scheme \in {"ghash", "polyval"}, key \in Block,
         NEW n \in Nat, NEW from \in Block, NEW blocks \in Messages(n)
  PROVE  \E f \in [0 .. n -> Block] :
           /\ f[0] = from
           /\ \A i \in 1 .. n : f[i] = Product(Xor(f[i - 1], blocks[i]))
           /\ StandardHash(from, blocks) = f[n]
<1> DEFINE Equation(f) == [i \in 0 .. n |-> IF i = 0 THEN from ELSE Product(Xor(f[i - 1], blocks[i]))]
           acc == CHOOSE f : f = Equation(f)
           G == [p \in Block \X (1 .. n) |-> Product(Xor(p[1], blocks[p[2]]))]
<1>0. blocks \in [1 .. n -> Block] /\ Len(blocks) = n
  BY DEF Messages
<1>1. StandardHash(from, blocks) = acc[n]
  BY <1>0 DEF StandardHash, Product
<1>2. \A a \in Block : Product(a) \in Block
  BY ProductIs
<1>3. \A a \in Block : \A i \in 1 .. n : Product(Xor(a, blocks[i])) \in Block
  BY <1>0, <1>2, BlockXor
<1>4. G \in Steps(Block, n)
  BY <1>3 DEF Steps
<1>5. \A a \in Block : \A i \in 1 .. n : G[<<a, i>>] = Product(Xor(a, blocks[i]))
  OBVIOUS
<1> HIDE DEF G
<1>6. PICK f \in Iterates(Block, from, n, G) : TRUE
  BY <1>4, Recursion
<1>7. /\ f \in [0 .. n -> Block]
      /\ f[0] = from
      /\ \A i \in 1 .. n : f[i] = G[<<f[i - 1], i>>]
  BY DEF Iterates
<1>8. ASSUME NEW i \in 1 .. n PROVE f[i] = Product(Xor(f[i - 1], blocks[i]))
  <2>1. i - 1 \in 0 .. n
    OBVIOUS
  <2>2. f[i - 1] \in Block
    BY <1>7, <2>1
  <2> QED BY <1>5, <1>7, <2>2
<1>9. f = Equation(f)
  <2>1. \A i \in 0 .. n : i = 0 \/ i \in 1 .. n
    OBVIOUS
  <2>2. \A i \in 0 .. n : f[i] = IF i = 0 THEN from ELSE Product(Xor(f[i - 1], blocks[i]))
    BY <1>7, <1>8, <2>1
  <2>3. f = [i \in 0 .. n |-> f[i]]
    BY <1>7
  <2> QED BY <2>2, <2>3
<1>10. acc = Equation(acc)
  BY <1>9
<1> HIDE DEF acc
<1>11. acc[0] = from /\ \A i \in 1 .. n : acc[i] = Product(Xor(acc[i - 1], blocks[i]))
  <2>1. \A i \in 1 .. n : i \in 0 .. n /\ i # 0
    OBVIOUS
  <2>2. 0 \in 0 .. n
    OBVIOUS
  <2> QED BY <1>10, <2>1, <2>2
<1> DEFINE T == {i \in 0 .. n : acc[i] = f[i]}
<1>12. 0 \in T
  <2>1. 0 \in 0 .. n
    OBVIOUS
  <2> QED BY <1>7, <1>11, <2>1
<1>13. ASSUME NEW i \in 0 .. n, i # n, i \in T PROVE i + 1 \in T
  <2>1. i + 1 \in 1 .. n /\ (i + 1) - 1 = i /\ i + 1 \in 0 .. n
    BY <1>13
  <2>2. acc[i] = f[i]
    BY <1>13
  <2>3. acc[i + 1] = Product(Xor(acc[i], blocks[i + 1])) /\ f[i + 1] = Product(Xor(f[i], blocks[i + 1]))
    BY <1>8, <1>11, <2>1
  <2> QED BY <2>1, <2>2, <2>3
<1> HIDE DEF T
<1>14. n \in T
  <2>1. n \in 0 .. n
    OBVIOUS
  <2> QED BY <1>12, <1>13, <2>1, Induct
<1>15. StandardHash(from, blocks) = f[n]
  BY <1>1, <1>14 DEF T
<1> QED BY <1>7, <1>8, <1>15

(* An update of up to eight blocks in registers, with key powers and one    *)
(* reduction, is the standard's hash of the blocks it takes, on either      *)
(* build (update_block, update_blocks4, update_blocks8).                    *)
THEOREM UpdateIsStandard ==
  ASSUME scheme \in {"ghash", "polyval"}, key \in Block,
         NEW build \in Builds, IsPowers(h_pows[build], FirstPower(scheme, key)),
         NEW n \in 1 .. 8, NEW from \in Block, NEW blocks \in Messages(n)
  PROVE  LET lanes == [i \in 1 .. n |-> Loaded(blocks[i])]
         IN /\ StandardHash(from, blocks) \in Block
            /\ update_blocks(build, Loaded(from), lanes) = Loaded(StandardHash(from, blocks))
<1> DEFINE g == FirstPower(scheme, key)
           lanes == [i \in 1 .. n |-> Loaded(blocks[i])]
<1>0. blocks \in [1 .. n -> Block]
  BY DEF Messages
<1>1. g \in Block
  BY DotNone, ProductIs DEF Block
<1>2. PICK f \in [0 .. n -> Block] :
         /\ f[0] = from
         /\ \A i \in 1 .. n : f[i] = Product(Xor(f[i - 1], blocks[i]))
         /\ StandardHash(from, blocks) = f[n]
  <2>1. n \in Nat
    OBVIOUS
  <2> QED BY <2>1, StandardSteps
<1> DEFINE hash == [i \in 0 .. n |-> Loaded(f[i])]
<1>3. lanes \in Messages(n) /\ \A i \in 1 .. n : lanes[i] = Loaded(blocks[i])
  <2>1. Len(lanes) = n
    OBVIOUS
  <2>2. \A i \in 1 .. n : Loaded(blocks[i]) \in Block
    BY <1>0, LoadedIs
  <2> QED BY <2>1, <2>2 DEF Messages
<1>4. hash \in [0 .. n -> Block] /\ \A i \in 0 .. n : hash[i] = Loaded(f[i])
  BY LoadedIs
<1>5. 0 \in 0 .. n /\ n \in 0 .. n
  OBVIOUS
<1> HIDE DEF lanes, hash, g
<1>6. ASSUME NEW i \in 1 .. n PROVE hash[i] = Dot(Xor(hash[i - 1], lanes[i]), g)
  <2>1. i - 1 \in 0 .. n /\ i \in 0 .. n
    OBVIOUS
  <2>2. f[i - 1] \in Block /\ blocks[i] \in Block /\ Xor(f[i - 1], blocks[i]) \in Block
    BY <1>0, <2>1, BlockXor
  <2>3. Loaded(Product(Xor(f[i - 1], blocks[i]))) = Dot(Loaded(Xor(f[i - 1], blocks[i])), g)
    BY <2>2, ProductIs DEF g
  <2>4. Loaded(Xor(f[i - 1], blocks[i])) = Xor(hash[i - 1], lanes[i])
    BY <1>3, <1>4, <2>1, <2>2, LoadedXor
  <2> QED BY <1>2, <1>4, <2>1, <2>3, <2>4
<1>7. Loaded(from) \in Block /\ hash[0] = Loaded(from)
  BY <1>2, <1>4, <1>5, LoadedIs
<1>8. IsPowers(h_pows[build], g)
  BY DEF g
<1>9. hash \in Hashes(n, Loaded(from), lanes, g)
  BY <1>4, <1>6, <1>7 DEF Hashes
<1>10. update_blocks(build, Loaded(from), lanes) = hash[n]
  BY <1>1, <1>3, <1>7, <1>8, <1>9, UpdateIsHorner
<1>11. hash[n] = Loaded(f[n]) /\ f[n] \in Block
  BY <1>4, <1>5
<1> QED BY <1>2, <1>10, <1>11 DEF lanes

-----------------------------------------------------------------------------
(* The state. *)

IInv ==
  /\ TypeOK
  /\ HashIsStandard
  /\ h_pows["x86"] # <<>> =>
       \A b \in Builds : IsPowers(h_pows[b], FirstPower(scheme, key))

LEMMA TakenIn ==
  ASSUME NEW q \in Seq(Block), NEW width \in 1 .. 8, width <= Len(q)
  PROVE  /\ SubSeq(q, 1, width) \in Messages(width)
         /\ SubSeq(q, width + 1, Len(q)) \in Seq(Block)
<1>1. Len(q) \in Nat /\ \A i \in 1 .. Len(q) : q[i] \in Block
  OBVIOUS
<1>2. SubSeq(q, width + 1, Len(q)) \in Seq(Block)
  BY SubSeqProperties
<1>3. SubSeq(q, 1, width) = [i \in 1 .. width |-> q[i]] /\ Len(SubSeq(q, 1, width)) = width
  BY SubSeqProperties
<1>4. \A i \in 1 .. width : q[i] \in Block
  BY <1>1
<1> QED BY <1>2, <1>3, <1>4 DEF Messages

LEMMA InitialInv == Init => IInv
<1> SUFFICES ASSUME Init PROVE IInv
  OBVIOUS
<1>1. scheme \in {"ghash", "polyval"} /\ key \in Block /\ rest \in Seq(Block)
  BY CasesAssumption DEF Init
<1>2. {} \in Block /\ reversed({}) = {}
  BY DEF Block, reversed
<1>3. TypeOK
  BY <1>1, <1>2 DEF Init, TypeOK
<1>4. HashIsStandard
  BY <1>2 DEF Init, HashIsStandard, Loaded
<1>5. "x86" \in Builds
  BY DEF Builds
<1> QED BY <1>3, <1>4, <1>5 DEF IInv, Init

LEMMA NewKeeps == ASSUME IInv, New PROVE IInv'
<1> DEFINE g == FirstPower(scheme, key)
<1>1. TypeOK /\ HashIsStandard
  BY DEF IInv
<1>2. g \in Block
  <2>1. {} \in Block
    BY DEF Block
  <2> QED BY <1>1, <2>1, ProductIs DEF TypeOK
<1>3. h_pows' = [b \in Builds |-> key_powers(b, g)]
        /\ UNCHANGED <<scheme, key, rest, y, expected>>
  BY DEF New
<1>4. \A b \in Builds : IsPowers(key_powers(b, g), g)
  BY <1>2, KeyPowers
<1>5. h_pows' \in [Builds -> [1 .. 8 -> Block]]
  BY <1>3, <1>4 DEF IsPowers
<1>6. TypeOK'
  BY <1>1, <1>3, <1>5 DEF TypeOK
<1>7. HashIsStandard'
  BY <1>1, <1>3 DEF HashIsStandard, Loaded
<1>8. g' = g
  BY <1>3
<1> HIDE DEF g
<1>9. \A b \in Builds : IsPowers(h_pows'[b], g')
  BY <1>3, <1>4, <1>8
<1> QED BY <1>6, <1>7, <1>9 DEF IInv, g

LEMMA UpdateKeeps ==
  ASSUME IInv, NEW width \in {1, 4, 8}, Update(width)
  PROVE  IInv'
<1> DEFINE taken == SubSeq(rest, 1, width)
           lanes == [i \in 1 .. width |-> Loaded(taken[i])]
           g == FirstPower(scheme, key)
<1>1. TypeOK /\ HashIsStandard
  BY DEF IInv
<1>2. \A b \in Builds : IsPowers(h_pows[b], g)
  BY DEF IInv, Update
<1>3. width \in 1 .. 8
  OBVIOUS
<1>4. taken \in Messages(width) /\ rest' \in Seq(Block)
  BY <1>1, <1>3, TakenIn DEF TypeOK, Update
<1>5. /\ y' = [b \in Builds |-> update_blocks(b, y[b], lanes)]
      /\ expected' = StandardHash(expected, taken)
      /\ scheme' = scheme /\ key' = key /\ h_pows' = h_pows
  BY DEF Update
<1>6. ASSUME NEW b \in Builds PROVE y[b] = Loaded(expected)
  <2>1. y[b] \in Block /\ Loaded(y[b]) = expected
    BY <1>1 DEF TypeOK, HashIsStandard
  <2> QED BY <2>1, LoadedIs
<1>7. scheme \in {"ghash", "polyval"} /\ key \in Block /\ expected \in Block
  BY <1>1 DEF TypeOK
<1> DEFINE s == StandardHash(expected, taken)
<1>8. ASSUME NEW b \in Builds
      PROVE  s \in Block /\ update_blocks(b, Loaded(expected), lanes) = Loaded(s)
  <2>1. IsPowers(h_pows[b], g)
    BY <1>2
  <2> HIDE DEF taken
  <2> QED BY <1>3, <1>4, <1>7, <2>1, UpdateIsStandard
<1>9. s \in Block
  BY <1>8 DEF Builds
<1> HIDE DEF s, lanes, taken
<1>10. \A b \in Builds : y'[b] = Loaded(s)
  BY <1>5, <1>6, <1>8
<1>11. Loaded(s) \in Block /\ Loaded(Loaded(s)) = s
  BY <1>9, LoadedIs
<1>12. y' \in [Builds -> Block]
  BY <1>5, <1>10, <1>11
<1>13. expected' = s
  BY <1>5 DEF s
<1>14. TypeOK'
  BY <1>1, <1>4, <1>5, <1>9, <1>12, <1>13 DEF TypeOK
<1>15. HashIsStandard'
  <2>1. \A b \in Builds : Loaded(y[b])' = expected'
    BY <1>5, <1>10, <1>11, <1>13 DEF Loaded
  <2> QED BY <2>1 DEF HashIsStandard
<1>16. \A b \in Builds : IsPowers(h_pows'[b], g')
  BY <1>2, <1>5
<1> QED BY <1>14, <1>15, <1>16 DEF IInv

LEMMA StutterKeeps == ASSUME IInv, UNCHANGED vars PROVE IInv'
BY DEF IInv, TypeOK, HashIsStandard, Loaded, vars

(* The accumulators are the standard's, and each build has made the powers  *)
(* of its first power, at every step of a message.                          *)
THEOREM InvHolds == Spec => []IInv
<1>1. IInv /\ [Next]_vars => IInv'
  BY NewKeeps, UpdateKeeps, StutterKeeps DEF Next
<1> QED BY <1>1, InitialInv, PTL DEF Spec

(* Every register and accumulator stays a block of 128 bits on both builds: *)
(* no carry of a product, a reduction or mulx leaves it.                    *)
THEOREM TypesHold == Spec => []TypeOK
<1>1. IInv => TypeOK
  BY DEF IInv
<1> QED BY <1>1, InvHolds, PTL

(* However a message is cut into updates of eight, four and one blocks,     *)
(* both builds hold GHASH as SP 800-38D defines it, or POLYVAL as RFC 8452  *)
(* does, after each of them (Ghasher, Polyval).                             *)
THEOREM HashIsStandardHolds == Spec => []HashIsStandard
<1>1. IInv => HashIsStandard
  BY DEF IInv
<1> QED BY <1>1, InvHolds, PTL
=============================================================================
