------------------------- MODULE KeyGeneratorProofs -------------------------
(***************************************************************************)
(* The key generator never hands out a keystream byte twice nor a byte     *)
(* that went into a seed, and what it hands out under a key is a prefix of *)
(* its stream, of exactly the quota once the key is replaced: the proof,   *)
(* for every number of processes, forks, blends, lengths and intervals,    *)
(* that Inductive is an inductive invariant of KeyGenerator where no       *)
(* process id comes back to a process that detects forks by its id and no  *)
(* call forks after the check of its guard. No process disturbs the        *)
(* generator of another even then.                                         *)
(* At the end, the draws from the CPU that its reseeds rest on: CpuEntropy *)
(* implements SeedDraw, for any number of words, tries and values.         *)
(***************************************************************************)
EXTENDS Integers, KeyGenerator, CpuEntropy, FiniteSetTheorems, FunctionTheorems, TLAPS

-----------------------------------------------------------------------------
(* Multiples, quotients and remainders. *)

LEMMA DivMod ==
  ASSUME NEW a \in Nat, NEW m \in Nat \ {0}
  PROVE  /\ a \div m \in Nat /\ a % m \in 0 .. m - 1
         /\ a = (a \div m) * m + (a % m)
OBVIOUS

LEMMA Monotone ==
  ASSUME NEW a \in Nat, NEW b \in Nat, NEW m \in Nat, a <= b
  PROVE  a * m <= b * m /\ a * m \in Nat /\ b * m \in Nat
<1>1. b * m = a * m + (b - a) * m /\ (b - a) * m \in Nat
  BY SMT
<1>2. a * m \in Nat /\ b * m \in Nat
  BY SMT
<1> QED BY <1>1, <1>2

LEMMA Distribute ==
  ASSUME NEW a \in Nat, NEW b \in Nat, NEW m \in Nat
  PROVE  (a + b) * m = a * m + b * m /\ a * m \in Nat /\ b * m \in Nat
OBVIOUS

LEMMA ModUnique ==
  ASSUME NEW q \in Nat, NEW m \in Nat \ {0}, NEW r \in 0 .. m - 1
  PROVE  (q * m + r) % m = r
<1> DEFINE a == q * m + r
           k == a \div m
           s == a % m
<1>1. a \in Nat /\ k \in Nat /\ s \in 0 .. m - 1 /\ a = k * m + s
  <2>1. a \in Nat
    OBVIOUS
  <2> QED BY <2>1, DivMod
<1>2. a = q * m + r /\ s = a % m
  OBVIOUS
<1> HIDE DEF a, k, s
<1>3. CASE k < q
  <2>1. (k + 1) * m <= q * m
    BY <1>1, <1>3, Monotone
  <2>2. (k + 1) * m = k * m + m /\ k * m \in Nat /\ q * m \in Nat
    BY <1>1, Distribute
  <2> QED BY <1>1, <1>2, <2>1, <2>2
<1>4. CASE q < k
  <2>1. (q + 1) * m <= k * m
    BY <1>1, <1>4, Monotone
  <2>2. (q + 1) * m = q * m + m /\ k * m \in Nat /\ q * m \in Nat
    BY <1>1, Distribute
  <2> QED BY <1>1, <1>2, <2>1, <2>2
<1>5. CASE k = q
  BY <1>1, <1>2, <1>5
<1> QED BY <1>1, <1>2, <1>3, <1>4, <1>5

(* A remainder may be taken first.                                          *)
LEMMA ModAdd ==
  ASSUME NEW a \in Nat, NEW b \in Nat, NEW m \in Nat \ {0}
  PROVE  ((a % m) + b) % m = (a + b) % m
<1> DEFINE k == a \div m
           r == a % m
           j == (r + b) \div m
           s == (r + b) % m
<1>1. k \in Nat /\ r \in 0 .. m - 1 /\ a = k * m + r
  BY DivMod
<1>2. j \in Nat /\ s \in 0 .. m - 1 /\ r + b = j * m + s
  <2>1. r + b \in Nat
    BY <1>1
  <2> QED BY <2>1, DivMod
<1> HIDE DEF k, j
<1>3. a + b = (k + j) * m + s
  <2>1. (k + j) * m = k * m + j * m /\ k * m \in Nat /\ j * m \in Nat
    BY <1>1, <1>2, Distribute
  <2> HIDE DEF r, s
  <2> QED BY <1>1, <1>2, <2>1
<1>4. (a + b) % m = s
  <2> HIDE DEF r, s
  <2>1. k + j \in Nat
    BY <1>1, <1>2
  <2>2. ((k + j) * m + s) % m = s
    BY <1>2, <2>1, ModUnique
  <2> QED BY <1>3, <2>2
<1> QED BY <1>4

-----------------------------------------------------------------------------
(* Blocks, counters and positions. *)

LEMMA Constants ==
  /\ BlockSize \in Nat \ {0} /\ CtrMod \in Nat \ {0} /\ FirstCtr \in Ctr
  /\ \A i \in Intervals : /\ i \in Nat /\ AtLeastOne(i) \in Nat \ {0}
                          /\ AtLeastOne(i) + 4 * BlockSize <= CtrMod * BlockSize
BY KeyGeneratorAssumption DEF Ctr, AtLeastOne

(* The blocks of a key are numbered from the counter a seed starts at.      *)
LEMMA PositionOf ==
  ASSUME NEW k \in Key, NEW c \in Ctr, NEW o \in Offset
  PROVE  /\ Byte(k, FirstCtr + c, o) \in Keystream
         /\ Byte(k, FirstCtr + c, o)[1] = k
         /\ Position(Byte(k, FirstCtr + c, o)) = c * BlockSize + o
<1> DEFINE b == (FirstCtr + c) % CtrMod
<1>1. FirstCtr \in 0 .. CtrMod - 1 /\ c \in 0 .. CtrMod - 1 /\ CtrMod \in Nat \ {0}
  BY Constants DEF Ctr
<1>2. b \in 0 .. CtrMod - 1
  BY <1>1, DivMod
<1>3. (b + CtrMod - FirstCtr) % CtrMod = c
  <2>1. CASE FirstCtr + c < CtrMod
    <3>1. b = FirstCtr + c
      BY <1>1, <2>1, ModUnique, 0 * CtrMod + (FirstCtr + c) = FirstCtr + c
    <3>2. b + CtrMod - FirstCtr = 1 * CtrMod + c
      BY <1>1, <3>1
    <3> QED BY <1>1, <3>2, ModUnique
  <2>2. CASE FirstCtr + c >= CtrMod
    <3>1. b = FirstCtr + c - CtrMod
      <4>1. FirstCtr + c = 1 * CtrMod + (FirstCtr + c - CtrMod)
            /\ FirstCtr + c - CtrMod \in 0 .. CtrMod - 1
        BY <1>1, <2>2
      <4> QED BY <1>1, <4>1, ModUnique
    <3>2. b + CtrMod - FirstCtr = 0 * CtrMod + c
      BY <1>1, <3>1
    <3> QED BY <1>1, <3>2, ModUnique
  <2> QED BY <1>1, <2>1, <2>2
<1> HIDE DEF b
<1>4. Byte(k, FirstCtr + c, o) = <<k, b, o>>
  BY DEF Byte, b
<1>5. <<k, b, o>>[1] = k /\ <<k, b, o>>[2] = b /\ <<k, b, o>>[3] = o
  OBVIOUS
<1>6. <<k, b, o>> \in Keystream
  BY <1>2 DEF Keystream, Ctr
<1> QED BY <1>3, <1>4, <1>5, <1>6 DEF Position

LEMMA KeystreamPosition ==
  ASSUME NEW b \in Keystream
  PROVE  Position(b) \in Int
<1>1. b[2] \in 0 .. CtrMod - 1 /\ b[3] \in 0 .. BlockSize - 1
  BY DEF Keystream, Ctr, Offset
<1>2. FirstCtr \in 0 .. CtrMod - 1 /\ CtrMod \in Nat \ {0} /\ BlockSize \in Nat
  BY Constants DEF Ctr
<1> DEFINE a == b[2] + CtrMod - FirstCtr
<1>3. a \in Nat
  BY <1>1, <1>2
<1> HIDE DEF a
<1>4. a % CtrMod \in 0 .. CtrMod - 1
  BY <1>2, <1>3, DivMod
<1>5. (a % CtrMod) * BlockSize \in Nat
  BY <1>2, <1>4
<1> QED BY <1>1, <1>5 DEF Position, a

(* Two bytes of one key in one place are one byte.                          *)
LEMMA PlaceNamesByte ==
  ASSUME NEW b \in Keystream, NEW c \in Keystream, b[1] = c[1], Position(b) = Position(c)
  PROVE  b = c
<1> DEFINE B == BlockSize
           M == CtrMod
           Block(x) == (x[2] + M - FirstCtr) % M
<1>1. B \in Nat \ {0} /\ M \in Nat \ {0} /\ FirstCtr \in 0 .. M - 1
  BY Constants DEF Ctr
<1>2. ASSUME NEW x \in Keystream
      PROVE  /\ x = <<x[1], x[2], x[3]>> /\ x[2] \in 0 .. M - 1 /\ x[3] \in 0 .. B - 1
             /\ Block(x) \in Nat /\ Position(x) = Block(x) * B + x[3]
             /\ x[2] = (FirstCtr + Block(x)) % M
  <2>1. x = <<x[1], x[2], x[3]>> /\ x[2] \in 0 .. M - 1 /\ x[3] \in 0 .. B - 1
    BY DEF Keystream, Ctr, Offset
  <2> DEFINE a == x[2] + M - FirstCtr
  <2>2. a \in Nat /\ FirstCtr + a = x[2] + M
    BY <1>1, <2>1
  <2>3. Block(x) = a % M
    OBVIOUS
  <2> HIDE DEF a, M, Block
  <2>4. Block(x) \in Nat
    BY <1>1, <2>2, <2>3, DivMod
  <2>5. (FirstCtr + Block(x)) % M = (a + FirstCtr) % M
    <3>1. ((a % M) + FirstCtr) % M = (a + FirstCtr) % M
      <4>1. a \in Nat /\ FirstCtr \in Nat /\ M \in Nat \ {0}
        BY <1>1, <2>2
      <4> QED BY <4>1, ModAdd
    <3>2. FirstCtr + Block(x) = (a % M) + FirstCtr
      BY <1>1, <2>3, <2>4
    <3> QED BY <3>1, <3>2
  <2>6. (a + FirstCtr) % M = x[2]
    <3>1. a + FirstCtr = 1 * M + x[2]
      BY <1>1, <2>1, <2>2
    <3>2. (1 * M + x[2]) % M = x[2]
      <4>1. 1 \in Nat /\ M \in Nat \ {0} /\ x[2] \in 0 .. M - 1
        BY <1>1, <2>1
      <4> QED BY <4>1, ModUnique
    <3> QED BY <3>1, <3>2
  <2> QED BY <2>1, <2>4, <2>5, <2>6 DEF Position, Block, M, B
<1> HIDE DEF Block, B, M
<1>3. b[3] = c[3]
  <2>1. (Block(b) * B + b[3]) % B = b[3] /\ (Block(c) * B + c[3]) % B = c[3]
    BY <1>1, <1>2, ModUnique
  <2> QED BY <1>2, <2>1
<1>4. Block(b) = Block(c)
  <2>1. Block(b) * B = Block(c) * B /\ Block(b) * B \in Nat /\ Block(c) * B \in Nat
    <3> DEFINE x == Block(b) * B
               y == Block(c) * B
    <3>1. x \in Nat /\ y \in Nat
      BY <1>1, <1>2
    <3>2. x + b[3] = y + c[3] /\ b[3] \in Nat
      BY <1>1, <1>2
    <3> HIDE DEF x, y
    <3>3. x = y
      BY <1>3, <3>1, <3>2
    <3> QED BY <3>1, <3>3 DEF x, y
  <2>2. ASSUME NEW j \in Nat, NEW k \in Nat, j < k PROVE j * B # k * B
    <3>1. (j + 1) * B <= k * B /\ (j + 1) * B = j * B + 1 * B /\ j * B \in Nat /\ k * B \in Nat
      BY <1>1, <2>2, Monotone, Distribute
    <3> QED BY <1>1, <3>1
  <2>3. ~(Block(b) < Block(c)) /\ ~(Block(c) < Block(b))
    BY <1>2, <2>1, <2>2
  <2> QED BY <1>2, <2>3
<1>5. b[2] = c[2]
  BY <1>2, <1>4
<1> QED BY <1>2, <1>3, <1>5

-----------------------------------------------------------------------------
(* One generator. *)

LEMMA GeneratorFields ==
  ASSUME NEW r \in Generator
  PROVE  /\ r.key \in Key /\ r.counter \in Ctr
         /\ r.buffer \in [Offset -> Keystream \cup {Zero}]
         /\ r.buffer_pos \in 0 .. BlockSize
         /\ r.generated_since_reseed \in Nat
         /\ r.fork_guard \in Guard
BY DEF Generator

(* A chunk is what is left of the buffer, whole blocks and a remainder.     *)
LEMMA Split ==
  ASSUME NEW r \in Generator, NEW n \in Nat
  PROVE  /\ Drained(r, n) \in Nat /\ WholeBlocks(r, n) \in Nat
         /\ Remainder(r, n) \in 0 .. BlockSize - 1
         /\ WholeBlocks(r, n) * BlockSize \in Nat
         /\ n = Drained(r, n) + WholeBlocks(r, n) * BlockSize + Remainder(r, n)
         /\ \/ /\ Drained(r, n) = BlockSize - r.buffer_pos
            \/ /\ Drained(r, n) = n /\ n < BlockSize - r.buffer_pos
               /\ WholeBlocks(r, n) = 0 /\ Remainder(r, n) = 0
<1> DEFINE d == Drained(r, n)
           w == WholeBlocks(r, n)
           e == Remainder(r, n)
<1>1. BlockSize \in Nat \ {0} /\ r.buffer_pos \in 0 .. BlockSize
  BY Constants, GeneratorFields
<1>2. /\ d \in Nat /\ d <= n
      /\ d = BlockSize - r.buffer_pos \/ (d = n /\ n < BlockSize - r.buffer_pos)
  BY <1>1 DEF Drained, MinOf
<1> HIDE DEF d
<1>3. w = (n - d) \div BlockSize /\ e = (n - d) % BlockSize /\ n - d \in Nat
  BY <1>2 DEF WholeBlocks, Remainder, d
<1>4. w \in Nat /\ e \in 0 .. BlockSize - 1 /\ n - d = w * BlockSize + e
  BY <1>1, <1>3, DivMod
<1>5. d = n => w = 0 /\ e = 0
  <2> SUFFICES ASSUME d = n PROVE w = 0 /\ e = 0
    OBVIOUS
  <2>1. w = 0 \div BlockSize /\ e = 0 % BlockSize
    BY <1>3
  <2> QED BY <1>1, <2>1
<1> HIDE DEF w, e
<1>6. w * BlockSize \in Nat
  BY <1>1, <1>4
<1>7. n = d + w * BlockSize + e
  BY <1>1, <1>2, <1>4, <1>6
<1> QED BY <1>2, <1>4, <1>5, <1>6, <1>7 DEF d, w, e

(* The block the cursor is in, and how many blocks a chunk may still start. *)
LEMMA CursorBlocks ==
  ASSUME NEW r \in Generator, NEW c \in Ctr, Cursor(r, c), NEW n \in Nat,
         r.generated_since_reseed + n + 4 * BlockSize <= CtrMod * BlockSize,
         NEW m \in Nat, m * BlockSize <= r.generated_since_reseed + n + 3 * BlockSize
  PROVE  m \in Ctr
<1>1. BlockSize \in Nat \ {0} /\ CtrMod \in Nat \ {0} /\ r.generated_since_reseed \in Nat
  BY Constants, GeneratorFields
<1>2. m * BlockSize \in Nat /\ CtrMod * BlockSize \in Nat
  BY <1>1
<1>3. m * BlockSize < CtrMod * BlockSize
  BY <1>1, <1>2
<1>4. CASE CtrMod <= m
  BY <1>1, <1>2, <1>3, <1>4, Monotone
<1> QED BY <1>1, <1>4 DEF Ctr

LEMMA DrainMovesCursor ==
  ASSUME NEW g \in Nat, NEW n \in Nat, NEW size \in Nat, NEW pos \in 0 .. size,
         NEW d \in 0 .. size - pos, NEW x \in Nat, NEW y \in Nat,
         g + size - pos = x, n = d + y
  PROVE  g + n + size - (pos + d) = x + y /\ pos + d \in 0 .. size
OBVIOUS

LEMMA ChunkFields ==
  ASSUME NEW r \in Generator, NEW n \in Nat
  PROVE  LET a == AfterChunk(r, n)
             d == Drained(r, n)
             w == WholeBlocks(r, n)
             e == Remainder(r, n)
         IN /\ a.key = r.key /\ a.fork_guard = r.fork_guard
            /\ a.counter = (r.counter + w + (IF e = 0 THEN 0 ELSE 1)) % CtrMod
            /\ a.buffer = [o \in Offset |->
                 IF e # 0
                   THEN IF o < e THEN Zero ELSE Byte(r.key, r.counter + w, o)
                   ELSE IF o < r.buffer_pos + d THEN Zero ELSE r.buffer[o]]
            /\ a.buffer_pos = IF e # 0 THEN e ELSE r.buffer_pos + d
            /\ a.generated_since_reseed = r.generated_since_reseed + n
            /\ a = [key |-> a.key, counter |-> a.counter, buffer |-> a.buffer, buffer_pos |-> a.buffer_pos,
                    generated_since_reseed |-> a.generated_since_reseed, fork_guard |-> a.fork_guard]
<1> DEFINE counter == (r.counter + WholeBlocks(r, n) + (IF Remainder(r, n) = 0 THEN 0 ELSE 1)) % CtrMod
           buffer == [o \in Offset |->
              IF Remainder(r, n) # 0
                THEN IF o < Remainder(r, n) THEN Zero ELSE Byte(r.key, r.counter + WholeBlocks(r, n), o)
                ELSE IF o < r.buffer_pos + Drained(r, n) THEN Zero ELSE r.buffer[o]]
           pos == IF Remainder(r, n) # 0 THEN Remainder(r, n) ELSE r.buffer_pos + Drained(r, n)
           count == r.generated_since_reseed + n
<1>1. AfterChunk(r, n) = [r EXCEPT !.counter = counter, !.buffer = buffer, !.buffer_pos = pos,
                                   !.generated_since_reseed = count]
  BY DEF AfterChunk
<1>2. r = [key |-> r.key, counter |-> r.counter, buffer |-> r.buffer, buffer_pos |-> r.buffer_pos,
           generated_since_reseed |-> r.generated_since_reseed, fork_guard |-> r.fork_guard]
  BY DEF Generator
<1> HIDE DEF counter, buffer, pos, count
<1>3. AfterChunk(r, n) =
        [key |-> r.key, counter |-> counter, buffer |-> buffer, buffer_pos |-> pos,
         generated_since_reseed |-> count, fork_guard |-> r.fork_guard]
  BY <1>1, <1>2
<1> QED BY <1>3 DEF counter, buffer, pos, count

LEMMA ChunkCursor ==
  ASSUME NEW r \in Generator, NEW c \in Ctr, Cursor(r, c), NEW n \in Nat,
         r.generated_since_reseed + n + 4 * BlockSize <= CtrMod * BlockSize
  PROVE  /\ AfterChunk(r, n) \in Generator
         /\ AfterChunk(r, n).key = r.key
         /\ AfterChunk(r, n).fork_guard = r.fork_guard
         /\ AfterChunk(r, n).generated_since_reseed = r.generated_since_reseed + n
         /\ \E b \in Ctr : Cursor(AfterChunk(r, n), b)
<1> DEFINE d == Drained(r, n)
           w == WholeBlocks(r, n)
           e == Remainder(r, n)
           g == r.generated_since_reseed
           B == BlockSize
           M == CtrMod
           end == r.buffer_pos + d
           a == AfterChunk(r, n)
           b == c + w + (IF e = 0 THEN 0 ELSE 1)
<1>1. /\ B \in Nat \ {0} /\ M \in Nat \ {0} /\ FirstCtr \in Nat /\ c \in Nat
      /\ r.buffer_pos \in 0 .. B /\ g \in Nat /\ r.counter \in Ctr
  BY Constants, GeneratorFields DEF Ctr
<1>2. /\ d \in Nat /\ w \in Nat /\ e \in 0 .. B - 1 /\ w * B \in Nat
      /\ n = d + w * B + e
      /\ \/ d = B - r.buffer_pos
         \/ d = n /\ n < B - r.buffer_pos /\ w = 0 /\ e = 0
  BY Split
<1>3. /\ r.counter = (FirstCtr + c) % M
      /\ g + B - r.buffer_pos = c * B
      /\ \A o \in Offset : r.buffer[o] = IF o < r.buffer_pos THEN Zero ELSE Byte(r.key, FirstCtr + c - 1, o)
  BY DEF Cursor
<1>4. /\ a.key = r.key /\ a.fork_guard = r.fork_guard
      /\ a.counter = (r.counter + w + (IF e = 0 THEN 0 ELSE 1)) % M
      /\ a.buffer = [o \in Offset |->
           IF e # 0
             THEN IF o < e THEN Zero ELSE Byte(r.key, r.counter + w, o)
             ELSE IF o < end THEN Zero ELSE r.buffer[o]]
      /\ a.buffer_pos = IF e # 0 THEN e ELSE end
      /\ a.generated_since_reseed = g + n
      /\ a = [key |-> a.key, counter |-> a.counter, buffer |-> a.buffer, buffer_pos |-> a.buffer_pos,
              generated_since_reseed |-> a.generated_since_reseed, fork_guard |-> a.fork_guard]
  BY ChunkFields
<1>5. \A k \in Nat : (r.counter + k) % M = (FirstCtr + c + k) % M
  <2> SUFFICES ASSUME NEW k \in Nat PROVE (r.counter + k) % M = (FirstCtr + c + k) % M
    OBVIOUS
  <2> DEFINE f == FirstCtr + c
  <2>0. f \in Nat /\ M \in Nat \ {0}
    BY <1>1
  <2>1. r.counter = f % M
    BY <1>3
  <2> HIDE DEF f, M
  <2>2. ((f % M) + k) % M = (f + k) % M
    BY <2>0, ModAdd
  <2>3. (r.counter + k) % M = (f + k) % M
    BY <2>1, <2>2
  <2> QED BY <2>3 DEF f
<1> HIDE DEF d, w, e, a
<1>6. g + n + B - a.buffer_pos = b * B /\ a.buffer_pos \in 0 .. B
  <2>0. c * B \in Nat
    BY <1>1
  <2>1. CASE e = 0
    <3>1. b * B = c * B + w * B
      BY <1>1, <1>2, <2>1, Distribute
    <3>2. a.buffer_pos = r.buffer_pos + d
      BY <1>4, <2>1
    <3>3. w * B \in Nat /\ d \in 0 .. B - r.buffer_pos /\ n = d + w * B
      BY <1>1, <1>2, <2>1
    <3> DEFINE x == c * B
               y == w * B
    <3>5. /\ x \in Nat /\ y \in Nat /\ b * B = x + y /\ g + B - r.buffer_pos = x
          /\ n = d + y
      BY <1>3, <2>0, <3>1, <3>3
    <3> HIDE DEF x, y, b, g, B
    <3>6. g + n + B - (r.buffer_pos + d) = x + y /\ r.buffer_pos + d \in 0 .. B
      BY <1>1, <3>3, <3>5, DrainMovesCursor
    <3> QED BY <3>2, <3>5, <3>6
  <2>2. CASE e # 0
    <3>1. b * B = c * B + w * B + B
      <4>1. (c + w) * B = c * B + w * B /\ (c + w + 1) * B = (c + w) * B + 1 * B
        BY <1>1, <1>2, Distribute
      <4> QED BY <1>1, <2>2, <4>1
    <3>2. a.buffer_pos = e
      BY <1>4, <2>2
    <3> QED BY <1>1, <1>2, <1>3, <2>0, <2>2, <3>1, <3>2
  <2> QED BY <2>1, <2>2
<1>7. b \in Nat
  BY <1>1, <1>2
<1> HIDE DEF b
<1>8. b \in Ctr
  <2>1. b * B \in Nat
    BY <1>1, <1>7
  <2>2. b * B <= g + n + 3 * B
    BY <1>1, <1>6, <2>1
  <2> QED BY <1>7, <2>2, CursorBlocks
<1>9. a.counter = (FirstCtr + b) % M /\ a.counter \in Ctr
  <2>1. a.counter = (FirstCtr + b) % M
    <3>1. CASE e = 0
      <4>1. a.counter = (r.counter + w) % M /\ b = c + w
        BY <1>1, <1>2, <1>4, <3>1 DEF b, Ctr
      <4>2. (r.counter + w) % M = (FirstCtr + c + w) % M
        BY <1>2, <1>5
      <4> QED BY <1>1, <1>2, <4>1, <4>2
    <3>2. CASE e # 0
      <4>1. a.counter = (r.counter + (w + 1)) % M /\ b = c + w + 1
        BY <1>1, <1>2, <1>4, <3>2 DEF b, Ctr
      <4>2. (r.counter + (w + 1)) % M = (FirstCtr + c + (w + 1)) % M
        BY <1>2, <1>5
      <4> QED BY <1>1, <1>2, <4>1, <4>2
    <3> QED BY <3>1, <3>2
  <2>2. FirstCtr + b \in Nat
    BY <1>1, <1>7
  <2>3. (FirstCtr + b) % M \in 0 .. M - 1
    BY <1>1, <2>2, DivMod
  <2> QED BY <2>1, <2>3 DEF Ctr
<1>10. \A o \in Offset : a.buffer[o] = IF o < a.buffer_pos THEN Zero ELSE Byte(r.key, FirstCtr + b - 1, o)
  <2> SUFFICES ASSUME NEW o \in Offset
               PROVE  a.buffer[o] = IF o < a.buffer_pos THEN Zero ELSE Byte(r.key, FirstCtr + b - 1, o)
    OBVIOUS
  <2>0. o \in 0 .. B - 1
    BY DEF Offset
  <2>1. CASE e # 0
    <3>1. a.buffer[o] = IF o < e THEN Zero ELSE Byte(r.key, r.counter + w, o)
      BY <1>4, <2>1
    <3>2. Byte(r.key, r.counter + w, o) = Byte(r.key, FirstCtr + c + w, o)
      BY <1>2, <1>5 DEF Byte
    <3>3. FirstCtr + b - 1 = FirstCtr + c + w
      BY <1>1, <1>2, <2>1 DEF b
    <3> QED BY <1>4, <2>1, <3>1, <3>2, <3>3
  <2>2. CASE e = 0 /\ d = B - r.buffer_pos
    <3>1. a.buffer_pos = B /\ a.buffer[o] = IF o < end THEN Zero ELSE r.buffer[o]
      BY <1>1, <1>4, <2>2
    <3> QED BY <1>1, <2>0, <2>2, <3>1
  <2>3. CASE e = 0 /\ w = 0
    <3>1. a.buffer_pos = end /\ a.buffer[o] = IF o < end THEN Zero ELSE r.buffer[o]
      BY <1>4, <2>3
    <3>2. b = c
      BY <1>1, <2>3 DEF b
    <3> QED BY <1>1, <1>2, <1>3, <2>0, <3>1, <3>2
  <2> QED BY <1>2, <2>1, <2>2, <2>3
<1>11. Cursor(a, b)
  BY <1>4, <1>6, <1>9, <1>10 DEF Cursor
<1>12. a \in Generator
  <2>1. a.buffer \in [Offset -> Keystream \cup {Zero}]
    <3>1. ASSUME NEW o \in Offset PROVE a.buffer[o] \in Keystream \cup {Zero}
      <4>0. r.counter + w \in Nat
        BY <1>1, <1>2 DEF Ctr
      <4>1. (r.counter + w) % M \in Ctr
        BY <1>1, <4>0, DivMod DEF Ctr
      <4>2. Byte(r.key, r.counter + w, o) \in Keystream
        BY <4>1, GeneratorFields DEF Byte, Keystream
      <4>3. r.buffer[o] \in Keystream \cup {Zero}
        BY GeneratorFields
      <4> QED BY <1>4, <4>2, <4>3
    <3> QED BY <1>4, <3>1
  <2>2. g + n \in Nat
    BY <1>1
  <2> QED BY <1>4, <1>6, <1>9, <2>1, <2>2, GeneratorFields DEF Generator
<1> QED BY <1>4, <1>8, <1>11, <1>12 DEF a

(* A byte of the keystream of a generator, at its place in the stream.      *)
Streamed(r, b, place) == b \in Keystream /\ b[1] = r.key /\ Position(b) = place

(* What is left in the buffer is what the count of bytes comes to next.     *)
LEMMA BufferHolds ==
  ASSUME NEW r \in Generator, NEW c \in Ctr, Cursor(r, c),
         NEW o \in Offset, r.buffer_pos <= o
  PROVE  Streamed(r, r.buffer[o], r.generated_since_reseed + o - r.buffer_pos)
<1> DEFINE B == BlockSize
           g == r.generated_since_reseed
           pos == r.buffer_pos
<1>1. /\ B \in Nat \ {0} /\ pos \in 0 .. B /\ g \in Nat /\ c \in Nat /\ o \in 0 .. B - 1
      /\ FirstCtr \in Nat /\ c < CtrMod /\ CtrMod \in Nat /\ r.key \in Key
  BY Constants, GeneratorFields DEF Ctr, Offset
<1>2. g + B - pos = c * B /\ r.buffer[o] = Byte(r.key, FirstCtr + c - 1, o)
  BY <1>1 DEF Cursor
<1>3. c # 0
  <2>1. c = 0 => c * B = 0
    BY <1>1
  <2> QED BY <1>1, <1>2, <2>1
<1>4. c - 1 \in Ctr /\ FirstCtr + c - 1 = FirstCtr + (c - 1)
  BY <1>1, <1>3 DEF Ctr
<1>5. c * B = (c - 1) * B + B /\ (c - 1) * B \in Nat
  BY <1>1, <1>3, Distribute, c - 1 \in Nat, (c - 1) + 1 = c, 1 * B = B
<1>6. Streamed(r, r.buffer[o], (c - 1) * B + o)
  BY <1>1, <1>2, <1>4, PositionOf DEF Streamed
<1>7. (c - 1) * B + o = g + o - pos
  <2> DEFINE x == (c - 1) * B
  <2>1. x \in Nat /\ g + B - pos = x + B
    BY <1>2, <1>5
  <2> HIDE DEF x, B, g, pos
  <2>2. x + o = g + o - pos
    BY <1>1, <2>1
  <2> QED BY <2>2 DEF x
<1> QED BY <1>6, <1>7

(* The blocks that the counter comes to next follow those of the buffer.    *)
LEMMA BlockHolds ==
  ASSUME NEW r \in Generator, NEW c \in Ctr, Cursor(r, c),
         NEW m \in Nat, c + m \in Ctr, NEW o \in Offset
  PROVE  Streamed(r, Byte(r.key, r.counter + m, o),
                  r.generated_since_reseed + (BlockSize - r.buffer_pos) + m * BlockSize + o)
<1> DEFINE B == BlockSize
           g == r.generated_since_reseed
           pos == r.buffer_pos
<1>1. /\ B \in Nat \ {0} /\ pos \in 0 .. B /\ g \in Nat /\ c \in Nat /\ o \in 0 .. B - 1
      /\ FirstCtr \in Nat /\ CtrMod \in Nat \ {0} /\ r.key \in Key
  BY Constants, GeneratorFields DEF Ctr, Offset
<1>2. g + B - pos = c * B /\ r.counter = (FirstCtr + c) % CtrMod
  BY DEF Cursor
<1>3. (r.counter + m) % CtrMod = (FirstCtr + (c + m)) % CtrMod
  <2> DEFINE a == FirstCtr + c
  <2>1. a \in Nat /\ a + m = FirstCtr + (c + m) /\ CtrMod \in Nat \ {0}
    BY <1>1
  <2>2. r.counter = a % CtrMod
    BY <1>2
  <2> HIDE DEF a
  <2>3. ((a % CtrMod) + m) % CtrMod = (a + m) % CtrMod
    BY <2>1, ModAdd
  <2> QED BY <2>1, <2>2, <2>3
<1>4. Byte(r.key, r.counter + m, o) = Byte(r.key, FirstCtr + (c + m), o)
  BY <1>3 DEF Byte
<1>5. Streamed(r, Byte(r.key, r.counter + m, o), (c + m) * B + o)
  BY <1>1, <1>4, PositionOf DEF Streamed
<1>6. (c + m) * B = c * B + m * B /\ c * B \in Nat /\ m * B \in Nat
  BY <1>1, Distribute
<1>7. (c + m) * B + o = g + (B - pos) + m * B + o
  <2> DEFINE x == c * B
             y == m * B
  <2>1. x \in Nat /\ y \in Nat /\ g + B - pos = x /\ (c + m) * B = x + y
    BY <1>2, <1>6
  <2> HIDE DEF x, y, B, g, pos
  <2>2. x + y + o = g + (B - pos) + y + o
    BY <1>1, <2>1
  <2> QED BY <2>1, <2>2 DEF y
<1> QED BY <1>5, <1>7

(* The blocks a chunk takes are within the cycle of the counter.            *)
LEMMA ChunkBlocks ==
  ASSUME NEW r \in Generator, NEW c \in Ctr, Cursor(r, c), NEW n \in Nat,
         r.generated_since_reseed + n + 4 * BlockSize <= CtrMod * BlockSize,
         NEW m \in Nat, m * BlockSize <= WholeBlocks(r, n) * BlockSize,
         Drained(r, n) = BlockSize - r.buffer_pos
  PROVE  c + m \in Ctr
<1> DEFINE d == Drained(r, n)
           w == WholeBlocks(r, n)
           e == Remainder(r, n)
           g == r.generated_since_reseed
           pos == r.buffer_pos
           B == BlockSize
<1>1. /\ B \in Nat \ {0} /\ CtrMod \in Nat /\ c \in Nat /\ pos \in 0 .. B /\ g \in Nat
  BY Constants, GeneratorFields DEF Ctr
<1>2. /\ d \in Nat /\ w \in Nat /\ e \in 0 .. B - 1 /\ w * B \in Nat /\ n = d + w * B + e
  BY Split
<1>3. (c + m) * B = c * B + m * B /\ c * B \in Nat /\ m * B \in Nat
  BY <1>1, Distribute
<1>4. g + B - pos = c * B
  BY DEF Cursor
<1>5. (c + m) * B <= g + n + 3 * B
  <2> DEFINE x == c * B
             y == m * B
             z == w * B
  <2>1. x \in Nat /\ y \in Nat /\ z \in Nat /\ y <= z /\ g + B - pos = x /\ n = d + z + e
        /\ d = B - pos
    BY <1>2, <1>3, <1>4
  <2> HIDE DEF x, y, z, d, w, e, g, pos, B
  <2>2. x + y <= g + n + 3 * B
    BY <1>1, <1>2, <2>1
  <2> QED BY <1>3, <2>2 DEF x, y
<1>6. c + m \in Nat
  BY <1>1
<1> QED BY <1>5, <1>6, CursorBlocks

(* A chunk outputs bytes of the key, from the count of bytes on.            *)
LEMMA ChunkBytes ==
  ASSUME NEW r \in Generator, NEW c \in Ctr, Cursor(r, c), NEW n \in Nat,
         r.generated_since_reseed + n + 4 * BlockSize <= CtrMod * BlockSize,
         NEW b \in Produced(r, n)
  PROVE  /\ b \in Keystream /\ b[1] = r.key
         /\ Position(b) >= r.generated_since_reseed
         /\ Position(b) < r.generated_since_reseed + n
<1> DEFINE d == Drained(r, n)
           w == WholeBlocks(r, n)
           e == Remainder(r, n)
           g == r.generated_since_reseed
           pos == r.buffer_pos
           B == BlockSize
<1>1. /\ B \in Nat \ {0} /\ CtrMod \in Nat /\ c \in Nat /\ pos \in 0 .. B /\ g \in Nat
  BY Constants, GeneratorFields DEF Ctr
<1>2. /\ d \in Nat /\ w \in Nat /\ e \in 0 .. B - 1 /\ w * B \in Nat
      /\ n = d + w * B + e
      /\ \/ d = B - pos
         \/ d = n /\ n < B - pos /\ w = 0 /\ e = 0
  BY Split
<1>3. ASSUME NEW m \in Nat, m * B <= w * B, d = B - pos PROVE c + m \in Ctr
  BY <1>3, ChunkBlocks
<1>4. CASE \E o \in pos .. pos + d - 1 : b = r.buffer[o]
  <2>1. PICK o \in pos .. pos + d - 1 : b = r.buffer[o]
    BY <1>4
  <2>2. o \in Offset /\ pos <= o /\ o < pos + d /\ d <= n
    <3> HIDE DEF d, w, e, pos, B
    <3>1. d <= n /\ d <= B - pos
      BY <1>1, <1>2
    <3>2. o \in 0 .. B - 1 /\ pos <= o /\ o < pos + d
      BY <1>1, <1>2, <2>1, <3>1
    <3> QED BY <3>1, <3>2 DEF Offset, B
  <2>3. Streamed(r, b, g + o - pos)
    BY <2>1, <2>2, BufferHolds
  <2>4. g + o - pos >= g /\ g + o - pos < g + n
    BY <1>1, <1>2, <2>2 DEF Offset
  <2> QED BY <2>3, <2>4 DEF Streamed
<1>5. CASE \E m \in 0 .. w - 1, o \in Offset : b = Byte(r.key, r.counter + m, o)
  <2>1. PICK m \in 0 .. w - 1, o \in Offset : b = Byte(r.key, r.counter + m, o)
    BY <1>5
  <2>2. m \in Nat /\ o \in Nat /\ o <= B - 1 /\ m + 1 <= w /\ d = B - pos
    BY <1>1, <1>2, <2>1 DEF Offset
  <2>3. m * B + B <= w * B /\ m * B \in Nat
    BY <1>1, <1>2, <2>2, Monotone, Distribute, (m + 1) * B = m * B + 1 * B
  <2>4. c + m \in Ctr
    BY <1>1, <1>2, <1>3, <2>2, <2>3
  <2>5. Streamed(r, b, g + (B - pos) + m * B + o)
    BY <2>1, <2>2, <2>4, BlockHolds
  <2> DEFINE y == m * B
             z == w * B
  <2>6. y \in Nat /\ z \in Nat /\ y + B <= z /\ n = d + z + e
    BY <1>2, <2>3
  <2>7. Streamed(r, b, g + (B - pos) + y + o)
    BY <2>5
  <2> HIDE DEF y, z, d, w, e, g, pos, B
  <2>8. g + (B - pos) + y + o >= g /\ g + (B - pos) + y + o < g + n
    BY <1>1, <1>2, <2>2, <2>6
  <2> QED BY <2>7, <2>8 DEF Streamed, g
<1>6. CASE \E o \in 0 .. e - 1 : b = Byte(r.key, r.counter + w, o)
  <2>1. PICK o \in 0 .. e - 1 : b = Byte(r.key, r.counter + w, o)
    BY <1>6
  <2>2. o \in Nat /\ o < e /\ o \in Offset /\ d = B - pos
    BY <1>1, <1>2, <2>1 DEF Offset
  <2>4. c + w \in Ctr
    BY <1>2, <1>3, <2>2
  <2>5. Streamed(r, b, g + (B - pos) + w * B + o)
    BY <1>2, <2>1, <2>2, <2>4, BlockHolds
  <2> DEFINE z == w * B
  <2>6. z \in Nat /\ n = d + z + e
    BY <1>2
  <2>7. Streamed(r, b, g + (B - pos) + z + o)
    BY <2>5
  <2> HIDE DEF z, d, w, e, g, pos, B
  <2>8. g + (B - pos) + z + o >= g /\ g + (B - pos) + z + o < g + n
    BY <1>1, <1>2, <2>2, <2>6
  <2> QED BY <2>7, <2>8 DEF Streamed, g
<1> QED BY <1>4, <1>5, <1>6 DEF Produced

(* ... and skips none of them.                                              *)
LEMMA ChunkFillsPlaces ==
  ASSUME NEW r \in Generator, NEW c \in Ctr, Cursor(r, c), NEW n \in Nat,
         r.generated_since_reseed + n + 4 * BlockSize <= CtrMod * BlockSize,
         NEW x \in 0 .. n - 1
  PROVE  \E b \in Produced(r, n) : Position(b) = r.generated_since_reseed + x
<1> DEFINE d == Drained(r, n)
           w == WholeBlocks(r, n)
           e == Remainder(r, n)
           g == r.generated_since_reseed
           pos == r.buffer_pos
           B == BlockSize
<1>1. /\ B \in Nat \ {0} /\ c \in Nat /\ pos \in 0 .. B /\ g \in Nat
  BY Constants, GeneratorFields DEF Ctr
<1>2. /\ d \in Nat /\ w \in Nat /\ e \in 0 .. B - 1 /\ w * B \in Nat
      /\ n = d + w * B + e
      /\ \/ d = B - pos
         \/ d = n /\ n < B - pos /\ w = 0 /\ e = 0
  BY Split
<1>3. CASE x < d
  <2> DEFINE o == pos + x
  <2>1. o \in pos .. pos + d - 1 /\ o \in Offset /\ pos <= o /\ g + o - pos = g + x
    <3> HIDE DEF d, w, e, g, pos, B
    <3>1. d <= B - pos
      BY <1>1, <1>2
    <3>2. o \in pos .. pos + d - 1 /\ o \in 0 .. B - 1 /\ pos <= o /\ g + o - pos = g + x
      BY <1>1, <1>2, <1>3, <3>1
    <3> QED BY <3>2 DEF Offset, B
  <2> HIDE DEF o
  <2>2. Streamed(r, r.buffer[o], g + x)
    <3>1. Streamed(r, r.buffer[o], g + o - pos)
      BY <2>1, BufferHolds
    <3> QED BY <2>1, <3>1
  <2>3. r.buffer[o] \in Produced(r, n)
    BY <2>1 DEF Produced
  <2> QED BY <2>2, <2>3 DEF Streamed
<1>4. CASE ~(x < d)
  <2> DEFINE y == x - d
             m == y \div B
             o == y % B
  <2>1. y \in Nat /\ y < w * B + e /\ d = B - pos
    <3> DEFINE z == w * B
    <3>1. z \in Nat /\ n = d + z + e
      BY <1>2
    <3>2. d = B - pos
      BY <1>2, <1>4
    <3> HIDE DEF z, d, w, e, pos, B
    <3>3. x - d \in Nat /\ x - d < z + e
      BY <1>1, <1>2, <1>4, <3>1
    <3> QED BY <3>2, <3>3 DEF z
  <2> HIDE DEF y
  <2>2. m \in Nat /\ o \in 0 .. B - 1 /\ y = m * B + o
    BY <1>1, <2>1, DivMod
  <2> HIDE DEF m, o
  <2>3. m * B \in Nat /\ o \in Offset
    BY <1>1, <2>2 DEF Offset
  <2>4. m < w \/ (m = w /\ o < e)
    <3>1. CASE w + 1 <= m
      <4>1. (w + 1) * B <= m * B /\ (w + 1) * B = w * B + 1 * B
        <5>1. w \in Nat /\ w + 1 \in Nat /\ m \in Nat /\ B \in Nat
          BY <1>1, <1>2, <2>2
        <5> HIDE DEF w, B
        <5>2. (w + 1) * B <= m * B
          BY <3>1, <5>1, Monotone
        <5>3. (w + 1) * B = w * B + 1 * B
          BY <5>1, Distribute, 1 \in Nat
        <5> QED BY <5>2, <5>3
      <4> DEFINE z == w * B
                 v == m * B
      <4>2. z \in Nat /\ v \in Nat /\ z + B <= v /\ y < z + e /\ y = v + o
        BY <1>1, <1>2, <2>1, <2>2, <2>3, <4>1
      <4> HIDE DEF z, v, w, e, B
      <4> QED BY <1>1, <1>2, <2>2, <4>2
    <3>2. CASE m = w
      <4> DEFINE z == w * B
      <4>1. z \in Nat /\ y < z + e /\ y = z + o
        BY <1>2, <2>1, <2>2, <3>2
      <4> HIDE DEF z, w, e, B
      <4> QED BY <1>1, <1>2, <2>2, <3>2, <4>1
    <3> QED BY <1>2, <2>2, <3>1, <3>2
  <2>5. c + m \in Ctr
    <3>1. m * B <= w * B
      BY <1>1, <1>2, <2>2, <2>4, Monotone
    <3> QED BY <2>1, <2>2, <3>1, ChunkBlocks
  <2>6. Streamed(r, Byte(r.key, r.counter + m, o), g + (B - pos) + m * B + o)
    BY <2>2, <2>3, <2>5, BlockHolds
  <2>7. g + (B - pos) + m * B + o = g + x
    <3> DEFINE v == m * B
    <3>1. v \in Nat /\ y = v + o /\ d = B - pos /\ y = x - d
      BY <2>1, <2>2, <2>3 DEF y
    <3> HIDE DEF v, d, g, pos, B
    <3>2. g + (B - pos) + v + o = g + x
      BY <1>1, <1>2, <2>2, <3>1
    <3> QED BY <3>2 DEF v
  <2>8. Byte(r.key, r.counter + m, o) \in Produced(r, n)
    <3>1. CASE m < w
      <4>1. m \in 0 .. w - 1
        BY <1>2, <2>2, <3>1
      <4> HIDE DEF w
      <4> QED BY <2>3, <4>1 DEF Produced, w
    <3>2. CASE m = w /\ o < e
      <4>1. o \in 0 .. e - 1
        BY <1>2, <2>2, <3>2
      <4> HIDE DEF w, e
      <4> QED BY <3>2, <4>1 DEF Produced, w, e
    <3> QED BY <2>4, <3>1, <3>2
  <2> QED BY <2>6, <2>7, <2>8 DEF Streamed
<1> QED BY <1>3, <1>4

(* The blocks of a blend come after everything output.                      *)
LEMMA BlendBytes ==
  ASSUME NEW r \in Generator, NEW c \in Ctr, Cursor(r, c),
         r.generated_since_reseed + 4 * BlockSize <= CtrMod * BlockSize,
         NEW b \in BlendBlocks(r)
  PROVE  /\ b \in Keystream /\ b[1] = r.key
         /\ Position(b) >= r.generated_since_reseed
<1> DEFINE g == r.generated_since_reseed
           pos == r.buffer_pos
           B == BlockSize
<1>1. /\ B \in Nat \ {0} /\ CtrMod \in Nat /\ c \in Nat /\ pos \in 0 .. B /\ g \in Nat
  BY Constants, GeneratorFields DEF Ctr
<1>2. PICK m \in 0 .. 2, o \in Offset : b = Byte(r.key, r.counter + m, o)
  BY DEF BlendBlocks
<1>3. c + m \in Ctr
  <2>1. g + B - pos = c * B
    BY DEF Cursor
  <2>2. (c + m) * B = c * B + m * B /\ c * B \in Nat /\ m * B \in Nat
    BY <1>1, Distribute
  <2>3. m * B <= 2 * B
    BY <1>1, Monotone
  <2>4. (c + m) * B <= g + 0 + 3 * B
    <3> DEFINE x == c * B
               y == m * B
    <3>1. x \in Nat /\ y \in Nat /\ y <= 2 * B /\ g + B - pos = x
      BY <2>1, <2>2, <2>3
    <3> HIDE DEF x, y, g, pos, B
    <3>2. x + y <= g + 0 + 3 * B
      BY <1>1, <3>1
    <3> QED BY <2>2, <3>2 DEF x, y
  <2>5. c + m \in Nat /\ g + 0 + 4 * B <= CtrMod * B
    BY <1>1
  <2> QED BY <2>4, <2>5, CursorBlocks
<1>4. Streamed(r, b, g + (B - pos) + m * B + o)
  BY <1>2, <1>3, BlockHolds
<1>5. m * B \in Nat /\ o \in Nat
  BY <1>1 DEF Offset
<1>6. g + (B - pos) + m * B + o >= g
  BY <1>1, <1>5
<1> QED BY <1>4, <1>6 DEF Streamed

-----------------------------------------------------------------------------
(* Types, calls and cursors. *)

Basics == TypeOK /\ CallShape /\ CursorsAgree

Label == {"idle", "seed", "check", "fill", "reseed", "capture", "install"}

(* A generator in good order, when `quota` bytes may come between reseeds.  *)
Good(r, quota) ==
  /\ r \in Generator /\ r.generated_since_reseed <= quota
  /\ \E c \in Ctr : Cursor(r, c)

LEMMA BasicFacts ==
  ASSUME Basics
  PROVE  /\ ForkTypeOK
         /\ \A p \in Proc : rng[p] # NoRng => Good(rng[p], Quota)
         /\ rng \in [Proc -> Generator \cup {NoRng}]
         /\ pc \in [Proc -> Label] /\ left \in [Proc -> Nat]
         /\ Quota \in Nat \ {0} /\ Quota + 4 * BlockSize <= CtrMod * BlockSize
         /\ emitted \subseteq Keystream /\ blended \subseteq Keystream
         /\ seeded \subseteq OsSeed
<1>1. TypeOK /\ CursorsAgree
  BY DEF Basics
<1>2. \A p \in Proc : rng[p] # NoRng => rng[p] \in Generator
  BY <1>1 DEF TypeOK
<1>3. \A p \in Proc : rng[p] # NoRng => Good(rng[p], Quota)
  BY <1>1, <1>2 DEF TypeOK, CursorsAgree, Good
<1>4. Quota \in Nat \ {0} /\ Quota + 4 * BlockSize <= CtrMod * BlockSize
  BY <1>1, Constants DEF TypeOK, Quota
<1> QED BY <1>1, <1>3, <1>4 DEF TypeOK, Label

(* What every step keeps, whatever it does to one process's generator.      *)
Typed ==
  /\ ForkTypeOK'
  /\ rng' \in [Proc -> Generator \cup {NoRng}]
  /\ pc' \in [Proc -> Label] /\ left' \in [Proc -> Nat]
  /\ reseed_interval' = reseed_interval
  /\ seeded' \subseteq OsSeed
  /\ emitted' \subseteq Keystream /\ blended' \subseteq Keystream

LEMMA BasicsOf ==
  ASSUME Basics, Typed,
         \A q \in Proc : rng'[q] # NoRng => Good(rng'[q], Quota),
         \A q \in Proc : /\ status'[q] # "running" => rng'[q] = NoRng /\ pc'[q] = "idle"
                         /\ pc'[q] \notin {"idle", "seed"} => rng'[q] # NoRng
  PROVE  Basics'
<1>1. Quota' = Quota /\ reseed_interval' \in Intervals
  BY DEF Typed, Quota, Basics, TypeOK
<1>2. CursorsAgree'
  BY DEF Good, CursorsAgree, Cursor
<1>3. CallShape'
  BY DEF CallShape
<1>4. \A q \in Proc : rng'[q] # NoRng => rng'[q].generated_since_reseed <= Quota
  BY DEF Good
<1>5. TypeOK'
  BY <1>1, <1>4 DEF Typed, TypeOK, Label
<1> QED BY <1>2, <1>3, <1>5 DEF Basics

(* A step of process p alone.                                               *)
LEMMA BasicsLocal ==
  ASSUME Basics, Typed, status' = status, NEW p \in Proc, status[p] = "running",
         \A q \in Proc \ {p} : rng'[q] = rng[q] /\ pc'[q] = pc[q],
         rng'[p] # NoRng => Good(rng'[p], Quota),
         pc'[p] \notin {"idle", "seed"} => rng'[p] # NoRng
  PROVE  Basics'
<1>1. \A q \in Proc : rng'[q] # NoRng => Good(rng'[q], Quota)
  BY BasicFacts
<1>2. \A q \in Proc : /\ status'[q] # "running" => rng'[q] = NoRng /\ pc'[q] = "idle"
                      /\ pc'[q] \notin {"idle", "seed"} => rng'[q] # NoRng
  BY DEF Basics, CallShape
<1> QED BY <1>1, <1>2, BasicsOf

(* A step that leaves every generator alone.                                *)
LEMMA BasicsQuiet ==
  ASSUME Basics, UNCHANGED <<status, rng, reseed_interval, history>>, ForkTypeOK',
         NEW p \in Proc, status[p] = "running", NEW l \in Label,
         pc' = [pc EXCEPT ![p] = l], left' \in [Proc -> Nat],
         l \notin {"idle", "seed"} => rng[p] # NoRng
  PROVE  Basics'
<1>1. Typed
  BY BasicFacts DEF Typed, history
<1>2. pc'[p] = l /\ \A q \in Proc \ {p} : pc'[q] = pc[q]
  BY BasicFacts
<1> QED BY <1>1, <1>2, BasicFacts, BasicsLocal

(* A step that puts another generator in place of that of its process.      *)
LEMMA BasicsReplace ==
  ASSUME Basics, UNCHANGED <<forkVars, reseed_interval>>,
         NEW p \in Proc, status[p] = "running",
         NEW r, Good(r, Quota), rng' = [rng EXCEPT ![p] = r],
         NEW l \in Label, pc' = [pc EXCEPT ![p] = l], left' \in [Proc -> Nat],
         seeded' \subseteq OsSeed, emitted' \subseteq Keystream, blended' \subseteq Keystream
  PROVE  Basics'
<1>1. rng' \in [Proc -> Generator \cup {NoRng}]
  BY BasicFacts DEF Good
<1>2. ForkTypeOK'
  BY BasicFacts DEF forkVars, ForkTypeOK
<1>3. Typed
  BY <1>1, <1>2, BasicFacts DEF Typed
<1>4. rng'[p] = r /\ pc'[p] = l /\ status' = status
  BY BasicFacts DEF forkVars
<1>5. \A q \in Proc \ {p} : rng'[q] = rng[q] /\ pc'[q] = pc[q]
  BY BasicFacts
<1>6. r # NoRng
  BY KeyGeneratorAssumption DEF Good
<1> QED BY <1>3, <1>4, <1>5, <1>6, BasicsLocal

(* A generator that starts on a key has all of the key's stream before it.  *)
LEMMA StartOfStream ==
  ASSUME NEW r \in Generator, NEW quota \in Nat, r.counter = FirstCtr,
         r.buffer = EmptyBuffer, r.buffer_pos = BlockSize, r.generated_since_reseed = 0
  PROVE  Good(r, quota)
<1>1. FirstCtr \in 0 .. CtrMod - 1 /\ CtrMod \in Nat \ {0} /\ BlockSize \in Nat \ {0}
  BY Constants DEF Ctr
<1>2. FirstCtr % CtrMod = FirstCtr
  BY <1>1, ModUnique, 0 * CtrMod + FirstCtr = FirstCtr
<1>3. 0 \in Ctr /\ FirstCtr + 0 = FirstCtr
  BY <1>1 DEF Ctr
<1>4. 0 + BlockSize - BlockSize = 0 * BlockSize
  BY <1>1
<1>5. \A o \in Offset : o < BlockSize /\ EmptyBuffer[o] = Zero
  BY <1>1 DEF Offset, EmptyBuffer
<1>6. Cursor(r, 0)
  BY <1>2, <1>3, <1>4, <1>5 DEF Cursor
<1> QED BY <1>3, <1>6 DEF Good

LEMMA FirstKey ==
  ASSUME NEW s \in OsSeed
  PROVE  [seed |-> s, blends |-> <<>>] \in Key
BY DEF Key

LEMMA RekeyedGood ==
  ASSUME NEW r \in Generator, NEW k \in Key, NEW quota \in Nat
  PROVE  /\ Good(Rekeyed(r, k), quota)
         /\ Rekeyed(r, k).key = k /\ Rekeyed(r, k).fork_guard = r.fork_guard
         /\ Rekeyed(r, k).generated_since_reseed = 0
<1> DEFINE a == Rekeyed(r, k)
<1>1. a = [key |-> k, counter |-> FirstCtr, buffer |-> EmptyBuffer, buffer_pos |-> BlockSize,
           generated_since_reseed |-> 0, fork_guard |-> r.fork_guard]
  <2>1. a = [r EXCEPT !.key = k, !.counter = FirstCtr, !.buffer = EmptyBuffer,
                      !.buffer_pos = BlockSize, !.generated_since_reseed = 0]
    BY DEF Rekeyed
  <2>2. r = [key |-> r.key, counter |-> r.counter, buffer |-> r.buffer, buffer_pos |-> r.buffer_pos,
             generated_since_reseed |-> r.generated_since_reseed, fork_guard |-> r.fork_guard]
    BY DEF Generator
  <2> HIDE DEF a
  <2> QED BY <2>1, <2>2
<1>2. FirstCtr \in Ctr /\ BlockSize \in 0 .. BlockSize
  BY Constants
<1>3. EmptyBuffer \in [Offset -> Keystream \cup {Zero}]
  BY DEF EmptyBuffer
<1>4. a \in Generator
  BY <1>1, <1>2, <1>3, GeneratorFields DEF Generator
<1> HIDE DEF a
<1>5. /\ a.counter = FirstCtr /\ a.buffer = EmptyBuffer /\ a.buffer_pos = BlockSize
      /\ a.generated_since_reseed = 0 /\ a.key = k /\ a.fork_guard = r.fork_guard
  BY <1>1
<1>6. Good(a, quota)
  BY <1>4, <1>5, StartOfStream
<1> QED BY <1>5, <1>6 DEF a

LEMMA BlendedKeyType ==
  ASSUME NEW r \in Generator, NEW e \in CpuEntropy
  PROVE  /\ BlendedKey(r, e) \in Key
         /\ BlendedKey(r, e).seed = r.key.seed
         /\ Len(r.key.blends) \in Nat
         /\ Len(BlendedKey(r, e).blends) = Len(r.key.blends) + 1
<1>1. r.key \in Key /\ r.counter \in Ctr
  BY GeneratorFields
<1>2. r.key.seed \in OsSeed /\ r.key.blends \in Seq(Ctr \X CpuEntropy)
      /\ r.key = [seed |-> r.key.seed, blends |-> r.key.blends]
  BY <1>1 DEF Key
<1> DEFINE longer == Append(r.key.blends, <<r.counter, e>>)
<1>3. BlendedKey(r, e) = [seed |-> r.key.seed, blends |-> longer]
  <2> DEFINE k == r.key
  <2>1. k = [seed |-> k.seed, blends |-> k.blends]
    BY <1>2
  <2>2. BlendedKey(r, e) = [k EXCEPT !.blends = longer]
    BY DEF BlendedKey
  <2> HIDE DEF k, longer
  <2>3. BlendedKey(r, e) = [seed |-> k.seed, blends |-> longer]
    BY <2>1, <2>2
  <2> QED BY <2>3 DEF k
<1>4. longer \in Seq(Ctr \X CpuEntropy) /\ Len(longer) = Len(r.key.blends) + 1 /\ Len(r.key.blends) \in Nat
  BY <1>1, <1>2
<1> HIDE DEF longer
<1> QED BY <1>2, <1>3, <1>4 DEF Key

LEMMA ProcessTypes ==
  ASSUME ForkTypeOK, NEW p \in Proc, NEW i \in Pid,
         \/ BeginInstall(p) \/ EndInstall(p) \/ ExitProcess(p) \/ StartProcess(p, i)
         \/ \E q \in Proc : ForkProcess(p, q, i)
  PROVE  ForkTypeOK'
<1>1. CASE BeginInstall(p)
  BY <1>1 DEF ForkTypeOK, BeginInstall
<1>2. CASE EndInstall(p)
  BY <1>2, ForkGuardAssumption DEF ForkTypeOK, EndInstall
<1>3. CASE ExitProcess(p)
  BY <1>3 DEF ForkTypeOK, ExitProcess
<1>4. CASE StartProcess(p, i)
  BY <1>4, ForkGuardAssumption DEF ForkTypeOK, StartProcess
<1>5. ASSUME NEW q \in Proc, ForkProcess(p, q, i) PROVE ForkTypeOK'
  <2>1. ChildGeneration(p) \in Nat /\ ParentGeneration(p) \in Nat /\ i \in Nat
    BY ForkGuardAssumption DEF ForkTypeOK, ChildGeneration, ParentGeneration
  <2> QED BY <1>5, <2>1 DEF ForkTypeOK, ForkProcess
<1> QED BY <1>1, <1>2, <1>3, <1>4, <1>5

LEMMA InstallTypes ==
  ASSUME ForkTypeOK, NEW p \in Proc, BeginInstall(p) \/ EndInstall(p)
  PROVE  ForkTypeOK'
<1>1. CASE BeginInstall(p)
  BY <1>1 DEF ForkTypeOK, BeginInstall
<1>2. CASE EndInstall(p)
  BY <1>2, ForkGuardAssumption DEF ForkTypeOK, EndInstall
<1> QED BY <1>1, <1>2

LEMMA SameForkTypes == ForkTypeOK /\ UNCHANGED forkVars => ForkTypeOK'
BY DEF ForkTypeOK, forkVars

LEMMA BasicsInit == Init => Basics
<1> SUFFICES ASSUME Init PROVE Basics
  OBVIOUS
<1>1. ForkTypeOK
  BY DEF Init, ForkInit, ForkTypeOK
<1>2. TypeOK
  BY <1>1 DEF Init, TypeOK
<1> QED BY <1>2 DEF Init, Basics, CallShape, CursorsAgree

(* The steps of a call that leave its generator as it is.                   *)
QuietStep(p) ==
  \/ CallNew(p) \/ SeedFails(p) \/ ClaimInstall(p) \/ FinishInstall(p) \/ CheckGuard(p)
  \/ FillDone(p) \/ BeginReseed(p) \/ ReseedFails(p)
  \/ \E n \in Length : CallFill(p, n)

(* What such a step does to the call.                                       *)
LEMMA QuietEffect ==
  ASSUME Basics, NEW p \in Proc, QuietStep(p)
  PROVE  /\ status[p] = "running" /\ status' = status /\ pid' = pid /\ generation' = generation
         /\ rng' = rng /\ reseed_interval' = reseed_interval /\ UNCHANGED history
         /\ left' \in [Proc -> Nat]
         /\ \E l \in Label : /\ pc' = [pc EXCEPT ![p] = l]
                             /\ l \notin {"idle", "seed"} => rng[p] # NoRng
                             /\ l = "fill" => Unchanged(rng[p].fork_guard, p)
                             /\ l = "reseed" => /\ pc[p] = "fill"
                                                /\ rng[p].generated_since_reseed >= Quota
                             /\ l \in {"capture", "install"} => pc[p] \in {"capture", "install"}
         /\ \/ UNCHANGED once
            \/ BeginInstall(p) /\ pc[p] = "capture" /\ pc'[p] = "install"
            \/ EndInstall(p) /\ pc[p] = "install" /\ pc'[p] = "capture"
<1> USE BasicFacts DEF At, Goto, Return, Label, forkVars
<1>1. CASE CallNew(p)
  BY <1>1 DEF CallNew
<1>2. CASE SeedFails(p)
  BY <1>2 DEF SeedFails
<1>3. CASE ClaimInstall(p)
  BY <1>3 DEF ClaimInstall, BeginInstall, Basics, CallShape
<1>4. CASE FinishInstall(p)
  BY <1>4 DEF FinishInstall, EndInstall, Basics, CallShape
<1>5. CASE CheckGuard(p)
  BY <1>5 DEF CheckGuard, Basics, CallShape
<1>6. CASE FillDone(p)
  BY <1>6 DEF FillDone
<1>7. CASE BeginReseed(p)
  BY <1>7 DEF BeginReseed, Basics, CallShape
<1>8. CASE ReseedFails(p)
  BY <1>8 DEF ReseedFails
<1>9. ASSUME NEW n \in Length, CallFill(p, n)
      PROVE  CallFill(p, n) /\ n \in Nat
  BY <1>9, KeyGeneratorAssumption
<1>10. CASE \E n \in Length : CallFill(p, n)
  BY <1>9, <1>10 DEF CallFill
<1> QED BY <1>1, <1>2, <1>3, <1>4, <1>5, <1>6, <1>7, <1>8, <1>10 DEF QuietStep

LEMMA QuietBasics ==
  ASSUME Basics, NEW p \in Proc, QuietStep(p)
  PROVE  Basics'
<1>1. PICK l \in Label : pc' = [pc EXCEPT ![p] = l] /\ (l \notin {"idle", "seed"} => rng[p] # NoRng)
  BY QuietEffect
<1>2. ForkTypeOK'
  BY QuietEffect, BasicFacts, InstallTypes, SameForkTypes DEF forkVars
<1> QED BY <1>1, <1>2, QuietEffect, BasicsQuiet

(* The generator a constructor makes: nothing output, no guard yet.         *)
FirstGenerator(s) ==
  [key |-> [seed |-> s, blends |-> <<>>], counter |-> FirstCtr,
   buffer |-> EmptyBuffer, buffer_pos |-> BlockSize,
   generated_since_reseed |-> 0, fork_guard |-> NoGuard]

LEMMA FirstGood ==
  ASSUME NEW s \in OsSeed, NEW quota \in Nat
  PROVE  Good(FirstGenerator(s), quota)
<1> DEFINE a == FirstGenerator(s)
<1>1. FirstCtr \in Ctr /\ BlockSize \in 0 .. BlockSize /\ NoGuard \in Guard
  BY Constants DEF NoGuard, Guard
<1>2. EmptyBuffer \in [Offset -> Keystream \cup {Zero}]
  BY DEF EmptyBuffer
<1>3. a \in Generator
  BY <1>1, <1>2, FirstKey DEF FirstGenerator, Generator
<1>4. /\ a.counter = FirstCtr /\ a.buffer = EmptyBuffer /\ a.buffer_pos = BlockSize
      /\ a.generated_since_reseed = 0
  BY DEF FirstGenerator
<1> HIDE DEF a
<1> QED BY <1>3, <1>4, StartOfStream DEF a

LEMMA SeedEffect ==
  ASSUME Basics, NEW p \in Proc, SeedFromOs(p)
  PROVE  \E s \in OsSeed \ seeded :
           /\ seeded' = seeded \cup {s}
           /\ rng' = [rng EXCEPT ![p] = FirstGenerator(s)]
           /\ status[p] = "running" /\ pc[p] = "seed" /\ pc' = [pc EXCEPT ![p] = "capture"]
           /\ UNCHANGED <<forkVars, reseed_interval, left, emitted, repeated, blended, retired>>
BY DEF SeedFromOs, At, Goto, FirstGenerator

LEMMA SeedBasics ==
  ASSUME Basics, NEW p \in Proc, SeedFromOs(p)
  PROVE  Basics'
<1>1. PICK s \in OsSeed \ seeded :
           /\ seeded' = seeded \cup {s}
           /\ rng' = [rng EXCEPT ![p] = FirstGenerator(s)]
           /\ status[p] = "running" /\ pc[p] = "seed" /\ pc' = [pc EXCEPT ![p] = "capture"]
           /\ UNCHANGED <<forkVars, reseed_interval, left, emitted, repeated, blended>>
  BY SeedEffect
<1>2. Good(FirstGenerator(s), Quota)
  BY BasicFacts, FirstGood
<1>3. /\ seeded' \subseteq OsSeed /\ left' \in [Proc -> Nat]
      /\ emitted' \subseteq Keystream /\ blended' \subseteq Keystream
      /\ UNCHANGED <<forkVars, reseed_interval>> /\ "capture" \in Label
  BY <1>1, BasicFacts DEF Label
<1> HIDE DEF FirstGenerator
<1> QED BY <1>1, <1>2, <1>3, BasicsReplace

LEMMA GuardedGood ==
  ASSUME NEW r, NEW quota, Good(r, quota), NEW g \in Guard, NEW a,
         a = [r EXCEPT !.fork_guard = g]
  PROVE  /\ Good(a, quota) /\ a.fork_guard = g /\ a.key = r.key
         /\ a.generated_since_reseed = r.generated_since_reseed
<1>1. r = [key |-> r.key, counter |-> r.counter, buffer |-> r.buffer, buffer_pos |-> r.buffer_pos,
           generated_since_reseed |-> r.generated_since_reseed, fork_guard |-> r.fork_guard]
  BY DEF Good, Generator
<1>2. a = [key |-> r.key, counter |-> r.counter, buffer |-> r.buffer, buffer_pos |-> r.buffer_pos,
           generated_since_reseed |-> r.generated_since_reseed, fork_guard |-> g]
  BY <1>1
<1>3. /\ a.fork_guard = g /\ a.key = r.key /\ a.counter = r.counter /\ a.buffer = r.buffer
      /\ a.buffer_pos = r.buffer_pos /\ a.generated_since_reseed = r.generated_since_reseed
  BY <1>2
<1>4. a \in Generator
  BY <1>2, GeneratorFields DEF Good, Generator
<1>5. PICK c \in Ctr : Cursor(r, c)
  BY DEF Good
<1>6. Cursor(a, c)
  BY <1>3, <1>5 DEF Cursor
<1> QED BY <1>3, <1>4, <1>5, <1>6 DEF Good

LEMMA CapturedIsGuard ==
  ASSUME ForkTypeOK, NEW p \in Proc, OnceIsSet(p)
  PROVE  Capture(p) \in Guard
BY DEF ForkTypeOK, OnceIsSet, Capture, Guard

LEMMA CaptureEffect ==
  ASSUME Basics, NEW p \in Proc, CaptureGuard(p)
  PROVE  \E a :
           /\ rng' = [rng EXCEPT ![p] = a]
           /\ rng[p] # NoRng /\ Good(a, Quota) /\ a.fork_guard = Capture(p) /\ a.key = rng[p].key
           /\ a.generated_since_reseed = rng[p].generated_since_reseed
           /\ status[p] = "running" /\ pc[p] = "capture" /\ OnceIsSet(p)
           /\ \E l \in {"idle", "fill"} : pc' = [pc EXCEPT ![p] = l]
           /\ UNCHANGED <<forkVars, reseed_interval, left, history>>
<1> DEFINE a == [rng[p] EXCEPT !.fork_guard = Capture(p)]
<1>1. /\ rng' = [rng EXCEPT ![p] = a] /\ OnceIsSet(p)
      /\ status[p] = "running" /\ pc[p] = "capture"
      /\ \E l \in {"idle", "fill"} : pc' = [pc EXCEPT ![p] = l]
      /\ UNCHANGED <<forkVars, reseed_interval, left, history>>
  BY DEF CaptureGuard, At, Goto
<1>2. rng[p] # NoRng
  BY <1>1 DEF Basics, CallShape
<1>3. Capture(p) \in Guard /\ Good(rng[p], Quota)
  BY <1>1, <1>2, BasicFacts, CapturedIsGuard
<1>4. /\ Good(a, Quota) /\ a.fork_guard = Capture(p) /\ a.key = rng[p].key
      /\ a.generated_since_reseed = rng[p].generated_since_reseed
  BY <1>3, GuardedGood
<1> HIDE DEF a
<1> QED BY <1>1, <1>2, <1>4

LEMMA CaptureBasics ==
  ASSUME Basics, NEW p \in Proc, CaptureGuard(p)
  PROVE  Basics'
<1>1. PICK a :
           /\ rng' = [rng EXCEPT ![p] = a] /\ Good(a, Quota)
           /\ status[p] = "running"
           /\ \E l \in {"idle", "fill"} : pc' = [pc EXCEPT ![p] = l]
           /\ UNCHANGED <<forkVars, reseed_interval, left, history>>
  BY CaptureEffect
<1>2. PICK l \in {"idle", "fill"} : pc' = [pc EXCEPT ![p] = l]
  BY <1>1
<1>3. l \in Label /\ UNCHANGED <<forkVars, reseed_interval>> /\ left' \in [Proc -> Nat]
      /\ seeded' \subseteq OsSeed /\ emitted' \subseteq Keystream /\ blended' \subseteq Keystream
  BY <1>1, BasicFacts DEF Label, history
<1> QED BY <1>1, <1>2, <1>3, BasicsReplace

(* How many bytes the loop of fill_checked outputs before the next reseed.  *)
ChunkSize(p) == MinOf(left[p], Quota - rng[p].generated_since_reseed)

LEMMA FillEffect ==
  ASSUME Basics, NEW p \in Proc, FillChunk(p)
  PROVE  LET r == rng[p]
             n == ChunkSize(p)
         IN /\ r # NoRng /\ Good(r, Quota) /\ n \in Nat /\ left[p] - n \in Nat
            /\ r.generated_since_reseed + n <= Quota
            /\ r.generated_since_reseed + n + 4 * BlockSize <= CtrMod * BlockSize
            /\ rng' = [rng EXCEPT ![p] = AfterChunk(r, n)]
            /\ left' = [left EXCEPT ![p] = left[p] - n]
            /\ emitted' = emitted \cup Produced(r, n)
            /\ repeated' = repeated \cup (emitted \cap Produced(r, n))
            /\ status[p] = "running" /\ pc[p] = "fill"
            /\ UNCHANGED <<forkVars, reseed_interval, pc, seeded, blended, retired>>
<1> DEFINE r == rng[p]
           n == ChunkSize(p)
<1>1. /\ rng' = [rng EXCEPT ![p] = AfterChunk(r, n)]
      /\ left' = [left EXCEPT ![p] = left[p] - n]
      /\ emitted' = emitted \cup Produced(r, n)
      /\ repeated' = repeated \cup (emitted \cap Produced(r, n))
      /\ status[p] = "running" /\ pc[p] = "fill"
      /\ UNCHANGED <<forkVars, reseed_interval, pc, seeded, blended, retired>>
  BY DEF FillChunk, At, ChunkSize
<1>2. r # NoRng /\ Good(r, Quota)
  BY <1>1, BasicFacts DEF Basics, CallShape
<1>3. left[p] \in Nat /\ Quota \in Nat /\ r.generated_since_reseed \in Nat
      /\ r.generated_since_reseed <= Quota /\ Quota + 4 * BlockSize <= CtrMod * BlockSize
      /\ 4 * BlockSize \in Nat /\ CtrMod * BlockSize \in Nat
  BY <1>2, BasicFacts, GeneratorFields, Constants DEF Good
<1>4. n \in Nat /\ left[p] - n \in Nat /\ r.generated_since_reseed + n <= Quota
  BY <1>3 DEF ChunkSize, MinOf
<1> HIDE DEF n
<1>5. r.generated_since_reseed + n + 4 * BlockSize <= CtrMod * BlockSize
  <2> DEFINE x == 4 * BlockSize
             y == CtrMod * BlockSize
             g == r.generated_since_reseed
  <2>1. x \in Nat /\ y \in Nat /\ g \in Nat /\ Quota \in Nat /\ Quota + x <= y /\ g + n <= Quota
    BY <1>3, <1>4
  <2> HIDE DEF x, y, g
  <2>2. g + n + x <= y
    BY <1>4, <2>1
  <2> QED BY <2>2 DEF x, y, g
<1> QED BY <1>1, <1>2, <1>4, <1>5 DEF n

LEMMA FillBasics ==
  ASSUME Basics, NEW p \in Proc, FillChunk(p)
  PROVE  Basics'
<1> DEFINE r == rng[p]
           n == ChunkSize(p)
           a == AfterChunk(r, n)
<1>1. /\ Good(r, Quota) /\ n \in Nat /\ left[p] - n \in Nat
      /\ r.generated_since_reseed + n <= Quota
      /\ r.generated_since_reseed + n + 4 * BlockSize <= CtrMod * BlockSize
      /\ rng' = [rng EXCEPT ![p] = a]
      /\ left' = [left EXCEPT ![p] = left[p] - n]
      /\ emitted' = emitted \cup Produced(r, n)
      /\ status[p] = "running" /\ pc[p] = "fill"
      /\ UNCHANGED <<forkVars, reseed_interval, pc, seeded, blended>>
  BY FillEffect
<1> HIDE DEF n
<1>2. PICK c \in Ctr : Cursor(r, c)
  BY <1>1 DEF Good
<1>3. r \in Generator
  BY <1>1 DEF Good
<1>4. Good(a, Quota)
  BY <1>1, <1>2, <1>3, ChunkCursor DEF Good
<1>5. Produced(r, n) \subseteq Keystream
  BY <1>1, <1>2, <1>3, ChunkBytes
<1>6. pc' = [pc EXCEPT ![p] = "fill"] /\ left' \in [Proc -> Nat] /\ "fill" \in Label
      /\ seeded' \subseteq OsSeed /\ emitted' \subseteq Keystream /\ blended' \subseteq Keystream
  BY <1>1, <1>5, BasicFacts DEF Label
<1> HIDE DEF a
<1> QED BY <1>1, <1>4, <1>6, BasicsReplace

LEMMA BlendEffect ==
  ASSUME Basics, NEW p \in Proc, ReseedBlend(p)
  PROVE  \E e \in CpuEntropy :
           /\ rng' = [rng EXCEPT ![p] = Rekeyed(rng[p], BlendedKey(rng[p], e))]
           /\ rng[p] # NoRng /\ Good(rng[p], Quota)
           /\ rng[p].generated_since_reseed + 4 * BlockSize <= CtrMod * BlockSize
           /\ blended' = blended \cup BlendBlocks(rng[p])
           /\ retired' = retired \cup {rng[p].key}
           /\ status[p] = "running" /\ pc[p] = "reseed" /\ pc' = [pc EXCEPT ![p] = "capture"]
           /\ UNCHANGED <<forkVars, reseed_interval, left, seeded, emitted, repeated>>
<1>1. PICK e \in CpuEntropy :
           /\ rng' = [rng EXCEPT ![p] = Rekeyed(rng[p], BlendedKey(rng[p], e))]
           /\ blended' = blended \cup BlendBlocks(rng[p])
           /\ retired' = retired \cup {rng[p].key}
           /\ status[p] = "running" /\ pc[p] = "reseed" /\ pc' = [pc EXCEPT ![p] = "capture"]
           /\ UNCHANGED <<forkVars, reseed_interval, left, seeded, emitted, repeated>>
  BY DEF ReseedBlend, At, Goto
<1>2. rng[p] # NoRng /\ Good(rng[p], Quota)
  BY <1>1, BasicFacts DEF Basics, CallShape
<1>3. rng[p].generated_since_reseed + 4 * BlockSize <= CtrMod * BlockSize
  <2>1. /\ rng[p].generated_since_reseed \in Nat /\ rng[p].generated_since_reseed <= Quota
        /\ Quota \in Nat /\ Quota + 4 * BlockSize <= CtrMod * BlockSize
        /\ 4 * BlockSize \in Nat /\ CtrMod * BlockSize \in Nat
    BY <1>2, BasicFacts, GeneratorFields, Constants DEF Good
  <2> DEFINE x == 4 * BlockSize
             y == CtrMod * BlockSize
  <2>2. x \in Nat /\ y \in Nat /\ Quota + x <= y
    BY <2>1
  <2> HIDE DEF x, y
  <2>3. rng[p].generated_since_reseed + x <= y
    BY <2>1, <2>2
  <2> QED BY <2>3 DEF x, y
<1> QED BY <1>1, <1>2, <1>3

LEMMA BlendBasics ==
  ASSUME Basics, NEW p \in Proc, ReseedBlend(p)
  PROVE  Basics'
<1>1. PICK e \in CpuEntropy :
           /\ rng' = [rng EXCEPT ![p] = Rekeyed(rng[p], BlendedKey(rng[p], e))]
           /\ Good(rng[p], Quota)
           /\ rng[p].generated_since_reseed + 4 * BlockSize <= CtrMod * BlockSize
           /\ blended' = blended \cup BlendBlocks(rng[p])
           /\ status[p] = "running" /\ pc' = [pc EXCEPT ![p] = "capture"]
           /\ UNCHANGED <<forkVars, reseed_interval, left, seeded, emitted, repeated>>
  BY BlendEffect
<1> DEFINE a == Rekeyed(rng[p], BlendedKey(rng[p], e))
<1>2. rng[p] \in Generator /\ Quota \in Nat
  BY <1>1, BasicFacts DEF Good
<1>3. Good(a, Quota)
  BY <1>2, BlendedKeyType, RekeyedGood
<1>4. BlendBlocks(rng[p]) \subseteq Keystream
  BY <1>1, <1>2, BlendBytes DEF Good
<1>5. "capture" \in Label /\ left' \in [Proc -> Nat] /\ UNCHANGED <<forkVars, reseed_interval>>
      /\ seeded' \subseteq OsSeed /\ emitted' \subseteq Keystream /\ blended' \subseteq Keystream
  BY <1>1, <1>4, BasicFacts DEF Label
<1>6. rng' = [rng EXCEPT ![p] = a]
  BY <1>1
<1> HIDE DEF a
<1> QED BY <1>1, <1>3, <1>5, <1>6, BasicsReplace

LEMMA ReseedOsEffect ==
  ASSUME Basics, NEW p \in Proc, ReseedFromOs(p)
  PROVE  \E s \in OsSeed \ seeded :
           /\ seeded' = seeded \cup {s} /\ retired' = retired \cup {rng[p].key}
           /\ rng' = [rng EXCEPT ![p] = Rekeyed(rng[p], [seed |-> s, blends |-> <<>>])]
           /\ rng[p] # NoRng /\ Good(rng[p], Quota)
           /\ status[p] = "running" /\ pc[p] = "reseed" /\ pc' = [pc EXCEPT ![p] = "capture"]
           /\ UNCHANGED <<forkVars, reseed_interval, left, emitted, repeated, blended>>
<1>1. PICK s \in OsSeed \ seeded :
           /\ seeded' = seeded \cup {s} /\ retired' = retired \cup {rng[p].key}
           /\ rng' = [rng EXCEPT ![p] = Rekeyed(rng[p], [seed |-> s, blends |-> <<>>])]
           /\ status[p] = "running" /\ pc[p] = "reseed" /\ pc' = [pc EXCEPT ![p] = "capture"]
           /\ UNCHANGED <<forkVars, reseed_interval, left, emitted, repeated, blended>>
  BY DEF ReseedFromOs, At, Goto
<1>2. rng[p] # NoRng /\ Good(rng[p], Quota)
  BY <1>1, BasicFacts DEF Basics, CallShape
<1> QED BY <1>1, <1>2

LEMMA ReseedOsBasics ==
  ASSUME Basics, NEW p \in Proc, ReseedFromOs(p)
  PROVE  Basics'
<1>1. PICK s \in OsSeed \ seeded :
           /\ seeded' = seeded \cup {s}
           /\ rng' = [rng EXCEPT ![p] = Rekeyed(rng[p], [seed |-> s, blends |-> <<>>])]
           /\ Good(rng[p], Quota)
           /\ status[p] = "running" /\ pc' = [pc EXCEPT ![p] = "capture"]
           /\ UNCHANGED <<forkVars, reseed_interval, left, emitted, repeated, blended>>
  BY ReseedOsEffect
<1> DEFINE a == Rekeyed(rng[p], [seed |-> s, blends |-> <<>>])
<1>2. Good(a, Quota)
  BY <1>1, FirstKey, RekeyedGood, BasicFacts DEF Good
<1>3. "capture" \in Label /\ left' \in [Proc -> Nat] /\ UNCHANGED <<forkVars, reseed_interval>>
      /\ seeded' \subseteq OsSeed /\ emitted' \subseteq Keystream /\ blended' \subseteq Keystream
  BY <1>1, BasicFacts DEF Label
<1>4. rng' = [rng EXCEPT ![p] = a]
  BY <1>1
<1> HIDE DEF a
<1> QED BY <1>1, <1>2, <1>3, <1>4, BasicsReplace

LEMMA DropBasics ==
  ASSUME Basics, NEW p \in Proc, Drop(p)
  PROVE  Basics'
<1>1. /\ status[p] = "running" /\ pc[p] = "idle" /\ rng' = [rng EXCEPT ![p] = NoRng]
      /\ UNCHANGED <<forkVars, reseed_interval, pc, left, history>>
  BY DEF Drop, At
<1>2. Typed
  BY <1>1, BasicFacts, SameForkTypes DEF Typed, history
<1>3. rng'[p] = NoRng /\ \A q \in Proc \ {p} : rng'[q] = rng[q]
  BY <1>1, BasicFacts
<1> QED BY <1>1, <1>2, <1>3, BasicsLocal DEF forkVars

LEMMA ForkEffect ==
  ASSUME Basics, NEW p \in Proc, NEW q \in Proc, NEW i \in Pid, Fork(p, q, i)
  PROVE  /\ p # q /\ status[p] = "running" /\ status[q] = "unborn" /\ Assignable(i)
         /\ status' = [status EXCEPT ![q] = "running"] /\ pid' = [pid EXCEPT ![q] = i]
         /\ generation'[q] = ChildGeneration(p) /\ once' = [once EXCEPT ![q] = once[p]]
         /\ \A x \in Proc \ {q} : generation'[x] = generation[x]
         /\ rng[q] = NoRng /\ pc[q] = "idle"
         /\ rng'[q] = (IF pc[p] = "idle" THEN rng[p] ELSE NoRng)
         /\ \A x \in Proc \ {q} : rng'[x] = rng[x]
         /\ rng' \in [Proc -> Generator \cup {NoRng}] /\ ForkTypeOK'
         /\ UNCHANGED <<reseed_interval, pc, left, history>>
<1>1. ForkProcess(p, q, i) /\ UNCHANGED <<reseed_interval, pc, left, history>>
      /\ rng' = [rng EXCEPT ![q] = IF pc[p] = "idle" THEN rng[p] ELSE NoRng]
  BY DEF Fork
<1>2. ForkTypeOK' /\ ForkTypeOK
  BY <1>1, BasicFacts, ProcessTypes
<1>3. /\ p # q /\ status[p] = "running" /\ status[q] = "unborn" /\ Assignable(i)
      /\ status' = [status EXCEPT ![q] = "running"] /\ pid' = [pid EXCEPT ![q] = i]
      /\ once' = [once EXCEPT ![q] = once[p]]
      /\ generation'[q] = ChildGeneration(p)
      /\ \A x \in Proc \ {q} : generation'[x] = generation[x]
  BY <1>1, <1>2 DEF ForkProcess, ForkTypeOK, ParentGeneration
<1>4. rng[q] = NoRng /\ pc[q] = "idle"
  BY <1>3 DEF Basics, CallShape
<1>5. /\ rng'[q] = (IF pc[p] = "idle" THEN rng[p] ELSE NoRng)
      /\ \A x \in Proc \ {q} : rng'[x] = rng[x]
      /\ rng' \in [Proc -> Generator \cup {NoRng}]
  BY <1>1, BasicFacts
<1> QED BY <1>1, <1>2, <1>3, <1>4, <1>5

LEMMA ForkBasics ==
  ASSUME Basics, NEW p \in Proc, NEW q \in Proc, NEW i \in Pid, Fork(p, q, i)
  PROVE  Basics'
<1>1. Typed
  BY ForkEffect, BasicFacts DEF Typed, history
<1>2. \A x \in Proc : rng'[x] # NoRng => Good(rng'[x], Quota)
  BY ForkEffect, BasicFacts
<1>3. \A x \in Proc : /\ status'[x] # "running" => rng'[x] = NoRng /\ pc'[x] = "idle"
                      /\ pc'[x] \notin {"idle", "seed"} => rng'[x] # NoRng
  BY ForkEffect, BasicFacts DEF Basics, CallShape, ForkTypeOK
<1> QED BY <1>1, <1>2, <1>3, BasicsOf

LEMMA ForkInsideEffect ==
  ASSUME Basics, NEW p \in Proc, NEW q \in Proc, NEW i \in Pid, ForkInside(p, q, i)
  PROVE  /\ pc[p] \in ForkInCall /\ p # q /\ status[q] = "unborn" /\ Assignable(i)
         /\ rng[q] = NoRng /\ rng'[q] = rng[p] /\ pc'[q] = pc[p]
         /\ status[p] = "running" /\ status' = [status EXCEPT ![q] = "running"]
         /\ \A x \in Proc \ {q} : /\ rng'[x] = rng[x] /\ pc'[x] = pc[x] /\ pid'[x] = pid[x]
                                  /\ once'[x] = once[x] /\ generation'[x] = generation[x]
         /\ pid' = [pid EXCEPT ![q] = i] /\ once' = [once EXCEPT ![q] = once[p]]
         /\ generation'[q] = ChildGeneration(p)
         /\ rng' \in [Proc -> Generator \cup {NoRng}] /\ pc' \in [Proc -> Label]
         /\ left' \in [Proc -> Nat] /\ ForkTypeOK'
         /\ UNCHANGED <<reseed_interval, history>>
<1>1. /\ pc[p] \in ForkInCall /\ ForkProcess(p, q, i) /\ UNCHANGED <<reseed_interval, history>>
      /\ rng' = [rng EXCEPT ![q] = rng[p]] /\ pc' = [pc EXCEPT ![q] = pc[p]]
      /\ left' = [left EXCEPT ![q] = left[p]]
  BY DEF ForkInside
<1>2. ForkTypeOK' /\ ForkTypeOK
  BY <1>1, BasicFacts, ProcessTypes
<1>3. /\ p # q /\ status[p] = "running" /\ status[q] = "unborn" /\ Assignable(i)
      /\ status' = [status EXCEPT ![q] = "running"]
      /\ pid' = [pid EXCEPT ![q] = i] /\ once' = [once EXCEPT ![q] = once[p]]
      /\ generation'[q] = ChildGeneration(p)
      /\ \A x \in Proc \ {q} : /\ pid'[x] = pid[x] /\ once'[x] = once[x]
                               /\ generation'[x] = generation[x]
  BY <1>1, <1>2 DEF ForkProcess, ForkTypeOK, ParentGeneration
<1>4. rng[q] = NoRng
  BY <1>3 DEF Basics, CallShape
<1>5. /\ rng'[q] = rng[p] /\ pc'[q] = pc[p]
      /\ \A x \in Proc \ {q} : rng'[x] = rng[x] /\ pc'[x] = pc[x]
      /\ rng' \in [Proc -> Generator \cup {NoRng}]
      /\ pc' \in [Proc -> Label] /\ left' \in [Proc -> Nat]
  BY <1>1, BasicFacts
<1> QED BY <1>1, <1>2, <1>3, <1>4, <1>5

LEMMA ForkInsideBasics ==
  ASSUME Basics, NEW p \in Proc, NEW q \in Proc, NEW i \in Pid, ForkInside(p, q, i)
  PROVE  Basics'
<1>1. Typed
  BY ForkInsideEffect, BasicFacts DEF Typed, history
<1>2. \A x \in Proc : rng'[x] # NoRng => Good(rng'[x], Quota)
  BY ForkInsideEffect, BasicFacts
<1>3. \A x \in Proc : /\ status'[x] # "running" => rng'[x] = NoRng /\ pc'[x] = "idle"
                      /\ pc'[x] \notin {"idle", "seed"} => rng'[x] # NoRng
  BY ForkInsideEffect, BasicFacts DEF Basics, CallShape, ForkTypeOK
<1> QED BY <1>1, <1>2, <1>3, BasicsOf

LEMMA StartEffect ==
  ASSUME Basics, NEW p \in Proc, NEW i \in Pid, Start(p, i)
  PROVE  /\ status[p] = "unborn" /\ status' = [status EXCEPT ![p] = "running"]
         /\ pid' = [pid EXCEPT ![p] = i] /\ UNCHANGED <<generation, once>>
         /\ rng[p] = NoRng /\ pc[p] = "idle" /\ ForkTypeOK'
         /\ UNCHANGED <<reseed_interval, rng, pc, left, history>>
<1>1. StartProcess(p, i) /\ UNCHANGED <<reseed_interval, rng, pc, left, history>>
  BY DEF Start, callVars
<1>2. ForkTypeOK'
  BY <1>1, BasicFacts, ProcessTypes
<1> QED BY <1>1, <1>2 DEF StartProcess, Basics, CallShape

LEMMA StartBasics ==
  ASSUME Basics, NEW p \in Proc, NEW i \in Pid, Start(p, i)
  PROVE  Basics'
<1>1. Typed
  BY StartEffect, BasicFacts DEF Typed, history
<1>2. \A x \in Proc : rng'[x] # NoRng => Good(rng'[x], Quota)
  BY StartEffect, BasicFacts
<1>3. \A x \in Proc : /\ status'[x] # "running" => rng'[x] = NoRng /\ pc'[x] = "idle"
                      /\ pc'[x] \notin {"idle", "seed"} => rng'[x] # NoRng
  BY StartEffect, BasicFacts DEF Basics, CallShape, ForkTypeOK
<1> QED BY <1>1, <1>2, <1>3, BasicsOf

LEMMA ExitEffect ==
  ASSUME Basics, NEW p \in Proc, Exit(p)
  PROVE  /\ status[p] = "running" /\ status' = [status EXCEPT ![p] = "exited"]
         /\ pid' = pid /\ generation' = [generation EXCEPT ![p] = 0]
         /\ once' = [once EXCEPT ![p] = "unset"]
         /\ rng' = [rng EXCEPT ![p] = NoRng] /\ pc' = [pc EXCEPT ![p] = "idle"]
         /\ left' = [left EXCEPT ![p] = 0] /\ ForkTypeOK'
         /\ UNCHANGED <<reseed_interval, history>>
<1>1. ExitProcess(p)
  BY DEF Exit
<1>2. ForkTypeOK'
  BY <1>1, BasicFacts DEF ForkTypeOK, ExitProcess
<1> QED BY <1>1, <1>2 DEF Exit, ExitProcess

LEMMA ExitBasics ==
  ASSUME Basics, NEW p \in Proc, Exit(p)
  PROVE  Basics'
<1>1. Typed
  BY ExitEffect, BasicFacts DEF Typed, history, Label
<1>2. \A x \in Proc : rng'[x] # NoRng => Good(rng'[x], Quota)
  BY ExitEffect, BasicFacts
<1>3. \A x \in Proc : /\ status'[x] # "running" => rng'[x] = NoRng /\ pc'[x] = "idle"
                      /\ pc'[x] \notin {"idle", "seed"} => rng'[x] # NoRng
  BY ExitEffect, BasicFacts DEF Basics, CallShape, ForkTypeOK
<1> QED BY <1>1, <1>2, <1>3, BasicsOf

(* A fork of either kind: between calls, or by the thread inside one.        *)
Forked(p, q, i) == Fork(p, q, i) \/ ForkInside(p, q, i)

LEMMA ForkedEffect ==
  ASSUME SafeSetting, Basics, NEW p \in Proc, NEW q \in Proc, NEW i \in Pid, Forked(p, q, i)
  PROVE  /\ p # q /\ status[q] = "unborn" /\ Assignable(i)
         /\ status' = [status EXCEPT ![q] = "running"]
         /\ pid' = [pid EXCEPT ![q] = i] /\ once' = [once EXCEPT ![q] = once[p]]
         /\ generation'[q] = ChildGeneration(p)
         /\ \A x \in Proc \ {q} : /\ generation'[x] = generation[x]
                                  /\ rng'[x] = rng[x] /\ pc'[x] = pc[x]
         /\ rng[q] = NoRng /\ rng'[q] \in {rng[p], NoRng}
         /\ pc'[q] \in {"idle", "seed", "check"}
         /\ UNCHANGED <<reseed_interval, history>>
<1>1. CASE Fork(p, q, i)
  BY <1>1, ForkEffect
<1>2. CASE ForkInside(p, q, i)
  BY <1>2, ForkInsideEffect DEF SafeSetting
<1> QED BY <1>1, <1>2 DEF Forked

(* The steps of KeyGenerator, quiet ones together.                          *)
LEMMA StepCases ==
  ASSUME [Next]_vars
  PROVE  \/ \E p \in Proc : \/ QuietStep(p) \/ SeedFromOs(p) \/ CaptureGuard(p) \/ FillChunk(p)
                            \/ ReseedBlend(p) \/ ReseedFromOs(p) \/ Drop(p) \/ Exit(p)
         \/ \E p, q \in Proc, i \in Pid : Fork(p, q, i) \/ ForkInside(p, q, i)
         \/ \E p \in Proc, i \in Pid : Start(p, i)
         \/ UNCHANGED vars
BY DEF Next, ThreadStep, QuietStep

LEMMA BasicsStep == Basics /\ [Next]_vars => Basics'
<1> SUFFICES ASSUME Basics, [Next]_vars PROVE Basics'
  OBVIOUS
<1>1. CASE UNCHANGED vars
  BY <1>1 DEF vars, forkVars, callVars, history, Basics, TypeOK, ForkTypeOK, CallShape,
     CursorsAgree, Quota
<1> QED
  BY <1>1, StepCases, QuietBasics, SeedBasics, CaptureBasics, FillBasics, BlendBasics,
     ReseedOsBasics, DropBasics, ExitBasics, ForkBasics, ForkInsideBasics, StartBasics

(* Every generator has the shape the code gives it, the count of bytes      *)
(* never passes the interval, and what was output was keystream.            *)
THEOREM GeneratorTypes == Spec => []TypeOK
<1>1. Spec => []Basics
  BY BasicsInit, BasicsStep, PTL DEF Spec
<1>2. Basics => TypeOK
  BY DEF Basics
<1> QED BY <1>1, <1>2, PTL

-----------------------------------------------------------------------------
(* Guards. *)

GuardsFine == GuardsOfPast /\ FillsAreCurrent

(* The same, process by process.                                            *)
GuardFine(q) ==
  /\ once[q] \in {"unset", "running"} \cup AtforkOutcome
  /\ rng[q] # NoRng => GuardOfPast(rng[q].fork_guard, q) \/ rng[q].fork_guard.kind = "none"
  /\ pc[q] \in {"fill", "reseed"} => Unchanged(rng[q].fork_guard, q)

LEMMA GuardByGuard == GuardsFine <=> \A q \in Proc : GuardFine(q)
BY DEF GuardsFine, GuardsOfPast, FillsAreCurrent, GuardFine

(* The processes a guard speaks of are as they were.                        *)
SameView(q) ==
  /\ once'[q] = once[q] /\ generation'[q] = generation[q] /\ pid'[q] = pid[q]
  /\ \A x \in Proc : status[x] # "unborn" => status'[x] # "unborn" /\ pid'[x] = pid[x]

LEMMA SameGuard ==
  ASSUME NEW q \in Proc, SameView(q), rng[q] # NoRng => rng'[q].fork_guard = rng[q].fork_guard,
         rng'[q] = NoRng \/ rng[q] # NoRng,
         pc'[q] \in {"fill", "reseed"} => pc[q] \in {"fill", "reseed"} /\ rng[q] # NoRng,
         GuardFine(q)
  PROVE  GuardFine(q)'
BY DEF GuardFine, SameView, GuardOfPast, Unchanged

LEMMA SameProcesses ==
  ASSUME UNCHANGED forkVars, NEW q \in Proc
  PROVE  SameView(q)
BY DEF forkVars, SameView

(* A step of process p that no process sees.                                *)
LEMMA GuardsLocal ==
  ASSUME GuardsFine, UNCHANGED forkVars, NEW p \in Proc,
         \A q \in Proc \ {p} : rng'[q] = rng[q] /\ pc'[q] = pc[q],
         CallShape, GuardFine(p)'
  PROVE  GuardsFine'
<1>1. ASSUME NEW q \in Proc \ {p} PROVE GuardFine(q)'
  BY <1>1, SameProcesses, SameGuard, GuardByGuard DEF CallShape
<1> HIDE DEF GuardFine
<1>2. \A q \in Proc : GuardFine(q)'
  BY <1>1
<1> QED BY <1>2 DEF GuardsFine, GuardsOfPast, FillsAreCurrent, GuardFine

LEMMA PrimedGuards == (\A q \in Proc : GuardFine(q)') => GuardsFine'
BY DEF GuardsFine, GuardsOfPast, FillsAreCurrent, GuardFine

(* A captured guard is current.                                             *)
LEMMA CapturedIsCurrent ==
  ASSUME ForkTypeOK, NEW p \in Proc, OnceIsSet(p), status[p] # "unborn"
  PROVE  Unchanged(Capture(p), p) /\ GuardOfPast(Capture(p), p)
BY DEF ForkTypeOK, OnceIsSet, Capture, Unchanged, GuardOfPast

LEMMA QuietGuards ==
  ASSUME Basics, GuardsFine, NEW p \in Proc, QuietStep(p)
  PROVE  GuardsFine'
<1>1. GuardFine(p) /\ CallShape
  BY GuardByGuard DEF Basics
<1>2. PICK l \in Label : /\ pc' = [pc EXCEPT ![p] = l]
                         /\ l \notin {"idle", "seed"} => rng[p] # NoRng
                         /\ l = "fill" => Unchanged(rng[p].fork_guard, p)
                         /\ l = "reseed" => pc[p] = "fill"
  BY QuietEffect
<1>3. pc'[p] = l /\ \A q \in Proc \ {p} : pc'[q] = pc[q]
  BY <1>2, BasicFacts
<1>4. rng' = rng /\ status' = status /\ pid' = pid /\ generation' = generation
  BY QuietEffect
<1>5. CASE UNCHANGED once
  <2>1. UNCHANGED forkVars
    BY <1>4, <1>5 DEF forkVars
  <2>2. pc'[p] \in {"fill", "reseed"} => Unchanged(rng[p].fork_guard, p)
    BY <1>1, <1>2, <1>3 DEF GuardFine
  <2>3. GuardFine(p)'
    BY <1>1, <1>4, <1>5, <2>2 DEF GuardFine, GuardOfPast, Unchanged
  <2> QED BY <1>1, <1>3, <1>4, <2>1, <2>3, GuardsLocal
<1>6. CASE (BeginInstall(p) \/ EndInstall(p)) /\ pc'[p] \in {"install", "capture"}
  <2>1. /\ once[p] \notin {"installed", "refused"}
        /\ once'[p] \in {"unset", "running"} \cup AtforkOutcome
        /\ \A q \in Proc \ {p} : once'[q] = once[q]
    BY <1>6, BasicFacts DEF BeginInstall, EndInstall, ForkTypeOK
  <2>2. GuardFine(p)'
    BY <1>1, <1>4, <1>6, <2>1 DEF GuardFine, GuardOfPast
  <2>3. ASSUME NEW q \in Proc \ {p} PROVE GuardFine(q)'
    <3>1. SameView(q)
      BY <1>4, <2>1 DEF SameView
    <3>2. GuardFine(q)
      BY GuardByGuard
    <3> QED BY <1>1, <1>3, <1>4, <3>1, <3>2, SameGuard DEF CallShape
  <2> HIDE DEF GuardFine
  <2> QED BY <2>2, <2>3, PrimedGuards
<1> QED BY <1>5, <1>6, QuietEffect

LEMMA SeedGuards ==
  ASSUME Basics, GuardsFine, NEW p \in Proc, SeedFromOs(p)
  PROVE  GuardsFine'
<1>1. PICK s \in OsSeed \ seeded :
           /\ rng' = [rng EXCEPT ![p] = FirstGenerator(s)]
           /\ pc' = [pc EXCEPT ![p] = "capture"] /\ UNCHANGED forkVars
  BY SeedEffect
<1>2. /\ rng'[p] = FirstGenerator(s) /\ pc'[p] = "capture"
      /\ \A q \in Proc \ {p} : rng'[q] = rng[q] /\ pc'[q] = pc[q]
  BY <1>1, BasicFacts
<1>3. rng'[p].fork_guard.kind = "none"
  BY <1>2 DEF FirstGenerator, NoGuard
<1>4. GuardFine(p)'
  BY <1>1, <1>2, <1>3, GuardByGuard DEF GuardFine, forkVars
<1> HIDE DEF GuardFine
<1> QED BY <1>1, <1>2, <1>4, GuardsLocal DEF Basics

LEMMA CaptureGuards ==
  ASSUME Basics, GuardsFine, NEW p \in Proc, CaptureGuard(p)
  PROVE  GuardsFine'
<1>1. PICK a :
           /\ rng' = [rng EXCEPT ![p] = a] /\ a.fork_guard = Capture(p)
           /\ status[p] = "running" /\ OnceIsSet(p)
           /\ \E l \in {"idle", "fill"} : pc' = [pc EXCEPT ![p] = l]
           /\ UNCHANGED forkVars
  BY CaptureEffect
<1>2. Unchanged(Capture(p), p) /\ GuardOfPast(Capture(p), p)
  BY <1>1, BasicFacts, CapturedIsCurrent
<1>3. /\ rng'[p] = a
      /\ \A q \in Proc \ {p} : rng'[q] = rng[q] /\ pc'[q] = pc[q]
  BY <1>1, BasicFacts
<1> DEFINE g == Capture(p)
<1>4. rng'[p].fork_guard = g /\ Unchanged(g, p) /\ GuardOfPast(g, p)
  BY <1>1, <1>2, <1>3
<1> HIDE DEF g
<1>5. Unchanged(rng[p].fork_guard, p)' /\ GuardOfPast(rng[p].fork_guard, p)'
  BY <1>1, <1>4 DEF Unchanged, GuardOfPast, forkVars
<1>6. GuardFine(p)'
  BY <1>1, <1>5, GuardByGuard DEF GuardFine, forkVars
<1> HIDE DEF GuardFine
<1> QED BY <1>1, <1>3, <1>6, GuardsLocal DEF Basics

(* A chunk, a reseed or a drop keeps the guard.                             *)
LEMMA KeepsGuard ==
  ASSUME Basics, GuardsFine, UNCHANGED forkVars, NEW p \in Proc,
         \A q \in Proc \ {p} : rng'[q] = rng[q] /\ pc'[q] = pc[q],
         \/ rng'[p] = NoRng /\ pc'[p] = "idle"
         \/ /\ rng[p] # NoRng /\ rng'[p].fork_guard = rng[p].fork_guard
            /\ pc'[p] = pc[p] \/ pc'[p] = "capture"
  PROVE  GuardsFine'
<1>1. GuardFine(p) /\ CallShape
  BY GuardByGuard DEF Basics
<1>2. SameView(p)
  BY SameProcesses
<1>3. CASE rng'[p] = NoRng /\ pc'[p] = "idle"
  <2>1. GuardFine(p)'
    BY <1>1, <1>2, <1>3 DEF GuardFine, SameView
  <2> HIDE DEF GuardFine
  <2> QED BY <1>1, <2>1, GuardsLocal
<1>4. CASE /\ rng[p] # NoRng /\ rng'[p].fork_guard = rng[p].fork_guard
           /\ pc'[p] = pc[p] \/ pc'[p] = "capture"
  <2>1. GuardFine(p)'
    BY <1>1, <1>2, <1>4, SameGuard
  <2> HIDE DEF GuardFine
  <2> QED BY <1>1, <2>1, GuardsLocal
<1> QED BY <1>3, <1>4

LEMMA ForkGuards ==
  ASSUME SafeSetting, Basics, GuardsFine, NEW p \in Proc, NEW q \in Proc, NEW i \in Pid,
         Forked(p, q, i)
  PROVE  GuardsFine'
<1>1. \A x \in Proc \ {q} : SameView(x)
  BY ForkedEffect, BasicFacts DEF SameView, ForkTypeOK
<1>2. ASSUME NEW x \in Proc \ {q} PROVE GuardFine(x)'
  <2>1. GuardFine(x) /\ CallShape
    BY GuardByGuard DEF Basics
  <2> QED BY <1>1, <1>2, <2>1, ForkedEffect, SameGuard DEF CallShape
<1>3. GuardFine(q)'
  <2>1. GuardFine(p)
    BY GuardByGuard
  <2>2. /\ once'[q] = once[p] /\ generation[p] \in Nat
        /\ generation'[q] \in {generation[p], generation[p] + 1}
        /\ \A x \in Proc : status[x] # "unborn" => status'[x] # "unborn" /\ pid'[x] = pid[x]
    BY ForkedEffect, BasicFacts DEF ForkTypeOK, ChildGeneration
  <2>3. CASE rng'[q] = NoRng
    BY <2>1, <2>2, <2>3, ForkedEffect DEF GuardFine
  <2>4. CASE rng'[q] = rng[p] /\ rng[p] # NoRng
    <3>1. rng[p].fork_guard.seen \in Nat
      BY <2>4, BasicFacts, GeneratorFields DEF Good, Guard
    <3>2. GuardOfPast(rng[p].fork_guard, p) => GuardOfPast(rng[q].fork_guard, q)'
      BY <2>2, <2>4, <3>1 DEF GuardOfPast
    <3> QED BY <2>1, <2>2, <2>4, <3>2, ForkedEffect DEF GuardFine
  <2> QED BY <2>3, <2>4, ForkedEffect
<1> HIDE DEF GuardFine
<1> QED BY <1>2, <1>3, PrimedGuards

LEMMA StartGuards ==
  ASSUME Basics, GuardsFine, NEW p \in Proc, NEW i \in Pid, Start(p, i)
  PROVE  GuardsFine'
<1>1. \A x \in Proc \ {p} : SameView(x)
  BY StartEffect, BasicFacts DEF SameView, ForkTypeOK
<1>2. ASSUME NEW x \in Proc \ {p} PROVE GuardFine(x)'
  <2>1. GuardFine(x) /\ CallShape
    BY GuardByGuard DEF Basics
  <2> QED BY <1>1, <1>2, <2>1, StartEffect, SameGuard DEF CallShape
<1>3. GuardFine(p)'
  BY StartEffect, GuardByGuard DEF GuardFine
<1> HIDE DEF GuardFine
<1> QED BY <1>2, <1>3, PrimedGuards

LEMMA ExitGuards ==
  ASSUME Basics, GuardsFine, NEW p \in Proc, Exit(p)
  PROVE  GuardsFine'
<1>1. \A x \in Proc \ {p} : SameView(x) /\ rng'[x] = rng[x] /\ pc'[x] = pc[x]
  BY ExitEffect, BasicFacts DEF SameView, ForkTypeOK
<1>2. ASSUME NEW x \in Proc \ {p} PROVE GuardFine(x)'
  <2>1. GuardFine(x) /\ CallShape
    BY GuardByGuard DEF Basics
  <2> QED BY <1>1, <1>2, <2>1, SameGuard DEF CallShape
<1>3. GuardFine(p)'
  BY ExitEffect, BasicFacts DEF GuardFine, ForkTypeOK
<1> HIDE DEF GuardFine
<1> QED BY <1>2, <1>3, PrimedGuards

LEMMA GuardsInit == Init => GuardsFine
BY DEF Init, ForkInit, GuardsFine, GuardsOfPast, FillsAreCurrent

LEMMA GuardsStep == SafeSetting /\ Basics /\ GuardsFine /\ [Next]_vars => GuardsFine'
<1> SUFFICES ASSUME SafeSetting, Basics, GuardsFine, [Next]_vars PROVE GuardsFine'
  OBVIOUS
<1>1. ASSUME NEW p \in Proc, FillChunk(p) PROVE GuardsFine'
  <2> DEFINE n == ChunkSize(p)
  <2>1. /\ rng[p] # NoRng /\ Good(rng[p], Quota) /\ n \in Nat /\ pc' = pc
        /\ rng[p].generated_since_reseed + n + 4 * BlockSize <= CtrMod * BlockSize
        /\ rng' = [rng EXCEPT ![p] = AfterChunk(rng[p], n)] /\ UNCHANGED forkVars
    BY <1>1, FillEffect
  <2> HIDE DEF n
  <2>2. AfterChunk(rng[p], n).fork_guard = rng[p].fork_guard
    BY <2>1, ChunkCursor DEF Good
  <2>3. rng'[p].fork_guard = rng[p].fork_guard /\ \A q \in Proc \ {p} : rng'[q] = rng[q]
    BY <2>1, <2>2, BasicFacts
  <2> QED BY <2>1, <2>3, KeepsGuard
<1>2. ASSUME NEW p \in Proc, NEW k \in Key, rng[p] # NoRng, UNCHANGED forkVars,
             rng' = [rng EXCEPT ![p] = Rekeyed(rng[p], k)], pc' = [pc EXCEPT ![p] = "capture"]
      PROVE GuardsFine'
  <2>1. Rekeyed(rng[p], k).fork_guard = rng[p].fork_guard
    BY <1>2, BasicFacts, RekeyedGood DEF Good
  <2>2. /\ rng'[p].fork_guard = rng[p].fork_guard /\ pc'[p] = "capture"
        /\ \A q \in Proc \ {p} : rng'[q] = rng[q] /\ pc'[q] = pc[q]
    BY <1>2, <2>1, BasicFacts
  <2> QED BY <1>2, <2>2, KeepsGuard
<1>3. ASSUME NEW p \in Proc, ReseedBlend(p) PROVE GuardsFine'
  <2>1. PICK e \in CpuEntropy :
          /\ rng' = [rng EXCEPT ![p] = Rekeyed(rng[p], BlendedKey(rng[p], e))]
          /\ rng[p] # NoRng /\ Good(rng[p], Quota)
          /\ pc' = [pc EXCEPT ![p] = "capture"] /\ UNCHANGED forkVars
    BY <1>3, BlendEffect
  <2>2. BlendedKey(rng[p], e) \in Key
    BY <2>1, BlendedKeyType DEF Good
  <2> QED BY <1>2, <2>1, <2>2
<1>4. ASSUME NEW p \in Proc, ReseedFromOs(p) PROVE GuardsFine'
  <2>1. PICK s \in OsSeed \ seeded :
          /\ rng' = [rng EXCEPT ![p] = Rekeyed(rng[p], [seed |-> s, blends |-> <<>>])]
          /\ rng[p] # NoRng /\ pc' = [pc EXCEPT ![p] = "capture"] /\ UNCHANGED forkVars
    BY <1>4, ReseedOsEffect
  <2> QED BY <1>2, <2>1, FirstKey
<1>5. ASSUME NEW p \in Proc, Drop(p) PROVE GuardsFine'
  <2>1. /\ rng'[p] = NoRng /\ pc' = pc /\ pc[p] = "idle" /\ UNCHANGED forkVars
        /\ \A q \in Proc \ {p} : rng'[q] = rng[q]
    BY <1>5, BasicFacts DEF Drop, At
  <2> QED BY <2>1, KeepsGuard
<1>6. CASE UNCHANGED vars
  BY <1>6 DEF vars, forkVars, callVars, GuardsFine, GuardsOfPast, FillsAreCurrent,
     GuardOfPast, Unchanged
<1> QED
  BY <1>1, <1>3, <1>4, <1>5, <1>6, StepCases, QuietGuards, SeedGuards, CaptureGuards,
     ExitGuards, ForkGuards, StartGuards DEF Forked

-----------------------------------------------------------------------------
(* Who may use which key. *)

CurrentOnlyIfUsable(q) ==
  rng[q] # NoRng /\ Unchanged(rng[q].fork_guard, q)' => Usable(q)

(* A step that makes no process's generator usable which was not.           *)
UsableOnlyIfWas(q) == Usable(q)' => Usable(q)

LEMMA SameUsable ==
  ASSUME NEW q \in Proc, SameView(q), rng'[q] = rng[q],
         pc'[q] \in {"capture", "install"} => pc[q] \in {"capture", "install"}
  PROVE  UsableOnlyIfWas(q)
BY DEF UsableOnlyIfWas, Usable, SameView, Unchanged

(* A process goes on using the generator it may use.                        *)
KeepsOwner(q) == rng[q] # NoRng /\ Usable(q) /\ rng'[q] = rng[q] => Usable(q)'

LEMMA SameOwner ==
  ASSUME NEW q \in Proc, SameView(q),
         pc[q] \in {"capture", "install"} => pc'[q] \in {"capture", "install"}
  PROVE  KeepsOwner(q)
BY DEF KeepsOwner, Usable, SameView, Unchanged

LEMMA LocalOwner ==
  ASSUME UNCHANGED forkVars, NEW p \in Proc, NEW q \in Proc \ {p}, pc'[q] = pc[q]
  PROVE  KeepsOwner(q)
BY SameProcesses, SameOwner

LEMMA QuietOwner ==
  ASSUME Basics, NEW p \in Proc, QuietStep(p), NEW q \in Proc
  PROVE  KeepsOwner(q)
<1>1. PICK l \in Label : pc' = [pc EXCEPT ![p] = l]
  BY QuietEffect
<1>2. pc'[p] = l /\ (q # p => pc'[q] = pc[q])
  BY <1>1, BasicFacts
<1>3. status' = status /\ pid' = pid /\ generation' = generation
  BY QuietEffect
<1>4. pc[p] \in {"capture", "install"} => pc'[p] \in {"capture", "install"}
  BY BasicFacts DEF QuietStep, CallNew, SeedFails, ClaimInstall, FinishInstall, CheckGuard,
     FillDone, BeginReseed, ReseedFails, CallFill, At, Goto, Return
<1>5. CASE UNCHANGED once
  <2>1. SameView(q)
    BY <1>3, <1>5 DEF SameView
  <2> QED BY <1>2, <1>4, <2>1, SameOwner
<1>6. CASE (BeginInstall(p) \/ EndInstall(p)) /\ pc'[p] \in {"install", "capture"}
  <2>1. CASE q = p
    BY <1>6, <2>1 DEF KeepsOwner, Usable
  <2>2. CASE q # p
    <3>1. once'[q] = once[q]
      BY <1>6, <2>2, BasicFacts DEF BeginInstall, EndInstall, ForkTypeOK
    <3>2. SameView(q)
      BY <1>3, <3>1 DEF SameView
    <3> QED BY <1>2, <2>2, <3>2, SameOwner
  <2> QED BY <2>1, <2>2
<1> QED BY <1>5, <1>6, QuietEffect

LEMMA CaptureOwner ==
  ASSUME Basics, NEW p \in Proc, CaptureGuard(p), NEW q \in Proc
  PROVE  KeepsOwner(q)
<1>1. PICK a :
           /\ rng' = [rng EXCEPT ![p] = a] /\ a.fork_guard = Capture(p)
           /\ status[p] = "running" /\ OnceIsSet(p) /\ UNCHANGED forkVars
           /\ \E l \in {"idle", "fill"} : pc' = [pc EXCEPT ![p] = l]
  BY CaptureEffect
<1>2. rng'[p] = a /\ (q # p => pc'[q] = pc[q])
  BY <1>1, BasicFacts
<1>3. CASE q = p
  <2> DEFINE g == Capture(p)
  <2>1. Unchanged(g, p) /\ rng'[p].fork_guard = g
    BY <1>1, <1>2, BasicFacts, CapturedIsCurrent
  <2> HIDE DEF g
  <2>2. Unchanged(rng[p].fork_guard, p)'
    BY <1>1, <2>1 DEF Unchanged, forkVars
  <2> QED BY <1>3, <2>2 DEF KeepsOwner, Usable
<1>4. CASE q # p
  BY <1>1, <1>2, <1>4, LocalOwner
<1> QED BY <1>3, <1>4

(* The other steps of a process: it fills, reseeds, seeds or drops.         *)
LEMMA OwnStepOwner ==
  ASSUME Basics, NEW p \in Proc, NEW q \in Proc,
         SeedFromOs(p) \/ FillChunk(p) \/ ReseedBlend(p) \/ ReseedFromOs(p) \/ Drop(p)
  PROVE  KeepsOwner(q)
<1>1. UNCHANGED forkVars /\ (q # p => pc'[q] = pc[q])
  BY BasicFacts DEF SeedFromOs, FillChunk, ReseedBlend, ReseedFromOs, Drop, At, Goto
<1>2. pc[p] \in {"capture", "install"} => pc'[p] \in {"capture", "install"}
  BY BasicFacts DEF SeedFromOs, FillChunk, ReseedBlend, ReseedFromOs, Drop, At, Goto
<1>3. CASE q = p
  BY <1>1, <1>2, <1>3, SameProcesses, SameOwner
<1> QED BY <1>1, <1>3, LocalOwner

(* A process is born: the others see nothing of it.                         *)
LEMMA ProcessOwner ==
  ASSUME Basics, NEW p \in Proc, NEW i \in Pid, NEW q \in Proc,
         \/ \E x \in Proc : Fork(x, p, i) \/ ForkInside(x, p, i)
         \/ Start(p, i)
  PROVE  KeepsOwner(q)
<1>1. q = p => rng[q] = NoRng
  BY ForkEffect, ForkInsideEffect, StartEffect
<1>2. ASSUME q # p
      PROVE  /\ once'[q] = once[q] /\ generation'[q] = generation[q]
             /\ pid'[q] = pid[q] /\ pc'[q] = pc[q]
  <2>1. ASSUME NEW x \in Proc, Fork(x, p, i)
        PROVE  /\ once'[q] = once[q] /\ generation'[q] = generation[q]
               /\ pid'[q] = pid[q] /\ pc'[q] = pc[q]
    BY <1>2, <2>1, ForkEffect, BasicFacts DEF ForkTypeOK
  <2>2. ASSUME NEW x \in Proc, ForkInside(x, p, i)
        PROVE  /\ once'[q] = once[q] /\ generation'[q] = generation[q]
               /\ pid'[q] = pid[q] /\ pc'[q] = pc[q]
    BY <1>2, <2>2, ForkInsideEffect
  <2>3. CASE Start(p, i)
    BY <1>2, <2>3, StartEffect, BasicFacts DEF ForkTypeOK
  <2> QED BY <2>1, <2>2, <2>3
<1> QED BY <1>1, <1>2 DEF KeepsOwner, Usable, Unchanged

LEMMA OwnersKept ==
  ASSUME Basics, [Next]_vars, NEW q \in Proc
  PROVE  KeepsOwner(q)
<1>1. CASE UNCHANGED vars
  BY <1>1 DEF vars, forkVars, callVars, KeepsOwner, Usable, Unchanged
<1>2. ASSUME NEW p \in Proc, NEW i \in Pid,
             \/ \E x \in Proc : Fork(x, p, i) \/ ForkInside(x, p, i)
             \/ Start(p, i)
      PROVE  KeepsOwner(q)
  BY <1>2, ProcessOwner
<1>3. ASSUME NEW p \in Proc, Exit(p) PROVE KeepsOwner(q)
  <2>1. /\ rng'[p] = NoRng
        /\ q # p => /\ once'[q] = once[q] /\ generation'[q] = generation[q]
                    /\ pid'[q] = pid[q] /\ pc'[q] = pc[q]
    BY <1>3, ExitEffect, BasicFacts DEF ForkTypeOK
  <2> QED BY <2>1 DEF KeepsOwner, Usable, Unchanged
<1> QED BY <1>1, <1>2, <1>3, StepCases, QuietOwner, CaptureOwner, OwnStepOwner

(* A guard copied into a forked child is never current there: the child's   *)
(* generation is above every snapshot, its process id differs from all.     *)
LEMMA StaleInChild ==
  ASSUME SafeSetting, Basics, GuardsFine,
         NEW p \in Proc, NEW q \in Proc, NEW i \in Pid, Forked(p, q, i)
  PROVE  ~Usable(q)'
<1>1. CASE rng'[q] = NoRng
  BY <1>1 DEF Usable
<1>2. CASE rng'[q] = rng[p] /\ rng[p] # NoRng
  <2> DEFINE g == rng[p].fork_guard
  <2>1. /\ once[p] \in {"unset", "running"} \cup AtforkOutcome
        /\ GuardOfPast(g, p) \/ g.kind = "none"
    BY <1>2, GuardByGuard DEF GuardFine
  <2>2. g.seen \in Nat /\ generation[p] \in Nat
    BY <1>2, BasicFacts, GeneratorFields DEF Good, Guard, ForkTypeOK
  <2>3. /\ pc'[q] \notin {"capture", "install"} /\ rng'[q].fork_guard = g /\ once'[q] = once[p] /\ pid'[q] = i
        /\ generation'[q] = ChildGeneration(p) /\ Assignable(i)
    BY <1>2, ForkedEffect, BasicFacts DEF ForkTypeOK
  <2>4. ~(g.kind = "generation" /\ once'[q] = "installed" /\ g.seen = generation'[q])
    BY <2>1, <2>2, <2>3 DEF GuardOfPast, ChildGeneration
  <2>5. ~(g.kind = "pid" /\ g.seen = pid'[q])
    <3> SUFFICES ASSUME g.kind = "pid", g.seen = i PROVE FALSE
      BY <2>3
    <3>1. once[p] = "refused" /\ \E x \in Proc : status[x] # "unborn" /\ pid[x] = g.seen
      BY <2>1 DEF GuardOfPast
    <3>2. ~PidReuse
      BY <2>1, <3>1 DEF SafeSetting
    <3> QED BY <2>3, <3>1, <3>2 DEF Assignable, InUse
  <2> HIDE DEF g
  <2>6. ~Unchanged(rng[q].fork_guard, q)'
    BY <2>3, <2>4, <2>5 DEF Unchanged
  <2> QED BY <2>3, <2>6 DEF Usable
<1> QED BY <1>1, <1>2, ForkedEffect

-----------------------------------------------------------------------------
(* Keystream. *)

Ledger == SeedsOwned /\ OutputIsPast /\ NoByteTwice /\ SeedBytesSecret

(* The bytes of a seed's keystream are all behind one generator's cursor.   *)
Behind(key, g) ==
  /\ \A b \in emitted : b[1].seed = key.seed =>
       Len(b[1].blends) < Len(key.blends) \/ (b[1] = key /\ Position(b) < g)
  /\ \A b \in blended : b[1].seed = key.seed => Len(b[1].blends) < Len(key.blends)

LEMMA PastIs ==
  OutputIsPast <=> \A p \in Proc : Usable(p) => Behind(rng[p].key, rng[p].generated_since_reseed)
BY DEF OutputIsPast, Behind

(* A step that outputs nothing and gives no process a new key to use.       *)
KeepsUse ==
  /\ UNCHANGED <<reseed_interval, history>>
  /\ \A q \in Proc : Usable(q)' => /\ Usable(q) /\ rng'[q].key = rng[q].key
                                  /\ rng'[q].generated_since_reseed = rng[q].generated_since_reseed

LEMMA LedgerKept ==
  ASSUME Ledger, KeepsUse
  PROVE  Ledger'
<1>1. SeedsOwned'
  BY DEF Ledger, SeedsOwned, KeepsUse, history
<1>2. OutputIsPast'
  BY DEF Ledger, OutputIsPast, Position, KeepsUse, history
<1> QED BY <1>1, <1>2 DEF Ledger, NoByteTwice, SeedBytesSecret, KeepsUse, history

LEMMA QuietKeeps ==
  ASSUME Basics, GuardsFine, NEW p \in Proc, QuietStep(p)
  PROVE  KeepsUse
<1>1. PICK l \in Label : /\ pc' = [pc EXCEPT ![p] = l]
                         /\ l \in {"capture", "install"} => pc[p] \in {"capture", "install"}
  BY QuietEffect
<1>2. pc'[p] = l /\ \A q \in Proc \ {p} : pc'[q] = pc[q]
  BY <1>1, BasicFacts
<1>3. rng' = rng /\ status' = status /\ pid' = pid /\ generation' = generation
      /\ UNCHANGED <<reseed_interval, history>>
  BY QuietEffect DEF history
<1>4. ASSUME NEW q \in Proc, UNCHANGED once PROVE UsableOnlyIfWas(q)
  <2>1. SameView(q)
    BY <1>3, <1>4 DEF SameView
  <2> QED BY <1>1, <1>2, <1>3, <2>1, SameUsable
<1>5. ASSUME NEW q \in Proc, BeginInstall(p) \/ EndInstall(p), pc[p] \in {"capture", "install"}
      PROVE UsableOnlyIfWas(q)
  <2>1. CASE q = p
    BY <1>3, <1>5, <2>1 DEF UsableOnlyIfWas, Usable
  <2>2. CASE q # p
    <3>1. once'[q] = once[q]
      BY <1>5, <2>2, BasicFacts DEF BeginInstall, EndInstall, ForkTypeOK
    <3>2. SameView(q)
      BY <1>3, <3>1 DEF SameView
    <3> QED BY <1>2, <1>3, <2>2, <3>2, SameUsable
  <2> QED BY <2>1, <2>2
<1>6. \A q \in Proc : UsableOnlyIfWas(q)
  BY <1>4, <1>5, QuietEffect
<1> QED BY <1>3, <1>6 DEF UsableOnlyIfWas, KeepsUse, history

LEMMA CaptureKeeps ==
  ASSUME Basics, GuardsFine, NEW p \in Proc, CaptureGuard(p)
  PROVE  KeepsUse
<1>1. PICK a :
           /\ rng' = [rng EXCEPT ![p] = a] /\ rng[p] # NoRng /\ a.key = rng[p].key
           /\ a.generated_since_reseed = rng[p].generated_since_reseed
           /\ pc[p] = "capture"
           /\ \E l \in {"idle", "fill"} : pc' = [pc EXCEPT ![p] = l]
           /\ UNCHANGED <<forkVars, reseed_interval, history>>
  BY CaptureEffect
<1>2. /\ rng'[p] = a /\ Usable(p) /\ UNCHANGED <<reseed_interval, history>>
      /\ \A q \in Proc \ {p} : rng'[q] = rng[q] /\ pc'[q] = pc[q]
  BY <1>1, BasicFacts DEF history, Usable
<1>3. \A q \in Proc \ {p} : UsableOnlyIfWas(q)
  BY <1>1, <1>2, SameProcesses, SameUsable
<1> QED BY <1>1, <1>2, <1>3 DEF UsableOnlyIfWas, KeepsUse, history

LEMMA DropKeeps ==
  ASSUME Basics, GuardsFine, NEW p \in Proc, Drop(p)
  PROVE  KeepsUse
<1>1. /\ rng'[p] = NoRng /\ pc' = pc /\ UNCHANGED <<forkVars, reseed_interval, history>>
      /\ \A q \in Proc \ {p} : rng'[q] = rng[q]
  BY BasicFacts DEF Drop, At, history
<1>2. ~Usable(p)'
  BY <1>1 DEF Usable
<1>3. \A q \in Proc \ {p} : UsableOnlyIfWas(q)
  BY <1>1, SameProcesses, SameUsable
<1> QED BY <1>1, <1>2, <1>3 DEF UsableOnlyIfWas, KeepsUse, history

LEMMA ForkKeeps ==
  ASSUME SafeSetting, Basics, GuardsFine,
         NEW p \in Proc, NEW q \in Proc, NEW i \in Pid, Forked(p, q, i)
  PROVE  KeepsUse
<1>1. ~Usable(q)'
  BY StaleInChild
<1>2. \A x \in Proc \ {q} : SameView(x)
  BY ForkedEffect, BasicFacts DEF SameView, ForkTypeOK
<1>3. \A x \in Proc \ {q} : UsableOnlyIfWas(x)
  BY <1>2, ForkedEffect, SameUsable
<1> QED BY <1>1, <1>3, ForkedEffect DEF UsableOnlyIfWas, KeepsUse, history

LEMMA StartKeeps ==
  ASSUME Basics, GuardsFine, NEW p \in Proc, NEW i \in Pid, Start(p, i)
  PROVE  KeepsUse
<1>1. ~Usable(p)'
  BY StartEffect DEF Usable
<1>2. \A x \in Proc \ {p} : SameView(x)
  BY StartEffect, BasicFacts DEF SameView, ForkTypeOK
<1>3. \A x \in Proc \ {p} : UsableOnlyIfWas(x)
  BY <1>2, StartEffect, SameUsable
<1> QED BY <1>1, <1>3, StartEffect DEF UsableOnlyIfWas, KeepsUse, history

LEMMA ExitKeeps ==
  ASSUME Basics, GuardsFine, NEW p \in Proc, Exit(p)
  PROVE  KeepsUse
<1>1. ~Usable(p)'
  BY ExitEffect, BasicFacts DEF Usable
<1>2. \A x \in Proc \ {p} : SameView(x) /\ rng'[x] = rng[x] /\ pc'[x] = pc[x]
  BY ExitEffect, BasicFacts DEF SameView, ForkTypeOK
<1>3. \A x \in Proc \ {p} : UsableOnlyIfWas(x)
  BY <1>2, SameUsable
<1> QED BY <1>1, <1>2, <1>3, ExitEffect DEF UsableOnlyIfWas, KeepsUse, history

LEMMA StepsThatKeep ==
  ASSUME SafeSetting, Basics, GuardsFine, [Next]_vars
  PROVE  \/ KeepsUse
         \/ \E p \in Proc : SeedFromOs(p) \/ FillChunk(p) \/ ReseedBlend(p) \/ ReseedFromOs(p)
<1>1. CASE UNCHANGED vars
  BY <1>1 DEF vars, forkVars, callVars, KeepsUse, Usable, Unchanged
<1> QED
  BY <1>1, StepCases, QuietKeeps, CaptureKeeps, DropKeeps, ExitKeeps, ForkKeeps, StartKeeps
     DEF Forked

(* A seed the OS has just returned: nothing was output under it.            *)
LEMMA FreshSeed ==
  ASSUME Basics, GuardsFine, Ledger, NEW p \in Proc, UNCHANGED forkVars,
         NEW s \in OsSeed \ seeded, seeded' = seeded \cup {s},
         UNCHANGED <<emitted, repeated, blended>>,
         \A q \in Proc \ {p} : rng'[q] = rng[q] /\ pc'[q] = pc[q],
         rng'[p].key = [seed |-> s, blends |-> <<>>]
  PROVE  Ledger'
<1>1. \A q \in Proc \ {p} : UsableOnlyIfWas(q)
  BY SameProcesses, SameUsable
<1>2. rng'[p].key.seed = s
  OBVIOUS
<1>3. SeedsOwned'
  <2>1. \A b \in emitted' \cup blended' : b[1].seed \in seeded'
    BY DEF Ledger, SeedsOwned
  <2>2. \A q \in Proc : Usable(q)' => rng'[q].key.seed \in seeded'
    BY <1>1, <1>2 DEF Ledger, SeedsOwned, UsableOnlyIfWas
  <2>3. ASSUME NEW x \in Proc, NEW q \in Proc, x # q, Usable(x)', Usable(q)'
        PROVE  rng'[x].key.seed # rng'[q].key.seed
    BY <1>1, <1>2, <2>3 DEF Ledger, SeedsOwned, UsableOnlyIfWas
  <2> QED BY <2>1, <2>2, <2>3 DEF SeedsOwned
<1>4. OutputIsPast'
  <2>1. ASSUME NEW q \in Proc, Usable(q)'
        PROVE  Behind(rng[q].key, rng[q].generated_since_reseed)'
    <3>1. CASE q = p
      BY <1>2, <3>1 DEF Ledger, SeedsOwned, Behind
    <3>2. CASE q # p
      BY <1>1, <2>1, <3>2, PastIs DEF Ledger, UsableOnlyIfWas, Behind, Position
    <3> QED BY <3>1, <3>2
  <2> QED BY <2>1 DEF OutputIsPast, Behind
<1> QED BY <1>3, <1>4 DEF Ledger, NoByteTwice, SeedBytesSecret

(* A chunk: new bytes of a key that one process alone may use.              *)
LEMMA FillLedger ==
  ASSUME Basics, GuardsFine, Ledger, NEW p \in Proc, FillChunk(p)
  PROVE  Ledger'
<1> DEFINE r == rng[p]
           n == ChunkSize(p)
           g == r.generated_since_reseed
           New == Produced(r, n)
<1>1. /\ r # NoRng /\ Good(r, Quota) /\ n \in Nat
      /\ g + n + 4 * BlockSize <= CtrMod * BlockSize
      /\ rng' = [rng EXCEPT ![p] = AfterChunk(r, n)]
      /\ emitted' = emitted \cup New
      /\ repeated' = repeated \cup (emitted \cap New)
      /\ pc[p] = "fill" /\ UNCHANGED <<forkVars, pc, seeded, blended>>
  BY FillEffect
<1> HIDE DEF n
<1>2. PICK c \in Ctr : Cursor(r, c)
  BY <1>1 DEF Good
<1>3. r \in Generator /\ r.key \in Key /\ g \in Nat /\ Len(r.key.blends) \in Nat
  <2>1. r \in Generator /\ r.key \in Key /\ g \in Nat
    BY <1>1, GeneratorFields DEF Good
  <2>2. r.key.blends \in Seq(Ctr \X CpuEntropy)
    BY <2>1 DEF Key
  <2> QED BY <2>1, <2>2
<1>4. /\ rng'[p].key = r.key /\ rng'[p].generated_since_reseed = g + n
      /\ \A q \in Proc \ {p} : rng'[q] = rng[q]
  BY <1>1, <1>2, <1>3, ChunkCursor, BasicFacts
<1>5. \A b \in New : b[1] = r.key /\ Position(b) >= g /\ Position(b) < g + n
  BY <1>1, <1>2, <1>3, ChunkBytes
<1>6. Usable(p)
  BY <1>1, GuardByGuard DEF GuardFine, Usable
<1>7. \A q \in Proc : UsableOnlyIfWas(q)
  BY <1>1, <1>4, <1>6, SameProcesses, SameUsable DEF UsableOnlyIfWas
<1>8. Behind(r.key, g)
  BY <1>6, PastIs DEF Ledger
<1>9. \A b \in New : Position(b) \in Int
  BY <1>1, <1>2, <1>3, ChunkBytes, KeystreamPosition
<1> HIDE DEF New, g
<1>10. New \cap emitted = {} /\ New \cap blended = {}
  <2>1. ASSUME NEW b \in New PROVE b \notin emitted /\ b \notin blended
    <3>1. b[1].seed = r.key.seed /\ Position(b) \in Int /\ Position(b) >= g /\ b[1] = r.key
      BY <1>5, <1>9
    <3>2. ~(Len(b[1].blends) < Len(r.key.blends))
      BY <1>3, <3>1
    <3>3. ~(Position(b) < g)
      BY <1>3, <3>1 DEF g
    <3> QED BY <1>8, <3>1, <3>2, <3>3 DEF Behind
  <2> QED BY <2>1
<1>11. NoByteTwice' /\ SeedBytesSecret'
  BY <1>1, <1>10 DEF Ledger, NoByteTwice, SeedBytesSecret
<1>12. SeedsOwned'
  <2>1. r.key.seed \in seeded
    BY <1>6 DEF Ledger, SeedsOwned
  <2>2. \A b \in emitted' \cup blended' : b[1].seed \in seeded'
    BY <1>1, <1>5, <2>1 DEF Ledger, SeedsOwned
  <2>3. \A q \in Proc : rng'[q].key = rng[q].key
    BY <1>4
  <2> QED BY <1>1, <1>7, <2>2, <2>3 DEF Ledger, SeedsOwned, UsableOnlyIfWas
<1>13. OutputIsPast'
  <2>1. ASSUME NEW q \in Proc, Usable(q)'
        PROVE  Behind(rng[q].key, rng[q].generated_since_reseed)'
    <3>1. CASE q = p
      <4>1. ASSUME NEW b \in emitted, b[1].seed = r.key.seed
            PROVE  Len(b[1].blends) < Len(r.key.blends) \/ (b[1] = r.key /\ Position(b) < g + n)
        <5>1. b \in Keystream /\ Position(b) \in Int
          BY BasicFacts, KeystreamPosition
        <5>2. Len(b[1].blends) < Len(r.key.blends) \/ (b[1] = r.key /\ Position(b) < g)
          BY <1>8, <4>1 DEF Behind
        <5>3. Position(b) < g => Position(b) < g + n
          BY <1>1, <1>3, <5>1 DEF g
        <5> QED BY <5>2, <5>3
      <4> QED BY <1>1, <1>4, <1>5, <1>8, <3>1, <4>1 DEF Behind, Position
    <3>2. CASE q # p
      <4>1. Usable(q) /\ rng'[q] = rng[q] /\ rng[q].key.seed # r.key.seed
        BY <1>4, <1>6, <1>7, <2>1, <3>2 DEF UsableOnlyIfWas, Ledger, SeedsOwned
      <4>2. Behind(rng[q].key, rng[q].generated_since_reseed)
        BY <4>1, PastIs DEF Ledger
      <4> QED BY <1>1, <1>5, <4>1, <4>2 DEF Behind, Position
    <3> QED BY <3>1, <3>2
  <2> QED BY <2>1 DEF OutputIsPast, Behind
<1> QED BY <1>11, <1>12, <1>13 DEF Ledger

(* A blend: three blocks that were never output, and a key that none of     *)
(* the seed's processes but this one can have, one blend longer than all.   *)
LEMMA BlendLedger ==
  ASSUME Basics, GuardsFine, Ledger, NEW p \in Proc, ReseedBlend(p)
  PROVE  Ledger'
<1> DEFINE r == rng[p]
           g == r.generated_since_reseed
           New == BlendBlocks(r)
<1>1. PICK e \in CpuEntropy :
           /\ rng' = [rng EXCEPT ![p] = Rekeyed(r, BlendedKey(r, e))]
           /\ r # NoRng /\ Good(r, Quota)
           /\ g + 4 * BlockSize <= CtrMod * BlockSize
           /\ blended' = blended \cup New
           /\ pc[p] = "reseed" /\ pc' = [pc EXCEPT ![p] = "capture"]
           /\ UNCHANGED <<forkVars, seeded, emitted, repeated>>
  BY BlendEffect
<1> DEFINE k == BlendedKey(r, e)
<1>2. r \in Generator /\ g \in Nat /\ Quota \in Nat
  BY <1>1, BasicFacts, GeneratorFields DEF Good
<1>3. /\ k \in Key /\ k.seed = r.key.seed /\ Len(r.key.blends) \in Nat
      /\ Len(k.blends) = Len(r.key.blends) + 1
  BY <1>2, BlendedKeyType
<1>4. /\ rng'[p].key = k
      /\ \A q \in Proc \ {p} : rng'[q] = rng[q] /\ pc'[q] = pc[q]
  BY <1>1, <1>2, <1>3, RekeyedGood, BasicFacts
<1>5. \A b \in New : b \in Keystream /\ b[1] = r.key /\ Position(b) >= g
  BY <1>1, <1>2, BlendBytes DEF Good
<1>6. Usable(p)
  BY <1>1, GuardByGuard DEF GuardFine, Usable
<1>7. \A q \in Proc : UsableOnlyIfWas(q)
  BY <1>1, <1>4, <1>6, SameProcesses, SameUsable DEF UsableOnlyIfWas
<1>8. Behind(r.key, g) /\ r.key.seed \in seeded
  BY <1>6, PastIs DEF Ledger, SeedsOwned
<1> HIDE DEF New, g, k
<1>9. New \cap emitted = {}
  <2>1. ASSUME NEW b \in New PROVE b \notin emitted
    <3>1. b[1].seed = r.key.seed /\ Position(b) \in Int /\ Position(b) >= g /\ b[1] = r.key
      BY <1>5, KeystreamPosition
    <3>2. ~(Len(b[1].blends) < Len(r.key.blends))
      BY <1>3, <3>1
    <3>3. ~(Position(b) < g)
      BY <1>2, <3>1 DEF g
    <3> QED BY <1>8, <3>1, <3>2, <3>3 DEF Behind
  <2> QED BY <2>1
<1>10. NoByteTwice' /\ SeedBytesSecret'
  BY <1>1, <1>9 DEF Ledger, NoByteTwice, SeedBytesSecret
<1>11. SeedsOwned'
  <2>1. \A b \in emitted' \cup blended' : b[1].seed \in seeded'
    BY <1>1, <1>5, <1>8 DEF Ledger, SeedsOwned
  <2>2. \A q \in Proc : rng'[q].key.seed = rng[q].key.seed
    BY <1>3, <1>4
  <2> QED BY <1>1, <1>7, <2>1, <2>2 DEF Ledger, SeedsOwned, UsableOnlyIfWas
<1>12. OutputIsPast'
  <2>1. ASSUME NEW q \in Proc, Usable(q)'
        PROVE  Behind(rng[q].key, rng[q].generated_since_reseed)'
    <3>1. CASE q = p
      <4>1. ASSUME NEW b \in emitted \cup blended \cup New, b[1].seed = r.key.seed
            PROVE  Len(b[1].blends) < Len(k.blends)
        <5>1. b \in Keystream
          BY <1>5, BasicFacts
        <5>2. b[1].blends \in Seq(Ctr \X CpuEntropy)
          BY <5>1 DEF Keystream, Key
        <5>3. Len(b[1].blends) \in Nat
          BY <5>2
        <5>4. Len(b[1].blends) < Len(r.key.blends) \/ b[1] = r.key
          BY <1>5, <1>8, <4>1 DEF Behind
        <5> QED BY <1>3, <5>3, <5>4
      <4> QED BY <1>1, <1>3, <1>4, <3>1, <4>1 DEF Behind
    <3>2. CASE q # p
      <4>1. Usable(q) /\ rng'[q] = rng[q] /\ rng[q].key.seed # r.key.seed
        BY <1>4, <1>6, <1>7, <2>1, <3>2 DEF UsableOnlyIfWas, Ledger, SeedsOwned
      <4>2. Behind(rng[q].key, rng[q].generated_since_reseed)
        BY <4>1, PastIs DEF Ledger
      <4> QED BY <1>1, <1>5, <4>1, <4>2 DEF Behind, Position
    <3> QED BY <3>1, <3>2
  <2> QED BY <2>1 DEF OutputIsPast, Behind
<1> QED BY <1>10, <1>11, <1>12 DEF Ledger

LEMMA SeedLedger ==
  ASSUME Basics, GuardsFine, Ledger, NEW p \in Proc, SeedFromOs(p)
  PROVE  Ledger'
<1>1. PICK s \in OsSeed \ seeded :
           /\ seeded' = seeded \cup {s}
           /\ rng' = [rng EXCEPT ![p] = FirstGenerator(s)] /\ pc' = [pc EXCEPT ![p] = "capture"]
           /\ UNCHANGED <<forkVars, emitted, repeated, blended>>
  BY SeedEffect
<1>2. FirstGenerator(s).key = [seed |-> s, blends |-> <<>>]
  BY DEF FirstGenerator
<1> HIDE DEF FirstGenerator
<1>3. /\ rng'[p].key = [seed |-> s, blends |-> <<>>]
      /\ \A q \in Proc \ {p} : rng'[q] = rng[q] /\ pc'[q] = pc[q]
  BY <1>1, <1>2, BasicFacts
<1> QED BY <1>1, <1>3, FreshSeed

LEMMA ReseedOsLedger ==
  ASSUME Basics, GuardsFine, Ledger, NEW p \in Proc, ReseedFromOs(p)
  PROVE  Ledger'
<1>1. PICK s \in OsSeed \ seeded :
           /\ seeded' = seeded \cup {s}
           /\ rng' = [rng EXCEPT ![p] = Rekeyed(rng[p], [seed |-> s, blends |-> <<>>])]
           /\ Good(rng[p], Quota) /\ pc' = [pc EXCEPT ![p] = "capture"]
           /\ UNCHANGED <<forkVars, emitted, repeated, blended>>
  BY ReseedOsEffect
<1>2. Rekeyed(rng[p], [seed |-> s, blends |-> <<>>]).key = [seed |-> s, blends |-> <<>>]
  BY <1>1, FirstKey, RekeyedGood, BasicFacts DEF Good
<1>3. /\ rng'[p].key = [seed |-> s, blends |-> <<>>]
      /\ \A q \in Proc \ {p} : rng'[q] = rng[q] /\ pc'[q] = pc[q]
  BY <1>1, <1>2, BasicFacts
<1> QED BY <1>1, <1>3, FreshSeed

LEMMA LedgerInit == Init => Ledger
BY DEF Init, Ledger, SeedsOwned, OutputIsPast, NoByteTwice, SeedBytesSecret, Usable

LEMMA LedgerStep == SafeSetting /\ Basics /\ GuardsFine /\ Ledger /\ [Next]_vars => Ledger'
BY StepsThatKeep, LedgerKept, SeedLedger, FillLedger, BlendLedger, ReseedOsLedger

-----------------------------------------------------------------------------
(* How much was output under a key. *)

LEMMA SpentLocal ==
  ASSUME SpentBeforeReseed, reseed_interval' = reseed_interval, NEW p \in Proc,
         \A q \in Proc \ {p} : rng'[q] = rng[q] /\ pc'[q] = pc[q],
         pc'[p] = "reseed" => rng'[p].generated_since_reseed = Quota
  PROVE  SpentBeforeReseed'
BY DEF SpentBeforeReseed, Quota

LEMMA SpentInit == Init => SpentBeforeReseed
BY DEF Init, SpentBeforeReseed

LEMMA SpentStep == Basics /\ SpentBeforeReseed /\ [Next]_vars => SpentBeforeReseed'
<1> SUFFICES ASSUME Basics, SpentBeforeReseed, [Next]_vars PROVE SpentBeforeReseed'
  OBVIOUS
<1>1. ASSUME NEW p \in Proc, QuietStep(p) PROVE SpentBeforeReseed'
  <2>1. PICK l \in Label : /\ pc' = [pc EXCEPT ![p] = l]
                           /\ l \notin {"idle", "seed"} => rng[p] # NoRng
                           /\ l = "reseed" => rng[p].generated_since_reseed >= Quota
    BY <1>1, QuietEffect
  <2>2. rng' = rng /\ reseed_interval' = reseed_interval
    BY <1>1, QuietEffect
  <2>3. pc'[p] = l /\ \A q \in Proc \ {p} : pc'[q] = pc[q]
    BY <2>1, BasicFacts
  <2>4. ASSUME l = "reseed" PROVE rng[p].generated_since_reseed = Quota
    <3>1. Good(rng[p], Quota) /\ Quota \in Nat
      BY <2>1, <2>4, BasicFacts
    <3> QED BY <2>1, <2>4, <3>1, GeneratorFields DEF Good
  <2> QED BY <2>2, <2>3, <2>4, SpentLocal
<1>2. ASSUME NEW p \in Proc,
             SeedFromOs(p) \/ CaptureGuard(p) \/ FillChunk(p) \/ ReseedBlend(p) \/ ReseedFromOs(p)
      PROVE  SpentBeforeReseed'
  <2>1. /\ reseed_interval' = reseed_interval /\ pc'[p] # "reseed"
        /\ \A q \in Proc \ {p} : rng'[q] = rng[q] /\ pc'[q] = pc[q]
    BY <1>2, BasicFacts DEF SeedFromOs, CaptureGuard, FillChunk, ReseedBlend, ReseedFromOs, At, Goto
  <2> QED BY <2>1, SpentLocal
<1>3. ASSUME NEW p \in Proc, Drop(p) \/ Exit(p) PROVE SpentBeforeReseed'
  <2>1. /\ reseed_interval' = reseed_interval /\ pc'[p] # "reseed"
        /\ \A q \in Proc \ {p} : rng'[q] = rng[q] /\ pc'[q] = pc[q]
    BY <1>3, ExitEffect, BasicFacts DEF Drop, At
  <2> QED BY <2>1, SpentLocal
<1>4. ASSUME NEW p \in Proc, NEW q \in Proc, NEW i \in Pid, Fork(p, q, i) PROVE SpentBeforeReseed'
  <2>1. /\ reseed_interval' = reseed_interval /\ pc'[q] # "reseed"
        /\ \A x \in Proc \ {q} : rng'[x] = rng[x] /\ pc'[x] = pc[x]
    BY <1>4, ForkEffect
  <2> QED BY <2>1, SpentLocal
<1>5. ASSUME NEW p \in Proc, NEW i \in Pid, Start(p, i) PROVE SpentBeforeReseed'
  <2>1. /\ reseed_interval' = reseed_interval /\ rng' = rng /\ pc' = pc
    BY <1>5, StartEffect
  <2> QED BY <2>1 DEF SpentBeforeReseed, Quota
<1>6. CASE UNCHANGED vars
  BY <1>6 DEF vars, callVars, SpentBeforeReseed, Quota
<1>7. ASSUME NEW p \in Proc, NEW q \in Proc, NEW i \in Pid, ForkInside(p, q, i)
      PROVE  SpentBeforeReseed'
  <2>1. /\ reseed_interval' = reseed_interval
        /\ pc'[q] = "reseed" => rng'[q].generated_since_reseed = Quota
        /\ \A x \in Proc \ {q} : rng'[x] = rng[x] /\ pc'[x] = pc[x]
    BY <1>7, ForkInsideEffect DEF SpentBeforeReseed
  <2> QED BY <2>1, SpentLocal
<1> QED BY <1>1, <1>2, <1>3, <1>4, <1>5, <1>6, <1>7, StepCases

(* What new bytes do to the places taken in the stream of a key.            *)
LEMMA SamePlaces ==
  ASSUME NEW new, emitted' = emitted \cup new, NEW key, \A b \in new : b[1] # key
  PROVE  Places(key)' = Places(key)
BY DEF Places, EmittedUnder, Position

LEMMA UnchangedPlaces ==
  ASSUME emitted' = emitted
  PROVE  \A key : Places(key)' = Places(key)
BY DEF Places, EmittedUnder, Position

LEMMA MorePlaces ==
  ASSUME NEW new, emitted' = emitted \cup new, NEW key, \A b \in new : b[1] = key
  PROVE  Places(key)' = Places(key) \cup {Position(b) : b \in new}
BY DEF Places, EmittedUnder, Position

LEMMA StreamKept ==
  ASSUME OutputIsPrefix, KeepsUse
  PROVE  OutputIsPrefix'
<1>1. emitted' = emitted /\ retired' = retired /\ Quota' = Quota
  BY DEF KeepsUse, history, Quota
<1>2. \A key : Places(key)' = Places(key)
  BY <1>1, UnchangedPlaces
<1> QED BY <1>1, <1>2 DEF OutputIsPrefix, KeepsUse

(* A generator that starts on a key nothing was output under.               *)
LEMMA StreamStarts ==
  ASSUME OutputIsPrefix, UNCHANGED <<forkVars, emitted, reseed_interval>>, NEW p \in Proc,
         \A q \in Proc \ {p} : rng'[q] = rng[q] /\ pc'[q] = pc[q],
         \A b \in emitted : b[1] # rng'[p].key,
         rng'[p].generated_since_reseed = 0,
         \A k \in retired' : \/ k \in retired
                             \/ /\ k = rng[p].key /\ Usable(p)
                                /\ rng[p].generated_since_reseed = Quota
  PROVE  OutputIsPrefix'
<1>1. Quota' = Quota /\ \A key : Places(key)' = Places(key)
  BY UnchangedPlaces DEF Quota
<1>2. Places(rng'[p].key) = {}
  BY DEF Places, EmittedUnder
<1>3. \A q \in Proc \ {p} : UsableOnlyIfWas(q)
  BY SameProcesses, SameUsable
<1>4. ASSUME NEW q \in Proc, Usable(q)'
      PROVE  Places(rng'[q].key) = 0 .. rng'[q].generated_since_reseed - 1
  <2>1. CASE q = p
    BY <1>2, <2>1
  <2>2. CASE q # p
    BY <1>3, <1>4, <2>2 DEF OutputIsPrefix, UsableOnlyIfWas
  <2> QED BY <2>1, <2>2
<1>5. \A k \in retired' : Places(k) = 0 .. Quota - 1
  BY DEF OutputIsPrefix
<1> QED BY <1>1, <1>4, <1>5 DEF OutputIsPrefix

LEMMA SeedStream ==
  ASSUME Basics, Ledger, OutputIsPrefix, NEW p \in Proc, SeedFromOs(p)
  PROVE  OutputIsPrefix'
<1>1. PICK s \in OsSeed \ seeded :
           /\ rng' = [rng EXCEPT ![p] = FirstGenerator(s)] /\ pc' = [pc EXCEPT ![p] = "capture"]
           /\ UNCHANGED <<forkVars, emitted, reseed_interval, retired>>
  BY SeedEffect
<1>2. FirstGenerator(s).key.seed = s /\ FirstGenerator(s).generated_since_reseed = 0
  BY DEF FirstGenerator
<1> HIDE DEF FirstGenerator
<1>3. /\ rng'[p].key.seed = s /\ rng'[p].generated_since_reseed = 0
      /\ \A q \in Proc \ {p} : rng'[q] = rng[q] /\ pc'[q] = pc[q]
  BY <1>1, <1>2, BasicFacts
<1>4. \A b \in emitted : b[1] # rng'[p].key
  BY <1>3 DEF Ledger, SeedsOwned
<1> QED BY <1>1, <1>3, <1>4, StreamStarts

(* The key a reseed replaces has given its quota.                           *)
LEMMA SpentKey ==
  ASSUME GuardsFine, Basics, SpentBeforeReseed, NEW p \in Proc, pc[p] = "reseed"
  PROVE  Usable(p) /\ rng[p].generated_since_reseed = Quota
BY GuardByGuard DEF GuardFine, Usable, SpentBeforeReseed, Basics, CallShape

LEMMA ReseedOsStream ==
  ASSUME Basics, GuardsFine, Ledger, SpentBeforeReseed, OutputIsPrefix,
         NEW p \in Proc, ReseedFromOs(p)
  PROVE  OutputIsPrefix'
<1>1. PICK s \in OsSeed \ seeded :
           /\ rng' = [rng EXCEPT ![p] = Rekeyed(rng[p], [seed |-> s, blends |-> <<>>])]
           /\ retired' = retired \cup {rng[p].key}
           /\ Good(rng[p], Quota) /\ pc[p] = "reseed" /\ pc' = [pc EXCEPT ![p] = "capture"]
           /\ UNCHANGED <<forkVars, emitted, reseed_interval>>
  BY ReseedOsEffect
<1> DEFINE a == Rekeyed(rng[p], [seed |-> s, blends |-> <<>>])
<1>2. a.key = [seed |-> s, blends |-> <<>>] /\ a.generated_since_reseed = 0
  BY <1>1, FirstKey, RekeyedGood, BasicFacts DEF Good
<1> HIDE DEF a
<1>3. /\ rng'[p].key.seed = s /\ rng'[p].generated_since_reseed = 0
      /\ \A q \in Proc \ {p} : rng'[q] = rng[q] /\ pc'[q] = pc[q]
  BY <1>1, <1>2, BasicFacts DEF a
<1>4. \A b \in emitted : b[1] # rng'[p].key
  BY <1>3 DEF Ledger, SeedsOwned
<1> QED BY <1>1, <1>3, <1>4, SpentKey, StreamStarts

LEMMA BlendStream ==
  ASSUME Basics, GuardsFine, Ledger, SpentBeforeReseed, OutputIsPrefix,
         NEW p \in Proc, ReseedBlend(p)
  PROVE  OutputIsPrefix'
<1> DEFINE r == rng[p]
<1>1. PICK e \in CpuEntropy :
           /\ rng' = [rng EXCEPT ![p] = Rekeyed(r, BlendedKey(r, e))]
           /\ Good(r, Quota) /\ retired' = retired \cup {r.key}
           /\ pc[p] = "reseed" /\ pc' = [pc EXCEPT ![p] = "capture"]
           /\ UNCHANGED <<forkVars, reseed_interval, emitted>>
  BY BlendEffect
<1> DEFINE k == BlendedKey(r, e)
           a == Rekeyed(r, k)
<1>2. r \in Generator /\ Quota \in Nat
  BY <1>1, BasicFacts DEF Good
<1>3. /\ k \in Key /\ k.seed = r.key.seed /\ Len(r.key.blends) \in Nat
      /\ Len(k.blends) = Len(r.key.blends) + 1
  BY <1>2, BlendedKeyType
<1>4. a.key = k /\ a.generated_since_reseed = 0
  BY <1>2, <1>3, RekeyedGood
<1>5. rng' = [rng EXCEPT ![p] = a]
  BY <1>1
<1> HIDE DEF k, a
<1>6. /\ rng'[p].key = k /\ rng'[p].generated_since_reseed = 0
      /\ \A q \in Proc \ {p} : rng'[q] = rng[q] /\ pc'[q] = pc[q]
  BY <1>1, <1>4, <1>5, BasicFacts
<1>7. Usable(p) /\ rng[p].generated_since_reseed = Quota
  BY <1>1, SpentKey
<1>8. Behind(r.key, r.generated_since_reseed)
  BY <1>7, PastIs DEF Ledger
<1>9. \A b \in emitted : b[1] # k
  <2>1. ASSUME NEW b \in emitted, b[1] = k PROVE FALSE
    <3>1. Len(k.blends) < Len(r.key.blends) \/ k = r.key
      BY <1>3, <1>8, <2>1 DEF Behind
    <3>2. ~(Len(k.blends) < Len(r.key.blends)) /\ Len(k.blends) # Len(r.key.blends)
      <4> DEFINE u == Len(k.blends)
                 v == Len(r.key.blends)
      <4>1. v \in Nat /\ u = v + 1
        BY <1>3
      <4> HIDE DEF u, v
      <4>2. ~(u < v) /\ u # v
        BY <4>1
      <4> QED BY <4>2 DEF u, v
    <3> QED BY <3>1, <3>2
  <2> QED BY <2>1
<1> QED BY <1>1, <1>6, <1>7, <1>9, StreamStarts

LEMMA FillStream ==
  ASSUME Basics, GuardsFine, Ledger, OutputIsPrefix, NEW p \in Proc, FillChunk(p)
  PROVE  OutputIsPrefix'
<1> DEFINE r == rng[p]
           n == ChunkSize(p)
           g == r.generated_since_reseed
           New == Produced(r, n)
<1>1. /\ r # NoRng /\ Good(r, Quota) /\ n \in Nat /\ g + n <= Quota
      /\ g + n + 4 * BlockSize <= CtrMod * BlockSize
      /\ rng' = [rng EXCEPT ![p] = AfterChunk(r, n)]
      /\ emitted' = emitted \cup New
      /\ pc[p] = "fill" /\ UNCHANGED <<forkVars, reseed_interval, pc, retired>>
  BY FillEffect
<1>2. g < Quota
  BY DEF FillChunk
<1> HIDE DEF n
<1>3. PICK c \in Ctr : Cursor(r, c)
  BY <1>1 DEF Good
<1>4. r \in Generator /\ g \in Nat /\ Quota \in Nat
  BY <1>1, GeneratorFields, BasicFacts DEF Good
<1> PICK k : k = r.key
  OBVIOUS
<1> DEFINE m == g + n
<1>5. /\ rng'[p].key = r.key /\ rng'[p].generated_since_reseed = g + n
      /\ \A q \in Proc \ {p} : rng'[q] = rng[q]
  BY <1>1, <1>3, <1>4, ChunkCursor, BasicFacts
<1>6. Usable(p)
  BY <1>1, GuardByGuard DEF GuardFine, Usable
<1>7. \A q \in Proc : UsableOnlyIfWas(q)
  BY <1>1, <1>5, <1>6, SameProcesses, SameUsable DEF UsableOnlyIfWas
<1>8. \A b \in New : /\ b[1] = r.key /\ Position(b) \in Int
                     /\ Position(b) >= g /\ Position(b) < g + n
  BY <1>1, <1>3, <1>4, ChunkBytes, KeystreamPosition
<1>9. \A x \in 0 .. n - 1 : \E b \in New : Position(b) = g + x
  BY <1>1, <1>3, <1>4, ChunkFillsPlaces
<1> HIDE DEF New
<1>10. Places(k) = 0 .. g - 1
  BY <1>6 DEF OutputIsPrefix
<1>11. ASSUME NEW key, key = k PROVE Places(key)' = 0 .. m - 1
  <2>1. Places(key)' = 0 .. g - 1 \cup {Position(b) : b \in New}
    <3>1. Places(key) = 0 .. g - 1 /\ \A b \in New : b[1] = key
      BY <1>8, <1>10, <1>11
    <3> QED BY <1>1, <3>1, MorePlaces
  <2>2. ASSUME NEW x \in 0 .. m - 1 PROVE x \in 0 .. g - 1 \/ \E b \in New : Position(b) = x
    <3>1. CASE x < g
      BY <1>1, <1>4, <3>1
    <3>2. CASE ~(x < g)
      <4>1. x - g \in 0 .. n - 1 /\ g + (x - g) = x
        BY <1>1, <1>4, <3>2
      <4> QED BY <1>9, <4>1
    <3> QED BY <3>1, <3>2
  <2>3. \A b \in New : Position(b) \in 0 .. m - 1
    BY <1>1, <1>4, <1>8
  <2>4. \A x \in 0 .. g - 1 : x \in 0 .. m - 1
    BY <1>1, <1>4
  <2> QED BY <2>1, <2>2, <2>3, <2>4
<1>12. \A key : key # k => Places(key)' = Places(key)
  BY <1>1, <1>8, SamePlaces
<1>13. Quota' = Quota
  BY <1>1 DEF Quota
<1>14. rng'[p].generated_since_reseed = m /\ m \in 0 .. Quota
  BY <1>1, <1>4, <1>5
<1> HIDE DEF m
<1>15. ASSUME NEW q \in Proc, Usable(q)', NEW key, key = rng'[q].key
       PROVE  Places(key)' = 0 .. rng'[q].generated_since_reseed - 1
  <2>1. CASE q = p
    BY <1>5, <1>11, <1>15, <1>14, <2>1
  <2>2. CASE q # p
    <3>1. Usable(q) /\ rng'[q] = rng[q] /\ rng[q].key.seed # r.key.seed
      BY <1>5, <1>6, <1>7, <1>15, <2>2 DEF UsableOnlyIfWas, Ledger, SeedsOwned
    <3>2. Places(rng[q].key) = 0 .. rng[q].generated_since_reseed - 1
      BY <3>1 DEF OutputIsPrefix
    <3>3. key = rng[q].key /\ key # k
      BY <1>15, <3>1
    <3> QED BY <1>12, <3>1, <3>2, <3>3
  <2> QED BY <2>1, <2>2
<1>16. ASSUME NEW b \in emitted' PROVE \E x \in 0 .. Quota : Places(b[1])' = 0 .. x - 1
  <2>1. CASE b[1] = k
    BY <1>11, <1>14, <2>1
  <2>2. CASE b[1] # k
    <3>1. b \in emitted
      BY <1>1, <1>8, <2>2
    <3> QED BY <1>12, <2>2, <3>1 DEF OutputIsPrefix
  <2> QED BY <2>1, <2>2
<1>17. ASSUME NEW x \in retired PROVE Places(x)' = 0 .. Quota - 1
  <2>1. Places(x) = 0 .. Quota - 1
    BY DEF OutputIsPrefix
  <2>2. x # k
    <3>1. Quota - 1 \in 0 .. Quota - 1 /\ Quota - 1 \notin 0 .. g - 1
      BY <1>2, <1>4
    <3> QED BY <1>10, <2>1, <3>1
  <2> QED BY <1>12, <2>1, <2>2
<1>18. \A q \in Proc : Usable(q)' => Places(rng[q].key)' = 0 .. rng'[q].generated_since_reseed - 1
  BY <1>15 DEF Places, EmittedUnder
<1> QED BY <1>1, <1>13, <1>18, <1>16, <1>17 DEF OutputIsPrefix

LEMMA StreamInit == Init => OutputIsPrefix
BY DEF Init, OutputIsPrefix, Usable

LEMMA StreamStep ==
  SafeSetting /\ Basics /\ GuardsFine /\ Ledger /\ SpentBeforeReseed /\ OutputIsPrefix
    /\ [Next]_vars => OutputIsPrefix'
BY StepsThatKeep, StreamKept, SeedStream, FillStream, BlendStream, ReseedOsStream

-----------------------------------------------------------------------------
(* The theorems. *)

LEMMA InductiveParts ==
  Inductive <=> Basics /\ GuardsFine /\ Ledger /\ SpentBeforeReseed /\ OutputIsPrefix
BY DEF Inductive, Basics, GuardsFine, Ledger

(* The invariant from which the others follow, in a setting where a process *)
(* id does not come back to a process that relies on it and no call forks   *)
(* after the check of its guard.                                            *)
THEOREM InductiveHolds == SafeSetting => (Spec => []Inductive)
<1>1. Spec => []Basics
  BY BasicsInit, BasicsStep, PTL DEF Spec
<1>2. ASSUME SafeSetting PROVE Spec => []GuardsFine
  <2>1. Basics /\ GuardsFine /\ [Next]_vars => GuardsFine'
    BY <1>2, GuardsStep
  <2> QED BY <1>1, <2>1, GuardsInit, PTL DEF Spec
<1>3. ASSUME SafeSetting PROVE Spec => []Ledger
  <2>1. Basics /\ GuardsFine /\ Ledger /\ [Next]_vars => Ledger'
    BY <1>3, LedgerStep
  <2>2. Spec => []GuardsFine
    BY <1>2, <1>3
  <2> QED BY <1>1, <2>1, <2>2, LedgerInit, PTL DEF Spec
<1>4. Spec => []SpentBeforeReseed
  <2>1. Basics /\ SpentBeforeReseed /\ [Next]_vars => SpentBeforeReseed'
    BY SpentStep
  <2> QED BY <1>1, <2>1, SpentInit, PTL DEF Spec
<1>5. ASSUME SafeSetting PROVE Spec => []Inductive
  <2>1. Spec => []GuardsFine /\ []Ledger
    BY <1>2, <1>3, <1>5
  <2>2. Basics /\ GuardsFine /\ Ledger /\ SpentBeforeReseed /\ OutputIsPrefix /\ [Next]_vars
          => OutputIsPrefix'
    BY <1>5, StreamStep
  <2>3. Spec => []OutputIsPrefix
    BY <1>1, <1>4, <2>1, <2>2, StreamInit, PTL DEF Spec
  <2> QED BY <1>1, <1>4, <2>1, <2>3, InductiveParts, PTL
<1> QED BY <1>5

(* No process loses the use of its generator by what the others do, nor a   *)
(* parent by forking, wherever in a call it forks.                          *)
THEOREM OwnerUndisturbedHolds == Spec => OwnerUndisturbed
<1> DEFINE Undisturbed ==
      \A p \in Proc : rng[p] # NoRng /\ Usable(p) /\ rng'[p] = rng[p] => Usable(p)'
<1>1. Basics /\ [Next]_vars => [Undisturbed]_vars
  BY OwnersKept DEF KeepsOwner
<1> QED BY <1>1, BasicsInit, BasicsStep, PTL DEF Spec, OwnerUndisturbed

(* A generator is made where there is none.                                 *)
SeedsFirst == \A p \in Proc : pc[p] = "seed" => rng[p] = NoRng

LEMMA SeedsFirstStep == Basics /\ SeedsFirst /\ [Next]_vars => SeedsFirst'
<1> SUFFICES ASSUME Basics, SeedsFirst, [Next]_vars PROVE SeedsFirst'
  OBVIOUS
<1>1. ASSUME NEW p \in Proc, pc'[p] = "seed" => rng'[p] = NoRng,
             \A q \in Proc \ {p} : rng'[q] = rng[q] /\ pc'[q] = pc[q]
      PROVE  SeedsFirst'
  BY <1>1 DEF SeedsFirst
<1>2. ASSUME NEW p \in Proc, QuietStep(p) PROVE SeedsFirst'
  <2>1. rng' = rng /\ \A q \in Proc \ {p} : pc'[q] = pc[q]
    BY <1>2, QuietEffect, BasicFacts
  <2>2. pc'[p] = "seed" => rng'[p] = NoRng
    BY <1>2, <2>1, BasicFacts DEF QuietStep, CallNew, SeedFails, ClaimInstall, FinishInstall,
       CheckGuard, FillDone, BeginReseed, ReseedFails, CallFill, At, Goto, Return
  <2> QED BY <1>1, <2>1, <2>2
<1>3. ASSUME NEW p \in Proc,
             \/ SeedFromOs(p) \/ CaptureGuard(p) \/ FillChunk(p) \/ ReseedBlend(p)
             \/ ReseedFromOs(p) \/ Drop(p) \/ Exit(p)
      PROVE  SeedsFirst'
  <2>1. /\ pc'[p] # "seed"
        /\ \A q \in Proc \ {p} : rng'[q] = rng[q] /\ pc'[q] = pc[q]
    BY <1>3, BasicFacts DEF SeedFromOs, CaptureGuard, FillChunk, ReseedBlend, ReseedFromOs, Drop,
       Exit, At, Goto
  <2> QED BY <1>1, <2>1
<1>4. ASSUME NEW p \in Proc, NEW q \in Proc, NEW i \in Pid,
             Fork(p, q, i) \/ ForkInside(p, q, i)
      PROVE  SeedsFirst'
  <2>1. /\ pc'[q] = "seed" => rng'[q] = NoRng
        /\ \A x \in Proc \ {q} : rng'[x] = rng[x] /\ pc'[x] = pc[x]
    BY <1>4, ForkEffect, ForkInsideEffect DEF SeedsFirst
  <2> QED BY <1>1, <2>1
<1>5. ASSUME NEW p \in Proc, NEW i \in Pid, Start(p, i) PROVE SeedsFirst'
  BY <1>5, StartEffect DEF SeedsFirst
<1>6. CASE UNCHANGED vars
  BY <1>6 DEF vars, callVars, SeedsFirst
<1> QED BY <1>2, <1>3, <1>4, <1>5, <1>6, StepCases

(* What becomes of a generator that its process may not use.                *)
StaysStale(q) ==
  rng[q] # NoRng /\ ~Usable(q) => rng'[q] \in {rng[q], NoRng} /\ ~Usable(q)'

LEMMA StaleStays ==
  ASSUME SafeSetting, Basics, GuardsFine, SeedsFirst, [Next]_vars, NEW q \in Proc
  PROVE  StaysStale(q)
<1>1. ASSUME NEW p \in Proc, SeedFromOs(p) \/ FillChunk(p) \/ ReseedBlend(p) \/ ReseedFromOs(p)
      PROVE  StaysStale(q)
  <2>1. UNCHANGED forkVars /\ (q # p => rng'[q] = rng[q] /\ pc'[q] = pc[q])
    BY <1>1, BasicFacts DEF SeedFromOs, FillChunk, ReseedBlend, ReseedFromOs, At, Goto
  <2>2. CASE q = p
    BY <1>1, <2>2 DEF StaysStale, SeedsFirst, GuardsFine, FillsAreCurrent, Usable, SeedFromOs,
       FillChunk, ReseedBlend, ReseedFromOs, At
  <2>3. CASE q # p
    <3>1. UsableOnlyIfWas(q)
      BY <2>1, <2>3, SameProcesses, SameUsable
    <3> QED BY <2>1, <2>3, <3>1 DEF StaysStale, UsableOnlyIfWas
  <2> QED BY <2>2, <2>3
<1>2. rng[q] # NoRng /\ ~Usable(q) =>
        \/ rng'[q] \in {rng[q], NoRng}
        \/ \E p \in Proc : SeedFromOs(p) \/ FillChunk(p) \/ ReseedBlend(p) \/ ReseedFromOs(p)
  <2> SUFFICES ASSUME rng[q] # NoRng, ~Usable(q),
                      ~\E p \in Proc : \/ SeedFromOs(p) \/ FillChunk(p) \/ ReseedBlend(p)
                                       \/ ReseedFromOs(p)
               PROVE  rng'[q] \in {rng[q], NoRng}
    OBVIOUS
  <2>1. ASSUME NEW p \in Proc, QuietStep(p) \/ CaptureGuard(p) \/ Drop(p) \/ Exit(p)
        PROVE  rng'[q] \in {rng[q], NoRng}
    <3>1. CASE QuietStep(p)
      BY <3>1, QuietEffect
    <3>2. CASE CaptureGuard(p)
      BY <3>2, CaptureEffect, BasicFacts DEF Usable
    <3>3. CASE Drop(p) \/ Exit(p)
      BY <3>3, BasicFacts DEF Drop, Exit
    <3> QED BY <2>1, <3>1, <3>2, <3>3
  <2>2. ASSUME NEW p \in Proc, NEW x \in Proc, NEW i \in Pid, Fork(p, x, i) \/ ForkInside(p, x, i)
        PROVE  rng'[q] = rng[q]
    BY <2>2, ForkEffect, ForkInsideEffect
  <2>3. ASSUME NEW p \in Proc, NEW i \in Pid, Start(p, i)
        PROVE  rng'[q] = rng[q]
    BY <2>3, StartEffect
  <2>4. CASE UNCHANGED vars
    BY <2>4 DEF vars, callVars
  <2> QED BY <2>1, <2>2, <2>3, <2>4, StepCases
<1>3. CASE KeepsUse
  BY <1>1, <1>2, <1>3 DEF KeepsUse, StaysStale
<1> QED BY <1>1, <1>3, StepsThatKeep

(* A generator that crossed a fork stays lost to the child.                 *)
THEOREM StaleForEverHolds == SafeSetting => (Spec => StaleForEver)
<1> DEFINE Stale ==
      \A p \in Proc : rng[p] # NoRng /\ ~Usable(p) => rng'[p] \in {rng[p], NoRng} /\ ~Usable(p)'
<1>1. ASSUME SafeSetting PROVE Spec => StaleForEver
  <2>1. Basics /\ GuardsFine /\ SeedsFirst /\ [Next]_vars => [Stale]_vars
    BY <1>1, StaleStays DEF StaysStale
  <2>2. Inductive => Basics /\ GuardsFine
    BY InductiveParts
  <2>3. Spec => []Inductive
    BY <1>1, InductiveHolds
  <2>4. Init => SeedsFirst
    BY DEF Init, SeedsFirst
  <2> QED BY <2>1, <2>2, <2>3, <2>4, SeedsFirstStep, PTL DEF Spec, StaleForEver
<1> QED BY <1>1

(* No keystream byte is handed out twice by any process of the tree.        *)
THEOREM NoByteTwiceHolds == SafeSetting => (Spec => []NoByteTwice)
<1>1. Inductive => NoByteTwice
  BY DEF Inductive
<1>2. ASSUME SafeSetting PROVE Spec => []NoByteTwice
  <2>1. Spec => []Inductive
    BY <1>2, InductiveHolds
  <2> QED BY <1>1, <2>1, PTL
<1> QED BY <1>2

(* At most one process may use the stream of a key.                         *)
THEOREM OneOwnerHolds == SafeSetting => (Spec => []OneOwner)
<1>1. Inductive => OneOwner
  BY DEF Inductive, SeedsOwned, OneOwner
<1>2. ASSUME SafeSetting PROVE Spec => []OneOwner
  <2>1. Spec => []Inductive
    BY <1>2, InductiveHolds
  <2> QED BY <1>1, <2>1, PTL
<1> QED BY <1>2

(* The keystream a new seed is made of is never output, before or after.    *)
THEOREM SeedBytesSecretHolds == SafeSetting => (Spec => []SeedBytesSecret)
<1>1. Inductive => SeedBytesSecret
  BY DEF Inductive
<1>2. ASSUME SafeSetting PROVE Spec => []SeedBytesSecret
  <2>1. Spec => []Inductive
    BY <1>2, InductiveHolds
  <2> QED BY <1>1, <2>1, PTL
<1> QED BY <1>2

LEMMA BufferFollows == Inductive => BufferUnspent
<1> SUFFICES ASSUME Inductive PROVE BufferUnspent
  OBVIOUS
<1>1. Basics /\ GuardsFine /\ Ledger
  BY InductiveParts
<1>2. Zero \notin emitted /\ Zero \notin Keystream
  BY <1>1, BasicFacts, KeyGeneratorAssumption
<1>3. ASSUME NEW p \in Proc, Usable(p), NEW o \in Offset
      PROVE  IF o < rng[p].buffer_pos
               THEN rng[p].buffer[o] = Zero
               ELSE rng[p].buffer[o] \notin emitted \cup blended \cup {Zero}
  <2> DEFINE r == rng[p]
             g == r.generated_since_reseed
  <2>1. r # NoRng /\ Good(r, Quota)
    BY <1>1, <1>3, BasicFacts DEF Usable
  <2>2. PICK c \in Ctr : Cursor(r, c)
    BY <2>1 DEF Good
  <2>3. /\ r \in Generator /\ r.key \in Key /\ g \in Nat /\ r.buffer_pos \in Nat /\ o \in Nat
        /\ Len(r.key.blends) \in Nat
    <3>1. r \in Generator /\ r.key \in Key /\ g \in Nat /\ r.buffer_pos \in Nat /\ o \in Nat
      BY <2>1, GeneratorFields, Constants DEF Good, Offset
    <3>2. r.key.blends \in Seq(Ctr \X CpuEntropy)
      BY <3>1 DEF Key
    <3> QED BY <3>1, <3>2
  <2>4. CASE o < r.buffer_pos
    BY <2>2, <2>4 DEF Cursor
  <2>5. CASE ~(o < r.buffer_pos)
    <3> DEFINE b == r.buffer[o]
    <3>1. Streamed(r, b, g + o - r.buffer_pos)
      BY <2>2, <2>3, <2>5, BufferHolds
    <3>2. b \in Keystream /\ b[1] = r.key /\ Position(b) >= g /\ Position(b) \in Int
      BY <2>3, <2>5, <3>1, KeystreamPosition DEF Streamed
    <3>3. Behind(r.key, g)
      BY <1>1, <1>3, PastIs DEF Ledger
    <3> HIDE DEF b, g
    <3>4. ~(Len(b[1].blends) < Len(r.key.blends)) /\ ~(Position(b) < g) /\ b[1].seed = r.key.seed
      BY <2>3, <3>2 DEF g
    <3>5. b \notin emitted /\ b \notin blended /\ b # Zero
      BY <1>2, <3>2, <3>3, <3>4 DEF Behind
    <3> QED BY <2>5, <3>5 DEF b
  <2> QED BY <2>4, <2>5
<1> QED BY <1>2, <1>3 DEF BufferUnspent

(* A usable generator's buffer holds wiped bytes up to the cursor, and only *)
(* bytes never handed out from there on; no wiped byte is ever output.      *)
THEOREM BufferUnspentHolds == SafeSetting => (Spec => []BufferUnspent)
<1>1. ASSUME SafeSetting PROVE Spec => []BufferUnspent
  <2>1. Spec => []Inductive
    BY <1>1, InductiveHolds
  <2> QED BY <2>1, BufferFollows, PTL
<1> QED BY <1>1

(* As many bytes were output under a key as there are places they took.     *)
LEMMA PlacesCount ==
  ASSUME emitted \subseteq Keystream, NEW k, NEW n \in Nat, Places(k) = 0 .. n - 1
  PROVE  Cardinality(EmittedUnder(k)) = n
<1> DEFINE S == EmittedUnder(k)
           T == 0 .. n - 1
           f == [b \in S |-> Position(b)]
<1>1. \A b \in S : b \in Keystream /\ b[1] = k
  BY DEF EmittedUnder
<1>2. \A b \in S : Position(b) \in T
  BY DEF Places
<1>3. \A x \in T : \E b \in S : Position(b) = x
  BY DEF Places
<1>4. \A b, c \in S : Position(b) = Position(c) => b = c
  BY <1>1, PlaceNamesByte
<1> HIDE DEF S, T
<1>5. f \in Bijection(S, T)
  BY <1>2, <1>3, <1>4 DEF Bijection, Injection, Surjection, IsInjective
<1>6. ExistsBijection(T, S)
  BY <1>5, Fun_ExistsBijSymmetric DEF ExistsBijection
<1>7. IsFiniteSet(T) /\ Cardinality(T) = n
  BY FS_Interval DEF T
<1> QED BY <1>6, <1>7, FS_Bijection DEF S

LEMMA StreamsFollow == Inductive => KeyQuota /\ Contiguous
<1> SUFFICES ASSUME Inductive PROVE KeyQuota /\ Contiguous
  OBVIOUS
<1>1. emitted \subseteq Keystream /\ OutputIsPrefix /\ Quota \in Nat
  BY InductiveParts, BasicFacts
<1>2. ASSUME NEW b \in emitted
      PROVE  /\ Cardinality(EmittedUnder(b[1])) <= Quota
             /\ Places(b[1]) = 0 .. Cardinality(EmittedUnder(b[1])) - 1
  <2>1. PICK n \in 0 .. Quota : Places(b[1]) = 0 .. n - 1
    BY <1>1 DEF OutputIsPrefix
  <2>2. n \in Nat /\ n <= Quota
    BY <1>1
  <2>3. Cardinality(EmittedUnder(b[1])) = n
    BY <1>1, <2>1, <2>2, PlacesCount
  <2> QED BY <2>1, <2>2, <2>3
<1>3. \A k \in retired : Cardinality(EmittedUnder(k)) = Quota
  BY <1>1, PlacesCount DEF OutputIsPrefix
<1> QED BY <1>2, <1>3 DEF KeyQuota, Contiguous, Places

(* Under one key at most an interval of bytes is output, an interval of 0   *)
(* counting as 1, and a key is replaced only when it has given exactly that.*)
THEOREM KeyQuotaHolds == SafeSetting => (Spec => []KeyQuota)
<1>1. ASSUME SafeSetting PROVE Spec => []KeyQuota
  <2>1. Spec => []Inductive
    BY <1>1, InductiveHolds
  <2> QED BY <2>1, StreamsFollow, PTL
<1> QED BY <1>1

(* What is output under a key is a prefix of its stream: no call, of any    *)
(* length, skips a byte.                                                    *)
THEOREM ContiguousHolds == SafeSetting => (Spec => []Contiguous)
<1>1. ASSUME SafeSetting PROVE Spec => []Contiguous
  <2>1. Spec => []Inductive
    BY <1>1, InductiveHolds
  <2> QED BY <2>1, StreamsFollow, PTL
<1> QED BY <1>1

-----------------------------------------------------------------------------
(* The draws a reseed takes from the CPU, word by word. *)

(* The caller waits exactly while the draw runs.                            *)
Waiting == answer = "asked" <=> stage # "idle"

DrawInv == DrawTypeOK /\ Waiting

LEMMA WipedWords == AllWiped \in [1 .. Words -> Values]
BY DrawAssumption DEF AllWiped

LEMMA DrawInitialInv == DrawInit => DrawInv
BY WipedWords, DrawAssumption DEF DrawInit, DrawInv, DrawTypeOK, Waiting

LEMMA FailKeeps ==
  ASSUME DrawInv, Fail
  PROVE  DrawInv'
BY WipedWords DEF DrawInv, DrawTypeOK, Waiting, Fail, Conclude

LEMMA DrawKeeps == DrawInv /\ [DrawNext]_drawVars => DrawInv'
<1> SUFFICES ASSUME DrawInv, [DrawNext]_drawVars PROVE DrawInv'
  OBVIOUS
<1> USE DrawAssumption DEF DrawInv, DrawTypeOK, Waiting
<1>1. CASE Draw
  BY <1>1, WipedWords DEF Draw
<1>2. ASSUME NEW v \in Values, Ready(v) PROVE DrawInv'
  BY <1>2 DEF Ready
<1>3. CASE NotReady
  BY <1>3 DEF NotReady
<1>4. CASE Unavailable \/ Exhausted \/ Stuck
  BY <1>4, FailKeeps DEF Unavailable, Exhausted, Stuck
<1>5. CASE Filled
  BY <1>5 DEF Filled
<1>6. CASE Pass
  BY <1>6 DEF Pass, Conclude
<1>7. CASE UNCHANGED drawVars
  BY <1>7 DEF drawVars
<1> QED BY <1>1, <1>2, <1>3, <1>4, <1>5, <1>6, <1>7 DEF DrawNext, Step

(* Every variable keeps its type: no word is written past the end of the    *)
(* buffer, and the budget of tries is never overrun (cpu_rng_fill).          *)
THEOREM DrawTypes == DrawSpec => []DrawTypeOK
<1>1. DrawInv => DrawTypeOK
  BY DEF DrawInv
<1> QED BY <1>1, DrawInitialInv, DrawKeeps, PTL DEF DrawSpec

-----------------------------------------------------------------------------
(* A draw as the caller sees it: SeedDraw. *)

(* The screen finds every repeated word.                                    *)
LEMMA ScreenFinds ==
  ASSUME ~stuck_output(out)
  PROVE  Promise!Distinct(out)
<1> SUFFICES ASSUME NEW i \in 1 .. Words, NEW j \in 1 .. Words, i # j
             PROVE  out[i] # out[j]
  BY DEF Promise!Distinct
<1>1. Words \in Nat
  BY DrawAssumption
<1>2. CASE i < j
  BY <1>1, <1>2 DEF stuck_output
<1>3. CASE j < i
  BY <1>1, <1>3 DEF stuck_output
<1> QED BY <1>1, <1>2, <1>3

Seen == IF answer = "asked" THEN AllWiped ELSE out

LEMMA SameWiped == Promise!AllWiped = AllWiped
BY DEF Promise!AllWiped, AllWiped

LEMMA DrawInitialMaps == DrawInit => Promise!Init
BY SameWiped DEF DrawInit, Promise!Init

LEMMA FailMaps ==
  ASSUME DrawInv, stage # "idle", Fail
  PROVE  Promise!Next
<1>1. answer = "asked" /\ answer' = "false" /\ out' = AllWiped
  BY DEF DrawInv, Waiting, Fail, Conclude
<1>2. Promise!FallBack
  BY <1>1, SameWiped DEF Promise!FallBack
<1> QED BY <1>2 DEF Promise!Next

LEMMA DrawMaps ==
  DrawInv /\ [DrawNext]_drawVars => [Promise!Next]_<<answer, Seen>>
<1> SUFFICES ASSUME DrawInv, [DrawNext]_drawVars
             PROVE  Promise!Next \/ UNCHANGED <<answer, Seen>>
  OBVIOUS
<1>1. CASE Draw
  <2>1. answer # "asked" /\ answer' = "asked"
    BY <1>1 DEF Draw, DrawInv, Waiting
  <2>2. Promise!Ask
    BY <2>1, SameWiped DEF Promise!Ask
  <2> QED BY <2>2 DEF Promise!Next
<1>2. CASE NotReady \/ Filled \/ \E v \in Values : Ready(v)
  <2>1. answer = "asked" /\ answer' = answer
    BY <1>2 DEF NotReady, Filled, Ready, DrawInv, Waiting
  <2> QED BY <2>1 DEF Seen, AllWiped
<1>3. CASE Unavailable \/ Exhausted \/ Stuck
  BY <1>3, FailMaps DEF Unavailable, Exhausted, Stuck
<1>4. CASE Pass
  <2>1. answer = "asked" /\ answer' = "true" /\ out' = out /\ ~stuck_output(out)
    BY <1>4 DEF Pass, Conclude, DrawInv, Waiting
  <2>2. out \in [1 .. Words -> Values] /\ Promise!Distinct(out)
    BY <2>1, ScreenFinds DEF DrawInv, DrawTypeOK
  <2>3. Promise!Succeed
    BY <2>1, <2>2 DEF Promise!Succeed, Promise!Distinct
  <2> QED BY <2>3 DEF Promise!Next
<1>5. CASE UNCHANGED drawVars
  BY <1>5 DEF drawVars, Seen, AllWiped
<1> QED BY <1>1, <1>2, <1>3, <1>4, <1>5 DEF DrawNext, Step

(* The draw implements its promise: whatever the instruction returns and    *)
(* however often it is not ready, the caller gets distinct words or a       *)
(* zeroed buffer (cpu_rng_fill, stuck_output).                              *)
THEOREM DrawKeepsPromise == DrawSpec => KeepsPromise
<1>1. DrawSpec => []DrawInv
  BY DrawInitialInv, DrawKeeps, PTL DEF DrawSpec
<1>2. DrawInv /\ [DrawNext]_drawVars =>
        [Promise!Next]_<<answer, IF answer = "asked" THEN AllWiped ELSE out>>
  BY DrawMaps DEF Seen
<1> QED BY <1>1, <1>2, DrawInitialMaps, PTL DEF DrawSpec, KeepsPromise, Promise!Spec
=============================================================================
