----------------------------- MODULE AesProofs ------------------------------
(***************************************************************************)
(* For every S-box, every key and any number of interleaved blocks: the    *)
(* schedule of Aes is that of FIPS-197, and what is stored has gone        *)
(* through its cipher.                                                     *)
(***************************************************************************)
EXTENDS Aes, TLAPS

LEMMA XorWord ==
  ASSUME NEW a \in Word, NEW b \in Word
  PROVE  Xor(a, b) \in Word
  BY DEF Xor, Word

LEMMA RotWordType ==
  ASSUME NEW v \in Word
  PROVE  RotWord(v) \in Word
  BY DEF RotWord, Word

LEMMA SubWordType ==
  ASSUME NEW v \in Word
  PROVE  SubWord(v) \in Word
<1>1. ASSUME NEW j \in 0 .. 3
      PROVE  SubByte[{b - 8 * j : b \in v \cap (8 * j .. 8 * j + 7)}] \in Byte
  <2>1. {b - 8 * j : b \in v \cap (8 * j .. 8 * j + 7)} \in Byte
    BY DEF Word, Byte
  <2> QED  BY <2>1, AesAssumption
<1>2. ASSUME NEW j \in 0 .. 3, NEW i \in 0 .. 7
      PROVE  8 * j + i \in 0 .. 31
  OBVIOUS
<1> QED  BY <1>1, <1>2 DEF SubWord, Word, Byte

(* The shift-and-XOR cascade makes each word the XOR of the words up to it. *)
LEMMA Cascade ==
  ASSUME NEW k \in Register
  PROVE  /\ prefix_cascade(k) \in Register
         /\ prefix_cascade(k)[0] = k[0]
         /\ \A c \in 1 .. 3 : prefix_cascade(k)[c] = Xor(k[c], prefix_cascade(k)[c - 1])
<1> DEFINE once == XorRegister(k, ShiftWord(k))
           twice == XorRegister(once, ShiftWord(once))
<1>1. once = [c \in 0 .. 3 |-> Xor(k[c], IF c = 0 THEN {} ELSE k[c - 1])]
  BY DEF XorRegister, ShiftWord
<1>2. twice = [c \in 0 .. 3 |-> Xor(once[c], IF c = 0 THEN {} ELSE once[c - 1])]
  BY DEF XorRegister, ShiftWord
<1>3. prefix_cascade(k) = [c \in 0 .. 3 |-> Xor(twice[c], IF c = 0 THEN {} ELSE twice[c - 1])]
  BY DEF XorRegister, ShiftWord, prefix_cascade
<1> HIDE DEF once, twice
<1>4. /\ once[0] = Xor(k[0], {})      /\ once[1] = Xor(k[1], k[0])
      /\ once[2] = Xor(k[2], k[1])    /\ once[3] = Xor(k[3], k[2])
  BY <1>1
<1>5. /\ twice[0] = Xor(once[0], {})          /\ twice[1] = Xor(once[1], once[0])
      /\ twice[2] = Xor(once[2], once[1])     /\ twice[3] = Xor(once[3], once[2])
  BY <1>2
<1>6. /\ prefix_cascade(k)[0] = Xor(twice[0], {})
      /\ prefix_cascade(k)[1] = Xor(twice[1], twice[0])
      /\ prefix_cascade(k)[2] = Xor(twice[2], twice[1])
      /\ prefix_cascade(k)[3] = Xor(twice[3], twice[2])
  BY <1>3
<1>7. /\ k[0] \in Word /\ k[1] \in Word /\ k[2] \in Word /\ k[3] \in Word
  BY DEF Register
<1>8. prefix_cascade(k)[0] = k[0]
  BY <1>4, <1>5, <1>6 DEF Xor
<1>9. prefix_cascade(k)[1] = Xor(k[1], k[0])
  BY <1>4, <1>5, <1>6 DEF Xor
<1>10. prefix_cascade(k)[2] = Xor(k[2], Xor(k[1], k[0]))
  BY <1>4, <1>5, <1>6 DEF Xor
<1>11. prefix_cascade(k)[3] = Xor(k[3], Xor(k[2], Xor(k[1], k[0])))
  BY <1>4, <1>5, <1>6 DEF Xor
<1>12. prefix_cascade(k) \in Register
  <2>1. \A c \in 0 .. 3 : prefix_cascade(k)[c] \in Word
    BY <1>7, <1>8, <1>9, <1>10, <1>11, XorWord
  <2> QED  BY <1>3, <2>1 DEF Register
<1> QED  BY <1>8, <1>9, <1>10, <1>11, <1>12

-----------------------------------------------------------------------------
(* What a round key gets from the one before it.                            *)
Term(n) ==
  IF n % 2 = 0 THEN Xor(RotWord(SubWord(round_keys[n - 1][3])), AES_RCON[(n \div 2) - 1])
  ELSE SubWord(round_keys[n - 1][3])

KeysTyped ==
  /\ build \in {"aarch64", "x86"}
  /\ key \in [0 .. 7 -> Word]
  /\ \E n \in 2 .. 15 : round_keys \in [0 .. n - 1 -> Register]

(* The schedule, round key by round key.                                    *)
Recurrence ==
  /\ round_keys[0] = Half(key, 0) /\ round_keys[1] = Half(key, 4)
  /\ \A n \in 2 .. 14 : n \in DOMAIN round_keys =>
       /\ round_keys[n][0] = Xor(round_keys[n - 2][0], Term(n))
       /\ \A c \in 1 .. 3 : round_keys[n][c] = Xor(round_keys[n - 2][c], round_keys[n][c - 1])

(* Both builds get the same word out of the round instruction.              *)
LEMMA NextKeyIs ==
  ASSUME KeysTyped, NEW n \in 2 .. 14, n - 1 \in DOMAIN round_keys
  PROVE  /\ Term(n) \in Word
         /\ NextKey(n) = XorRegister(prefix_cascade(round_keys[n - 2]), Broadcast(Term(n)))
<1>1. round_keys[n - 1] \in Register /\ n - 2 \in DOMAIN round_keys
  BY DEF KeysTyped
<1>2. round_keys[n - 1][3] \in Word
  BY <1>1 DEF Register
<1>3. SubWord(round_keys[n - 1][3]) \in Word
  BY <1>2, SubWordType
<1>4. n % 2 = 0 => (n \div 2) - 1 \in 0 .. 6
  OBVIOUS
<1>5. n % 2 = 0 => AES_RCON[(n \div 2) - 1] \in Word
  BY <1>4 DEF AES_RCON, Word
<1>6. Term(n) \in Word
  BY <1>3, <1>5, RotWordType, XorWord DEF Term
<1>7. CASE n % 2 = 0
  <2>1. EvenWord(round_keys[n - 1], AES_RCON[(n \div 2) - 1]) = Term(n)
    BY <1>7 DEF EvenWord, Term, keygenassist
  <2> QED  BY <1>6, <1>7, <2>1 DEF NextKey
<1>8. CASE n % 2 # 0
  <2>1. OddWord(round_keys[n - 1]) = Term(n)
    BY <1>8 DEF OddWord, Term, keygenassist
  <2> QED  BY <1>6, <1>8, <2>1 DEF NextKey
<1> QED  BY <1>7, <1>8

LEMMA NextKeyRecurs ==
  ASSUME KeysTyped, NEW n \in 2 .. 14, n - 1 \in DOMAIN round_keys
  PROVE  /\ NextKey(n) \in Register
         /\ NextKey(n)[0] = Xor(round_keys[n - 2][0], Term(n))
         /\ \A c \in 1 .. 3 : NextKey(n)[c] = Xor(round_keys[n - 2][c], NextKey(n)[c - 1])
<1> DEFINE k == round_keys[n - 2]
           p == prefix_cascade(k)
<1>1. k \in Register
  BY DEF KeysTyped
<1>2. /\ p \in Register /\ p[0] = k[0]
      /\ \A c \in 1 .. 3 : p[c] = Xor(k[c], p[c - 1])
  BY <1>1, Cascade
<1>3. NextKey(n) = [c \in 0 .. 3 |-> Xor(p[c], Term(n))]
  BY NextKeyIs DEF XorRegister, Broadcast
<1>4. Term(n) \in Word
  BY NextKeyIs
<1> HIDE DEF k, p
<1>5. NextKey(n) \in Register
  BY <1>2, <1>3, <1>4, XorWord DEF Register
<1>6. NextKey(n)[0] = Xor(k[0], Term(n))
  BY <1>2, <1>3
<1>7. ASSUME NEW c \in 1 .. 3
      PROVE  NextKey(n)[c] = Xor(k[c], NextKey(n)[c - 1])
  <2>1. NextKey(n)[c] = Xor(Xor(k[c], p[c - 1]), Term(n))
    BY <1>2, <1>3
  <2>2. NextKey(n)[c - 1] = Xor(p[c - 1], Term(n))
    BY <1>3
  <2> QED  BY <2>1, <2>2 DEF Xor
<1> QED  BY <1>5, <1>6, <1>7 DEF k

-----------------------------------------------------------------------------
Keys == KeysTyped /\ Recurrence

LEMMA KeysInit == Init => Keys
<1> SUFFICES ASSUME Init PROVE Keys
  OBVIOUS
<1>1. build \in {"aarch64", "x86"} /\ key \in [0 .. 7 -> Word]
  BY AesAssumption DEF Init
<1>2. round_keys = [r \in 0 .. 1 |-> Half(key, 4 * r)]
  BY DEF Init
<1>3. \A r \in 0 .. 1 : Half(key, 4 * r) \in Register
  BY <1>1 DEF Half, Register
<1>4. round_keys \in [0 .. 2 - 1 -> Register]
  BY <1>2, <1>3
<1>5. KeysTyped
  BY <1>1, <1>4 DEF KeysTyped
<1>6. Recurrence
  BY <1>2 DEF Recurrence
<1> QED  BY <1>5, <1>6 DEF Keys

LEMMA KeysStep == Keys /\ [Next]_vars => Keys'
<1> SUFFICES ASSUME Keys, [Next]_vars PROVE Keys'
  OBVIOUS
<1> USE DEF Keys
<1>1. CASE Expand
  <2>1. PICK n \in 2 .. 14 :
          /\ n - 1 \in DOMAIN round_keys /\ n \notin DOMAIN round_keys
          /\ round_keys' = [r \in 0 .. n |-> IF r = n THEN NextKey(n) ELSE round_keys[r]]
    BY <1>1 DEF Expand
  <2>2. DOMAIN round_keys = 0 .. n - 1 /\ round_keys \in [0 .. n - 1 -> Register]
    BY <2>1 DEF KeysTyped
  <2>3. /\ NextKey(n) \in Register
        /\ NextKey(n)[0] = Xor(round_keys[n - 2][0], Term(n))
        /\ \A c \in 1 .. 3 : NextKey(n)[c] = Xor(round_keys[n - 2][c], NextKey(n)[c - 1])
    BY <2>1, NextKeyRecurs
  <2>4. \A r \in 0 .. n - 1 : round_keys'[r] = round_keys[r]
    BY <2>1
  <2>5. round_keys' \in [0 .. (n + 1) - 1 -> Register] /\ round_keys'[n] = NextKey(n)
    BY <2>1, <2>2, <2>3
  <2>6. KeysTyped'
    <3>1. n + 1 \in 2 .. 15 /\ build' = build /\ key' = key
      BY <1>1 DEF Expand
    <3> QED  BY <2>5, <3>1 DEF KeysTyped
  <2>7. \A m \in 2 .. n : Term(m)' = Term(m)
    <3> SUFFICES ASSUME NEW m \in 2 .. n PROVE Term(m)' = Term(m)
      OBVIOUS
    <3>1. m - 1 \in 0 .. n - 1
      BY <2>1
    <3>2. round_keys'[m - 1] = round_keys[m - 1]
      BY <2>4, <3>1
    <3> QED  BY <3>2 DEF Term, AES_RCON
  <2>8. key' = key
    BY <1>1 DEF Expand
  <2>9. Recurrence'
    <3>1. round_keys'[0] = Half(key', 0) /\ round_keys'[1] = Half(key', 4)
      <4>1. 0 \in 0 .. n - 1 /\ 1 \in 0 .. n - 1
        BY <2>1
      <4> QED  BY <2>4, <2>8, <4>1 DEF Recurrence
    <3>2. ASSUME NEW m \in 2 .. 14, m \in DOMAIN round_keys'
          PROVE  /\ round_keys'[m][0] = Xor(round_keys'[m - 2][0], Term(m)')
                 /\ \A c \in 1 .. 3 :
                      round_keys'[m][c] = Xor(round_keys'[m - 2][c], round_keys'[m][c - 1])
      <4>1. m \in 2 .. n
        BY <2>5, <3>2
      <4>2. m - 2 \in 0 .. n - 1 /\ round_keys'[m - 2] = round_keys[m - 2]
        BY <2>4, <4>1
      <4>3. Term(m)' = Term(m)
        BY <2>7, <4>1
      <4>4. CASE m = n
        BY <2>3, <2>5, <4>2, <4>3, <4>4
      <4>5. CASE m # n
        <5>1. m \in DOMAIN round_keys /\ round_keys'[m] = round_keys[m]
          BY <2>2, <2>4, <4>1, <4>5
        <5> QED  BY <5>1, <4>2, <4>3 DEF Recurrence
      <4> QED  BY <4>4, <4>5
    <3> QED  BY <3>1, <3>2 DEF Recurrence
  <2> QED  BY <2>6, <2>9
<1>2. CASE UNCHANGED <<build, key, round_keys>>
  BY <1>2 DEF KeysTyped, Recurrence, Term
<1>3. CASE (\E width \in Widths : Load(width)) \/ EncryptRound \/ StoreBlocks
  BY <1>2, <1>3 DEF Load, EncryptRound, StoreBlocks
<1> QED  BY <1>1, <1>2, <1>3 DEF Next, vars

LEMMA KeysAlways == Spec => []Keys
  BY KeysInit, KeysStep, PTL DEF Spec

(* The same, in the standard's numbering of the words.                      *)
LEMMA RecurrenceIsFips == Keys => ScheduleIsFips
<1> SUFFICES ASSUME Keys PROVE ScheduleIsFips
  OBVIOUS
<1> USE DEF Keys
<1>1. \A i \in 0 .. 7 : w(i) = key[i]
  BY DEF w, Recurrence, Half
<1>2. ASSUME NEW i \in 8 .. 59, i \div 4 \in DOMAIN round_keys
      PROVE  w(i) = Xor(w(i - 8), FipsTerm(i))
  <2> DEFINE n == i \div 4
             c == i % 4
  <2>1. n \in 2 .. 14 /\ c \in 0 .. 3 /\ i = 4 * n + c
    OBVIOUS
  <2>2. (i - 8) \div 4 = n - 2 /\ (i - 8) % 4 = c
    OBVIOUS
  <2>3. CASE c = 0
    <3>1. (i - 1) \div 4 = n - 1 /\ (i - 1) % 4 = 3
      BY <2>3
    <3>2. w(i - 1) = round_keys[n - 1][3]
      BY <3>1 DEF w
    <3>3. CASE n % 2 = 0
      <4>1. i % 8 = 0 /\ i \div 8 = n \div 2
        BY <2>3, <3>3
      <4>2. FipsTerm(i) = Term(n)
        BY <3>2, <3>3, <4>1 DEF FipsTerm, Term
      <4> QED  BY <1>2, <2>1, <2>2, <2>3, <4>2 DEF w, Recurrence
    <3>4. CASE n % 2 # 0
      <4>1. i % 8 = 4
        BY <2>3, <3>4
      <4>2. FipsTerm(i) = Term(n)
        BY <3>2, <3>4, <4>1 DEF FipsTerm, Term
      <4> QED  BY <1>2, <2>1, <2>2, <2>3, <4>2 DEF w, Recurrence
    <3> QED  BY <3>3, <3>4
  <2>4. CASE c # 0
    <3>1. (i - 1) \div 4 = n /\ (i - 1) % 4 = c - 1
      BY <2>4
    <3>2. i % 8 # 0 /\ i % 8 # 4
      BY <2>4
    <3>3. FipsTerm(i) = w(i - 1)
      BY <3>2 DEF FipsTerm
    <3> QED  BY <1>2, <2>1, <2>2, <2>4, <3>1, <3>3 DEF w, Recurrence
  <2> QED  BY <2>3, <2>4
<1> QED  BY <1>1, <1>2 DEF ScheduleIsFips

(* The key schedule: for every S-box and every key, on both builds, the     *)
(* round keys of key expansion are those of FIPS-197.                       *)
THEOREM ScheduleCorrect == Spec => []ScheduleIsFips
  BY KeysAlways, RecurrenceIsFips, PTL

-----------------------------------------------------------------------------
(* How many steps a block has behind it when round key n is next.           *)
Done(n) ==
  IF n = 15 THEN 42
  ELSE IF build = "x86" THEN IF n = 0 THEN 0 ELSE 3 * n - 2
  ELSE IF n = 14 THEN 41 ELSE 3 * n

(* A block that holds the first n steps of the cipher.                      *)
Prefix(block, n) ==
  /\ block \in Seq(Steps)
  /\ Len(block) = n
  /\ \A j \in 1 .. n : block[j] = FipsCipher[j]

Lanes ==
  \/ blocks = <<>> /\ next = 0
  \/ /\ Expanded /\ DOMAIN blocks # {} /\ next \in 0 .. 15
     /\ \A i \in DOMAIN blocks : Prefix(blocks[i], Done(next))

LEMMA OneStep ==
  ASSUME NEW n \in Nat, NEW block, Prefix(block, n), NEW step \in Steps, FipsCipher[n + 1] = step
  PROVE  Prefix(Append(block, step), n + 1)
<1> DEFINE longer == Append(block, step)
<1>1. block \in Seq(Steps) /\ Len(block) = n
  BY DEF Prefix
<1>2. longer \in Seq(Steps) /\ Len(longer) = n + 1
  BY <1>1
<1>3. (\A j \in 1 .. n : longer[j] = block[j]) /\ longer[n + 1] = step
  BY <1>1
<1> HIDE DEF longer
<1>4. ASSUME NEW j \in 1 .. n + 1
      PROVE  longer[j] = FipsCipher[j]
  <2>1. CASE j = n + 1
    BY <1>3, <2>1
  <2>2. CASE j # n + 1
    <3>1. j \in 1 .. n
      BY <2>2
    <3> QED  BY <1>3, <3>1 DEF Prefix
  <2> QED  BY <2>1, <2>2
<1> QED  BY <1>2, <1>4 DEF Prefix, longer

LEMMA StepTypes ==
  ASSUME KeysTyped, Expanded, NEW r \in 0 .. 14
  PROVE  add(r) \in Steps /\ <<"sub_shift">> \in Steps /\ <<"mix">> \in Steps
  BY DEF add, Steps, Expanded, KeysTyped

LEMMA RoundAdvances ==
  ASSUME KeysTyped, Expanded, NEW r \in 0 .. 14, NEW block, Prefix(block, Done(r))
  PROVE  Prefix(Round(block, r), Done(r + 1))
<1> DEFINE sub == <<"sub_shift">>
           mix == <<"mix">>
           d == Done(r)
<1>1. add(r) \in Steps /\ sub \in Steps /\ mix \in Steps
  BY StepTypes
<1>2. build \in {"aarch64", "x86"} /\ block \in Seq(Steps)
  BY DEF KeysTyped, Prefix
<1>3. d \in Nat
  BY <1>2 DEF Done
<1>4. /\ \A n \in 0 .. 13 : FipsCipher[3 * n + 1] = add(n) /\ FipsCipher[3 * n + 2] = sub
      /\ \A n \in 0 .. 12 : FipsCipher[3 * n + 3] = mix
      /\ FipsCipher[42] = add(14)
  BY DEF FipsCipher
<1>5. CASE build = "x86" /\ r = 0
  <2>1. Round(block, r) = Append(block, add(r))
    BY <1>5 DEF Round, RoundX86
  <2>2. d = 0 /\ Done(r + 1) = d + 1 /\ FipsCipher[d + 1] = add(r)
    BY <1>4, <1>5 DEF Done
  <2> QED  BY <1>1, <1>3, <2>1, <2>2, OneStep
<1>6. CASE build = "x86" /\ r \in 1 .. 13
  <2>1. Round(block, r) = Append(Append(Append(block, sub), mix), add(r))
    BY <1>6 DEF Round, RoundX86, aesenc
  <2>2. d = 3 * (r - 1) + 1 /\ Done(r + 1) = d + 1 + 1 + 1
    BY <1>6 DEF Done
  <2>3. /\ FipsCipher[d + 1] = sub /\ FipsCipher[d + 1 + 1] = mix
        /\ FipsCipher[d + 1 + 1 + 1] = add(r)
    BY <1>4, <1>6, <2>2
  <2>4. Prefix(Append(block, sub), d + 1)
    BY <1>1, <1>3, <2>3, OneStep
  <2>5. Prefix(Append(Append(block, sub), mix), d + 1 + 1)
    BY <1>1, <1>3, <2>3, <2>4, OneStep
  <2> QED  BY <1>1, <1>3, <2>1, <2>2, <2>3, <2>5, OneStep
<1>7. CASE build = "x86" /\ r = 14
  <2>1. Round(block, r) = Append(Append(block, sub), add(r))
    BY <1>7 DEF Round, RoundX86, aesenclast
  <2>2. d = 40 /\ Done(r + 1) = d + 1 + 1
    BY <1>7 DEF Done
  <2>3. FipsCipher[d + 1] = sub /\ FipsCipher[d + 1 + 1] = add(r)
    BY <1>4, <1>7, <2>2
  <2>4. Prefix(Append(block, sub), d + 1)
    BY <1>1, <1>3, <2>3, OneStep
  <2> QED  BY <1>1, <1>3, <2>1, <2>2, <2>3, <2>4, OneStep
<1>8. CASE build = "aarch64" /\ r \in 0 .. 12
  <2>1. Round(block, r) = Append(Append(Append(block, add(r)), sub), mix)
    BY <1>8 DEF Round, RoundAarch64, aesmc, aese
  <2>2. d = 3 * r /\ Done(r + 1) = d + 1 + 1 + 1
    BY <1>8 DEF Done
  <2>3. /\ FipsCipher[d + 1] = add(r) /\ FipsCipher[d + 1 + 1] = sub
        /\ FipsCipher[d + 1 + 1 + 1] = mix
    BY <1>4, <1>8, <2>2
  <2>4. Prefix(Append(block, add(r)), d + 1)
    BY <1>1, <1>3, <2>3, OneStep
  <2>5. Prefix(Append(Append(block, add(r)), sub), d + 1 + 1)
    BY <1>1, <1>3, <2>3, <2>4, OneStep
  <2> QED  BY <1>1, <1>3, <2>1, <2>2, <2>3, <2>5, OneStep
<1>9. CASE build = "aarch64" /\ r = 13
  <2>1. Round(block, r) = Append(Append(block, add(r)), sub)
    BY <1>9 DEF Round, RoundAarch64, aese
  <2>2. d = 39 /\ Done(r + 1) = d + 1 + 1
    BY <1>9 DEF Done
  <2>3. FipsCipher[d + 1] = add(r) /\ FipsCipher[d + 1 + 1] = sub
    BY <1>4, <1>9, <2>2
  <2>4. Prefix(Append(block, add(r)), d + 1)
    BY <1>1, <1>3, <2>3, OneStep
  <2>5. Prefix(Append(Append(block, add(r)), sub), d + 1 + 1)
    BY <1>1, <1>3, <2>3, <2>4, OneStep
  <2> QED  BY <2>1, <2>2, <2>5
<1>10. CASE build = "aarch64" /\ r = 14
  <2>1. Round(block, r) = Append(block, add(r))
    BY <1>10 DEF Round, RoundAarch64
  <2>2. d = 41 /\ Done(r + 1) = d + 1 /\ FipsCipher[d + 1] = add(r)
    BY <1>4, <1>10 DEF Done
  <2> QED  BY <1>1, <1>3, <2>1, <2>2, OneStep
<1> QED  BY <1>2, <1>5, <1>6, <1>7, <1>8, <1>9, <1>10

LEMMA LanesInit == Init => Lanes
  BY DEF Init, Lanes

LEMMA LanesStep == Keys /\ Lanes /\ [Next]_vars => Lanes'
<1> SUFFICES ASSUME Keys, Lanes, [Next]_vars PROVE Lanes'
  OBVIOUS
<1>1. CASE Expand
  <2>1. blocks = <<>> /\ next = 0
    BY <1>1 DEF Expand, Lanes
  <2> QED  BY <1>1, <2>1 DEF Expand, Lanes
<1>2. ASSUME NEW width \in Widths, Load(width)
      PROVE  Lanes'
  <2>1. next = 0 /\ next' = 0 /\ Expanded'
    BY <1>2 DEF Load, Lanes, Expanded
  <2>2. DOMAIN blocks' = 1 .. width /\ 1 \in 1 .. width
    BY <1>2, AesAssumption DEF Load
  <2>3. \A i \in DOMAIN blocks' : blocks'[i] = <<>>
    BY <1>2 DEF Load
  <2>4. Done(0)' = 0
    BY DEF Done
  <2>5. Prefix(<<>>, 0)'
    BY DEF Prefix
  <2> QED  BY <2>1, <2>2, <2>3, <2>4, <2>5 DEF Lanes
<1>3. CASE EncryptRound
  <2>1. Expanded /\ DOMAIN blocks # {} /\ next \in 0 .. 14
        /\ \A i \in DOMAIN blocks : Prefix(blocks[i], Done(next))
    BY <1>3 DEF EncryptRound, Lanes, AES256_ROUND_KEY_COUNT
  <2>2. /\ blocks' = [i \in DOMAIN blocks |-> Round(blocks[i], next)]
        /\ next' = next + 1 /\ build' = build /\ round_keys' = round_keys
    BY <1>3 DEF EncryptRound
  <2>3. \A i \in DOMAIN blocks : Prefix(blocks'[i], Done(next + 1))
    BY <2>1, <2>2, RoundAdvances DEF Keys
  <2>4. Done(next)' = Done(next + 1)
    BY <2>2 DEF Done
  <2>5. ASSUME NEW i \in DOMAIN blocks'
        PROVE  /\ blocks'[i] \in Seq(Steps)
               /\ Len(blocks'[i]) = Done(next)'
               /\ \A j \in 1 .. Done(next)' : blocks'[i][j] = FipsCipher'[j]
    <3>1. Prefix(blocks'[i], Done(next + 1))
      BY <2>2, <2>3
    <3>2. FipsCipher' = FipsCipher
      BY <2>2 DEF FipsCipher, add
    <3> QED  BY <2>4, <3>1, <3>2 DEF Prefix
  <2>6. \A i \in DOMAIN blocks' : Prefix(blocks[i], Done(next))'
    BY <2>5 DEF Prefix, Steps
  <2> QED  BY <2>1, <2>2, <2>6 DEF Lanes, Expanded
<1>4. CASE StoreBlocks
  BY <1>4 DEF StoreBlocks, Lanes
<1>5. CASE UNCHANGED vars
  <2>1. FipsCipher' = FipsCipher /\ Done(next)' = Done(next)
    BY <1>5 DEF vars, FipsCipher, add, Done
  <2>2. \A i \in DOMAIN blocks : Prefix(blocks[i], Done(next))' <=> Prefix(blocks[i], Done(next))
    BY <1>5, <2>1 DEF vars, Prefix, Steps
  <2> QED  BY <1>5, <2>2 DEF vars, Lanes, Expanded
<1> QED  BY <1>1, <1>2, <1>3, <1>4, <1>5 DEF Next

(* A lane that has met all fifteen round keys holds the whole cipher.       *)
LEMMA LanesGive == Lanes => CipherIsFips
<1> SUFFICES ASSUME Lanes, next = 15, NEW i \in DOMAIN blocks
             PROVE  blocks[i] = FipsCipher
  BY DEF CipherIsFips, AES256_ROUND_KEY_COUNT
<1>1. Prefix(blocks[i], 42)
  BY DEF Lanes, Done
<1>2. /\ blocks[i] \in Seq(Steps) /\ Len(blocks[i]) = 42
      /\ \A j \in 1 .. 42 : blocks[i][j] = FipsCipher[j]
  BY <1>1 DEF Prefix
<1>3. FipsCipher = [j \in 1 .. 42 |-> FipsCipher[j]]
  BY DEF FipsCipher
<1>4. blocks[i] = [j \in 1 .. 42 |-> blocks[i][j]]
  BY <1>2
<1> QED  BY <1>2, <1>3, <1>4

LEMMA TypeStep ==
  ASSUME TypeOK, Keys, Lanes, [Next]_vars, (Keys /\ Lanes)'
  PROVE  TypeOK'
<1>1. \E n \in 2 .. 15 : round_keys' \in [0 .. n - 1 -> Register]
  BY DEF Keys, KeysTyped
<1>2. next' \in 0 .. 15
  BY DEF Lanes
<1>3. build' \in Builds /\ key' \in CipherKeys
  BY DEF TypeOK, Next, vars, Expand, Load, EncryptRound, StoreBlocks
<1>4. blocks' \in Seq(Seq(Steps))
  <2>1. CASE blocks' = blocks \/ blocks' = <<>>
    <3>1. blocks \in Seq(Seq(Steps))
      BY DEF TypeOK
    <3> HIDE DEF Steps
    <3>2. <<>> \in Seq(Seq(Steps))
      OBVIOUS
    <3> QED  BY <2>1, <3>1, <3>2
  <2>2. ASSUME NEW width \in Widths, Load(width)
        PROVE  blocks' \in Seq(Seq(Steps))
    <3>1. width \in Nat /\ <<>> \in Seq(Steps)
      BY AesAssumption
    <3> QED  BY <2>2, <3>1 DEF Load
  <2>3. CASE EncryptRound
    <3>1. DOMAIN blocks' = 1 .. Len(blocks)
      BY <2>3 DEF EncryptRound, TypeOK
    <3>2. blocks' # <<>>
      BY <2>3, <3>1 DEF EncryptRound, TypeOK
    <3>3. \A i \in 1 .. Len(blocks) : blocks'[i] \in Seq(Steps)
      BY <3>1, <3>2 DEF Lanes, Prefix, Steps
    <3>4. blocks' = [i \in 1 .. Len(blocks) |-> blocks'[i]]
      BY <2>3, <3>1 DEF EncryptRound
    <3>5. Len(blocks) \in Nat
      BY DEF TypeOK
    <3> QED  BY <3>3, <3>4, <3>5
  <2> QED  BY <2>1, <2>2, <2>3 DEF Next, vars, Expand, StoreBlocks
<1> QED  BY <1>1, <1>2, <1>3, <1>4 DEF TypeOK, AES256_ROUND_KEY_COUNT, Steps

(* The key state holds fifteen typed registers at most and the lanes hold   *)
(* steps of the cipher, for every instance.                                 *)
THEOREM AesTypes == Spec => []TypeOK
<1>1. Init => TypeOK
  <2> SUFFICES ASSUME Init PROVE TypeOK
    OBVIOUS
  <2>1. KeysTyped
    BY KeysInit DEF Keys
  <2>2. \E n \in 2 .. 15 : round_keys \in [0 .. n - 1 -> Register]
    BY <2>1 DEF KeysTyped
  <2>3. build \in Builds /\ key \in CipherKeys /\ blocks = <<>> /\ next = 0
    BY DEF Init
  <2>4. <<>> \in Seq(Seq(Steps))
    OBVIOUS
  <2>5. blocks \in Seq(Seq(Steps)) /\ next \in 0 .. 15
    BY <2>3, <2>4
  <2> QED  BY <2>2, <2>3, <2>5 DEF TypeOK, AES256_ROUND_KEY_COUNT
<1>2. Keys /\ Lanes /\ [Next]_vars => (Keys /\ Lanes)'
  BY KeysStep, LanesStep
<1> QED  BY <1>1, <1>2, KeysInit, LanesInit, TypeStep, PTL DEF Spec

(* The cipher: for every S-box, every key and any number of interleaved     *)
(* blocks, what either build stores has gone through the cipher of          *)
(* FIPS-197, every step with the right round key.                           *)
THEOREM CipherCorrect == Spec => []CipherIsFips
<1>1. Spec => []Lanes
  BY LanesInit, LanesStep, KeysAlways, PTL DEF Spec
<1> QED  BY <1>1, LanesGive, PTL
=============================================================================
