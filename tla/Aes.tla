--------------------------------- MODULE Aes --------------------------------
(***************************************************************************)
(* AES-256 as src/aes_gcm/aes.rs and src/random/aes_ctr.rs drive the AES   *)
(* instructions of both architectures: the key expansion in vector         *)
(* registers, and the rounds of one, four or eight interleaved blocks,     *)
(* which the stitched loops of ghash.rs repeat.                            *)
(*                                                                         *)
(* A word is the set of its one bits, so XOR is symmetric difference; a    *)
(* round key is its four words.  The S-box is any function of bytes.  What *)
(* a block holds is the list of the steps applied to its input so far.     *)
(***************************************************************************)
EXTENDS Integers, Sequences, Bits

CONSTANTS
  Builds,      (* Of {"aarch64", "x86"}.                                     *)
  CipherKeys,  (* The keys: eight words each.                                *)
  SubByte,     (* The S-box (FIPS-197, 5.1.1).                               *)
  Widths       (* How many blocks run interleaved.                           *)

Byte == SUBSET (0 .. 7)
Word == SUBSET (0 .. 31)

ASSUME AesAssumption ==
  /\ SubByte \in [Byte -> Byte]
  /\ CipherKeys \subseteq [0 .. 7 -> Word]
  /\ Builds \subseteq {"aarch64", "x86"}
  /\ Widths \subseteq Nat \ {0}

(* SubBytes of the four bytes of a word.                                    *)
SubWord(v) ==
  UNION {{8 * j + i : i \in SubByte[{b - 8 * j : b \in v \cap (8 * j .. 8 * j + 7)}]} :
           j \in 0 .. 3}

(* The byte that falls out is not brought in again at the top.              *)
MutRotWord(v) == {b + 24 : b \in v}

(* rotate_right(8) of the little-endian word.                               *)
RotWord(v) == {(b + 24) % 32 : b \in v}

AES256_ROUND_KEY_COUNT == 15

(* AES_RCON: 1, 2, 4 ... 64.                                                *)
AES_RCON == [i \in 0 .. 6 |-> {i}]

Register == [0 .. 3 -> Word]

VARIABLES
  build,
  key,          (* The caller's key.                                         *)
  round_keys,   (* Those expanded so far.                                    *)
  blocks,       (* The interleaved blocks: the steps applied to each.        *)
  next          (* The round key they meet next.                             *)

vars == <<build, key, round_keys, blocks, next>>

Steps == ({"add"} \X Register) \cup {<<"sub_shift">>, <<"mix">>}

TypeOK ==
  /\ build \in Builds
  /\ key \in CipherKeys
  /\ \E n \in 2 .. AES256_ROUND_KEY_COUNT : round_keys \in [0 .. n - 1 -> Register]
  /\ blocks \in Seq(Seq(Steps))
  /\ next \in 0 .. AES256_ROUND_KEY_COUNT

Half(k, first) == [c \in 0 .. 3 |-> k[first + c]]

(* The expansion begins with the key itself.                                *)
Init ==
  /\ build \in Builds /\ key \in CipherKeys
  /\ round_keys = [r \in 0 .. 1 |-> Half(key, 4 * r)]
  /\ blocks = <<>>
  /\ next = 0

-----------------------------------------------------------------------------
(* Key expansion. *)

XorRegister(a, b) == [c \in 0 .. 3 |-> Xor(a[c], b[c])]

(* vextq_u8(zero, k, 12), _mm_slli_si128::<4>: a word towards the top.      *)
ShiftWord(k) == [c \in 0 .. 3 |-> IF c = 0 THEN {} ELSE k[c - 1]]

(* Two rounds of the three.                                                 *)
MutPrefixCascade(k) ==
  LET once == XorRegister(k, ShiftWord(k)) IN XorRegister(once, ShiftWord(once))

prefix_cascade(k) ==
  LET once == XorRegister(k, ShiftWord(k))
      twice == XorRegister(once, ShiftWord(once))
  IN XorRegister(twice, ShiftWord(twice))

Broadcast(w) == [c \in 0 .. 3 |-> w]

(* _mm_aeskeygenassist_si128: of the words 1 and 3, SubWord, and the same   *)
(* rotated, with the constant.                                              *)
keygenassist(k, rcon) ==
  [c \in 0 .. 3 |->
     LET s == SubWord(k[IF c < 2 THEN 1 ELSE 3])
     IN IF c % 2 = 0 THEN s ELSE Xor(RotWord(s), rcon)]

(* What every word of a new even round key gets: from lane 3 of the assist  *)
(* (x86), from the instruction with a zero key (aarch64).                   *)
EvenWord(odd, rcon) ==
  IF build = "x86" THEN keygenassist(odd, rcon)[3] ELSE Xor(RotWord(SubWord(odd[3])), rcon)

(* Lane 3 of the assist, where the rotated word is.                         *)
MutOddWord(even) ==
  IF build = "x86" THEN keygenassist(even, {})[3] ELSE SubWord(even[3])

(* ... and a new odd one: lane 2 of the assist.                             *)
OddWord(even) ==
  IF build = "x86" THEN keygenassist(even, {})[2] ELSE SubWord(even[3])

(* next_even_key, next_odd_key, generate_round_keys: the round key n from   *)
(* the two before it.                                                       *)
NextKey(n) ==
  XorRegister(prefix_cascade(round_keys[n - 2]),
              Broadcast(IF n % 2 = 0 THEN EvenWord(round_keys[n - 1], AES_RCON[(n \div 2) - 1])
                        ELSE OddWord(round_keys[n - 1])))

Expanded == 14 \in DOMAIN round_keys

Expand ==
  /\ ~Expanded
  /\ \E n \in 2 .. 14 :
       /\ n - 1 \in DOMAIN round_keys /\ n \notin DOMAIN round_keys
       /\ round_keys' = [r \in 0 .. n |-> IF r = n THEN NextKey(n) ELSE round_keys[r]]
  /\ UNCHANGED <<build, key, blocks, next>>

-----------------------------------------------------------------------------
(* Rounds. *)

add(r) == <<"add", round_keys[r]>>

(* AESE (key, shift, sub) and AESMC; AESENC (shift, sub, mix, key).         *)
aese(block, r) == Append(Append(block, add(r)), <<"sub_shift">>)
aesmc(block) == Append(block, <<"mix">>)
aesenc(block, r) == Append(Append(Append(block, <<"sub_shift">>), <<"mix">>), add(r))
aesenclast(block, r) == Append(Append(block, <<"sub_shift">>), add(r))

RoundX86(block, r) ==
  IF r = 0 THEN Append(block, add(0))
  ELSE IF r = 14 THEN aesenclast(block, 14) ELSE aesenc(block, r)

(* The loop runs a round too far and mixes the last columns.                *)
MutRoundAarch64(block, r) ==
  IF r = 14 THEN Append(block, add(14)) ELSE aesmc(aese(block, r))

RoundAarch64(block, r) ==
  IF r = 14 THEN Append(block, add(14))
  ELSE IF r = 13 THEN aese(block, 13) ELSE aesmc(aese(block, r))

(* What a block goes through at round key r.                                *)
Round(block, r) ==
  IF build = "x86" THEN RoundX86(block, r) ELSE RoundAarch64(block, r)

(* encrypt_block, encrypt8, fill_block and the lanes of the stitched loops. *)
Load(width) ==
  /\ Expanded /\ blocks = <<>>
  /\ blocks' = [i \in 1 .. width |-> <<>>]
  /\ UNCHANGED <<build, key, round_keys, next>>

EncryptRound ==
  /\ blocks # <<>> /\ next < AES256_ROUND_KEY_COUNT
  /\ blocks' = [i \in DOMAIN blocks |-> Round(blocks[i], next)]
  /\ next' = next + 1
  /\ UNCHANGED <<build, key, round_keys>>

(* The blocks are stored; the key state serves the next ones.               *)
StoreBlocks ==
  /\ next = AES256_ROUND_KEY_COUNT
  /\ blocks' = <<>> /\ next' = 0
  /\ UNCHANGED <<build, key, round_keys>>

Next == Expand \/ (\E w \in Widths : Load(w)) \/ EncryptRound \/ StoreBlocks

Spec == Init /\ [][Next]_vars

-----------------------------------------------------------------------------
(* The words of the schedule, in the standard's numbering.                  *)
w(i) == round_keys[i \div 4][i % 4]

(* FIPS-197, 5.2: what word i - 1 contributes to word i.                    *)
FipsTerm(i) ==
  CASE i % 8 = 0 -> Xor(RotWord(SubWord(w(i - 1))), AES_RCON[(i \div 8) - 1])
    [] i % 8 = 4 -> SubWord(w(i - 1))
    [] OTHER -> w(i - 1)

(* Whatever the key and the S-box, every round key written is the one of    *)
(* the FIPS-197 schedule, though both builds compute it from whole          *)
(* registers, shifts and the round instruction.                             *)
ScheduleIsFips ==
  /\ \A i \in 0 .. 7 : w(i) = key[i]
  /\ \A i \in 8 .. 59 : i \div 4 \in DOMAIN round_keys => w(i) = Xor(w(i - 8), FipsTerm(i))

(* FIPS-197, 5.1: the cipher, a first key, 13 rounds, one without the mix.  *)
FipsCipher ==
  [n \in 1 .. 42 |->
     CASE n = 42 -> add(14)
       [] n % 3 = 1 -> add((n - 1) \div 3)
       [] n % 3 = 2 -> <<"sub_shift">>
       [] OTHER -> <<"mix">>]

(* A block that is stored has gone through the cipher of FIPS-197, in all   *)
(* lanes and on both builds, though the instructions of one add the key     *)
(* before a round and those of the other after.                             *)
CipherIsFips ==
  next = AES256_ROUND_KEY_COUNT => \A i \in DOMAIN blocks : blocks[i] = FipsCipher
=============================================================================
