----------------------------- MODULE FieldHash ------------------------------
(***************************************************************************)
(* The arithmetic of src/aes_gcm/ghash.rs: GF(2^128) multiplication by the *)
(* carry-less multiply instructions of both back ends, the key powers, the *)
(* aggregated updates, and the byte order and mulx that turn POLYVAL into  *)
(* GHASH, all at their real width.  The two builds run side by side on one *)
(* message, which may be cut in any way into updates of eight, four and    *)
(* one blocks; the definitions of the standards run along as `expected`.   *)
(*                                                                         *)
(* 128 bits are the set of their ones, numbered as in a little-endian      *)
(* integer, in memory and in a register alike.                             *)
(***************************************************************************)
EXTENDS Integers, FiniteSets, Sequences, Bits

CONSTANTS
  Cases        (* <<scheme, hash key, blocks of the message>>                *)

Builds == {"aarch64", "x86"}
Block == SUBSET (0 .. 127)

ASSUME CasesAssumption == Cases \subseteq {"ghash", "polyval"} \X Block \X Seq(Block)

-----------------------------------------------------------------------------
(* Instructions. A register is two 64-bit lanes.                            *)

Lo(v) == v \cap (0 .. 63)
Hi(v) == {i - 64 : i \in v \ (0 .. 63)}
Register(hi, lo) == lo \cup {i + 64 : i \in hi}

(* PMULL, PCLMULQDQ: the carry-less product of two lanes.                   *)
pmull(a, b) ==
  {k \in 0 .. 126 : Cardinality({i \in a : k - i \in b}) % 2 = 1}

(* vextq_u8(a, b, 8)                                                        *)
vext8(a, b) == Register(Lo(b), Hi(a))

(* _mm_shuffle_epi32(v, 0x0E): the high lane comes down, what is left above *)
(* it is the lowest word, twice.                                            *)
shuffle0E(v) ==
  LET word == v \cap (0 .. 31) IN Register(word \cup {i + 32 : i \in word}, Hi(v))

(* _mm_srli_epi64, _mm_slli_epi64: each lane on its own.                    *)
srli(v, n) == {i - n : i \in {x \in v : x % 64 >= n}}
slli(v, n) == {i + n : i \in {x \in v : (x % 64) + n < 64}}

xor4(a, b, c, d) == Xor(Xor(a, b), Xor(c, d))
xor5(a, b, c, d, e) == Xor(a, Xor(Xor(b, c), Xor(d, e)))

-----------------------------------------------------------------------------
(* Multiplication, aarch64: three partial products, then the reduction.     *)

karatsuba1(x, y) ==
  <<pmull(Hi(x), Hi(y)),
    pmull(Lo(Xor(x, vext8(x, x))), Lo(Xor(y, vext8(y, y)))),
    pmull(Lo(x), Lo(y))>>

mont_reduce(x23, x01) ==
  LET poly == {127, 126, 121, 63, 62, 57}
      a == pmull(Lo(x01), Lo(poly))
      b == Xor(x01, vext8(a, a))
      c == pmull(Hi(b), Hi(poly))
  IN Xor(x23, Xor(c, b))

(* karatsuba2, and the reduction of what it returns.                        *)
karatsuba2(h, m, l) ==
  LET t == xor4(m, vext8(l, h), h, l)
  IN mont_reduce(vext8(t, vext8(h, h)), vext8(vext8(l, l), t))

(* Multiplication, x86.                                                     *)

clmul_wide(x, h) ==
  <<pmull(Lo(x), Lo(h)),
    pmull(Hi(x), Hi(h)),
    pmull(Lo(Xor(x, shuffle0E(x))), Lo(Xor(h, shuffle0E(h))))>>

(* One shift of the fold is a bit short.                                    *)
MutFold(v, into, over) ==
  <<xor5(into, v, srli(v, 1), srli(v, 2), srli(v, 7)),
    xor4(over, slli(v, 63), slli(v, 62), slli(v, 56))>>

(* The low lane of v times the polynomial, into the two lanes above it.     *)
Fold(v, into, over) ==
  <<xor5(into, v, srli(v, 1), srli(v, 2), srli(v, 7)),
    xor4(over, slli(v, 63), slli(v, 62), slli(v, 57))>>

reduce(t0, t1, t) ==
  LET t2 == Xor(t, Xor(t0, t1))
      v1 == Xor(shuffle0E(t0), t2)
      v2 == Xor(t1, shuffle0E(t2))
      first == Fold(t0, v2, v1)
      second == Fold(first[2], shuffle0E(t1), first[1])
  IN Register(Lo(second[1]), Lo(second[2]))

(* Either build: the partial products, which add up, and their reduction.   *)
Wide(build, x, h) == IF build = "aarch64" THEN karatsuba1(h, x) ELSE clmul_wide(x, h)

Reduced(build, w) ==
  IF build = "aarch64" THEN karatsuba2(w[1], w[2], w[3]) ELSE reduce(w[1], w[2], w[3])

(* The partial products of two blocks, added one by one.                    *)
Accumulated(v, w) == <<Xor(v[1], w[1]), Xor(v[2], w[2]), Xor(v[3], w[3])>>

mul(build, a, b) == Reduced(build, Wide(build, a, b))

-----------------------------------------------------------------------------
(* Keys and updates. *)

(* block.reverse(), and byte_reverse and the PSHUFB mask in registers.      *)
reversed(block) == {8 * (15 - p \div 8) + (p % 8) : p \in block}

(* The carry is not folded into the last of its four bits.                  *)
MutMulx(v) ==
  Xor({i + 1 : i \in v \ {127}}, IF 127 \in v THEN {0, 127, 126} ELSE {})

(* The top bit is kept as well as folded.                                   *)
MutMulxWide(v) == Xor({i + 1 : i \in v}, IF 127 \in v THEN {0, 127, 126, 121} ELSE {})

mulx(v) ==
  Xor({i + 1 : i \in v \ {127}}, IF 127 \in v THEN {0, 127, 126, 121} ELSE {})

(* GHashKey::init_in_place, Polyval::key_powers: the first power.           *)
FirstPower(scheme, key) == IF scheme = "ghash" THEN mulx(reversed(key)) ELSE key

(* h7 is made from h3 twice.                                                *)
MutKeyPowers(build, h1) ==
  LET h2 == mul(build, h1, h1)   h3 == mul(build, h2, h1)
      h4 == mul(build, h2, h2)   h5 == mul(build, h4, h1)
      h6 == mul(build, h4, h2)   h7 == mul(build, h3, h3)
      h8 == mul(build, h4, h4)
  IN <<h1, h2, h3, h4, h5, h6, h7, h8>>

key_powers(build, h1) ==
  LET h2 == mul(build, h1, h1)   h3 == mul(build, h2, h1)
      h4 == mul(build, h2, h2)   h5 == mul(build, h4, h1)
      h6 == mul(build, h4, h2)   h7 == mul(build, h4, h3)
      h8 == mul(build, h4, h4)
  IN <<h1, h2, h3, h4, h5, h6, h7, h8>>

VARIABLES
  scheme,     (* "ghash" or "polyval".                                       *)
  key,        (* The hash key, as the standards name it.                     *)
  rest,       (* The blocks not absorbed yet.                                *)
  h_pows,     (* Of each build, the key powers ...                           *)
  y,          (* ... and the accumulator.                                    *)
  expected    (* History: the standard's accumulator.                        *)

vars == <<scheme, key, rest, h_pows, y, expected>>

TypeOK ==
  /\ scheme \in {"ghash", "polyval"}
  /\ key \in Block
  /\ rest \in Seq(Block)
  /\ h_pows \in [Builds -> {<<>>} \cup [1 .. 8 -> Block]]
  /\ y \in [Builds -> Block]
  /\ expected \in Block

Init ==
  /\ \E c \in Cases : scheme = c[1] /\ key = c[2] /\ rest = c[3]
  /\ h_pows = [b \in Builds |-> <<>>]
  /\ y = [b \in Builds |-> {}]
  /\ expected = {}

(* The key powers, and a Ghasher or Polyval that starts at zero.            *)
New ==
  /\ h_pows["x86"] = <<>>
  /\ h_pows' = [b \in Builds |-> key_powers(b, FirstPower(scheme, key))]
  /\ UNCHANGED <<scheme, key, rest, y, expected>>

(* update_block, update_blocks4, update_blocks8: the i-th of n blocks meets *)
(* the power n - i + 1, the first also the accumulator; one reduction.      *)
update_blocks(build, acc, blocks) ==
  LET n == Len(blocks)
      W(i) == Wide(build, IF i = 1 THEN Xor(acc, blocks[1]) ELSE blocks[i],
                          h_pows[build][n - i + 1])
      sum[i \in 1 .. n] == IF i = 1 THEN W(1) ELSE Accumulated(sum[i - 1], W(i))
  IN Reduced(build, sum[n])

-----------------------------------------------------------------------------
(* The standards. *)

(* The product of two polynomials over GF(2).                               *)
Times(a, b) == {k \in 0 .. 255 : Cardinality({i \in a : k - i \in b}) % 2 = 1}

(* POLYVAL's product (RFC 8452): a * b / x^128 modulo                       *)
(* x^128 + x^127 + x^126 + x^121 + 1. A term below x^128 is divided by      *)
(* writing its 1 as the rest of the modulus; two rounds clear the low half. *)
Dot(a, b) ==
  LET Up(v) == LET low == v \cap (0 .. 127) IN Xor(v \ low, Times(low, {121, 126, 127, 128}))
  IN {i - 128 : i \in Up(Up(Times(a, b)))}

(* GHASH's product (SP 800-38D, 6.3): the leftmost bit of a block is the    *)
(* coefficient of x^0, modulo x^128 + x^7 + x^2 + x + 1.                    *)
Leftmost(block) == {8 * (p \div 8) + 7 - (p % 8) : p \in block}

GcmProduct(a, b) ==
  LET Down(v) == LET low == v \cap (0 .. 127)
                 IN Xor(low, Times({i - 128 : i \in v \ low}, {7, 2, 1, 0}))
  IN Leftmost(Down(Down(Times(Leftmost(a), Leftmost(b)))))

(* Every block is added, then multiplied by the key.                        *)
StandardHash(from, blocks) ==
  LET product(a) == IF scheme = "ghash" THEN GcmProduct(a, key) ELSE Dot(a, key)
      acc[i \in 0 .. Len(blocks)] ==
        IF i = 0 THEN from ELSE product(Xor(acc[i - 1], blocks[i]))
  IN acc[Len(blocks)]

-----------------------------------------------------------------------------
(* The blocks enter a register as the scheme has them.                      *)
Loaded(block) == IF scheme = "ghash" THEN reversed(block) ELSE block

(* absorb_blocks and the stitched loops, on any cut of the message.         *)
Update(width) ==
  /\ h_pows["x86"] # <<>> /\ width <= Len(rest)
  /\ LET taken == SubSeq(rest, 1, width)
         lanes == [i \in 1 .. width |-> Loaded(taken[i])]
     IN /\ y' = [b \in Builds |-> update_blocks(b, y[b], lanes)]
        /\ expected' = StandardHash(expected, taken)
  /\ rest' = SubSeq(rest, width + 1, Len(rest))
  /\ UNCHANGED <<scheme, key, h_pows>>

Next == New \/ \E width \in {1, 4, 8} : Update(width)

Spec == Init /\ [][Next]_vars

-----------------------------------------------------------------------------
(* finalize returns the standard's hash on either build: whatever the key   *)
(* and however a message is cut into updates of eight, four and one, Y is   *)
(* the standard's after every one of them.                                  *)
HashIsStandard == \A b \in Builds : Loaded(y[b]) = expected
=============================================================================
