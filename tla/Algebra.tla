------------------------------- MODULE Algebra -------------------------------
(***************************************************************************)
(* The algebra under AES-256-GCM and AES-256-GCM-SIV, symbolically: bytes, *)
(* blocks, keystream, and the polynomial hash (GHASH, POLYVAL) as its      *)
(* standard defines it and as src/aes_gcm/ghash.rs aggregates it.          *)
(*                                                                         *)
(* A byte is the set of the unknowns XORed into it, so XOR is symmetric    *)
(* difference and equal unknowns cancel; the zero byte is {}.  A hash      *)
(* value is a polynomial in the hash key H with such coefficients, the set *)
(* of its terms <<power of H, offset in a block, unknown>>; multiplying by *)
(* H^k raises every power by k.  Nothing is assumed of the field but that. *)
(***************************************************************************)
EXTENDS Naturals, Sequences, Bits

CONSTANTS
  BlockSize,   (* 16 in the code.                                            *)
  CtrMod       (* 2^32 in the code: the counter word of a counter block.     *)

ASSUME AlgebraAssumption ==
  /\ BlockSize \in Nat \ {0}
  /\ CtrMod \in Nat \ {0, 1}

(* XOR of two strings of bytes, over the length of the first.               *)
XorBytes(s, t) == [i \in DOMAIN s |-> Xor(s[i], t[i])]

BlocksIn(n) == (n + BlockSize - 1) \div BlockSize

(* The blocks of a string, the last one padded with zeros.                  *)
Blocks(s) ==
  [b \in 1 .. BlocksIn(Len(s)) |->
     UNION {{<<o, a>> : a \in s[(b - 1) * BlockSize + o + 1]} :
              o \in {x \in 0 .. BlockSize - 1 : (b - 1) * BlockSize + x < Len(s)}}]

LengthBlock(aad_len, data_len) == {<<0, <<"lengths", aad_len, data_len>>>>}

(* Counter mode: the keystream of a counter block is an unknown of its own. *)
(* `stream` is the key and what the block holds besides its counter word.   *)
KeystreamByte(stream, ctr, offset) == {<<"keystream", stream, ctr, offset>>}

(* The keystream of a message whose first counter word is `first`.          *)
CtrMode(stream, first, s) ==
  XorBytes(s, [i \in DOMAIN s |->
     KeystreamByte(stream, (first + (i - 1) \div BlockSize) % CtrMod, (i - 1) % BlockSize)])

-----------------------------------------------------------------------------
(* The polynomial hash. *)

Terms(block) == {<<0, x[1], x[2]>> : x \in block}

TimesH(y, k) == {<<t[1] + k, t[2], t[3]>> : t \in y}

(* The standards' definition: every block is added, then multiplied by H.   *)
HashOf(blocks) ==
  LET y[i \in 0 .. Len(blocks)] ==
        IF i = 0 THEN {} ELSE TimesH(Xor(y[i - 1], Terms(blocks[i])), 1)
  IN y[Len(blocks)]

(* Two strings, each padded on its own, and their lengths.                  *)
HashOfMessage(aad, text) ==
  HashOf(Blocks(aad) \o Blocks(text) \o <<LengthBlock(Len(aad), Len(text))>>)

-----------------------------------------------------------------------------
(* The Ghasher and the Polyval of ghash.rs: one aggregation, two byte       *)
(* orders, which the symbols do not see.                                    *)

(* The eight key powers, as exponents of H: mul adds exponents.             *)
h_pows ==
  LET mul(i, j) == i + j
      h1 == 1             h2 == mul(h1, h1)
      h3 == mul(h2, h1)   h4 == mul(h2, h2)
      h5 == mul(h4, h1)   h6 == mul(h4, h2)
      h7 == mul(h4, h3)   h8 == mul(h4, h4)
  IN <<h1, h2, h3, h4, h5, h6, h7, h8>>

KEY_POWERS == Len(h_pows)

XorSum(s) ==
  LET sum[i \in 0 .. Len(s)] == IF i = 0 THEN {} ELSE Xor(sum[i - 1], s[i])
  IN sum[Len(s)]

(* One, four or eight blocks under one reduction: the accumulator joins the *)
(* first, and the i-th is multiplied by the power the rest would raise it   *)
(* to (update_blocks8, update_blocks4, update_block and their register      *)
(* forms ghash8_regs, ghash4_regs, ghash1_reg).                             *)
update_blocks(y, lanes) ==
  XorSum([i \in 1 .. Len(lanes) |->
            TimesH(IF i = 1 THEN Xor(y, Terms(lanes[i])) ELSE Terms(lanes[i]),
                   h_pows[Len(lanes) - i + 1])])

(* How a run of n blocks is cut, eight at a time, then four, then one: the  *)
(* number of pieces, and the block the i-th ends with.                      *)
Octets(n) == n \div 8
Quads(n) == (n % 8) \div 4

Pieces(n) == Octets(n) + Quads(n) + (n % 4)

PieceEnd(n, i) ==
  IF i <= Octets(n) THEN 8 * i
  ELSE 8 * Octets(n) + IF i <= Octets(n) + Quads(n) THEN 4
                       ELSE 4 * Quads(n) + (i - Octets(n) - Quads(n))

absorb_blocks(y, blocks) ==
  LET n == Len(blocks)
      hashed[i \in 0 .. Pieces(n)] ==
        IF i = 0 THEN y
        ELSE update_blocks(hashed[i - 1],
                           SubSeq(blocks, PieceEnd(n, i - 1) + 1, PieceEnd(n, i)))
  IN hashed[Pieces(n)]

(* Whole blocks, then the zero-padded rest of the section.                  *)
absorb_padded(y, s) ==
  LET full == Len(s) - (Len(s) % BlockSize)
      hashed == absorb_blocks(y, Blocks(SubSeq(s, 1, full)))
  IN IF full = Len(s) THEN hashed
     ELSE update_blocks(hashed, Blocks(SubSeq(s, full + 1, Len(s))))

finalize(y, aad_len, data_len) == update_blocks(y, <<LengthBlock(aad_len, data_len)>>)
=============================================================================
