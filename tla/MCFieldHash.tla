---------------------------- MODULE MCFieldHash -----------------------------
(***************************************************************************)
(* TLC instance of FieldHash.  The products are linear in each operand and *)
(* the code treats a pair of bits alike whose lanes and whose sum of       *)
(* positions agree: one-bit keys with the block bits below reach each such *)
(* class.  The dense keys and blocks are those of ghash.rs's own           *)
(* REFERENCE_VECTORS, on messages that make every update meet every other. *)
(***************************************************************************)
EXTENDS FieldHash

FromBytes(bytes) ==
  {p \in 0 .. 127 : (bytes[(p \div 8) + 1] \div 2^(p % 8)) % 2 = 1}

A == FromBytes(<<\h41, \h20, \h82, \h40, \h00, \h00, \h00, \h00,
                 \h41, \h14, \h01, \h0c, \h06, \h41, \h00, \h10>>)
B == FromBytes(<<\h29, \h26, \h86, \h6e, \h2f, \h84, \h1e, \h9b,
                 \h25, \h80, \h5d, \h55, \h03, \hf5, \h54, \hf5>>)
AB == FromBytes(<<\ha4, \h66, \hd4, \h04, \ha7, \hdf, \h23, \h01,
                  \h46, \hbd, \h09, \h4d, \h6c, \h19, \hfc, \ha2>>)
C == FromBytes(<<\had, \h4d, \hf3, \h0b, \hae, \h77, \h1b, \hdc,
                 \h76, \h60, \h6e, \h02, \hb9, \hee, \hf0, \h64>>)
D == FromBytes(<<\h36, \h61, \h90, \he5, \h91, \hce, \h07, \h7b,
                 \h74, \hcc, \h8d, \h36, \h0c, \h05, \h5f, \h30>>)
CD == FromBytes(<<\h05, \h5f, \he5, \hbe, \hc6, \h71, \h7f, \hd3,
                  \ha7, \h33, \h13, \h31, \h36, \h6d, \h31, \hde>>)

(* What a CPU computed agrees with the standard's definition.               *)
ASSUME KnownAnswers == Dot(A, B) = AB /\ Dot(C, D) = CD

Schemes == {"ghash", "polyval"}

LaneEdges == {0, 63, 64, 127}
OneBit == {<<s, {i}, <<{j}>>>> : s \in Schemes, i \in 0 .. 127, j \in LaneEdges}

Message == <<A, B, C, D, {0}, {}, CD, AB, B, 0 .. 127, D, C, A>>
Dense == {<<s, k, Message>> : s \in Schemes, k \in {B, D}}

AllCases == OneBit \cup Dense
=============================================================================
