------------------------------- MODULE MCAes --------------------------------
(* TLC instance of Aes.  The rounds and the schedule do not depend on which *)
(* function of a byte the S-box is; this one is not linear.                 *)
EXTENDS Aes

SBox ==
  [a \in Byte |->
     Xor({(3 * i + 1) % 8 : i \in a}, IF {0, 5} \subseteq a \/ 3 \in a THEN {1, 6} ELSE {2})]

OneBit(at, b) == [i \in 0 .. 7 |-> IF i = at THEN {b} ELSE {}]

AllKeys ==
  {OneBit(at, b) : at \in {0, 3, 4, 7}, b \in {0, 15, 31}}
    \cup {[i \in 0 .. 7 |-> {b \in 0 .. 31 : (b * b + 5 * i * b + i) % 7 < 3}]}
=============================================================================
