------------------------------- MODULE SeedDraw -------------------------------
(***************************************************************************)
(* What cpu_rng_fill promises to the reseed of the key generator: one step *)
(* that asks and one that answers, either with a draw whose words all      *)
(* differ, or with nothing at all.                                         *)
(***************************************************************************)
EXTENDS Naturals

CONSTANTS
  Words,    (* 64-bit words of a seed: 6 in the code.                        *)
  Values,   (* What the CPU's instruction may return.                        *)
  Wiped     (* A zeroed buffer word; zero is in Values too.                  *)

VARIABLES
  answer,   (* "idle", "asked", or the bool returned.                        *)
  seed      (* The buffer, as the caller sees it.                            *)

AllWiped == [i \in 1 .. Words |-> Wiped]

Distinct(s) == \A i, j \in 1 .. Words : i # j => s[i] # s[j]

Init == answer = "idle" /\ seed = AllWiped

Ask == answer # "asked" /\ answer' = "asked" /\ seed' = AllWiped

Succeed ==
  /\ answer = "asked" /\ answer' = "true"
  /\ seed' \in [1 .. Words -> Values] /\ Distinct(seed')

FallBack == answer = "asked" /\ answer' = "false" /\ seed' = AllWiped

Next == Ask \/ Succeed \/ FallBack

Spec == Init /\ [][Next]_<<answer, seed>>
=============================================================================
