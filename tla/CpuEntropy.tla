----------------------------- MODULE CpuEntropy -----------------------------
(***************************************************************************)
(* A draw from the CPU's hardware generator (src/random/entropy.rs,        *)
(* cpu_rng_fill): the instruction, RDSEED or RNDRRS, is tried for each     *)
(* 64-bit word until it is ready, at most RETRIES times; a full draw is    *)
(* screened for repeated words; and a draw that failed or looks stuck is   *)
(* wiped. The instruction may be not ready at any time and return anything.*)
(***************************************************************************)
EXTENDS Naturals

CONSTANTS
  Words,     (* 6 in the code: AES_CTR_SEED_SIZE of 48 bytes.                *)
  RETRIES,   (* 16 in the code.                                              *)
  Values,    (* What the instruction may return.                             *)
  Wiped      (* Zero, as zeroize leaves it; also one of Values.              *)

ASSUME DrawAssumption ==
  /\ Words \in Nat \ {0}
  /\ RETRIES \in Nat \ {0}
  /\ Wiped \in Values

VARIABLES
  stage,    (* "idle", "fill" or "screen".                                   *)
  answer,   (* "idle", "asked", or the bool returned.                        *)
  out,      (* The caller's buffer.                                          *)
  filled,   (* Words written.                                                *)
  tries     (* Times the instruction was not ready for the current word.     *)

drawVars == <<stage, answer, out, filled, tries>>

AllWiped == [i \in 1 .. Words |-> Wiped]

(* Until it is told, the caller has a zeroed buffer.                        *)
Promise == INSTANCE SeedDraw WITH seed <- IF answer = "asked" THEN AllWiped ELSE out

DrawTypeOK ==
  /\ stage \in {"idle", "fill", "screen"}
  /\ answer \in {"idle", "asked", "true", "false"}
  /\ out \in [1 .. Words -> Values]
  /\ filled \in 0 .. Words
  /\ tries \in 0 .. RETRIES - 1

DrawInit ==
  /\ stage = "idle" /\ answer = "idle" /\ out = AllWiped
  /\ filled = 0 /\ tries = 0

(* A reseed asks with a zeroed buffer.                                      *)
Draw ==
  /\ stage = "idle"
  /\ stage' = "fill" /\ answer' = "asked" /\ out' = AllWiped
  /\ filled' = 0 /\ tries' = 0

(* The instruction returns a word.                                          *)
Ready(v) ==
  /\ stage = "fill" /\ filled < Words
  /\ out' = [out EXCEPT ![filled + 1] = v]
  /\ filled' = filled + 1 /\ tries' = 0
  /\ UNCHANGED <<stage, answer>>

(* The tries start over when they run out.                                  *)
MutRetryForEver ==
  /\ stage = "fill" /\ filled < Words
  /\ tries' = (tries + 1) % RETRIES
  /\ UNCHANGED <<stage, answer, out, filled>>

(* One try more than the budget.                                            *)
MutOneTryMore ==
  /\ stage = "fill" /\ filled < Words /\ tries < RETRIES
  /\ tries' = tries + 1
  /\ UNCHANGED <<stage, answer, out, filled>>

(* It is not ready, and is tried again.                                     *)
NotReady ==
  /\ stage = "fill" /\ filled < Words /\ tries + 1 < RETRIES
  /\ tries' = tries + 1
  /\ UNCHANGED <<stage, answer, out, filled>>

Conclude(verdict) ==
  /\ stage' = "idle" /\ answer' = verdict
  /\ UNCHANGED <<filled, tries>>

Fail ==
  /\ Conclude("false")
  /\ out' = AllWiped

(* The instruction is absent, hidden from this guest, or left out of the    *)
(* build.                                                                   *)
Unavailable == stage = "fill" /\ filled = 0 /\ tries = 0 /\ Fail

(* This try was the last, and some words may be in the buffer.              *)
Exhausted == stage = "fill" /\ filled < Words /\ tries + 1 = RETRIES /\ Fail

Filled ==
  /\ stage = "fill" /\ filled = Words
  /\ stage' = "screen"
  /\ UNCHANGED <<answer, out, filled, tries>>

(* Only neighbouring words are compared.                                    *)
MutNeighboursOnly(buf) == \E i \in 1 .. Words - 1 : buf[i] = buf[i + 1]

stuck_output(buf) ==
  \E outer \in 1 .. Words : \E inner \in outer + 1 .. Words : buf[inner] = buf[outer]

Pass ==
  /\ stage = "screen" /\ ~stuck_output(out)
  /\ Conclude("true")
  /\ UNCHANGED out

Stuck == stage = "screen" /\ stuck_output(out) /\ Fail

Step ==
  \/ (\E v \in Values : Ready(v)) \/ NotReady
  \/ Unavailable \/ Exhausted \/ Filled \/ Pass \/ Stuck

DrawNext == Draw \/ Step

(* The thread keeps running; the instruction need never be ready.           *)
DrawSpec == DrawInit /\ [][DrawNext]_drawVars /\ WF_drawVars(Step)

-----------------------------------------------------------------------------
(* The caller gets a draw without a repeated word, or a zeroed buffer and   *)
(* the word to ask the operating system: no part of a failed or suspect     *)
(* draw reaches the reseed.                                                 *)
KeepsPromise == Promise!Spec

(* A draw ends, even if the instruction is never ready.                     *)
DrawEnds == answer = "asked" ~> answer # "asked"
=============================================================================
