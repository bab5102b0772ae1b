--------------------------- MODULE NonceGenProofs ---------------------------
(***************************************************************************)
(* Proofs about NonceGen, for any number of processes, handles and forks   *)
(* and any width of nonce and counter: its typing, and then, in a          *)
(* SafeSetting, that Inductive is an inductive invariant and no two calls  *)
(* of next_nonce return the same nonce.                                    *)
(***************************************************************************)
EXTENDS NonceGen, TLAPS

-----------------------------------------------------------------------------
(* Arithmetic. *)

(* nonce_value always fits in 96 bits.                                      *)
LEMMA NonceInRange ==
  ASSUME NEW b \in Nat, NEW c \in Nat
  PROVE  nonce_value(b, c) \in Nonces
BY NonceAssumption DEF nonce_value, Nonces

(* Two counters below 2^64 never give the same nonce from one base: the     *)
(* property nonce.rs checks with Kani at its own widths.                    *)
THEOREM NonceInjective ==
  ASSUME NEW b \in Nonces, NEW i \in Counters, NEW j \in Counters,
         nonce_value(b, i) = nonce_value(b, j)
  PROVE  i = j
BY NonceAssumption DEF nonce_value, Nonces, Counters

LEMMA CounterStep ==
  ASSUME NEW c \in Counters
  PROVE  /\ (c + 1) % CounterMod \in Counters
         /\ c + 1 < CounterMod => (c + 1) % CounterMod = c + 1
         /\ c + 1 >= CounterMod => (c + 1) % CounterMod = 0
BY NonceAssumption DEF Counters

-----------------------------------------------------------------------------
(* Updates of the per-process, per-handle variables. *)

LEMMA UpdateCell ==
  ASSUME NEW S, NEW f \in [Proc -> [Handle -> S]],
         NEW p \in Proc, NEW h \in Handle, NEW v \in S
  PROVE  /\ [f EXCEPT ![p][h] = v] \in [Proc -> [Handle -> S]]
         /\ \A q \in Proc, k \in Handle :
              [f EXCEPT ![p][h] = v][q][k] = IF q = p /\ k = h THEN v ELSE f[q][k]
OBVIOUS

LEMMA UpdateRow ==
  ASSUME NEW S, NEW f \in [Proc -> [Handle -> S]],
         NEW p \in Proc, NEW row \in [Handle -> S]
  PROVE  /\ [f EXCEPT ![p] = row] \in [Proc -> [Handle -> S]]
         /\ \A q \in Proc : [f EXCEPT ![p] = row][q] = IF q = p THEN row ELSE f[q]
OBVIOUS

-----------------------------------------------------------------------------
(* The shape of a call, which the types rest on: at which points of         *)
(* next_nonce the handle has a generator.                                   *)

Labels == {"idle", "check", "salt", "capture", "install", "take", "return", "orphaned"}
Reasons == {"new", "fork", "wrap"}
Gens == NonceGenState \cup {NoGen}

(* A step of one call leaves every other handle alone.                      *)
OthersUnchanged(p, h) ==
  \A q \in Proc, k \in Handle : ~(q = p /\ k = h) =>
    /\ gen'[q][k] = gen[q][k]
    /\ pc'[q][k] = pc[q][k]
    /\ why'[q][k] = why[q][k]
    /\ nonce'[q][k] = nonce[q][k]

LEMMA GotoEffect ==
  ASSUME pc \in [Proc -> [Handle -> Labels]],
         NEW p \in Proc, NEW h \in Handle, NEW l \in Labels,
         pc' = [pc EXCEPT ![p][h] = l]
  PROVE  /\ pc' \in [Proc -> [Handle -> Labels]]
         /\ \A q \in Proc, k \in Handle :
              pc'[q][k] = IF q = p /\ k = h THEN l ELSE pc[q][k]
BY UpdateCell

LEMMA WhyEffect ==
  ASSUME why \in [Proc -> [Handle -> Reasons]],
         NEW p \in Proc, NEW h \in Handle, NEW w \in Reasons,
         why' = [why EXCEPT ![p][h] = w]
  PROVE  /\ why' \in [Proc -> [Handle -> Reasons]]
         /\ \A q \in Proc, k \in Handle :
              why'[q][k] = IF q = p /\ k = h THEN w ELSE why[q][k]
BY UpdateCell

LEMMA NonceEffect ==
  ASSUME nonce \in [Proc -> [Handle -> Nonces]],
         NEW p \in Proc, NEW h \in Handle, NEW n \in Nonces,
         nonce' = [nonce EXCEPT ![p][h] = n]
  PROVE  /\ nonce' \in [Proc -> [Handle -> Nonces]]
         /\ \A q \in Proc, k \in Handle :
              nonce'[q][k] = IF q = p /\ k = h THEN n ELSE nonce[q][k]
BY UpdateCell

LEMMA GenEffect ==
  ASSUME gen \in [Proc -> [Handle -> Gens]],
         NEW p \in Proc, NEW h \in Handle, NEW g \in Gens,
         gen' = [gen EXCEPT ![p][h] = g]
  PROVE  /\ gen' \in [Proc -> [Handle -> Gens]]
         /\ \A q \in Proc, k \in Handle :
              gen'[q][k] = IF q = p /\ k = h THEN g ELSE gen[q][k]
BY UpdateCell

LEMMA Words ==
  /\ {"idle", "check", "salt", "capture", "install", "take", "return"} \subseteq Labels
  /\ {"new", "fork", "wrap"} = Reasons
BY DEF Labels, Reasons

LEMMA TypeFacts ==
  ASSUME TypeOK
  PROVE  /\ gen \in [Proc -> [Handle -> Gens]]
         /\ pc \in [Proc -> [Handle -> Labels]]
         /\ why \in [Proc -> [Handle -> Reasons]]
         /\ nonce \in [Proc -> [Handle -> Nonces]]
         /\ 0 \in Nonces /\ 0 \in Counters
         /\ NoGuard \in Guard
         /\ \A b \in Nonces, c \in Counters, g \in Guard :
              /\ [base |-> b, counter |-> c, guard |-> g] \in NonceGenState
              /\ [base |-> b, counter |-> c, guard |-> g] # NoGen
         /\ NoGen \notin NonceGenState
<1>1. 0 \in Nonces /\ 0 \in Counters /\ NoGuard \in Guard
  BY NonceAssumption DEF Nonces, Counters, NoGuard, Guard
<1>2. Nonces \subseteq Nat /\ Counters \subseteq Nat
  BY NonceAssumption DEF Nonces, Counters
<1>3. NoGen \notin NonceGenState
  BY <1>2, NonceAssumption DEF NonceGenState
<1>4. \A b \in Nonces, c \in Counters, g \in Guard :
        [base |-> b, counter |-> c, guard |-> g] \in NonceGenState
  BY DEF NonceGenState
<1> QED BY <1>1, <1>3, <1>4 DEF TypeOK, Labels, Reasons, Gens

(* What each step of a call does to the cell of its handle.                 *)
LEMMA CallEffect ==
  ASSUME TypeOK, NEW p \in Proc, NEW h \in Handle, Call(p, h)
  PROVE  /\ TypeOK'
         /\ OthersUnchanged(p, h)
         /\ status[p] = "running" /\ pc[p][h] = "idle"
         /\ UNCHANGED <<forkVars, gen, nonce, history>>
         /\ \/ gen[p][h] = NoGen /\ pc'[p][h] = "salt" /\ why'[p][h] = "new"
            \/ gen[p][h] # NoGen /\ pc'[p][h] = "check" /\ why'[p][h] = why[p][h]
<1>1. UNCHANGED <<forkVars, gen, nonce, history>> /\ At(p, h, "idle")
  BY DEF Call
<1>2. CASE gen[p][h] = NoGen
  <2>1. pc' = [pc EXCEPT ![p][h] = "salt"] /\ why' = [why EXCEPT ![p][h] = "new"]
    BY <1>2 DEF Call, Goto
  <2>2. /\ pc' \in [Proc -> [Handle -> Labels]]
        /\ \A q \in Proc, k \in Handle :
             pc'[q][k] = IF q = p /\ k = h THEN "salt" ELSE pc[q][k]
    BY <2>1, TypeFacts, Words, GotoEffect
  <2>3. /\ why' \in [Proc -> [Handle -> Reasons]]
        /\ \A q \in Proc, k \in Handle :
             why'[q][k] = IF q = p /\ k = h THEN "new" ELSE why[q][k]
    BY <2>1, TypeFacts, Words, WhyEffect
  <2>4. TypeOK'
    BY <1>1, <2>2, <2>3 DEF TypeOK, ForkTypeOK, forkVars, history, Labels, Reasons
  <2> QED BY <1>1, <1>2, <2>2, <2>3, <2>4 DEF At, OthersUnchanged
<1>3. CASE gen[p][h] # NoGen
  <2>1. pc' = [pc EXCEPT ![p][h] = "check"] /\ why' = why
    BY <1>3 DEF Call, Goto
  <2>2. /\ pc' \in [Proc -> [Handle -> Labels]]
        /\ \A q \in Proc, k \in Handle :
             pc'[q][k] = IF q = p /\ k = h THEN "check" ELSE pc[q][k]
    BY <2>1, TypeFacts, Words, GotoEffect
  <2>4. TypeOK'
    BY <1>1, <2>1, <2>2 DEF TypeOK, ForkTypeOK, forkVars, history, Labels, Reasons
  <2> QED BY <1>1, <1>3, <2>1, <2>2, <2>4 DEF At, OthersUnchanged
<1> QED BY <1>2, <1>3

LEMMA CheckEffect ==
  ASSUME TypeOK, NEW p \in Proc, NEW h \in Handle, CheckGuard(p, h)
  PROVE  /\ TypeOK'
         /\ OthersUnchanged(p, h)
         /\ status[p] = "running" /\ pc[p][h] = "check"
         /\ UNCHANGED <<forkVars, gen, nonce, history>>
         /\ \/ /\ Unchanged(gen[p][h].guard, p)
               /\ pc'[p][h] = "take" /\ why'[p][h] = why[p][h]
            \/ /\ ~Unchanged(gen[p][h].guard, p)
               /\ pc'[p][h] = "salt" /\ why'[p][h] = "fork"
<1>1. UNCHANGED <<forkVars, gen, nonce, history>> /\ At(p, h, "check")
  BY DEF CheckGuard
<1>2. CASE ~Unchanged(gen[p][h].guard, p)
  <2>1. pc' = [pc EXCEPT ![p][h] = "salt"] /\ why' = [why EXCEPT ![p][h] = "fork"]
    BY <1>2 DEF CheckGuard, Goto
  <2>2. /\ pc' \in [Proc -> [Handle -> Labels]]
        /\ \A q \in Proc, k \in Handle :
             pc'[q][k] = IF q = p /\ k = h THEN "salt" ELSE pc[q][k]
    BY <2>1, TypeFacts, Words, GotoEffect
  <2>3. /\ why' \in [Proc -> [Handle -> Reasons]]
        /\ \A q \in Proc, k \in Handle :
             why'[q][k] = IF q = p /\ k = h THEN "fork" ELSE why[q][k]
    BY <2>1, TypeFacts, Words, WhyEffect
  <2>4. TypeOK'
    BY <1>1, <2>2, <2>3 DEF TypeOK, ForkTypeOK, forkVars, history, Labels, Reasons
  <2> QED BY <1>1, <1>2, <2>2, <2>3, <2>4 DEF At, OthersUnchanged
<1>3. CASE Unchanged(gen[p][h].guard, p)
  <2>1. pc' = [pc EXCEPT ![p][h] = "take"] /\ why' = why
    BY <1>3 DEF CheckGuard, Goto
  <2>2. /\ pc' \in [Proc -> [Handle -> Labels]]
        /\ \A q \in Proc, k \in Handle :
             pc'[q][k] = IF q = p /\ k = h THEN "take" ELSE pc[q][k]
    BY <2>1, TypeFacts, Words, GotoEffect
  <2>4. TypeOK'
    BY <1>1, <2>1, <2>2 DEF TypeOK, ForkTypeOK, forkVars, history, Labels, Reasons
  <2> QED BY <1>1, <1>3, <2>1, <2>2, <2>4 DEF At, OthersUnchanged
<1> QED BY <1>2, <1>3

LEMMA DrawEffect ==
  ASSUME TypeOK, NEW p \in Proc, NEW h \in Handle, DrawSalt(p, h)
  PROVE  /\ TypeOK'
         /\ OthersUnchanged(p, h)
         /\ status[p] = "running" /\ pc[p][h] = "salt" /\ pc'[p][h] = "capture"
         /\ UNCHANGED <<forkVars, why, nonce, issued, repeated, exhausted>>
         /\ gen'[p][h] # NoGen
         /\ gen'[p][h].counter = 0
         /\ gen'[p][h].base \in Salt \ drawn
         /\ drawn' = drawn \cup {gen'[p][h].base}
         /\ gen'[p][h].guard = IF gen[p][h] = NoGen THEN NoGuard ELSE gen[p][h].guard
<1>1. /\ UNCHANGED <<forkVars, why, nonce, issued, repeated, exhausted>>
      /\ At(p, h, "salt") /\ pc' = [pc EXCEPT ![p][h] = "capture"]
  BY DEF DrawSalt, Goto
<1> DEFINE g == IF gen[p][h] = NoGen THEN NoGuard ELSE gen[p][h].guard
<1>2. PICK s \in Salt \ drawn :
        /\ drawn' = drawn \cup {s}
        /\ gen' = [gen EXCEPT ![p][h] = [base |-> s, counter |-> 0, guard |-> g]]
  BY DEF DrawSalt
<1>3. g \in Guard
  BY TypeFacts DEF Gens, NonceGenState
<1>4. s \in Nonces
  BY NonceAssumption
<1> DEFINE r == [base |-> s, counter |-> 0, guard |-> g]
<1>5. r \in Gens /\ r # NoGen /\ r.base = s /\ r.counter = 0 /\ r.guard = g
  BY <1>3, <1>4, TypeFacts DEF Gens
<1> HIDE DEF r, g
<1>6. /\ gen' \in [Proc -> [Handle -> Gens]]
      /\ \A q \in Proc, k \in Handle :
           gen'[q][k] = IF q = p /\ k = h THEN r ELSE gen[q][k]
  BY <1>2, <1>5, TypeFacts, GenEffect DEF r
<1>7. /\ pc' \in [Proc -> [Handle -> Labels]]
      /\ \A q \in Proc, k \in Handle :
           pc'[q][k] = IF q = p /\ k = h THEN "capture" ELSE pc[q][k]
  BY <1>1, TypeFacts, Words, GotoEffect
<1>8. TypeOK'
  BY <1>1, <1>2, <1>6, <1>7 DEF TypeOK, ForkTypeOK, forkVars, Labels, Gens
<1> QED BY <1>1, <1>2, <1>5, <1>6, <1>7, <1>8 DEF At, OthersUnchanged, g

LEMMA ReturnLocals ==
  ASSUME TypeOK, NEW p \in Proc, NEW h \in Handle, Return(p, h), gen' = gen
  PROVE  /\ OthersUnchanged(p, h)
         /\ pc'[p][h] = "idle" /\ why'[p][h] = "new"
         /\ pc' \in [Proc -> [Handle -> Labels]]
         /\ why' \in [Proc -> [Handle -> Reasons]]
         /\ nonce' \in [Proc -> [Handle -> Nonces]]
<1>1. /\ pc' \in [Proc -> [Handle -> Labels]]
      /\ \A q \in Proc, k \in Handle :
           pc'[q][k] = IF q = p /\ k = h THEN "idle" ELSE pc[q][k]
  BY TypeFacts, Words, GotoEffect DEF Return, Goto
<1>2. /\ why' \in [Proc -> [Handle -> Reasons]]
      /\ \A q \in Proc, k \in Handle :
           why'[q][k] = IF q = p /\ k = h THEN "new" ELSE why[q][k]
  BY TypeFacts, Words, WhyEffect DEF Return
<1>3. /\ nonce' \in [Proc -> [Handle -> Nonces]]
      /\ \A q \in Proc, k \in Handle :
           nonce'[q][k] = IF q = p /\ k = h THEN 0 ELSE nonce[q][k]
  BY TypeFacts, NonceEffect DEF Return
<1> QED BY <1>1, <1>2, <1>3 DEF OthersUnchanged

LEMMA SaltFailsEffect ==
  ASSUME TypeOK, NEW p \in Proc, NEW h \in Handle, SaltFails(p, h)
  PROVE  /\ TypeOK'
         /\ OthersUnchanged(p, h)
         /\ status[p] = "running" /\ pc[p][h] = "salt"
         /\ pc'[p][h] = "idle" /\ why'[p][h] = "new"
         /\ UNCHANGED <<forkVars, gen, drawn, issued, repeated>>
         /\ exhausted' = (exhausted \/ why[p][h] = "wrap")
<1>1. /\ UNCHANGED <<forkVars, gen, drawn, issued, repeated>> /\ At(p, h, "salt")
      /\ Return(p, h) /\ exhausted' = (exhausted \/ why[p][h] = "wrap")
  BY DEF SaltFails
<1>2. exhausted' \in BOOLEAN
  BY <1>1
<1>3. TypeOK'
  BY <1>1, <1>2, ReturnLocals DEF TypeOK, ForkTypeOK, forkVars, Labels, Reasons
<1> QED BY <1>1, <1>3, ReturnLocals DEF At

LEMMA ReturnEffect ==
  ASSUME TypeOK, NEW p \in Proc, NEW h \in Handle, ReturnNonce(p, h)
  PROVE  /\ TypeOK'
         /\ OthersUnchanged(p, h)
         /\ status[p] = "running" /\ pc[p][h] = "return"
         /\ pc'[p][h] = "idle" /\ why'[p][h] = "new"
         /\ UNCHANGED <<forkVars, gen, drawn, exhausted>>
         /\ issued' = issued \cup {nonce[p][h]}
         /\ repeated' = repeated \cup (issued \cap {nonce[p][h]})
<1>1. /\ UNCHANGED <<forkVars, gen, drawn, exhausted>> /\ At(p, h, "return")
      /\ Return(p, h)
      /\ issued' = issued \cup {nonce[p][h]}
      /\ repeated' = repeated \cup (issued \cap {nonce[p][h]})
  BY DEF ReturnNonce
<1>2. nonce[p][h] \in Nonces
  BY TypeFacts
<1>3. TypeOK'
  BY <1>1, <1>2, ReturnLocals DEF TypeOK, ForkTypeOK, forkVars, Labels, Reasons
<1> QED BY <1>1, <1>3, ReturnLocals DEF At

LEMMA CaptureType ==
  ASSUME ForkTypeOK, NEW p \in Proc
  PROVE  Capture(p) \in Guard
BY DEF ForkTypeOK, Capture, Guard

LEMMA ClaimEffect ==
  ASSUME TypeOK, NEW p \in Proc, NEW h \in Handle, ClaimInstall(p, h)
  PROVE  /\ TypeOK'
         /\ OthersUnchanged(p, h)
         /\ status[p] = "running" /\ pc[p][h] = "capture" /\ pc'[p][h] = "install"
         /\ UNCHANGED <<status, pid, generation, gen, why, nonce, history>>
         /\ once[p] = "unset" /\ once'[p] = "running"
         /\ \A q \in Proc : q # p => once'[q] = once[q]
<1>1. /\ UNCHANGED <<status, pid, generation, gen, why, nonce, history>>
      /\ At(p, h, "capture") /\ pc' = [pc EXCEPT ![p][h] = "install"]
      /\ once[p] = "unset" /\ once' = [once EXCEPT ![p] = "running"]
  BY DEF ClaimInstall, BeginInstall, Goto
<1>2. /\ pc' \in [Proc -> [Handle -> Labels]]
      /\ \A q \in Proc, k \in Handle :
           pc'[q][k] = IF q = p /\ k = h THEN "install" ELSE pc[q][k]
  BY <1>1, TypeFacts, Words, GotoEffect
<1>3. TypeOK'
  BY <1>1, <1>2 DEF TypeOK, ForkTypeOK, history, Labels
<1> QED BY <1>1, <1>2, <1>3 DEF At, OthersUnchanged, TypeOK, ForkTypeOK

LEMMA FinishEffect ==
  ASSUME TypeOK, NEW p \in Proc, NEW h \in Handle, FinishInstall(p, h)
  PROVE  /\ TypeOK'
         /\ OthersUnchanged(p, h)
         /\ status[p] = "running" /\ pc[p][h] = "install" /\ pc'[p][h] = "capture"
         /\ UNCHANGED <<status, pid, generation, gen, why, nonce, history>>
         /\ once[p] = "running" /\ once'[p] \in AtforkOutcome
         /\ \A q \in Proc : q # p => once'[q] = once[q]
<1>1. /\ UNCHANGED <<status, pid, generation, gen, why, nonce, history>>
      /\ At(p, h, "install") /\ pc' = [pc EXCEPT ![p][h] = "capture"]
      /\ once[p] = "running"
      /\ \E answer \in AtforkOutcome : once' = [once EXCEPT ![p] = answer]
  BY DEF FinishInstall, EndInstall, Goto
<1>2. /\ pc' \in [Proc -> [Handle -> Labels]]
      /\ \A q \in Proc, k \in Handle :
           pc'[q][k] = IF q = p /\ k = h THEN "capture" ELSE pc[q][k]
  BY <1>1, TypeFacts, Words, GotoEffect
<1>3. TypeOK'
  BY <1>1, <1>2, ForkGuardAssumption DEF TypeOK, ForkTypeOK, history, Labels
<1> QED BY <1>1, <1>2, <1>3 DEF At, OthersUnchanged, TypeOK, ForkTypeOK

LEMMA CaptureEffect ==
  ASSUME TypeOK, CallShape, NEW p \in Proc, NEW h \in Handle, CaptureGuard(p, h)
  PROVE  /\ TypeOK'
         /\ OthersUnchanged(p, h)
         /\ status[p] = "running" /\ pc[p][h] = "capture" /\ OnceIsSet(p)
         /\ pc'[p][h] = AfterSalt(why[p][h])
         /\ UNCHANGED <<forkVars, why, nonce, history>>
         /\ gen'[p][h] # NoGen
         /\ gen'[p][h].base = gen[p][h].base
         /\ gen'[p][h].counter = gen[p][h].counter
         /\ gen'[p][h].guard = Capture(p)
<1>1. /\ UNCHANGED <<forkVars, why, nonce, history>> /\ At(p, h, "capture") /\ OnceIsSet(p)
      /\ pc' = [pc EXCEPT ![p][h] = AfterSalt(why[p][h])]
      /\ gen' = [gen EXCEPT ![p][h].guard = Capture(p)]
  BY DEF CaptureGuard, Goto
<1>2. gen[p][h] \in NonceGenState
  BY <1>1, TypeFacts DEF CallShape, Shape, At, Gens
<1>3. Capture(p) \in Guard
  BY CaptureType DEF TypeOK
<1> DEFINE r == [gen[p][h] EXCEPT !.guard = Capture(p)]
<1>4. /\ r \in NonceGenState /\ r # NoGen
      /\ r.base = gen[p][h].base /\ r.counter = gen[p][h].counter /\ r.guard = Capture(p)
  BY <1>2, <1>3, TypeFacts DEF NonceGenState
<1>5. gen' = [gen EXCEPT ![p][h] = r]
  BY <1>1
<1> HIDE DEF r
<1>6. /\ gen' \in [Proc -> [Handle -> Gens]]
      /\ \A q \in Proc, k \in Handle :
           gen'[q][k] = IF q = p /\ k = h THEN r ELSE gen[q][k]
  BY <1>4, <1>5, TypeFacts, GenEffect DEF Gens
<1>7. AfterSalt(why[p][h]) \in Labels
  <2>1. why[p][h] \in {"new", "fork", "wrap"}
    BY TypeFacts, Words
  <2>2. AfterSalt(why[p][h]) \in {"check", "take", "return"}
    BY <2>1 DEF AfterSalt
  <2> QED BY <2>2, Words
<1>8. /\ pc' \in [Proc -> [Handle -> Labels]]
      /\ \A q \in Proc, k \in Handle :
           pc'[q][k] = IF q = p /\ k = h THEN AfterSalt(why[p][h]) ELSE pc[q][k]
  BY <1>1, <1>7, TypeFacts, GotoEffect
<1>9. TypeOK'
  BY <1>1, <1>6, <1>8 DEF TypeOK, ForkTypeOK, forkVars, history, Labels, Gens
<1> QED BY <1>1, <1>4, <1>6, <1>8, <1>9 DEF At, OthersUnchanged

LEMMA TakeEffect ==
  ASSUME TypeOK, CallShape, NEW p \in Proc, NEW h \in Handle, TakeNonce(p, h)
  PROVE  /\ TypeOK'
         /\ OthersUnchanged(p, h)
         /\ status[p] = "running" /\ pc[p][h] = "take"
         /\ UNCHANGED <<forkVars, history>>
         /\ nonce'[p][h] = nonce_value(gen[p][h].base, gen[p][h].counter)
         /\ gen'[p][h] # NoGen
         /\ gen'[p][h].base = gen[p][h].base
         /\ gen'[p][h].guard = gen[p][h].guard
         /\ gen'[p][h].counter = (gen[p][h].counter + 1) % CounterMod
         /\ \/ /\ gen'[p][h].counter = 0
               /\ pc'[p][h] = "salt" /\ why'[p][h] = "wrap"
            \/ /\ gen'[p][h].counter # 0
               /\ pc'[p][h] = "return" /\ why'[p][h] = why[p][h]
<1> DEFINE c == (gen[p][h].counter + 1) % CounterMod
           n == nonce_value(gen[p][h].base, gen[p][h].counter)
           r == [gen[p][h] EXCEPT !.counter = c]
<1>1. /\ UNCHANGED <<forkVars, history>> /\ At(p, h, "take")
      /\ nonce' = [nonce EXCEPT ![p][h] = n]
      /\ gen' = [gen EXCEPT ![p][h] = r]
  BY DEF TakeNonce
<1>2. gen[p][h] \in NonceGenState
  BY <1>1, TypeFacts DEF CallShape, Shape, At, Gens
<1>3. c \in Counters /\ n \in Nonces
  <2>1. gen[p][h].counter \in Counters /\ gen[p][h].base \in Nonces
    BY <1>2 DEF NonceGenState
  <2>2. gen[p][h].counter \in Nat /\ gen[p][h].base \in Nat
    BY <2>1, NonceAssumption DEF Counters, Nonces
  <2> QED BY <2>1, <2>2, CounterStep, NonceInRange
<1>4. /\ r \in NonceGenState /\ r # NoGen
      /\ r.base = gen[p][h].base /\ r.counter = c /\ r.guard = gen[p][h].guard
  BY <1>2, <1>3, TypeFacts DEF NonceGenState
<1> HIDE DEF r, c, n
<1>5. CASE c = 0
  <2>1. pc' = [pc EXCEPT ![p][h] = "salt"] /\ why' = [why EXCEPT ![p][h] = "wrap"]
    BY <1>5 DEF TakeNonce, Goto, c
  <2>2. /\ pc' \in [Proc -> [Handle -> Labels]]
        /\ \A q \in Proc, k \in Handle :
             pc'[q][k] = IF q = p /\ k = h THEN "salt" ELSE pc[q][k]
    BY <2>1, TypeFacts, Words, GotoEffect
  <2>3. /\ why' \in [Proc -> [Handle -> Reasons]]
        /\ \A q \in Proc, k \in Handle :
             why'[q][k] = IF q = p /\ k = h THEN "wrap" ELSE why[q][k]
    BY <2>1, TypeFacts, Words, WhyEffect
  <2>4. /\ gen' \in [Proc -> [Handle -> Gens]]
        /\ \A q \in Proc, k \in Handle :
             gen'[q][k] = IF q = p /\ k = h THEN r ELSE gen[q][k]
    BY <1>1, <1>4, TypeFacts, GenEffect DEF Gens
  <2>5. /\ nonce' \in [Proc -> [Handle -> Nonces]]
        /\ \A q \in Proc, k \in Handle :
             nonce'[q][k] = IF q = p /\ k = h THEN n ELSE nonce[q][k]
    BY <1>1, <1>3, TypeFacts, NonceEffect
  <2>6. TypeOK'
    BY <1>1, <2>2, <2>3, <2>4, <2>5
    DEF TypeOK, ForkTypeOK, forkVars, history, Labels, Reasons, Gens
  <2> QED BY <1>1, <1>4, <1>5, <2>2, <2>3, <2>4, <2>5, <2>6 DEF At, OthersUnchanged, c, n
<1>6. CASE c # 0
  <2>1. pc' = [pc EXCEPT ![p][h] = "return"] /\ why' = why
    BY <1>6 DEF TakeNonce, Goto, c
  <2>2. /\ pc' \in [Proc -> [Handle -> Labels]]
        /\ \A q \in Proc, k \in Handle :
             pc'[q][k] = IF q = p /\ k = h THEN "return" ELSE pc[q][k]
    BY <2>1, TypeFacts, Words, GotoEffect
  <2>4. /\ gen' \in [Proc -> [Handle -> Gens]]
        /\ \A q \in Proc, k \in Handle :
             gen'[q][k] = IF q = p /\ k = h THEN r ELSE gen[q][k]
    BY <1>1, <1>4, TypeFacts, GenEffect DEF Gens
  <2>5. /\ nonce' \in [Proc -> [Handle -> Nonces]]
        /\ \A q \in Proc, k \in Handle :
             nonce'[q][k] = IF q = p /\ k = h THEN n ELSE nonce[q][k]
    BY <1>1, <1>3, TypeFacts, NonceEffect
  <2>6. TypeOK'
    BY <1>1, <2>1, <2>2, <2>4, <2>5
    DEF TypeOK, ForkTypeOK, forkVars, history, Labels, Reasons, Gens
  <2> QED BY <1>1, <1>4, <1>6, <2>1, <2>2, <2>4, <2>5, <2>6 DEF At, OthersUnchanged, c, n
<1> QED BY <1>5, <1>6

(* What a step of a process does.                                           *)
LEMMA ForkEffect ==
  ASSUME TypeOK, NEW p \in Proc, NEW q \in Proc, NEW i \in Pid,
         NEW t \in Handle \cup {NoHandle}, Fork(p, q, i, t)
  PROVE  /\ TypeOK'
         /\ p # q /\ status[p] = "running" /\ status[q] = "unborn" /\ Assignable(i)
         /\ UNCHANGED history
         /\ t # NoHandle => ForkInCall
         /\ status'[q] = "running" /\ pid'[q] = i
         /\ once'[q] = once[p] /\ generation'[q] = ChildGeneration(p)
         /\ \A x \in Proc : x # q =>
              /\ status'[x] = status[x] /\ pid'[x] = pid[x]
              /\ once'[x] = once[x] /\ generation'[x] = generation[x]
              /\ gen'[x] = gen[x] /\ pc'[x] = pc[x]
              /\ why'[x] = why[x] /\ nonce'[x] = nonce[x]
         /\ \A h \in Handle :
              \/ gen'[q][h] = NoGen /\ pc'[q][h] = "orphaned"
              \/ /\ gen'[q][h] = gen[p][h] /\ pc'[q][h] = pc[p][h]
                 /\ \/ h = t /\ why'[q][h] = why[p][h]
                    \/ h # t /\ pc'[q][h] = "idle"
<1>1. /\ p # q /\ status[p] = "running" /\ status[q] = "unborn" /\ Assignable(i)
      /\ UNCHANGED history
      /\ t # NoHandle => ForkInCall
  BY DEF Fork, ForkProcess
<1>2. /\ ForkTypeOK'
      /\ status'[q] = "running" /\ pid'[q] = i
      /\ once'[q] = once[p] /\ generation'[q] = ChildGeneration(p)
      /\ \A x \in Proc : x # q =>
           /\ status'[x] = status[x] /\ pid'[x] = pid[x]
           /\ once'[x] = once[x] /\ generation'[x] = generation[x]
  <2>1. ChildGeneration(p) \in Nat /\ ParentGeneration(p) = generation[p] /\ i \in Nat
    BY ForkGuardAssumption DEF TypeOK, ForkTypeOK, ChildGeneration, ParentGeneration
  <2>2. /\ status' = [status EXCEPT ![q] = "running"]
        /\ pid' = [pid EXCEPT ![q] = i]
        /\ generation' = [generation EXCEPT ![q] = ChildGeneration(p), ![p] = generation[p]]
        /\ once' = [once EXCEPT ![q] = once[p]]
    BY <2>1 DEF Fork, ForkProcess
  <2> QED BY <1>1, <2>1, <2>2 DEF TypeOK, ForkTypeOK
<1> DEFINE G == [h \in Handle |-> IF h \in Orphans(p, t) THEN NoGen ELSE gen[p][h]]
           P == [h \in Handle |-> IF h \in Orphans(p, t) THEN "orphaned" ELSE pc[p][h]]
           W == [h \in Handle |-> IF h = t THEN why[p][h] ELSE "new"]
           N == [h \in Handle |-> IF h = t THEN nonce[p][h] ELSE 0]
<1>3. /\ gen' = [gen EXCEPT ![q] = G] /\ pc' = [pc EXCEPT ![q] = P]
      /\ why' = [why EXCEPT ![q] = W] /\ nonce' = [nonce EXCEPT ![q] = N]
  BY DEF Fork
<1>4. G \in [Handle -> Gens]
  BY TypeFacts DEF Gens
<1>5. P \in [Handle -> Labels]
  BY TypeFacts DEF Labels
<1>6. W \in [Handle -> Reasons]
  BY TypeFacts, Words
<1>7. N \in [Handle -> Nonces]
  BY TypeFacts
<1>8. \A h \in Handle :
        \/ G[h] = NoGen /\ P[h] = "orphaned"
        \/ /\ G[h] = gen[p][h] /\ P[h] = pc[p][h]
           /\ h = t \/ pc[p][h] = "idle"
  BY DEF Orphans
<1>9. \A h \in Handle : h = t => W[h] = why[p][h]
  OBVIOUS
<1> HIDE DEF G, P, W, N
<1>10. /\ gen' \in [Proc -> [Handle -> Gens]]
       /\ \A x \in Proc : gen'[x] = IF x = q THEN G ELSE gen[x]
  BY <1>3, <1>4, TypeFacts, UpdateRow
<1>11. /\ pc' \in [Proc -> [Handle -> Labels]]
       /\ \A x \in Proc : pc'[x] = IF x = q THEN P ELSE pc[x]
  BY <1>3, <1>5, TypeFacts, UpdateRow
<1>12. /\ why' \in [Proc -> [Handle -> Reasons]]
       /\ \A x \in Proc : why'[x] = IF x = q THEN W ELSE why[x]
  BY <1>3, <1>6, TypeFacts, UpdateRow
<1>13. /\ nonce' \in [Proc -> [Handle -> Nonces]]
       /\ \A x \in Proc : nonce'[x] = IF x = q THEN N ELSE nonce[x]
  BY <1>3, <1>7, TypeFacts, UpdateRow
<1>14. TypeOK'
  BY <1>1, <1>2, <1>10, <1>11, <1>12, <1>13 DEF TypeOK, history, Labels, Reasons, Gens
<1>15. \A h \in Handle :
         \/ gen'[q][h] = NoGen /\ pc'[q][h] = "orphaned"
         \/ /\ gen'[q][h] = gen[p][h] /\ pc'[q][h] = pc[p][h]
            /\ \/ h = t /\ why'[q][h] = why[p][h]
               \/ h # t /\ pc'[q][h] = "idle"
  BY <1>8, <1>9, <1>10, <1>11, <1>12
<1> QED BY <1>1, <1>2, <1>10, <1>11, <1>12, <1>13, <1>14, <1>15

LEMMA StartEffect ==
  ASSUME TypeOK, NEW p \in Proc, NEW i \in Pid, Start(p, i)
  PROVE  /\ TypeOK'
         /\ UNCHANGED <<generation, once, callVars, history>>
         /\ status[p] = "unborn" /\ status'[p] = "running" /\ pid'[p] = i
         /\ \A x \in Proc : x # p => status'[x] = status[x] /\ pid'[x] = pid[x]
<1>1. /\ UNCHANGED <<generation, once, callVars, history>>
      /\ status[p] = "unborn"
      /\ status' = [status EXCEPT ![p] = "running"]
      /\ pid' = [pid EXCEPT ![p] = i]
  BY DEF Start, StartProcess
<1>2. TypeOK'
  BY <1>1, ForkGuardAssumption DEF TypeOK, ForkTypeOK, callVars, history
<1> QED BY <1>1, <1>2 DEF TypeOK, ForkTypeOK

LEMMA ExitEffect ==
  ASSUME TypeOK, NEW p \in Proc, Exit(p)
  PROVE  /\ TypeOK'
         /\ UNCHANGED <<pid, history>>
         /\ status[p] = "running" /\ status'[p] = "exited"
         /\ \A x \in Proc : x # p =>
              /\ status'[x] = status[x] /\ once'[x] = once[x]
              /\ generation'[x] = generation[x]
              /\ gen'[x] = gen[x] /\ pc'[x] = pc[x]
              /\ why'[x] = why[x] /\ nonce'[x] = nonce[x]
         /\ once'[p] = "unset"
         /\ \A h \in Handle : gen'[p][h] = NoGen /\ pc'[p][h] = "idle"
<1>1. /\ UNCHANGED <<pid, history>>
      /\ status[p] = "running"
      /\ status' = [status EXCEPT ![p] = "exited"]
      /\ generation' = [generation EXCEPT ![p] = 0]
      /\ once' = [once EXCEPT ![p] = "unset"]
  BY DEF Exit, ExitProcess
<1> DEFINE G == [h \in Handle |-> NoGen]
           P == [h \in Handle |-> "idle"]
           W == [h \in Handle |-> "new"]
           N == [h \in Handle |-> 0]
<1>2. /\ gen' = [gen EXCEPT ![p] = G] /\ pc' = [pc EXCEPT ![p] = P]
      /\ why' = [why EXCEPT ![p] = W] /\ nonce' = [nonce EXCEPT ![p] = N]
  BY DEF Exit
<1>3. /\ G \in [Handle -> Gens] /\ P \in [Handle -> Labels]
      /\ W \in [Handle -> Reasons] /\ N \in [Handle -> Nonces]
      /\ \A h \in Handle : G[h] = NoGen /\ P[h] = "idle"
  BY TypeFacts, Words DEF Gens
<1> HIDE DEF G, P, W, N
<1>4. /\ gen' \in [Proc -> [Handle -> Gens]]
      /\ \A x \in Proc : gen'[x] = IF x = p THEN G ELSE gen[x]
  BY <1>2, <1>3, TypeFacts, UpdateRow
<1>5. /\ pc' \in [Proc -> [Handle -> Labels]]
      /\ \A x \in Proc : pc'[x] = IF x = p THEN P ELSE pc[x]
  BY <1>2, <1>3, TypeFacts, UpdateRow
<1>6. /\ why' \in [Proc -> [Handle -> Reasons]]
      /\ \A x \in Proc : why'[x] = IF x = p THEN W ELSE why[x]
  BY <1>2, <1>3, TypeFacts, UpdateRow
<1>7. /\ nonce' \in [Proc -> [Handle -> Nonces]]
      /\ \A x \in Proc : nonce'[x] = IF x = p THEN N ELSE nonce[x]
  BY <1>2, <1>3, TypeFacts, UpdateRow
<1>8. TypeOK'
  BY <1>1, <1>4, <1>5, <1>6, <1>7 DEF TypeOK, ForkTypeOK, history, Labels, Reasons, Gens
<1> QED BY <1>1, <1>3, <1>4, <1>5, <1>6, <1>7, <1>8 DEF TypeOK, ForkTypeOK

-----------------------------------------------------------------------------
(* Type correctness, with the shape of calls as the strengthening.          *)

LEMMA InitTypes == Init => TypeOK /\ CallShape
<1> SUFFICES ASSUME Init PROVE TypeOK /\ CallShape
  OBVIOUS
<1>1. 0 \in Nonces
  BY NonceAssumption DEF Nonces
<1>2. TypeOK
  BY <1>1 DEF Init, ForkInit, TypeOK, ForkTypeOK
<1>3. CallShape
  BY DEF Init, ForkInit, CallShape, Shape
<1> QED BY <1>2, <1>3

LEMMA NextTypes == TypeOK /\ CallShape /\ [Next]_vars => TypeOK' /\ CallShape'
<1> SUFFICES ASSUME TypeOK, CallShape, [Next]_vars PROVE TypeOK' /\ CallShape'
  OBVIOUS
<1> USE DEF Shape
<1>1. ASSUME NEW p \in Proc, NEW h \in Handle, Call(p, h) PROVE TypeOK' /\ CallShape'
  BY <1>1, CallEffect DEF CallShape, OthersUnchanged, forkVars
<1>2. ASSUME NEW p \in Proc, NEW h \in Handle, CheckGuard(p, h) PROVE TypeOK' /\ CallShape'
  BY <1>2, CheckEffect DEF CallShape, OthersUnchanged, forkVars
<1>3. ASSUME NEW p \in Proc, NEW h \in Handle, DrawSalt(p, h) PROVE TypeOK' /\ CallShape'
  BY <1>3, DrawEffect DEF CallShape, OthersUnchanged, forkVars
<1>4. ASSUME NEW p \in Proc, NEW h \in Handle, SaltFails(p, h) PROVE TypeOK' /\ CallShape'
  BY <1>4, SaltFailsEffect DEF CallShape, OthersUnchanged, forkVars
<1>5. ASSUME NEW p \in Proc, NEW h \in Handle, ClaimInstall(p, h) PROVE TypeOK' /\ CallShape'
  BY <1>5, ClaimEffect DEF CallShape, OthersUnchanged
<1>6. ASSUME NEW p \in Proc, NEW h \in Handle, FinishInstall(p, h) PROVE TypeOK' /\ CallShape'
  BY <1>6, FinishEffect DEF CallShape, OthersUnchanged
<1>7. ASSUME NEW p \in Proc, NEW h \in Handle, CaptureGuard(p, h) PROVE TypeOK' /\ CallShape'
  <2>1. why[p][h] \in {"new", "fork", "wrap"}
    BY TypeFacts, Words
  <2>2. AfterSalt(why[p][h]) \in {"check", "take", "return"}
    BY <2>1 DEF AfterSalt
  <2> QED
    BY <1>7, <2>2, CaptureEffect DEF CallShape, OthersUnchanged, forkVars
<1>8. ASSUME NEW p \in Proc, NEW h \in Handle, TakeNonce(p, h) PROVE TypeOK' /\ CallShape'
  BY <1>8, TakeEffect DEF CallShape, OthersUnchanged, forkVars
<1>9. ASSUME NEW p \in Proc, NEW h \in Handle, ReturnNonce(p, h) PROVE TypeOK' /\ CallShape'
  BY <1>9, ReturnEffect DEF CallShape, OthersUnchanged, forkVars
<1>10. ASSUME NEW p \in Proc, NEW q \in Proc, NEW i \in Pid,
              NEW t \in Handle \cup {NoHandle}, Fork(p, q, i, t)
       PROVE TypeOK' /\ CallShape'
  BY <1>10, ForkEffect DEF CallShape
<1>11. ASSUME NEW p \in Proc, NEW i \in Pid, Start(p, i) PROVE TypeOK' /\ CallShape'
  BY <1>11, StartEffect DEF CallShape, callVars
<1>12. ASSUME NEW p \in Proc, Exit(p) PROVE TypeOK' /\ CallShape'
  BY <1>12, ExitEffect DEF CallShape
<1>13. CASE UNCHANGED vars
  BY <1>13 DEF vars, forkVars, callVars, history, TypeOK, ForkTypeOK, CallShape
<1> QED
  BY <1>1, <1>2, <1>3, <1>4, <1>5, <1>6, <1>7, <1>8, <1>9, <1>10, <1>11, <1>12, <1>13
  DEF Next, ThreadStep

(* Every state variable keeps its type, whatever the sets of processes,     *)
(* handles and salts: in particular a generator is never used before it was *)
(* made, and its counter and nonces stay within their widths.               *)
THEOREM TypeCorrect == Spec => []TypeOK
<1>1. Init => TypeOK /\ CallShape BY InitTypes
<1>2. TypeOK /\ CallShape /\ [Next]_vars => (TypeOK /\ CallShape)' BY NextTypes
<1> QED BY <1>1, <1>2, PTL DEF Spec

-----------------------------------------------------------------------------
(* Forks and the parent. *)

(* A guard that is current stays so where the memory it is compared with    *)
(* does, also while the answer of pthread_atfork is still to come.          *)
LEMMA GuardStays ==
  ASSUME NEW q \in Proc, NEW k \in Handle, gen'[q][k] = gen[q][k],
         pid'[q] = pid[q], generation'[q] = generation[q],
         once'[q] = once[q] \/ ~OnceIsSet(q),
         Unchanged(gen[q][k].guard, q)
  PROVE  Unchanged(gen[q][k].guard, q)'
BY DEF Unchanged, OnceIsSet

LEMMA HandleStays ==
  ASSUME NEW q \in Proc, NEW k \in Handle, Holds(q, k), gen'[q][k] = gen[q][k],
         pc'[q][k] = pc[q][k], why'[q][k] = why[q][k],
         pid'[q] = pid[q], generation'[q] = generation[q],
         once'[q] = once[q] \/ ~OnceIsSet(q)
  PROVE  Holds(q, k)'
BY GuardStays DEF Holds, SpentBase

(* A step of one call, as the handle that makes it sees it and as others do. *)
LEMMA CallStays ==
  ASSUME NEW p \in Proc, NEW h \in Handle, OthersUnchanged(p, h),
         UNCHANGED <<pid, generation>>,
         \A x \in Proc : once'[x] = once[x] \/ ~OnceIsSet(x),
         \/ pc'[p][h] \notin {"orphaned", "salt"} /\ Unchanged(gen[p][h].guard, p)'
         \/ pc'[p][h] \in {"capture", "install"}
         \/ SpentBase(p, h)',
         NEW q \in Proc, NEW k \in Handle, Holds(q, k), gen'[q][k] = gen[q][k]
  PROVE  Holds(q, k)' \/ SpentBase(q, k)'
<1>1. CASE q = p /\ k = h
  BY <1>1 DEF Holds, SpentBase
<1>2. CASE ~(q = p /\ k = h)
  BY <1>2, HandleStays DEF OthersUnchanged
<1> QED BY <1>1, <1>2

LEMMA ParentStep ==
  ASSUME TypeOK, CallShape, [Next]_vars,
         NEW q \in Proc, NEW k \in Handle, Holds(q, k), gen'[q][k] = gen[q][k]
  PROVE  Holds(q, k)' \/ SpentBase(q, k)'
<1> DEFINE Goal == Holds(q, k)' \/ SpentBase(q, k)'
<1>1. ASSUME NEW p \in Proc, NEW h \in Handle, Call(p, h) PROVE Goal
  <2>1. CASE q = p /\ k = h
    BY <1>1, <2>1, CallEffect, GuardStays DEF Holds, SpentBase, forkVars
  <2>2. CASE ~(q = p /\ k = h)
    BY <1>1, <2>2, CallEffect, HandleStays DEF OthersUnchanged, forkVars
  <2> QED BY <2>1, <2>2
<1>2. ASSUME NEW p \in Proc, NEW h \in Handle, CheckGuard(p, h) PROVE Goal
  <2>1. CASE q = p /\ k = h
    BY <1>2, <2>1, CheckEffect, GuardStays DEF Holds, SpentBase, forkVars
  <2>2. CASE ~(q = p /\ k = h)
    BY <1>2, <2>2, CheckEffect, HandleStays DEF OthersUnchanged, forkVars
  <2> QED BY <2>1, <2>2
<1>3. ASSUME NEW p \in Proc, NEW h \in Handle, DrawSalt(p, h) PROVE Goal
  BY <1>3, DrawEffect, CallStays DEF forkVars
<1>4. ASSUME NEW p \in Proc, NEW h \in Handle, SaltFails(p, h) PROVE Goal
  <2>1. CASE q = p /\ k = h
    BY <1>4, <2>1, SaltFailsEffect, GuardStays DEF Holds, SpentBase, forkVars
  <2>2. CASE ~(q = p /\ k = h)
    BY <1>4, <2>2, SaltFailsEffect, HandleStays DEF OthersUnchanged, forkVars
  <2> QED BY <2>1, <2>2
<1>5. ASSUME NEW p \in Proc, NEW h \in Handle, ClaimInstall(p, h) PROVE Goal
  BY <1>5, ClaimEffect, CallStays DEF OnceIsSet
<1>6. ASSUME NEW p \in Proc, NEW h \in Handle, FinishInstall(p, h) PROVE Goal
  BY <1>6, FinishEffect, CallStays DEF OnceIsSet
<1>7. ASSUME NEW p \in Proc, NEW h \in Handle, CaptureGuard(p, h) PROVE Goal
  <2>1. /\ OthersUnchanged(p, h) /\ UNCHANGED <<pid, generation, once>> /\ OnceIsSet(p)
        /\ gen'[p][h].guard = Capture(p)
        /\ pc'[p][h] = AfterSalt(why[p][h])
    BY <1>7, CaptureEffect DEF forkVars
  <2>2. why[p][h] \in {"new", "fork", "wrap"}
    BY TypeFacts, Words
  <2>3. AfterSalt(why[p][h]) \in {"check", "take", "return"}
    BY <2>2 DEF AfterSalt
  <2>4. Unchanged(Capture(p), p) /\ Capture(p) = gen'[p][h].guard
    BY <2>1 DEF OnceIsSet, Capture, Unchanged
  <2>5. CASE q = p /\ k = h
    <3>1. Unchanged(gen[p][h].guard, p)'
      BY <2>1, <2>4 DEF Unchanged
    <3> QED BY <2>1, <2>3, <2>5, <3>1 DEF Holds, SpentBase
  <2>6. CASE ~(q = p /\ k = h)
    BY <2>1, <2>6, HandleStays DEF OthersUnchanged
  <2> QED BY <2>5, <2>6
<1>8. ASSUME NEW p \in Proc, NEW h \in Handle, TakeNonce(p, h) PROVE Goal
  <2>1. CASE q = p /\ k = h
    BY <1>8, <2>1, TakeEffect, GuardStays DEF Holds, SpentBase, forkVars
  <2>2. CASE ~(q = p /\ k = h)
    BY <1>8, <2>2, TakeEffect, HandleStays DEF OthersUnchanged, forkVars
  <2> QED BY <2>1, <2>2
<1>9. ASSUME NEW p \in Proc, NEW h \in Handle, ReturnNonce(p, h) PROVE Goal
  <2>1. CASE q = p /\ k = h
    BY <1>9, <2>1, ReturnEffect, GuardStays DEF Holds, SpentBase, forkVars
  <2>2. CASE ~(q = p /\ k = h)
    BY <1>9, <2>2, ReturnEffect, HandleStays DEF OthersUnchanged, forkVars
  <2> QED BY <2>1, <2>2
<1>10. ASSUME NEW p \in Proc, NEW c \in Proc, NEW i \in Pid,
              NEW t \in Handle \cup {NoHandle}, Fork(p, c, i, t)
       PROVE  Goal
  <2>1. c # q
    <3>1. status[c] = "unborn"
      BY <1>10, ForkEffect
    <3> QED BY <3>1 DEF CallShape, Shape, Holds
  <2> QED BY <1>10, <2>1, ForkEffect, HandleStays
<1>11. ASSUME NEW p \in Proc, NEW i \in Pid, Start(p, i) PROVE Goal
  <2>1. p # q
    <3>1. status[p] = "unborn"
      BY <1>11, StartEffect
    <3> QED BY <3>1 DEF CallShape, Shape, Holds
  <2> QED BY <1>11, <2>1, StartEffect, HandleStays DEF callVars
<1>12. ASSUME NEW p \in Proc, Exit(p) PROVE Goal
  <2>1. p # q
    BY <1>12, ExitEffect DEF Holds
  <2> QED BY <1>12, <2>1, ExitEffect, HandleStays
<1>13. CASE UNCHANGED vars
  BY <1>13, HandleStays DEF vars, forkVars, callVars
<1> QED
  BY <1>1, <1>2, <1>3, <1>4, <1>5, <1>6, <1>7, <1>8, <1>9, <1>10, <1>11, <1>12, <1>13
  DEF Next, ThreadStep

(* Forking does not disturb the parent, nor does any step but the handle's  *)
(* own and the process's end: a usable generator stays usable, without      *)
(* another draw of OS entropy, also when process ids come back and when the *)
(* thread inside next_nonce forks (bump_generation_in_child).               *)
THEOREM ParentUndisturbedHolds == Spec => ParentUndisturbed
<1> DEFINE Undisturbed ==
      \A p \in Proc, h \in Handle :
        Holds(p, h) /\ gen'[p][h] = gen[p][h] => Holds(p, h)' \/ SpentBase(p, h)'
<1>1. TypeOK /\ CallShape /\ [Next]_vars => [Undisturbed]_vars
  BY ParentStep
<1> QED BY <1>1, InitTypes, NextTypes, PTL DEF Spec, ParentUndisturbed

-----------------------------------------------------------------------------
(* No nonce twice. *)

(* What the invariant says of the nonces themselves.                        *)
Ledger == NoRepeat /\ ReservationsDisjoint /\ (~exhausted => AllCovered)

(* A step after which a handle has no nonce in reserve it had not before.   *)
CellShrinks(q, k) ==
  /\ TailOf(q, k)' \subseteq TailOf(q, k)
  /\ PendingOf(q, k)' \subseteq PendingOf(q, k)

CurrentOnlyIfWas(q, k) ==
  gen[q][k] # NoGen /\ Unchanged(gen[q][k].guard, q)' => Unchanged(gen[q][k].guard, q)

-----------------------------------------------------------------------------
(* Guards. *)

(* The answer of pthread_atfork is published while no guard of the process  *)
(* has been captured yet, so publishing it makes none of them current.      *)
LEMMA InstallMakesNoneCurrent ==
  ASSUME GuardsOfPast, NEW p \in Proc, ~OnceIsSet(p),
         UNCHANGED <<pid, generation, gen>>,
         \A q \in Proc : q # p => once'[q] = once[q],
         NEW q \in Proc, NEW k \in Handle
  PROVE  CurrentOnlyIfWas(q, k)
BY DEF GuardsOfPast, GuardOfPast, OnceIsSet, Unchanged, CurrentOnlyIfWas

LEMMA GuardsInit == Init => GuardsOfPast /\ TakesAreCurrent
BY DEF Init, ForkInit, GuardsOfPast, TakesAreCurrent

(* A guard just captured is current.                                        *)
LEMMA CapturedIsCurrent ==
  ASSUME ForkTypeOK, NEW p \in Proc, OnceIsSet(p), status[p] # "unborn"
  PROVE  Unchanged(Capture(p), p) /\ GuardOfPast(Capture(p), p)
BY DEF ForkTypeOK, OnceIsSet, Capture, Unchanged, GuardOfPast

(* A guard copied into a forked child is never current there: the child's   *)
(* generation is above every snapshot, its process id differs from all.     *)
LEMMA StaleInChild ==
  ASSUME TypeOK, GuardsOfPast, SafeSetting,
         NEW p \in Proc, NEW q \in Proc, NEW i \in Pid, Assignable(i),
         pid'[q] = i, once'[q] = once[p], generation'[q] = ChildGeneration(p),
         NEW h \in Handle, gen[p][h] # NoGen, gen'[q][h] = gen[p][h],
         GuardOfPast(gen[p][h].guard, p)
  PROVE  ~Unchanged(gen[q][h].guard, q)'
<1> DEFINE g == gen[p][h].guard
<1>0. gen'[q][h].guard = g
  OBVIOUS
<1>1. generation[p] \in Nat /\ once[p] \in {"unset", "running"} \cup AtforkOutcome
  BY DEF TypeOK, ForkTypeOK, GuardsOfPast
<1>2. g \in Guard
  BY TypeFacts DEF Gens, NonceGenState
<1>3. CASE g.kind = "generation" /\ once[p] = "installed" /\ g.seen <= generation[p]
  <2>1. g.seen < generation'[q]
    BY <1>1, <1>2, <1>3 DEF ChildGeneration, Guard
  <2>2. g.seen # generation'[q] /\ g.kind # "pid"
    BY <1>1, <1>2, <1>3, <2>1 DEF ChildGeneration, Guard
  <2> QED BY <1>0, <2>2 DEF Unchanged
<1>4. CASE /\ g.kind = "pid" /\ once[p] = "refused"
           /\ \E x \in Proc : status[x] # "unborn" /\ pid[x] = g.seen
  <2>1. PICK x \in Proc : status[x] # "unborn" /\ pid[x] = g.seen
    BY <1>4
  <2>2. ~PidReuse
    BY <1>1, <1>4 DEF SafeSetting
  <2>3. pid[x] # i
    BY <2>1, <2>2 DEF Assignable, InUse
  <2>4. g.seen # pid'[q] /\ g.kind # "generation"
    BY <1>4, <2>1, <2>3
  <2> QED BY <1>0, <2>4 DEF Unchanged
<1> QED BY <1>3, <1>4 DEF GuardOfPast

-----------------------------------------------------------------------------
(* Reservations. *)

LEMMA SameCell ==
  ASSUME NEW q \in Proc, NEW k \in Handle,
         gen'[q][k] = gen[q][k], pc'[q][k] = pc[q][k],
         why'[q][k] = why[q][k], nonce'[q][k] = nonce[q][k],
         CurrentOnlyIfWas(q, k)
  PROVE  CellShrinks(q, k)
BY DEF CellShrinks, TailOf, PendingOf, Holds, Pending, SpentBase, CurrentOnlyIfWas

LEMMA SameProcesses ==
  ASSUME UNCHANGED forkVars, NEW q \in Proc, NEW k \in Handle,
         gen'[q][k] = gen[q][k]
  PROVE  CurrentOnlyIfWas(q, k)
BY DEF forkVars, CurrentOnlyIfWas, Unchanged

(* A step that adds nothing to what the handles have in reserve keeps the   *)
(* ledger in order.                                                         *)
LEMMA Shrink ==
  ASSUME Ledger, drawn \subseteq drawn', issued' = issued, repeated' = repeated,
         ~exhausted' => ~exhausted,
         ~exhausted' => \A q \in Proc, k \in Handle :
            /\ Reserved(q, k)' \subseteq Reserved(q, k)
            /\ PendingOf(q, k)' \cap TailOf(q, k)' = {}
  PROVE  Ledger'
<1> SUFFICES ASSUME ~exhausted' PROVE Ledger'
  BY DEF Ledger, NoRepeat, ReservationsDisjoint
<1>1. \A q \in Proc, k \in Handle : Reserved(q, k)' \subseteq Reserved(q, k)
  OBVIOUS
<1>2. Covered \subseteq Covered'
  BY DEF Covered, Counters
<1>3. NoRepeat'
  BY DEF Ledger, NoRepeat
<1>4. ReservationsDisjoint'
  <2>1. \A p, q \in Proc, h, k \in Handle :
          <<p, h>> # <<q, k>> => Reserved(p, h)' \cap Reserved(q, k)' = {}
    BY <1>1 DEF Ledger, ReservationsDisjoint
  <2>2. \A p \in Proc, h \in Handle : Reserved(p, h)' \cap issued' = {}
    BY <1>1 DEF Ledger, ReservationsDisjoint
  <2>3. \A p \in Proc, h \in Handle : PendingOf(p, h)' \cap TailOf(p, h)' = {}
    OBVIOUS
  <2> QED BY <2>1, <2>2, <2>3 DEF ReservationsDisjoint
<1>5. AllCovered'
  BY <1>1, <1>2 DEF Ledger, AllCovered
<1> QED BY <1>3, <1>4, <1>5 DEF Ledger

LEMMA CellsShrink ==
  ASSUME Ledger, drawn \subseteq drawn', issued' = issued, repeated' = repeated,
         ~exhausted' => ~exhausted,
         ~exhausted' => \A q \in Proc, k \in Handle : CellShrinks(q, k)
  PROVE  Ledger'
<1>1. ASSUME ~exhausted', NEW q \in Proc, NEW k \in Handle
      PROVE  /\ Reserved(q, k)' \subseteq Reserved(q, k)
             /\ PendingOf(q, k)' \cap TailOf(q, k)' = {}
  BY <1>1 DEF CellShrinks, Reserved, Ledger, ReservationsDisjoint
<1> QED BY <1>1, Shrink

LEMMA EmptyCell ==
  ASSUME NEW q \in Proc, NEW k \in Handle,
         pc'[q][k] \in {"idle", "orphaned"},
         gen'[q][k] = NoGen \/ (pc'[q][k] = "idle" /\ ~Unchanged(gen[q][k].guard, q)')
  PROVE  CellShrinks(q, k)
BY DEF CellShrinks, TailOf, PendingOf, Holds, Pending

-----------------------------------------------------------------------------
(* Guards, step by step. *)

GuardsFine == GuardsOfPast /\ TakesAreCurrent

CellGuardFine(q, k) ==
  /\ gen[q][k] # NoGen =>
       \/ GuardOfPast(gen[q][k].guard, q)
       \/ gen[q][k].guard.kind = "none" /\ pc[q][k] \in {"capture", "install"}
  /\ pc[q][k] = "take" => Unchanged(gen[q][k].guard, q)

LEMMA CellByCell ==
  GuardsFine <=>
    /\ \A p \in Proc : once[p] \in {"unset", "running"} \cup AtforkOutcome
    /\ \A q \in Proc, k \in Handle : CellGuardFine(q, k)
BY DEF GuardsFine, GuardsOfPast, TakesAreCurrent, CellGuardFine

(* The processes a handle's guard speaks of are as they were.               *)
SameView(q) ==
  /\ once'[q] = once[q] /\ generation'[q] = generation[q] /\ pid'[q] = pid[q]
  /\ \A x \in Proc : status[x] # "unborn" => status'[x] # "unborn" /\ pid'[x] = pid[x]

LEMMA SameViewKeeps ==
  ASSUME NEW q \in Proc, SameView(q), NEW k \in Handle, gen'[q][k] = gen[q][k]
  PROVE  /\ GuardOfPast(gen[q][k].guard, q) => GuardOfPast(gen[q][k].guard, q)'
         /\ Unchanged(gen[q][k].guard, q)' <=> Unchanged(gen[q][k].guard, q)
BY DEF SameView, GuardOfPast, Unchanged

LEMMA SameViewFine ==
  ASSUME NEW q \in Proc, SameView(q), NEW k \in Handle,
         gen'[q][k] = gen[q][k], pc'[q][k] = pc[q][k], CellGuardFine(q, k)
  PROVE  CellGuardFine(q, k)'
BY SameViewKeeps DEF CellGuardFine

LEMMA ForkVarsView ==
  ASSUME UNCHANGED forkVars, NEW q \in Proc
  PROVE  SameView(q)
BY DEF forkVars, SameView

(* A step of a call that touches no process leaves the other handles'       *)
(* guards as they were.                                                     *)
LEMMA LocalStepGuards ==
  ASSUME GuardsFine, UNCHANGED forkVars, NEW p \in Proc, NEW h \in Handle,
         OthersUnchanged(p, h), CellGuardFine(p, h)'
  PROVE  GuardsFine'
<1>1. \A q \in Proc, k \in Handle : CellGuardFine(q, k)'
  BY CellByCell, ForkVarsView, SameViewFine DEF OthersUnchanged
<1>2. \A q \in Proc : once'[q] \in {"unset", "running"} \cup AtforkOutcome
  BY CellByCell DEF forkVars
<1> QED BY <1>1, <1>2 DEF GuardsFine, GuardsOfPast, TakesAreCurrent, CellGuardFine

(* Claiming or publishing the OnceLock: no guard of the process exists yet. *)
LEMMA InstallStepGuards ==
  ASSUME GuardsFine, NEW p \in Proc, NEW h \in Handle, OthersUnchanged(p, h),
         ~OnceIsSet(p), UNCHANGED <<status, pid, generation, gen>>,
         \A q \in Proc : q # p => once'[q] = once[q],
         once'[p] \in {"unset", "running"} \cup AtforkOutcome,
         pc[p][h] \in {"capture", "install"}, pc'[p][h] \in {"capture", "install"}
  PROVE  GuardsFine'
<1>1. ASSUME NEW q \in Proc, NEW k \in Handle, q # p PROVE CellGuardFine(q, k)'
  <2>1. SameView(q)
    BY <1>1 DEF SameView
  <2> QED BY <1>1, <2>1, CellByCell, SameViewFine DEF OthersUnchanged
<1>2. ASSUME NEW k \in Handle PROVE CellGuardFine(p, k)'
  <2>1. ~GuardOfPast(gen[p][k].guard, p)
    BY DEF OnceIsSet, GuardOfPast
  <2>2. ~Unchanged(gen[p][k].guard, p) \/ gen[p][k].guard.kind = "pid"
    BY DEF OnceIsSet, Unchanged
  <2>3. CellGuardFine(p, k)
    BY CellByCell
  <2>4. gen'[p][k] = gen[p][k]
    OBVIOUS
  <2>5. CASE k = h
    BY <2>1, <2>3, <2>4, <2>5 DEF CellGuardFine
  <2>6. CASE k # h
    <3>1. pc'[p][k] = pc[p][k]
      BY <2>6 DEF OthersUnchanged
    <3>2. pc[p][k] = "take" => gen[p][k].guard.kind = "pid"
      BY <2>2, <2>3 DEF CellGuardFine
    <3>3. Unchanged(gen[p][k].guard, p) /\ gen[p][k].guard.kind = "pid" => Unchanged(gen[p][k].guard, p)'
      BY <2>4 DEF Unchanged
    <3> QED BY <2>1, <2>3, <2>4, <3>1, <3>2, <3>3 DEF CellGuardFine
  <2> QED BY <2>5, <2>6
<1>3. \A q \in Proc : once'[q] \in {"unset", "running"} \cup AtforkOutcome
  BY CellByCell
<1> QED BY <1>1, <1>2, <1>3 DEF GuardsFine, GuardsOfPast, TakesAreCurrent, CellGuardFine

LEMMA GuardsStep ==
  ASSUME SafeSetting, TypeOK, CallShape, GuardsFine, [Next]_vars
  PROVE  GuardsFine'
<1>0. \A q \in Proc, k \in Handle : CellGuardFine(q, k) /\ Shape(q, k)
  BY CellByCell DEF CallShape
<1>1. ASSUME NEW p \in Proc, NEW h \in Handle, Call(p, h) PROVE GuardsFine'
  <2>1. CellGuardFine(p, h)'
    BY <1>0, <1>1, CallEffect, ForkVarsView, SameViewKeeps DEF CellGuardFine
  <2> QED BY <1>1, <2>1, CallEffect, LocalStepGuards
<1>2. ASSUME NEW p \in Proc, NEW h \in Handle, CheckGuard(p, h) PROVE GuardsFine'
  <2>1. CellGuardFine(p, h)'
    BY <1>0, <1>2, CheckEffect, ForkVarsView, SameViewKeeps DEF CellGuardFine
  <2> QED BY <1>2, <2>1, CheckEffect, LocalStepGuards
<1>3. ASSUME NEW p \in Proc, NEW h \in Handle, DrawSalt(p, h) PROVE GuardsFine'
  <2>1. SameView(p)
    BY <1>3, DrawEffect, ForkVarsView
  <2>2. CellGuardFine(p, h)'
    BY <1>0, <1>3, <2>1, DrawEffect DEF CellGuardFine, NoGuard, GuardOfPast, SameView
  <2> QED BY <1>3, <2>2, DrawEffect, LocalStepGuards
<1>4. ASSUME NEW p \in Proc, NEW h \in Handle, SaltFails(p, h) PROVE GuardsFine'
  <2>1. CellGuardFine(p, h)'
    BY <1>0, <1>4, SaltFailsEffect, ForkVarsView, SameViewKeeps DEF CellGuardFine
  <2> QED BY <1>4, <2>1, SaltFailsEffect, LocalStepGuards
<1>5. ASSUME NEW p \in Proc, NEW h \in Handle, ClaimInstall(p, h) PROVE GuardsFine'
  BY <1>5, ClaimEffect, InstallStepGuards DEF OnceIsSet
<1>6. ASSUME NEW p \in Proc, NEW h \in Handle, FinishInstall(p, h) PROVE GuardsFine'
  BY <1>6, FinishEffect, InstallStepGuards DEF OnceIsSet
<1>7. ASSUME NEW p \in Proc, NEW h \in Handle, CaptureGuard(p, h) PROVE GuardsFine'
  <2>1. SameView(p)
    BY <1>7, CaptureEffect, ForkVarsView
  <2>2. Unchanged(Capture(p), p) /\ GuardOfPast(Capture(p), p)
    BY <1>7, CaptureEffect, CapturedIsCurrent DEF TypeOK
  <2>3. Unchanged(gen[p][h].guard, p)' /\ GuardOfPast(gen[p][h].guard, p)'
    BY <1>7, <2>1, <2>2, CaptureEffect DEF SameView, Unchanged, GuardOfPast
  <2>4. CellGuardFine(p, h)'
    BY <2>3 DEF CellGuardFine
  <2> QED BY <1>7, <2>4, CaptureEffect, LocalStepGuards
<1>8. ASSUME NEW p \in Proc, NEW h \in Handle, TakeNonce(p, h) PROVE GuardsFine'
  <2>1. SameView(p)
    BY <1>8, TakeEffect, ForkVarsView
  <2>2. CellGuardFine(p, h)'
    BY <1>0, <1>8, <2>1, TakeEffect DEF CellGuardFine, GuardOfPast, SameView, Shape
  <2> QED BY <1>8, <2>2, TakeEffect, LocalStepGuards
<1>9. ASSUME NEW p \in Proc, NEW h \in Handle, ReturnNonce(p, h) PROVE GuardsFine'
  <2>1. CellGuardFine(p, h)'
    BY <1>0, <1>9, ReturnEffect, ForkVarsView, SameViewKeeps DEF CellGuardFine
  <2> QED BY <1>9, <2>1, ReturnEffect, LocalStepGuards
<1>10. ASSUME NEW p \in Proc, NEW q \in Proc, NEW i \in Pid,
              NEW t \in Handle \cup {NoHandle}, Fork(p, q, i, t)
       PROVE GuardsFine'
  <2>1. \A x \in Proc : x # q => SameView(x)
    BY <1>10, ForkEffect DEF SameView
  <2>2. ASSUME NEW x \in Proc, x # q, NEW k \in Handle PROVE CellGuardFine(x, k)'
    BY <1>0, <1>10, <2>1, <2>2, ForkEffect, SameViewFine
  <2>3. ASSUME NEW k \in Handle PROVE CellGuardFine(q, k)'
    <3>1. k # t
      BY <1>10, ForkEffect, NonceAssumption DEF SafeSetting
    <3>2. CASE gen'[q][k] = NoGen /\ pc'[q][k] = "orphaned"
      BY <3>2 DEF CellGuardFine
    <3>3. CASE gen'[q][k] = gen[p][k] /\ pc'[q][k] = pc[p][k] /\ pc'[q][k] = "idle"
      <4>1. gen[p][k] # NoGen => GuardOfPast(gen[p][k].guard, p)
        BY <1>0, <3>3 DEF CellGuardFine
      <4>2. /\ once'[q] = once[p]
            /\ generation'[q] \in {generation[p], generation[p] + 1}
            /\ generation[p] \in Nat
            /\ \A x \in Proc : status[x] # "unborn" => status'[x] # "unborn" /\ pid'[x] = pid[x]
        BY <1>10, ForkEffect DEF ChildGeneration, TypeOK, ForkTypeOK
      <4>3. gen[p][k] # NoGen => gen[p][k].guard.seen \in Nat
        BY TypeFacts DEF Gens, NonceGenState, Guard
      <4>4. gen[p][k] # NoGen => GuardOfPast(gen[q][k].guard, q)'
        BY <3>3, <4>1, <4>2, <4>3 DEF GuardOfPast
      <4> QED BY <3>3, <4>4 DEF CellGuardFine
    <3> QED BY <1>10, <3>1, <3>2, <3>3, ForkEffect
  <2>4. \A x \in Proc : once'[x] \in {"unset", "running"} \cup AtforkOutcome
    BY <1>10, ForkEffect, CellByCell
  <2> QED
    BY <2>2, <2>3, <2>4 DEF GuardsFine, GuardsOfPast, TakesAreCurrent, CellGuardFine
<1>11. ASSUME NEW p \in Proc, NEW i \in Pid, Start(p, i) PROVE GuardsFine'
  <2>1. \A x \in Proc : x # p => SameView(x)
    BY <1>11, StartEffect DEF SameView
  <2>2. ASSUME NEW x \in Proc, x # p, NEW k \in Handle PROVE CellGuardFine(x, k)'
    BY <1>0, <1>11, <2>1, <2>2, StartEffect, SameViewFine DEF callVars
  <2>3. ASSUME NEW k \in Handle PROVE CellGuardFine(p, k)'
    BY <1>0, <1>11, StartEffect DEF CellGuardFine, Shape, callVars
  <2>4. \A x \in Proc : once'[x] \in {"unset", "running"} \cup AtforkOutcome
    BY <1>11, StartEffect, CellByCell
  <2> QED
    BY <2>2, <2>3, <2>4 DEF GuardsFine, GuardsOfPast, TakesAreCurrent, CellGuardFine
<1>12. ASSUME NEW p \in Proc, Exit(p) PROVE GuardsFine'
  <2>1. \A x \in Proc : x # p => SameView(x)
    BY <1>12, ExitEffect DEF SameView
  <2>2. ASSUME NEW x \in Proc, x # p, NEW k \in Handle PROVE CellGuardFine(x, k)'
    BY <1>0, <1>12, <2>1, <2>2, ExitEffect, SameViewFine
  <2>3. ASSUME NEW k \in Handle PROVE CellGuardFine(p, k)'
    BY <1>12, ExitEffect DEF CellGuardFine
  <2>4. \A x \in Proc : once'[x] \in {"unset", "running"} \cup AtforkOutcome
    BY <1>12, ExitEffect, CellByCell
  <2> QED
    BY <2>2, <2>3, <2>4 DEF GuardsFine, GuardsOfPast, TakesAreCurrent, CellGuardFine
<1>13. CASE UNCHANGED vars
  <2>1. UNCHANGED forkVars /\ gen' = gen /\ pc' = pc
    BY <1>13 DEF vars, callVars
  <2> QED
    BY <2>1 DEF forkVars, GuardsFine, GuardsOfPast, TakesAreCurrent, GuardOfPast, Unchanged
<1> QED
  BY <1>1, <1>2, <1>3, <1>4, <1>5, <1>6, <1>7, <1>8, <1>9, <1>10, <1>11, <1>12, <1>13
  DEF Next, ThreadStep

-----------------------------------------------------------------------------
(* Nonces, step by step. *)

LEMMA OthersShrink ==
  ASSUME UNCHANGED forkVars, NEW p \in Proc, NEW h \in Handle, OthersUnchanged(p, h),
         NEW q \in Proc, NEW k \in Handle, ~(q = p /\ k = h)
  PROVE  CellShrinks(q, k)
BY SameProcesses, SameCell DEF OthersUnchanged

LEMMA GenAndNonce ==
  ASSUME TypeOK, NEW p \in Proc, NEW h \in Handle, gen[p][h] # NoGen
  PROVE  gen[p][h].base \in Nonces /\ gen[p][h].counter \in Counters
BY TypeFacts DEF Gens, NonceGenState

LEMMA DrawLedger ==
  ASSUME TypeOK, Ledger, NEW p \in Proc, NEW h \in Handle, DrawSalt(p, h)
  PROVE  Ledger'
<1> SUFFICES ASSUME ~exhausted' PROVE Ledger'
  BY DEF Ledger, NoRepeat, ReservationsDisjoint
<1>1. ~exhausted /\ issued' = issued /\ repeated' = repeated
  BY DrawEffect
<1> DEFINE s == gen'[p][h].base
           Fresh == {nonce_value(s, i) : i \in Counters}
<1>2. s \in Salt \ drawn /\ drawn' = drawn \cup {s}
  BY DrawEffect
<1>3. ASSUME NEW q \in Proc, NEW k \in Handle, ~(q = p /\ k = h)
      PROVE  Reserved(q, k)' \subseteq Reserved(q, k) /\ PendingOf(q, k)' \cap TailOf(q, k)' = {}
  BY <1>1, <1>3, DrawEffect, OthersShrink DEF CellShrinks, Reserved, Ledger, ReservationsDisjoint
<1>4. TailOf(p, h)' \subseteq Fresh
  BY DrawEffect DEF TailOf, Counters
<1>5. PendingOf(p, h)' \subseteq PendingOf(p, h)
  BY DrawEffect DEF PendingOf, Pending, OthersUnchanged
<1>6. Fresh \cap Covered = {}
  <2>1. drawn \subseteq Salt
    BY DEF TypeOK
  <2> QED BY <1>2, <2>1, NonceAssumption DEF Covered
<1>7. Covered' = Covered \cup Fresh
  BY <1>2 DEF Covered, Counters, nonce_value
<1> HIDE DEF s, Fresh
<1>8. PendingOf(p, h) \subseteq Reserved(p, h)
  BY DEF Reserved
<1>9. Reserved(p, h)' \subseteq Fresh \cup PendingOf(p, h)
  BY <1>4, <1>5 DEF Reserved
<1>10. ReservationsDisjoint'
  <2>1. ASSUME NEW x \in Proc, NEW q \in Proc, NEW g \in Handle, NEW k \in Handle,
               <<x, g>> # <<q, k>>
        PROVE  Reserved(x, g)' \cap Reserved(q, k)' = {}
    <3>1. Reserved(x, g) \cap Reserved(q, k) = {}
      BY <1>1, <2>1 DEF Ledger, ReservationsDisjoint
    <3>2. Reserved(x, g) \subseteq Covered /\ Reserved(q, k) \subseteq Covered
      BY <1>1 DEF Ledger, AllCovered
    <3>3. CASE x = p /\ g = h
      BY <1>3, <1>6, <1>8, <1>9, <2>1, <3>1, <3>2, <3>3
    <3>4. CASE q = p /\ k = h
      BY <1>3, <1>6, <1>8, <1>9, <2>1, <3>1, <3>2, <3>4
    <3>5. CASE ~(x = p /\ g = h) /\ ~(q = p /\ k = h)
      BY <1>3, <3>1, <3>5
    <3> QED BY <3>3, <3>4, <3>5
  <2>2. ASSUME NEW q \in Proc, NEW k \in Handle PROVE Reserved(q, k)' \cap issued' = {}
    <3>1. Reserved(q, k) \cap issued = {} /\ issued \subseteq Covered
      BY <1>1 DEF Ledger, ReservationsDisjoint, AllCovered
    <3> QED BY <1>1, <1>3, <1>6, <1>8, <1>9, <3>1
  <2>3. ASSUME NEW q \in Proc, NEW k \in Handle PROVE PendingOf(q, k)' \cap TailOf(q, k)' = {}
    <3>1. PendingOf(p, h) \subseteq Covered
      BY <1>1, <1>8 DEF Ledger, AllCovered
    <3> QED BY <1>3, <1>4, <1>5, <1>6, <3>1
  <2> QED BY <2>1, <2>2, <2>3 DEF ReservationsDisjoint
<1>11. AllCovered'
  BY <1>1, <1>3, <1>7, <1>8, <1>9 DEF Ledger, AllCovered
<1> QED BY <1>1, <1>10, <1>11 DEF Ledger, NoRepeat

LEMMA TakeLedger ==
  ASSUME TypeOK, CallShape, TakesAreCurrent, Ledger,
         NEW p \in Proc, NEW h \in Handle, TakeNonce(p, h)
  PROVE  Ledger'
<1> DEFINE b == gen[p][h].base
           c == gen[p][h].counter
<1>1. gen[p][h] # NoGen /\ b \in Nonces /\ c \in Counters
  BY TakeEffect, GenAndNonce DEF CallShape, Shape
<1>2. TailOf(p, h) = {nonce_value(b, i) : i \in c .. CounterMod - 1}
  BY <1>1, TakeEffect DEF TailOf, Holds, SpentBase, TakesAreCurrent
<1>3. c .. CounterMod - 1 \subseteq Counters /\ c \in c .. CounterMod - 1
      /\ c + 1 .. CounterMod - 1 \subseteq Counters
  BY <1>1, NonceAssumption DEF Counters
<1>4. PendingOf(p, h)' = {nonce_value(b, c)}
  BY TakeEffect DEF PendingOf, Pending
<1>5. TailOf(p, h)' \subseteq {nonce_value(b, i) : i \in c + 1 .. CounterMod - 1}
  <2>1. CASE gen'[p][h].counter = 0
    BY <2>1, TakeEffect DEF TailOf, Holds, SpentBase
  <2>2. CASE gen'[p][h].counter # 0
    <3>1. gen'[p][h].counter = c + 1
      BY <1>1, <2>2, TakeEffect, CounterStep, NonceAssumption DEF Counters
    <3> QED BY <3>1, TakeEffect DEF TailOf
  <2> QED BY <2>1, <2>2
<1>6. PendingOf(p, h)' \cap TailOf(p, h)' = {}
  <2>1. \A i \in c + 1 .. CounterMod - 1 : i # c
    BY <1>1, NonceAssumption DEF Counters
  <2>2. \A i \in c + 1 .. CounterMod - 1 : nonce_value(b, i) # nonce_value(b, c)
    BY <1>1, <1>3, <2>1, NonceInjective
  <2> QED BY <1>4, <1>5, <2>2
<1>7. Reserved(p, h)' \subseteq Reserved(p, h)
  <2>1. c + 1 .. CounterMod - 1 \subseteq c .. CounterMod - 1
    BY <1>1, NonceAssumption DEF Counters
  <2> QED BY <1>2, <1>3, <1>4, <1>5, <2>1 DEF Reserved
<1>8. ASSUME ~exhausted', NEW q \in Proc, NEW k \in Handle
      PROVE  /\ Reserved(q, k)' \subseteq Reserved(q, k)
             /\ PendingOf(q, k)' \cap TailOf(q, k)' = {}
  <2>1. ~exhausted
    BY <1>8, TakeEffect DEF history
  <2>2. CASE q = p /\ k = h
    BY <1>6, <1>7, <2>2
  <2>3. CASE ~(q = p /\ k = h)
    BY <2>1, <2>3, TakeEffect, OthersShrink DEF CellShrinks, Reserved, Ledger, ReservationsDisjoint
  <2> QED BY <2>2, <2>3
<1> QED BY <1>8, TakeEffect, Shrink DEF history

LEMMA ReturnLedger ==
  ASSUME TypeOK, Ledger, NEW p \in Proc, NEW h \in Handle, ReturnNonce(p, h)
  PROVE  Ledger'
<1> SUFFICES ASSUME ~exhausted' PROVE Ledger'
  BY DEF Ledger, NoRepeat, ReservationsDisjoint
<1> DEFINE n == nonce[p][h]
<1>1. ~exhausted /\ drawn' = drawn /\ issued' = issued \cup {n}
      /\ repeated' = repeated \cup (issued \cap {n})
  BY ReturnEffect
<1>2. PendingOf(p, h) = {n} /\ PendingOf(p, h)' = {}
  BY ReturnEffect DEF PendingOf, Pending
<1>3. TailOf(p, h)' \subseteq TailOf(p, h)
  BY ReturnEffect, SameProcesses DEF TailOf, Holds, SpentBase, CurrentOnlyIfWas
<1> HIDE DEF n
<1>4. n \in Reserved(p, h)
  BY <1>2 DEF Reserved
<1>5. \A q \in Proc, k \in Handle : CellShrinks(q, k)
  BY <1>2, <1>3, ReturnEffect, OthersShrink DEF CellShrinks
<1>6. \A q \in Proc, k \in Handle : Reserved(q, k)' \subseteq Reserved(q, k)
  BY <1>5 DEF CellShrinks, Reserved
<1>7. \A q \in Proc, k \in Handle : n \notin Reserved(q, k)'
  <2>1. n \notin Reserved(p, h)'
    BY <1>1, <1>2, <1>3 DEF Reserved, Ledger, ReservationsDisjoint
  <2>2. ASSUME NEW q \in Proc, NEW k \in Handle, <<p, h>> # <<q, k>> PROVE n \notin Reserved(q, k)
    BY <1>1, <1>4, <2>2 DEF Ledger, ReservationsDisjoint
  <2> QED BY <1>6, <2>1, <2>2
<1>8. n \notin issued
  BY <1>1, <1>4 DEF Ledger, ReservationsDisjoint
<1>9. NoRepeat'
  BY <1>1, <1>8 DEF Ledger, NoRepeat
<1>10. ReservationsDisjoint'
  <2>1. \A x, q \in Proc, g, k \in Handle :
          <<x, g>> # <<q, k>> => Reserved(x, g)' \cap Reserved(q, k)' = {}
    BY <1>1, <1>6 DEF Ledger, ReservationsDisjoint
  <2>2. \A q \in Proc, k \in Handle : Reserved(q, k)' \cap issued' = {}
    BY <1>1, <1>6, <1>7 DEF Ledger, ReservationsDisjoint
  <2>3. \A q \in Proc, k \in Handle : PendingOf(q, k)' \cap TailOf(q, k)' = {}
    BY <1>1, <1>5 DEF CellShrinks, Ledger, ReservationsDisjoint
  <2> QED BY <2>1, <2>2, <2>3 DEF ReservationsDisjoint
<1>11. AllCovered'
  <2>1. Covered' = Covered
    BY <1>1 DEF Covered
  <2> QED BY <1>1, <1>4, <1>6, <2>1 DEF Ledger, AllCovered
<1> QED BY <1>9, <1>10, <1>11 DEF Ledger

LEMMA LedgerStep ==
  ASSUME SafeSetting, TypeOK, CallShape, GuardsFine, Ledger, [Next]_vars
  PROVE  Ledger'
<1>0. \A q \in Proc, k \in Handle : CellGuardFine(q, k) /\ Shape(q, k)
  BY CellByCell DEF CallShape
<1>1. ASSUME NEW p \in Proc, NEW h \in Handle, Call(p, h) PROVE Ledger'
  <2>1. CellShrinks(p, h)
    BY <1>1, CallEffect, SameProcesses
    DEF CellShrinks, TailOf, PendingOf, Holds, Pending, SpentBase, CurrentOnlyIfWas
  <2> QED BY <1>1, <2>1, CallEffect, OthersShrink, CellsShrink DEF history
<1>2. ASSUME NEW p \in Proc, NEW h \in Handle, CheckGuard(p, h) PROVE Ledger'
  <2>1. CellShrinks(p, h)
    BY <1>2, CheckEffect, SameProcesses
    DEF CellShrinks, TailOf, PendingOf, Holds, Pending, SpentBase, CurrentOnlyIfWas
  <2> QED BY <1>2, <2>1, CheckEffect, OthersShrink, CellsShrink DEF history
<1>3. ASSUME NEW p \in Proc, NEW h \in Handle, DrawSalt(p, h) PROVE Ledger'
  BY <1>3, DrawLedger
<1>4. ASSUME NEW p \in Proc, NEW h \in Handle, SaltFails(p, h) PROVE Ledger'
  <2>1. ~exhausted' => ~exhausted /\ why[p][h] # "wrap"
    BY <1>4, SaltFailsEffect
  <2>2. why[p][h] # "wrap" => CellShrinks(p, h)
    BY <1>4, SaltFailsEffect, SameProcesses
    DEF CellShrinks, TailOf, PendingOf, Holds, Pending, SpentBase, CurrentOnlyIfWas
  <2> QED BY <1>4, <2>1, <2>2, SaltFailsEffect, OthersShrink, CellsShrink
<1>5. ASSUME NEW p \in Proc, NEW h \in Handle, NEW l \in {"capture", "install"},
             OthersUnchanged(p, h), ~OnceIsSet(p),
             pc[p][h] \in {"capture", "install"}, pc'[p][h] = l,
             UNCHANGED <<status, pid, generation, gen, why, nonce, history>>,
             \A q \in Proc : q # p => once'[q] = once[q]
      PROVE  Ledger'
  <2>1. \A q \in Proc, k \in Handle : CurrentOnlyIfWas(q, k)
    BY <1>5, InstallMakesNoneCurrent DEF GuardsFine
  <2>2. CellShrinks(p, h)
    BY <1>5 DEF CellShrinks, TailOf, PendingOf, Holds, Pending, SpentBase
  <2>3. \A q \in Proc, k \in Handle : ~(q = p /\ k = h) => CellShrinks(q, k)
    BY <1>5, <2>1, SameCell DEF OthersUnchanged
  <2> QED BY <1>5, <2>2, <2>3, CellsShrink DEF history
<1>6. ASSUME NEW p \in Proc, NEW h \in Handle, ClaimInstall(p, h) PROVE Ledger'
  BY <1>5, <1>6, ClaimEffect DEF OnceIsSet
<1>7. ASSUME NEW p \in Proc, NEW h \in Handle, FinishInstall(p, h) PROVE Ledger'
  BY <1>5, <1>7, FinishEffect DEF OnceIsSet
<1>8. ASSUME NEW p \in Proc, NEW h \in Handle, CaptureGuard(p, h) PROVE Ledger'
  <2>1. gen[p][h] # NoGen /\ why'[p][h] = why[p][h] /\ nonce'[p][h] = nonce[p][h]
    BY <1>0, <1>8, CaptureEffect DEF Shape
  <2>2. \/ why[p][h] = "new" /\ pc'[p][h] = "check"
        \/ why[p][h] = "fork" /\ pc'[p][h] = "take"
        \/ why[p][h] = "wrap" /\ pc'[p][h] = "return"
    <3>1. why[p][h] \in {"new", "fork", "wrap"}
      BY TypeFacts, Words
    <3> QED BY <1>8, <3>1, CaptureEffect DEF AfterSalt
  <2>3. TailOf(p, h)' \subseteq TailOf(p, h)
    BY <1>8, <2>1, CaptureEffect DEF TailOf, Holds, SpentBase
  <2>4. PendingOf(p, h)' \subseteq PendingOf(p, h)
    BY <1>8, <2>1, <2>2, CaptureEffect DEF PendingOf, Pending
  <2> QED
    BY <1>8, <2>3, <2>4, CaptureEffect, OthersShrink, CellsShrink DEF history, CellShrinks
<1>9. ASSUME NEW p \in Proc, NEW h \in Handle, TakeNonce(p, h) PROVE Ledger'
  BY <1>9, TakeLedger DEF GuardsFine
<1>10. ASSUME NEW p \in Proc, NEW h \in Handle, ReturnNonce(p, h) PROVE Ledger'
  BY <1>10, ReturnLedger
<1>11. ASSUME NEW p \in Proc, NEW q \in Proc, NEW i \in Pid,
              NEW t \in Handle \cup {NoHandle}, Fork(p, q, i, t)
       PROVE Ledger'
  <2>1. ASSUME NEW x \in Proc, x # q, NEW k \in Handle PROVE CellShrinks(x, k)
    <3>1. CurrentOnlyIfWas(x, k)
      BY <1>11, <2>1, ForkEffect DEF CurrentOnlyIfWas, Unchanged
    <3> QED BY <1>11, <2>1, <3>1, ForkEffect, SameCell
  <2>2. ASSUME NEW k \in Handle PROVE CellShrinks(q, k)
    <3>1. k # t
      BY <1>11, ForkEffect, NonceAssumption DEF SafeSetting
    <3>2. CASE gen'[q][k] = NoGen /\ pc'[q][k] = "orphaned"
      BY <3>2, EmptyCell
    <3>3. CASE gen'[q][k] = gen[p][k] /\ pc'[q][k] = pc[p][k] /\ pc'[q][k] = "idle"
      <4>1. CASE gen[p][k] = NoGen
        BY <3>3, <4>1, EmptyCell
      <4>2. CASE gen[p][k] # NoGen
        <5>1. GuardOfPast(gen[p][k].guard, p)
          BY <1>0, <3>3, <4>2 DEF CellGuardFine
        <5>2. ~Unchanged(gen[q][k].guard, q)'
          BY <1>11, <3>3, <4>2, <5>1, ForkEffect, StaleInChild DEF GuardsFine
        <5> QED BY <3>3, <5>2, EmptyCell
      <4> QED BY <4>1, <4>2
    <3> QED BY <1>11, <3>1, <3>2, <3>3, ForkEffect
  <2> QED BY <1>11, <2>1, <2>2, ForkEffect, CellsShrink DEF history
<1>12. ASSUME NEW p \in Proc, NEW i \in Pid, Start(p, i) PROVE Ledger'
  <2>1. ASSUME NEW x \in Proc, x # p, NEW k \in Handle PROVE CellShrinks(x, k)
    <3>1. CurrentOnlyIfWas(x, k)
      BY <1>12, <2>1, StartEffect DEF CurrentOnlyIfWas, Unchanged, callVars
    <3> QED BY <1>12, <3>1, StartEffect, SameCell DEF callVars
  <2>2. ASSUME NEW k \in Handle PROVE CellShrinks(p, k)
    <3>1. gen'[p][k] = NoGen /\ pc'[p][k] = "idle"
      BY <1>0, <1>12, StartEffect DEF Shape, callVars
    <3> QED BY <3>1, EmptyCell
  <2> QED BY <1>12, <2>1, <2>2, StartEffect, CellsShrink DEF history
<1>13. ASSUME NEW p \in Proc, Exit(p) PROVE Ledger'
  <2>1. ASSUME NEW x \in Proc, x # p, NEW k \in Handle PROVE CellShrinks(x, k)
    <3>1. CurrentOnlyIfWas(x, k)
      BY <1>13, <2>1, ExitEffect DEF CurrentOnlyIfWas, Unchanged
    <3> QED BY <1>13, <2>1, <3>1, ExitEffect, SameCell
  <2>2. ASSUME NEW k \in Handle PROVE CellShrinks(p, k)
    BY <1>13, ExitEffect, EmptyCell
  <2> QED BY <1>13, <2>1, <2>2, ExitEffect, CellsShrink DEF history
<1>14. CASE UNCHANGED vars
  <2>1. \A q \in Proc, k \in Handle : CellShrinks(q, k)
    BY <1>14, SameProcesses, SameCell DEF vars, callVars
  <2> QED BY <1>14, <2>1, CellsShrink DEF vars, history
<1> QED
  BY <1>1, <1>2, <1>3, <1>4, <1>6, <1>7, <1>8, <1>9, <1>10, <1>11, <1>12, <1>13, <1>14
  DEF Next, ThreadStep

-----------------------------------------------------------------------------
(* The theorems. *)

LEMMA InductiveParts == Inductive <=> TypeOK /\ CallShape /\ GuardsFine /\ Ledger
BY DEF Inductive, GuardsFine, Ledger

LEMMA InductiveInit == Init => Inductive
<1> SUFFICES ASSUME Init PROVE Inductive
  OBVIOUS
<1>1. TypeOK /\ CallShape
  BY InitTypes
<1>2. GuardsFine
  BY GuardsInit DEF GuardsFine
<1>3. \A p \in Proc, h \in Handle : Reserved(p, h) = {}
  BY DEF Init, Reserved, TailOf, PendingOf, Holds, Pending
<1>4. Ledger
  BY <1>3 DEF Init, Ledger, NoRepeat, ReservationsDisjoint, AllCovered, Reserved
<1> QED BY <1>1, <1>2, <1>4, InductiveParts

LEMMA InductiveStep == SafeSetting /\ Inductive /\ [Next]_vars => Inductive'
<1> SUFFICES ASSUME SafeSetting, Inductive, [Next]_vars PROVE Inductive'
  OBVIOUS
<1>1. TypeOK /\ CallShape /\ GuardsFine /\ Ledger
  BY InductiveParts
<1>2. TypeOK' /\ CallShape'
  BY <1>1, NextTypes
<1>3. GuardsFine'
  BY <1>1, GuardsStep
<1>4. Ledger'
  BY <1>1, LedgerStep
<1> QED BY <1>2, <1>3, <1>4 DEF Inductive, GuardsFine, Ledger

(* In a safe setting the inductive invariant holds in every reachable state.*)
THEOREM InductiveHolds == SafeSetting => (Spec => []Inductive)
<1> SUFFICES ASSUME SafeSetting PROVE Spec => []Inductive
  OBVIOUS
<1>1. Inductive /\ [Next]_vars => Inductive'
  BY InductiveStep
<1> QED BY <1>1, InductiveInit, PTL DEF Spec

(* No two calls of next_nonce return the same nonce, across every handle    *)
(* that holds the key in every process of the tree.                         *)
THEOREM NoRepeatHolds == SafeSetting => (Spec => []NoRepeat)
<1>1. Inductive => NoRepeat
  BY DEF Inductive
<1> QED BY <1>1, InductiveHolds, PTL

(* What a handle may return without a new salt never overlaps what another  *)
(* may return, nor what was returned.                                       *)
THEOREM ReservationsDisjointHolds == SafeSetting => (Spec => []ReservationsDisjoint)
<1>1. Inductive => ReservationsDisjoint
  BY DEF Inductive
<1> QED BY <1>1, InductiveHolds, PTL
=============================================================================
