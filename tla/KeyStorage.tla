----------------------------- MODULE KeyStorage -----------------------------
(***************************************************************************)
(* Where key state lives (src/aes_gcm/mod.rs, siv.rs): lent by the caller  *)
(* (UninitKeyStateSlot, HardwareAes256GcmIn and their SIV counterparts),   *)
(* boxed (HardwareAes256Gcm, HardwareAes256GcmSiv), or inline in a value   *)
(* that its owner moves about (HardwareAes256GcmKeyState and its SIV       *)
(* counterpart).  Several threads build handles of either scheme in one    *)
(* memory, move, drop or leak them, and use the same bytes again.  That    *)
(* two of them never hold the same byte is Rust's borrow rule and the      *)
(* allocator's promise, a guard here; what the library does through its    *)
(* raw pointers is checked.                                                *)
(***************************************************************************)
EXTENDS Integers

CONSTANTS
  Base,                  (* The address of the memory.                       *)
  Length,                (* Its length.                                      *)
  Align,                 (* align_of KeyState and SivKeyState, 16.           *)
  AesSize, PowersSize,   (* size_of Aes256 and GHashKey, 240 and 128.        *)
  Wide,                  (* size_of and align_of u128.                       *)
  Threads, Keys,
  PowersMayFail          (* May the second check for hardware fail, after the*)
                         (* first did not? The code is written to survive it.*)

ASSUME SizesAssumption ==
  /\ {Base, Length, AesSize, PowersSize} \subseteq Nat
  /\ {Align, Wide} \subseteq Nat \ {0}
  /\ PowersMayFail \in BOOLEAN

Addresses == 0 .. Length - 1
Schemes == {"gcm", "siv"}
Places == {"lent", "boxed", "inline"}

(* key_state_layout().size                                                  *)
Size(scheme) == IF scheme = "gcm" THEN AesSize + PowersSize ELSE AesSize

VARIABLES
  memory,   (* A byte is the caller's, zero, or a byte of a key's state.     *)
  owner,    (* What each thread holds: nothing, a slot, state half built, or *)
            (* a handle, with the bytes that are its own or lent to it.      *)
  left      (* History: bytes that Drop never had: of handles that were      *)
            (* forgotten, and where an inline handle was moved away from.    *)

vars == <<memory, owner, left>>

Nothing == [stage |-> "none"]

CallerByte == <<"caller">>
ZeroByte == <<"zero">>
KeyByte(key, offset) == <<key, offset>>
KeyBytes == {KeyByte(k, i) : k \in Keys, i \in 0 .. AesSize + PowersSize - 1}

Stages == {"slot", "expanded", "handle"}

Holdings ==
  [stage : Stages, place : Places, scheme : Schemes, at : Addresses, len : 0 .. Length,
   key : Keys]

TypeOK ==
  /\ memory \in [Addresses -> KeyBytes \cup {CallerByte, ZeroByte}]
  /\ owner \in [Threads -> Holdings \cup {Nothing}]
  /\ left \subseteq Addresses

Init ==
  /\ memory = [a \in Addresses |-> CallerByte]
  /\ owner = [t \in Threads |-> Nothing]
  /\ left = {}

-----------------------------------------------------------------------------

Span(at, len) == at .. at + len - 1

Borrowed(t) ==
  IF owner[t] = Nothing THEN {} ELSE Span(owner[t].at, owner[t].len)

(* The size of the other scheme's state is asked for.                       *)
MutOtherLayout(scheme, at, len) ==
  len >= Size(CHOOSE s \in Schemes : s # scheme) /\ (Base + at) % Align = 0

(* UninitKeyStateSlot::new, SivUninitKeyStateSlot::new: any other slice is  *)
(* refused, with KeyStateStorageTooSmall or KeyStateStorageMisaligned.      *)
SlotFits(scheme, at, len) == len >= Size(scheme) /\ (Base + at) % Align = 0

Free(at, len) ==
  at + len <= Length /\ \A u \in Threads : Borrowed(u) \cap Span(at, len) = {}

Hold(t, place, scheme, at, len, key) ==
  owner' = [owner EXCEPT ![t] =
    [stage |-> "slot", place |-> place, scheme |-> scheme, at |-> at, len |-> len, key |-> key]]

(* A thread makes a slot of a slice that nobody else has borrowed.          *)
NewSlot(t, scheme, at, len, key) ==
  /\ owner[t] = Nothing
  /\ Free(at, len) /\ SlotFits(scheme, at, len)
  /\ Hold(t, "lent", scheme, at, len, key)
  /\ UNCHANGED <<memory, left>>

(* Box::new_uninit, MaybeUninit::uninit: the allocator or the frame gives   *)
(* aligned room for one state, with whatever was there before.              *)
NewOwned(t, place, scheme, at, key) ==
  /\ owner[t] = Nothing
  /\ Free(at, Size(scheme)) /\ (Base + at) % Align = 0
  /\ Hold(t, place, scheme, at, Size(scheme), key)
  /\ UNCHANGED <<memory, left>>

(* Bytes, by their offset in the state at `at`, are written there.          *)
Store(at, bytes) ==
  LET written == {at + i : i \in DOMAIN bytes}
  IN /\ memory' = [a \in DOMAIN memory \cup written |->
                     IF a \in written THEN bytes[a - at] ELSE memory[a]]
     /\ left' = left \ written

KeyPart(key, from, to) == [i \in from .. to - 1 |-> KeyByte(key, i)]
Zeros(n) == [i \in 0 .. n - 1 |-> ZeroByte]

(* The bytes after the last whole wide store are forgotten.                 *)
MutVolatileWipe(at, len) ==
  IF (Base + at) % Wide = 0 THEN Zeros(len - (len % Wide)) ELSE Zeros(len)

(* Wide stores if the address allows, then the bytes that are left.         *)
volatile_wipe(at, len) ==
  LET wide == IF (Base + at) % Wide = 0 THEN len - (len % Wide) ELSE 0
  IN [i \in (0 .. wide - 1) \cup (wide .. len - 1) |-> ZeroByte]

Advance(t, stage) == owner' = [owner EXCEPT ![t].stage = stage]
Release(t) == owner' = [owner EXCEPT ![t] = Nothing]

(* init_key_state_at, init_in_place: a key of the wrong length, or a CPU    *)
(* without the instructions, is refused before anything is written.         *)
RefuseKey(t) ==
  /\ owner[t].stage = "slot"
  /\ Release(t)
  /\ UNCHANGED <<memory, left>>

(* Aes256::init_in_place: the round keys; they are all there is of SIV's.   *)
ExpandKey(t) ==
  /\ owner[t].stage = "slot"
  /\ Store(owner[t].at, KeyPart(owner[t].key, 0, AesSize))
  /\ Advance(t, IF owner[t].scheme = "siv" THEN "handle" ELSE "expanded")

(* GHashKey::init_in_place: the powers of the hash key.                     *)
DerivePowers(t) ==
  /\ owner[t].stage = "expanded"
  /\ Store(owner[t].at, KeyPart(owner[t].key, AesSize, Size("gcm")))
  /\ Advance(t, "handle")

(* GHashKey::init_in_place finds no hardware: the round keys are wiped.     *)
PowersFail(t) ==
  /\ owner[t].stage = "expanded" /\ PowersMayFail
  /\ Store(owner[t].at, Zeros(AesSize))
  /\ Release(t)

(* Only the round keys are wiped.                                           *)
MutRoundKeysOnly(scheme) == AesSize

(* Every handle wipes as much as a GCM handle.                              *)
MutGcmSize(scheme) == AesSize + PowersSize

(* How much the handles that do not run the fields' own drops wipe.         *)
WipeSize(scheme) == Size(scheme)

(* OpaqueKeyState::drop, HardwareAes256GcmKeyState::drop and their SIV      *)
(* counterparts, for a state that is lent or inline.                        *)
Drop(t) ==
  /\ owner[t].stage = "handle" /\ owner[t].place # "boxed"
  /\ Store(owner[t].at, volatile_wipe(owner[t].at, WipeSize(owner[t].scheme)))
  /\ Release(t)

(* The powers' drop writes at the start of the state.                       *)
MutFieldDrops(scheme) == Zeros(IF scheme = "gcm" /\ PowersSize > AesSize THEN PowersSize ELSE AesSize)

(* Aes256::drop, and GHashKey::drop after it.                               *)
FieldDrops(scheme) ==
  LET powers == IF scheme = "gcm" THEN AesSize .. AesSize + PowersSize - 1 ELSE {}
  IN [i \in (0 .. AesSize - 1) \cup powers |-> ZeroByte]

(* A box drops the state's fields, and its memory is the allocator's again. *)
DropBox(t) ==
  /\ owner[t].stage = "handle" /\ owner[t].place = "boxed"
  /\ Store(owner[t].at, FieldDrops(owner[t].scheme))
  /\ Release(t)

(* An inline handle is moved: its bytes are copied, and nothing runs at the *)
(* place it leaves.                                                         *)
Move(t, to) ==
  /\ owner[t].stage = "handle" /\ owner[t].place = "inline"
  /\ Free(to, Size(owner[t].scheme)) /\ (Base + to) % Align = 0
  /\ LET from == owner[t].at
         size == Size(owner[t].scheme)
     IN /\ memory' = [a \in Addresses |->
                        IF a \in Span(to, size) THEN memory[from + (a - to)] ELSE memory[a]]
        /\ left' = (left \ Span(to, size)) \cup Span(from, size)
  /\ owner' = [owner EXCEPT ![t].at = to]

(* mem::forget: the borrow, or the life of an inline value, ends without a  *)
(* drop. The memory of a forgotten box is nobody's for ever: a thread that  *)
(* takes no further step has forgotten its box.                             *)
Leak(t) ==
  /\ owner[t].stage = "handle" /\ owner[t].place # "boxed"
  /\ left' = left \cup Span(owner[t].at, Size(owner[t].scheme))
  /\ Release(t)
  /\ UNCHANGED memory

Next ==
  \E t \in Threads :
    \/ \E s \in Schemes, a \in Addresses, n \in 0 .. Length, k \in Keys : NewSlot(t, s, a, n, k)
    \/ \E p \in {"boxed", "inline"}, s \in Schemes, a \in Addresses, k \in Keys :
         NewOwned(t, p, s, a, k)
    \/ RefuseKey(t) \/ ExpandKey(t) \/ DerivePowers(t) \/ PowersFail(t)
    \/ (\E a \in Addresses : Move(t, a)) \/ Drop(t) \/ DropBox(t) \/ Leak(t)

Spec == Init /\ [][Next]_vars

-----------------------------------------------------------------------------
(* The bytes of its key that t's state holds so far.                        *)
Built(t) ==
  CASE owner[t].stage = "handle" -> Span(owner[t].at, Size(owner[t].scheme))
    [] owner[t].stage = "expanded" -> Span(owner[t].at, AesSize)
    [] OTHER -> {}

(* Nothing of a key stays behind: outside states that are alive, bytes that *)
(* the caller leaked and places that an inline handle has left, the memory  *)
(* holds no byte of any key, whatever was built there, dropped, or given up *)
(* half way before.                                                         *)
NoResidue ==
  \A a \in Addresses :
    memory[a] \in KeyBytes => a \in left \/ \E t \in Threads : a \in Built(t)

(* A live state is complete and of one key, byte for byte, wherever it was  *)
(* moved and whatever is built, wiped or leaked next to it.                 *)
StateIntact ==
  \A t \in Threads : \A a \in Built(t) : memory[a] = KeyByte(owner[t].key, a - owner[t].at)

(* The library writes only to bytes of its own: a step changes those that   *)
(* one thread had been given, before it or (by a move) with it, and no      *)
(* others.                                                                  *)
OnlyBorrowed ==
  [][\E t \in Threads : \A a \in Addresses :
       memory'[a] # memory[a] => a \in Borrowed(t) \cup Borrowed(t)']_vars
=============================================================================
