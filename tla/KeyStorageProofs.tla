-------------------------- MODULE KeyStorageProofs --------------------------
(***************************************************************************)
(* For any memory, sizes, alignments, threads and keys: KeyStorage leaves  *)
(* no residue and keeps every live state whole.                            *)
(***************************************************************************)
EXTENDS KeyStorage, TLAPS

(* A holding lies in the memory and has room for the state.                 *)
Shape ==
  \A t \in Threads :
    owner[t] # Nothing =>
      /\ owner[t].at + owner[t].len <= Length
      /\ Size(owner[t].scheme) <= owner[t].len
      /\ owner[t].stage = "expanded" => owner[t].scheme = "gcm"
      /\ owner[t].place # "lent" => owner[t].len = Size(owner[t].scheme)

(* No byte is held twice.                                                   *)
Disjoint ==
  \A t, u \in Threads : t # u => Borrowed(t) \cap Borrowed(u) = {}

IInv == TypeOK /\ Shape /\ Disjoint /\ NoResidue /\ StateIntact

-----------------------------------------------------------------------------
LEMMA Sizes ==
  /\ Base \in Nat /\ Length \in Nat /\ AesSize \in Nat /\ PowersSize \in Nat
  /\ Align \in Nat \ {0} /\ Wide \in Nat \ {0}
  /\ Size("gcm") = AesSize + PowersSize /\ Size("siv") = AesSize
  /\ \A s \in Schemes : Size(s) \in Nat /\ AesSize <= Size(s)
  BY SizesAssumption DEF Size, Schemes

(* No byte of a key is zero or the caller's.                                *)
LEMMA BytesDiffer ==
  /\ ZeroByte \notin KeyBytes
  /\ CallerByte \notin KeyBytes
  BY DEF ZeroByte, CallerByte, KeyBytes, KeyByte

(* A wipe by wide stores, then by bytes, is a wipe of the whole length.     *)
LEMMA WipeIsWhole ==
  ASSUME NEW at \in Nat, NEW len \in Nat
  PROVE  volatile_wipe(at, len) = Zeros(len)
<1> DEFINE wide == IF (Base + at) % Wide = 0 THEN len - (len % Wide) ELSE 0
<1>1. Wide \in Nat \ {0} /\ len % Wide \in 0 .. Wide - 1
  BY Sizes
<1>2. len % Wide <= len
  BY <1>1
<1>3. wide \in 0 .. len
  BY <1>1, <1>2
<1> HIDE DEF wide
<1>4. (0 .. wide - 1) \cup (wide .. len - 1) = 0 .. len - 1
  BY <1>3
<1> QED  BY <1>4 DEF volatile_wipe, Zeros, wide

LEMMA FieldDropsAreWhole ==
  ASSUME NEW scheme \in Schemes
  PROVE  FieldDrops(scheme) = Zeros(Size(scheme))
  BY Sizes DEF FieldDrops, Zeros, Schemes

(* What a thread's state occupies is its own.                               *)
LEMMA BuiltIsHeld ==
  ASSUME TypeOK, Shape, NEW t \in Threads
  PROVE  /\ Borrowed(t) \subseteq Addresses
         /\ Built(t) \subseteq Borrowed(t)
<1>1. CASE owner[t] = Nothing
  BY <1>1 DEF Borrowed, Built, Nothing
<1>2. CASE owner[t] # Nothing
  <2>1. /\ owner[t] \in Holdings
        /\ owner[t].at \in Nat /\ owner[t].len \in Nat /\ owner[t].scheme \in Schemes
    BY <1>2 DEF TypeOK, Holdings, Addresses
  <2>2. /\ owner[t].at + owner[t].len <= Length
        /\ Size(owner[t].scheme) <= owner[t].len
    BY <1>2 DEF Shape
  <2>3. Size(owner[t].scheme) \in Nat /\ AesSize \in Nat /\ AesSize <= Size(owner[t].scheme)
    BY <2>1, Sizes
  <2>4. Borrowed(t) = Span(owner[t].at, owner[t].len)
    BY <1>2 DEF Borrowed
  <2>5. Borrowed(t) \subseteq Addresses
    BY <2>1, <2>2, <2>4, Sizes DEF Span, Addresses
  <2>6. Built(t) \subseteq Borrowed(t)
    BY <2>1, <2>2, <2>3, <2>4 DEF Span, Built
  <2> QED  BY <2>5, <2>6
<1> QED  BY <1>1, <1>2

(* What a thread that holds something holds.                                *)
LEMMA Held ==
  ASSUME TypeOK, Shape, NEW t \in Threads, owner[t] # Nothing
  PROVE  /\ owner[t] \in Holdings
         /\ owner[t].at \in Nat /\ owner[t].len \in Nat
         /\ owner[t].scheme \in Schemes /\ owner[t].key \in Keys
         /\ Size(owner[t].scheme) \in Nat /\ AesSize <= Size(owner[t].scheme)
         /\ Size(owner[t].scheme) <= owner[t].len
         /\ owner[t].at + owner[t].len <= Length
         /\ Borrowed(t) = Span(owner[t].at, owner[t].len)
<1>1. owner[t] \in Holdings
  BY DEF TypeOK
<1>2. /\ owner[t].at \in Nat /\ owner[t].len \in Nat
      /\ owner[t].scheme \in Schemes /\ owner[t].key \in Keys
  BY <1>1 DEF Holdings, Addresses
<1> QED  BY <1>1, <1>2, Sizes DEF Shape, Borrowed

Byte == KeyBytes \cup {CallerByte, ZeroByte}

(* The offsets from m up to n of a thread's state.                          *)
Part(t, m, n) == owner[t].at + m .. owner[t].at + n - 1

(* What is stored in a state stays within what the thread holds, and        *)
(* nothing else changes.                                                    *)
LEMMA StoreIs ==
  ASSUME TypeOK, Shape, NEW t \in Threads, owner[t] # Nothing,
         NEW m \in Nat, NEW n \in Nat, n <= owner[t].len, NEW bytes \in [m .. n - 1 -> Byte],
         Store(owner[t].at, bytes)
  PROVE  /\ memory' \in [Addresses -> Byte]
         /\ Part(t, m, n) \subseteq Borrowed(t)
         /\ \A a \in Part(t, m, n) : memory'[a] = bytes[a - owner[t].at]
         /\ \A a \in Addresses \ Part(t, m, n) : memory'[a] = memory[a]
         /\ left' = left \ Part(t, m, n)
<1> DEFINE at == owner[t].at
           W == at + m .. at + n - 1
           written == {at + i : i \in DOMAIN bytes}
<1>1. at \in Nat /\ owner[t].len \in Nat /\ Borrowed(t) = Span(at, owner[t].len)
  BY Held
<1>2. written = W
  <2> DOMAIN bytes = m .. n - 1
    OBVIOUS
  <2>1. written \subseteq W
    BY <1>1
  <2>2. ASSUME NEW a \in W
        PROVE  a \in written
    <3>1. a - at \in m .. n - 1 /\ a = at + (a - at)
      BY <1>1, <2>2
    <3> QED  BY <3>1
  <2> QED  BY <2>1, <2>2
<1>3. W \subseteq Borrowed(t)
  <2>1. ASSUME NEW len \in Nat, n <= len, at \in Nat
        PROVE  W \subseteq at .. at + len - 1
    <3> HIDE DEF at
    <3> QED  BY <2>1
  <2> QED  BY <1>1, <2>1 DEF Span
<1>4. Borrowed(t) \subseteq Addresses
  BY BuiltIsHeld
<1>5. memory \in [Addresses -> Byte]
  BY DEF TypeOK, Byte
<1>6. memory' = [a \in Addresses |-> IF a \in W THEN bytes[a - at] ELSE memory[a]]
  BY <1>2, <1>3, <1>4, <1>5 DEF Store
<1>7. \A a \in W : a - at \in m .. n - 1
  BY <1>1
<1>8. left' = left \ W
  BY <1>2 DEF Store
<1> HIDE DEF at, W
<1>9. memory' \in [Addresses -> Byte]
  BY <1>5, <1>6, <1>7
<1>10. W = Part(t, m, n)
  BY DEF W, at, Part
<1> QED  BY <1>3, <1>4, <1>6, <1>8, <1>9, <1>10 DEF at

(* A step of one thread that writes within what it holds leaves every other *)
(* thread's state whole.                                                    *)
LEMMA OthersIntact ==
  ASSUME TypeOK, Shape, Disjoint, StateIntact, NEW t \in Threads, NEW written,
         \A a \in Addresses \ written : memory'[a] = memory[a],
         \A u \in Threads \ {t} : owner'[u] = owner[u] /\ written \cap Borrowed(u) = {},
         NEW u \in Threads \ {t}
  PROVE  /\ Built(u)' = Built(u)
         /\ \A a \in Built(u) : memory'[a] = KeyByte(owner'[u].key, a - owner'[u].at)
<1>1. owner'[u] = owner[u]
  OBVIOUS
<1>2. Built(u)' = Built(u)
  BY <1>1 DEF Built
<1>3. Built(u) \subseteq Addresses \ written
  BY BuiltIsHeld
<1> QED  BY <1>1, <1>2, <1>3 DEF StateIntact

(* A thread that lets go, or takes a place that is free, leaves the others' *)
(* places apart.                                                            *)
LEMMA StillDisjoint ==
  ASSUME Disjoint, NEW t \in Threads,
         \A u \in Threads \ {t} : owner'[u] = owner[u] /\ Borrowed(t)' \cap Borrowed(u) = {}
  PROVE  Disjoint'
<1>1. \A u \in Threads \ {t} : Borrowed(u)' = Borrowed(u)
  BY DEF Borrowed
<1> QED  BY <1>1 DEF Disjoint

-----------------------------------------------------------------------------
LEMMA InitHolds == Init => IInv
<1> SUFFICES ASSUME Init PROVE IInv
  OBVIOUS
<1>1. TypeOK
  BY DEF Init, TypeOK
<1>2. \A t \in Threads : Borrowed(t) = {} /\ Built(t) = {}
  BY DEF Init, Borrowed, Built, Nothing
<1>3. Shape /\ Disjoint /\ StateIntact
  BY <1>2 DEF Init, Shape, Disjoint, StateIntact
<1>4. NoResidue
  BY BytesDiffer DEF Init, NoResidue
<1> QED  BY <1>1, <1>3, <1>4 DEF IInv

(* A thread begins with a place that is free and large enough.              *)
LEMMA AcquireStep ==
  ASSUME IInv, NEW t \in Threads, owner[t] = Nothing,
         NEW place \in Places, NEW scheme \in Schemes, NEW at \in Addresses,
         NEW len \in 0 .. Length, NEW key \in Keys,
         Free(at, len), Size(scheme) <= len, place # "lent" => len = Size(scheme),
         Hold(t, place, scheme, at, len, key), UNCHANGED <<memory, left>>
  PROVE  IInv'
<1> USE DEF IInv
<1> DEFINE held == [stage |-> "slot", place |-> place, scheme |-> scheme, at |-> at,
                    len |-> len, key |-> key]
<1>1. held \in Holdings /\ held # Nothing
  BY DEF Holdings, Stages, Nothing
<1>2. /\ owner \in [Threads -> Holdings \cup {Nothing}]
      /\ owner' = [owner EXCEPT ![t] = held]
  BY DEF TypeOK, Hold
<1>3. owner'[t] = held /\ \A u \in Threads \ {t} : owner'[u] = owner[u]
  BY <1>2
<1>4. TypeOK'
  BY <1>1, <1>2 DEF TypeOK
<1>5. /\ held.stage = "slot" /\ held.at = at /\ held.len = len /\ held.scheme = scheme
      /\ held.place = place
  OBVIOUS
<1> HIDE DEF held
<1>6. Shape'
  <2>1. /\ at + len <= Length /\ Size(scheme) <= len
    BY DEF Free
  <2>2. ASSUME NEW u \in Threads, owner'[u] # Nothing
        PROVE  /\ owner'[u].at + owner'[u].len <= Length
               /\ Size(owner'[u].scheme) <= owner'[u].len
               /\ owner'[u].stage = "expanded" => owner'[u].scheme = "gcm"
               /\ owner'[u].place # "lent" => owner'[u].len = Size(owner'[u].scheme)
    BY <1>3, <1>5, <2>1, <2>2 DEF Shape
  <2> QED  BY <2>2 DEF Shape, Size
<1>7. Borrowed(t)' = Span(at, len)
  BY <1>1, <1>3, <1>5 DEF Borrowed, Span
<1>8. Disjoint'
  BY <1>3, <1>7, StillDisjoint DEF Free
<1>9. Built(t) = {} /\ Built(t)' = {}
  BY <1>3, <1>5 DEF Built, Nothing
<1>10. \A u \in Threads \ {t} : Built(u)' = Built(u)
  BY <1>3 DEF Built
<1>11. NoResidue'
  BY <1>9, <1>10 DEF NoResidue
<1>12. StateIntact'
  BY <1>3, <1>9, <1>10 DEF StateIntact
<1> QED  BY <1>4, <1>6, <1>8, <1>11, <1>12

(* A thread ends: what it does not leave behind, it has overwritten.        *)
LEMMA ReleaseStep ==
  ASSUME IInv, NEW t \in Threads, Release(t), NEW W,
         memory' \in [Addresses -> Byte], W \subseteq Borrowed(t),
         \A a \in W : memory'[a] = ZeroByte,
         \A a \in Addresses \ W : memory'[a] = memory[a],
         left' \subseteq Addresses, left \ W \subseteq left', Built(t) \ W \subseteq left'
  PROVE  IInv'
<1> USE DEF IInv
<1>1. /\ owner \in [Threads -> Holdings \cup {Nothing}]
      /\ owner' = [owner EXCEPT ![t] = Nothing]
  BY DEF TypeOK, Release
<1>2. owner'[t] = Nothing /\ \A u \in Threads \ {t} : owner'[u] = owner[u]
  BY <1>1
<1>3. TypeOK'
  BY <1>1 DEF TypeOK, Byte
<1>4. Shape'
  BY <1>2 DEF Shape, Size
<1>5. Borrowed(t)' = {} /\ Built(t)' = {}
  BY <1>2 DEF Borrowed, Built, Nothing
<1>6. Disjoint'
  BY <1>2, <1>5, StillDisjoint
<1>7. \A u \in Threads \ {t} : W \cap Borrowed(u) = {}
  BY DEF Disjoint
<1>8. \A u \in Threads \ {t} :
        /\ Built(u)' = Built(u)
        /\ \A a \in Built(u) : memory'[a] = KeyByte(owner'[u].key, a - owner'[u].at)
  BY <1>2, <1>7, OthersIntact
<1>9. StateIntact'
  BY <1>5, <1>8 DEF StateIntact, KeyByte
<1>10. ASSUME NEW a \in Addresses, memory'[a] \in KeyBytes
       PROVE  a \in left' \/ \E u \in Threads : a \in Built(u)'
  <2>1. a \notin W
    BY <1>10, BytesDiffer
  <2>2. a \in left \/ \E u \in Threads : a \in Built(u)
    BY <1>10, <2>1 DEF NoResidue
  <2> QED  BY <1>8, <2>1, <2>2
<1>11. NoResidue'
  BY <1>10 DEF NoResidue, KeyBytes, KeyByte
<1> QED  BY <1>3, <1>4, <1>6, <1>9, <1>11

(* A thread writes the next part of its state.                              *)
LEMMA BuildStep ==
  ASSUME IInv, NEW t \in Threads, owner[t] # Nothing, NEW stage \in Stages, Advance(t, stage),
         NEW m \in Nat, NEW n \in Nat, m <= n, n <= Size(owner[t].scheme),
         Built(t) = Span(owner[t].at, m), Built(t)' = Span(owner[t].at, n),
         stage = "expanded" => owner[t].scheme = "gcm",
         Store(owner[t].at, KeyPart(owner[t].key, m, n))
  PROVE  IInv'
<1> USE DEF IInv
<1> DEFINE at == owner[t].at
           W == Part(t, m, n)
<1>1. /\ owner[t] \in Holdings /\ at \in Nat /\ owner[t].key \in Keys
      /\ Size(owner[t].scheme) \in Nat /\ Size(owner[t].scheme) <= owner[t].len
      /\ owner[t].len \in Nat /\ owner[t].scheme \in Schemes
  BY Held
<1>2. KeyPart(owner[t].key, m, n) \in [m .. n - 1 -> Byte]
  <2>1. m .. n - 1 \subseteq 0 .. AesSize + PowersSize - 1
    BY <1>1, Sizes DEF Schemes
  <2> QED  BY <1>1, <2>1 DEF KeyPart, KeyByte, KeyBytes, Byte
<1>3. n <= owner[t].len
  BY <1>1
<1>4. /\ memory' \in [Addresses -> Byte] /\ W \subseteq Borrowed(t)
      /\ \A a \in W : memory'[a] = KeyPart(owner[t].key, m, n)[a - at]
      /\ \A a \in Addresses \ W : memory'[a] = memory[a]
      /\ left' = left \ W
  BY <1>2, <1>3, StoreIs
<1>5. /\ owner'[t] = [owner[t] EXCEPT !.stage = stage]
      /\ \A u \in Threads \ {t} : owner'[u] = owner[u]
      /\ owner' \in [Threads -> Holdings \cup {Nothing}]
  BY <1>1 DEF TypeOK, Advance, Holdings
<1>6. /\ owner'[t].at = at /\ owner'[t].len = owner[t].len /\ owner'[t].key = owner[t].key
      /\ owner'[t].scheme = owner[t].scheme /\ owner'[t].stage = stage
      /\ owner'[t].place = owner[t].place /\ owner'[t] \in Holdings
  BY <1>1, <1>5 DEF Holdings
<1>7. owner'[t] # Nothing
  BY <1>6 DEF Nothing, Stages
<1>8. TypeOK'
  BY <1>4, <1>5 DEF TypeOK, Byte
<1>9. Shape'
  BY <1>5, <1>6, ZenonT(40) DEF Shape, Size
<1>10. Borrowed(t)' = Borrowed(t)
  BY <1>6, <1>7 DEF Borrowed, Span
<1>11. Disjoint'
  BY <1>5, <1>10, StillDisjoint DEF Disjoint
<1>12. \A u \in Threads \ {t} : W \cap Borrowed(u) = {}
  BY <1>4 DEF Disjoint
<1>13. \A u \in Threads \ {t} :
        /\ Built(u)' = Built(u)
        /\ \A a \in Built(u) : memory'[a] = KeyByte(owner'[u].key, a - owner'[u].at)
  BY <1>4, <1>5, <1>12, OthersIntact, ZenonT(30)
<1>14. W \cup Built(t) = Built(t)' /\ Built(t)' \subseteq Addresses
  <2>1. Built(t)' \subseteq W \cup Span(at, m)
    BY <1>1 DEF Part, Span
  <2>2. W \cup Span(at, m) \subseteq Built(t)'
    BY <1>1 DEF Part, Span
  <2>3. Borrowed(t) \subseteq Addresses /\ Built(t) \subseteq Addresses
    BY BuiltIsHeld
  <2> QED  BY <1>4, <2>1, <2>2, <2>3
<1>15. ASSUME NEW a \in Built(t)'
       PROVE  memory'[a] = KeyByte(owner'[t].key, a - owner'[t].at)
  <2>1. CASE a \in W
    <3>1. a - at \in m .. n - 1
      BY <1>1, <2>1 DEF Part
    <3> QED  BY <1>4, <1>6, <2>1, <3>1 DEF KeyPart
  <2>2. CASE a \notin W
    <3>1. a \in Built(t) /\ memory'[a] = memory[a]
      BY <1>4, <1>14, <2>2
    <3> QED  BY <1>6, <3>1 DEF StateIntact
  <2> QED  BY <2>1, <2>2
<1>16. StateIntact'
  BY <1>13, <1>15 DEF StateIntact, KeyByte
<1>17. ASSUME NEW a \in Addresses, memory'[a] \in KeyBytes
       PROVE  a \in left' \/ \E u \in Threads : a \in Built(u)'
  <2>1. CASE a \in W
    BY <1>14, <2>1
  <2>2. CASE a \notin W
    <3>1. a \in left \/ \E u \in Threads : a \in Built(u)
      BY <1>4, <1>17, <2>2 DEF NoResidue
    <3> QED  BY <1>4, <1>13, <1>14, <2>2, <3>1
  <2> QED  BY <2>1, <2>2
<1>18. NoResidue'
  BY <1>17 DEF NoResidue, KeyBytes, KeyByte
<1> QED  BY <1>8, <1>9, <1>11, <1>16, <1>18

(* An inline handle takes its bytes along.                                  *)
LEMMA MoveStep ==
  ASSUME IInv, NEW t \in Threads, NEW to \in Addresses, Move(t, to)
  PROVE  IInv'
<1> USE DEF IInv
<1> DEFINE from == owner[t].at
           size == Size(owner[t].scheme)
           new == Span(to, size)
           old == Span(from, size)
<1>1. owner[t] # Nothing /\ owner[t].stage = "handle"
  BY DEF Move, Nothing
<1>2. /\ owner[t] \in Holdings /\ from \in Nat /\ owner[t].key \in Keys
      /\ size \in Nat /\ size <= owner[t].len /\ owner[t].len \in Nat
      /\ owner[t].scheme \in Schemes /\ Borrowed(t) = Span(from, owner[t].len)
  BY <1>1, Held
<1>3. /\ to + size <= Length /\ \A u \in Threads : Borrowed(u) \cap new = {}
      /\ memory' = [a \in Addresses |-> IF a \in new THEN memory[from + (a - to)] ELSE memory[a]]
      /\ left' = (left \ new) \cup old
      /\ owner' = [owner EXCEPT ![t].at = to]
  BY DEF Move, Free
<1>4. Built(t) = old /\ old \subseteq Addresses
  BY <1>1, BuiltIsHeld DEF Built
<1>5. to \in Nat /\ Length \in Nat
  BY Sizes DEF Addresses
<1>6. new \subseteq Addresses
  BY <1>2, <1>3, <1>5 DEF Span, Addresses
<1> HIDE DEF new, old, size, from
<1>7. /\ owner'[t] = [owner[t] EXCEPT !.at = to]
      /\ \A u \in Threads \ {t} : owner'[u] = owner[u]
      /\ owner' \in [Threads -> Holdings \cup {Nothing}]
  BY <1>2, <1>3 DEF TypeOK, Holdings
<1>8. /\ owner'[t].at = to /\ owner'[t].len = owner[t].len /\ owner'[t].key = owner[t].key
      /\ owner'[t].scheme = owner[t].scheme /\ owner'[t].stage = "handle"
      /\ owner'[t].place = "inline" /\ owner'[t] # Nothing
  <2>1. owner[t].place = "inline"
    BY DEF Move
  <2> QED  BY <1>1, <1>2, <1>7, <2>1 DEF Holdings, Nothing
<1>9. owner[t].len = size
  BY <1>1 DEF Shape, Move, size
<1>10. Borrowed(t)' = new /\ Built(t)' = new
  <2>1. Borrowed(t)' = Span(to, size) /\ Built(t)' = Span(to, Size(owner[t].scheme))
    BY <1>8, <1>9 DEF Borrowed, Built, Span, Size
  <2> QED  BY <2>1 DEF new, size
<1>11. memory' \in [Addresses -> Byte]
  <2>1. \A a \in new : from + (a - to) \in old
    BY <1>2, <1>5 DEF new, old, Span
  <2>2. memory \in [Addresses -> Byte]
    BY DEF TypeOK, Byte
  <2> QED  BY <1>3, <1>4, <2>1, <2>2
<1>12. TypeOK'
  <2>1. left' \subseteq Addresses
    BY <1>3, <1>4 DEF TypeOK
  <2> QED  BY <1>7, <1>11, <2>1 DEF TypeOK, Byte
<1>13. Shape'
  <2>1. to + owner'[t].len <= Length /\ size <= owner'[t].len
    BY <1>2, <1>3, <1>8, <1>9
  <2>2. ASSUME NEW u \in Threads, owner'[u] # Nothing
        PROVE  /\ owner'[u].at + owner'[u].len <= Length
               /\ Size(owner'[u].scheme) <= owner'[u].len
               /\ owner'[u].stage = "expanded" => owner'[u].scheme = "gcm"
               /\ owner'[u].place # "lent" => owner'[u].len = Size(owner'[u].scheme)
    <3>1. CASE u = t
      BY <1>8, <1>9, <2>1, <3>1 DEF size
    <3>2. CASE u # t
      BY <1>7, <2>2, <3>2 DEF Shape
    <3> QED  BY <3>1, <3>2
  <2> QED  BY <2>2 DEF Shape, Size
<1>14. Disjoint'
  BY <1>3, <1>7, <1>10, StillDisjoint
<1>15. \A u \in Threads \ {t} :
        /\ Built(u)' = Built(u)
        /\ \A a \in Built(u) : memory'[a] = KeyByte(owner'[u].key, a - owner'[u].at)
  <2>1. \A a \in Addresses \ new : memory'[a] = memory[a]
    BY <1>3
  <2>2. \A u \in Threads \ {t} : owner'[u] = owner[u] /\ new \cap Borrowed(u) = {}
    BY <1>3, <1>7
  <2> QED  BY <2>1, <2>2, OthersIntact
<1>16. ASSUME NEW a \in Built(t)'
       PROVE  memory'[a] = KeyByte(owner'[t].key, a - owner'[t].at)
  <2>1. a \in new /\ a \in Addresses
    BY <1>6, <1>10
  <2>2. from + (a - to) \in old /\ (from + (a - to)) - from = a - to
    BY <1>2, <1>5, <2>1 DEF new, old, Span
  <2>3. memory[from + (a - to)] = KeyByte(owner[t].key, a - to)
    BY <1>4, <2>2 DEF StateIntact, from
  <2> QED  BY <1>3, <1>8, <2>1, <2>3
<1>17. StateIntact'
  BY <1>15, <1>16 DEF StateIntact, KeyByte
<1>18. ASSUME NEW a \in Addresses, memory'[a] \in KeyBytes
       PROVE  a \in left' \/ \E u \in Threads : a \in Built(u)'
  <2>1. CASE a \in new
    BY <1>10, <2>1
  <2>2. CASE a \notin new
    <3>1. a \in left \/ \E u \in Threads : a \in Built(u)
      BY <1>3, <1>18, <2>2 DEF NoResidue
    <3> QED  BY <1>3, <1>4, <1>15, <2>2, <3>1
  <2> QED  BY <2>1, <2>2
<1>19. NoResidue'
  BY <1>18 DEF NoResidue, KeyBytes, KeyByte
<1> QED  BY <1>12, <1>13, <1>14, <1>17, <1>19

LEMMA NextStep == IInv /\ [Next]_vars => IInv'
<1> SUFFICES ASSUME IInv, [Next]_vars PROVE IInv'
  OBVIOUS
<1> USE DEF IInv
<1>1. ASSUME NEW t \in Threads, NEW s \in Schemes, NEW a \in Addresses, NEW n \in 0 .. Length,
             NEW k \in Keys, NewSlot(t, s, a, n, k)
      PROVE  IInv'
  <2>1. "lent" \in Places
    BY DEF Places
  <2> QED  BY <1>1, <2>1, AcquireStep DEF NewSlot, SlotFits
<1>2. ASSUME NEW t \in Threads, NEW p \in {"boxed", "inline"}, NEW s \in Schemes,
             NEW a \in Addresses, NEW k \in Keys, NewOwned(t, p, s, a, k)
      PROVE  IInv'
  <2>1. p \in Places
    BY DEF Places
  <2>2. Size(s) \in 0 .. Length
    <3>1. a \in Nat /\ Size(s) \in Nat /\ Length \in Nat
      BY Sizes DEF Addresses
    <3>2. a + Size(s) <= Length
      BY <1>2 DEF NewOwned, Free
    <3> QED  BY <3>1, <3>2
  <2>3. Size(s) <= Size(s)
    BY <2>2
  <2> QED  BY <1>2, <2>1, <2>2, <2>3, AcquireStep DEF NewOwned
<1>3. ASSUME NEW t \in Threads, RefuseKey(t)
      PROVE  IInv'
  <2>1. Built(t) = {}
    BY <1>3 DEF RefuseKey, Built
  <2>2. /\ memory' \in [Addresses -> Byte] /\ left' \subseteq Addresses
        /\ memory' = memory /\ left' = left /\ Release(t)
    BY <1>3 DEF RefuseKey, TypeOK, Byte
  <2>3. {} \subseteq Borrowed(t)
    OBVIOUS
  <2> QED  BY <2>1, <2>2, <2>3, ReleaseStep
<1>4. ASSUME NEW t \in Threads, ExpandKey(t)
      PROVE  IInv'
  <2>1. owner[t] # Nothing /\ owner[t].stage = "slot"
    BY <1>4 DEF ExpandKey, Nothing
  <2> DEFINE stage == IF owner[t].scheme = "siv" THEN "handle" ELSE "expanded"
  <2>2. /\ owner[t] \in Holdings /\ owner[t].at \in Nat /\ owner[t].scheme \in Schemes
        /\ AesSize <= Size(owner[t].scheme)
    BY <2>1, Held
  <2>3. /\ stage \in Stages
        /\ stage = "expanded" => owner[t].scheme = "gcm"
    BY <2>2 DEF Stages, Schemes
  <2>4. Advance(t, stage) /\ Store(owner[t].at, KeyPart(owner[t].key, 0, AesSize))
    BY <1>4 DEF ExpandKey
  <2>5. Built(t) = Span(owner[t].at, 0)
    BY <2>1, <2>2 DEF Built, Span
  <2>6. /\ owner'[t].stage = stage /\ owner'[t].at = owner[t].at
        /\ owner'[t].scheme = owner[t].scheme
    BY <2>2, <2>4 DEF Advance, TypeOK, Holdings
  <2>7. Built(t)' = Span(owner[t].at, AesSize)
    BY <2>2, <2>6, Sizes DEF Built, Span, Size, Schemes
  <2>8. 0 \in Nat /\ AesSize \in Nat /\ 0 <= AesSize
    BY Sizes
  <2> HIDE DEF stage
  <2> QED  BY <2>1, <2>2, <2>3, <2>4, <2>5, <2>7, <2>8, BuildStep
<1>5. ASSUME NEW t \in Threads, DerivePowers(t)
      PROVE  IInv'
  <2>1. owner[t] # Nothing /\ owner[t].stage = "expanded"
    BY <1>5 DEF DerivePowers, Nothing
  <2>2. owner[t] \in Holdings /\ owner[t].scheme = "gcm"
    BY <2>1, Held DEF Shape
  <2>3. "handle" \in Stages
    BY DEF Stages
  <2>4. /\ Advance(t, "handle")
        /\ Store(owner[t].at, KeyPart(owner[t].key, AesSize, Size("gcm")))
    BY <1>5 DEF DerivePowers
  <2>5. Built(t) = Span(owner[t].at, AesSize)
    BY <2>1 DEF Built
  <2>6. /\ owner'[t].stage = "handle" /\ owner'[t].at = owner[t].at
        /\ owner'[t].scheme = "gcm"
    BY <2>2, <2>4 DEF Advance, TypeOK, Holdings
  <2>7. Built(t)' = Span(owner[t].at, Size("gcm"))
    BY <2>6 DEF Built, Span, Size
  <2>8. /\ AesSize \in Nat /\ Size("gcm") \in Nat
        /\ AesSize <= Size("gcm") /\ Size("gcm") <= Size(owner[t].scheme)
    BY <2>2, Sizes
  <2> QED  BY <2>1, <2>2, <2>3, <2>4, <2>5, <2>7, <2>8, BuildStep
<1>6. ASSUME NEW t \in Threads, NEW n \in Nat, NEW bytes, owner[t] # Nothing, n <= owner[t].len,
             bytes = Zeros(n), Built(t) \subseteq Part(t, 0, n),
             Store(owner[t].at, bytes), Release(t)
      PROVE  IInv'
  <2>1. bytes = [i \in 0 .. n - 1 |-> ZeroByte]
    BY <1>6 DEF Zeros
  <2>2. bytes \in [0 .. n - 1 -> Byte] /\ 0 \in Nat
    BY <2>1 DEF Byte
  <2>3. /\ memory' \in [Addresses -> Byte]
        /\ Part(t, 0, n) \subseteq Borrowed(t)
        /\ \A a \in Part(t, 0, n) : memory'[a] = bytes[a - owner[t].at]
        /\ \A a \in Addresses \ Part(t, 0, n) : memory'[a] = memory[a]
        /\ left' = left \ Part(t, 0, n)
    BY <1>6, <2>2, StoreIs
  <2>4. \A a \in Part(t, 0, n) : memory'[a] = ZeroByte
    <3>1. owner[t].at \in Nat
      BY <1>6, Held
    <3>2. \A a \in Part(t, 0, n) : a - owner[t].at \in 0 .. n - 1
      BY <3>1 DEF Part
    <3> QED  BY <2>1, <2>3, <3>2
  <2>5. left' \subseteq Addresses
    BY <2>3 DEF TypeOK
  <2> QED  BY <1>6, <2>3, <2>4, <2>5, ReleaseStep
<1>7. ASSUME NEW t \in Threads, PowersFail(t)
      PROVE  IInv'
  <2>1. owner[t] # Nothing /\ owner[t].stage = "expanded"
    BY <1>7 DEF PowersFail, Nothing
  <2>2. AesSize \in Nat /\ AesSize <= owner[t].len /\ owner[t].at \in Nat
    BY <2>1, Held, Sizes
  <2>3. Built(t) \subseteq Part(t, 0, AesSize)
    BY <2>1, <2>2 DEF Built, Span, Part
  <2>4. Store(owner[t].at, Zeros(AesSize)) /\ Release(t)
    BY <1>7 DEF PowersFail
  <2> QED  BY <1>6, <2>1, <2>2, <2>3, <2>4
<1>8. ASSUME NEW t \in Threads, Drop(t) \/ DropBox(t)
      PROVE  IInv'
  <2>1. owner[t] # Nothing /\ owner[t].stage = "handle"
    BY <1>8 DEF Drop, DropBox, Nothing
  <2> DEFINE size == Size(owner[t].scheme)
  <2>2. /\ size \in Nat /\ size <= owner[t].len /\ owner[t].at \in Nat
        /\ owner[t].scheme \in Schemes
    BY <2>1, Held
  <2>3. Built(t) \subseteq Part(t, 0, size)
    BY <2>1, <2>2 DEF Built, Span, Part
  <2>4. Store(owner[t].at, Zeros(size)) /\ Release(t)
    BY <1>8, <2>2, WipeIsWhole, FieldDropsAreWhole DEF Drop, DropBox, WipeSize
  <2> HIDE DEF size
  <2> QED  BY <1>6, <2>1, <2>2, <2>3, <2>4
<1>9. ASSUME NEW t \in Threads, Leak(t)
      PROVE  IInv'
  <2>1. owner[t].stage = "handle" /\ owner[t] # Nothing
    BY <1>9 DEF Leak, Nothing
  <2>2. Built(t) = Span(owner[t].at, Size(owner[t].scheme)) /\ Built(t) \subseteq Addresses
    BY <2>1, BuiltIsHeld DEF Built
  <2>3. /\ memory' \in [Addresses -> Byte] /\ left' \subseteq Addresses
        /\ memory' = memory /\ left' = left \cup Built(t) /\ Release(t)
    BY <1>9, <2>2 DEF Leak, TypeOK, Byte
  <2>4. PICK W : W = {}
    OBVIOUS
  <2>5. /\ W \subseteq Borrowed(t) /\ \A a \in W : memory'[a] = ZeroByte
        /\ \A a \in Addresses \ W : memory'[a] = memory[a]
        /\ left \ W \subseteq left' /\ Built(t) \ W \subseteq left'
    BY <2>3, <2>4
  <2> QED  BY <2>3, <2>5, ReleaseStep
<1>10. CASE UNCHANGED vars
  BY <1>10 DEF vars, TypeOK, Shape, Disjoint, NoResidue, StateIntact, Borrowed, Built, Span,
               Size, Addresses, KeyBytes, KeyByte, Holdings, Stages, Places, Schemes, Nothing,
               CallerByte, ZeroByte
<1> QED
  BY <1>1, <1>2, <1>3, <1>4, <1>5, <1>7, <1>8, <1>9, <1>10, MoveStep DEF Next

LEMMA Always == Spec => []IInv
  BY InitHolds, NextStep, PTL DEF Spec

-----------------------------------------------------------------------------
(* The memory holds bytes of keys, zeros and the caller's bytes, and what a *)
(* thread holds lies in it, in every behaviour of every instance.           *)
THEOREM StorageTypes == Spec => []TypeOK
<1>1. IInv => TypeOK
  BY DEF IInv
<1> QED  BY <1>1, Always, PTL

(* No byte of a key stays behind in memory that no live state, leak or move *)
(* accounts for: whatever the sizes, the alignment and the width of the     *)
(* stores that wipe, and for any number of threads and keys.                *)
THEOREM NoResidueHolds == Spec => []NoResidue
<1>1. IInv => NoResidue
  BY DEF IInv
<1> QED  BY <1>1, Always, PTL

(* A live state is what was built of its key, byte for byte, whatever other *)
(* threads build, move, wipe or leak beside it.                             *)
THEOREM StateIntactHolds == Spec => []StateIntact
<1>1. IInv => StateIntact
  BY DEF IInv
<1> QED  BY <1>1, Always, PTL

-----------------------------------------------------------------------------
Writes(t) ==
  \A a \in Addresses : memory'[a] # memory[a] => a \in Borrowed(t) \cup Borrowed(t)'

(* Every store begins at the thread's own state and ends within it.         *)
LEMMA StoreWrites ==
  ASSUME TypeOK, Shape, NEW t \in Threads, owner[t] # Nothing,
         NEW m \in Nat, NEW n \in Nat, n <= Size(owner[t].scheme),
         NEW bytes \in [m .. n - 1 -> Byte], Store(owner[t].at, bytes)
  PROVE  Writes(t)
<1>1. n <= owner[t].len
  <2>1. Size(owner[t].scheme) \in Nat /\ owner[t].len \in Nat
        /\ Size(owner[t].scheme) <= owner[t].len
    BY Held
  <2> QED  BY <2>1
<1>2. /\ Part(t, m, n) \subseteq Borrowed(t)
      /\ \A a \in Addresses \ Part(t, m, n) : memory'[a] = memory[a]
  BY <1>1, StoreIs
<1> QED  BY <1>2 DEF Writes

LEMMA StepWrites ==
  ASSUME IInv, Next
  PROVE  \E t \in Threads : Writes(t)
<1> USE DEF IInv
<1>1. PICK t \in Threads :
        \/ \E s \in Schemes, a \in Addresses, n \in 0 .. Length, k \in Keys :
             NewSlot(t, s, a, n, k)
        \/ \E p \in {"boxed", "inline"}, s \in Schemes, a \in Addresses, k \in Keys :
             NewOwned(t, p, s, a, k)
        \/ RefuseKey(t) \/ ExpandKey(t) \/ DerivePowers(t) \/ PowersFail(t)
        \/ (\E a \in Addresses : Move(t, a)) \/ Drop(t) \/ DropBox(t) \/ Leak(t)
  BY DEF Next
<1>2. CASE memory' = memory
  BY <1>2 DEF Writes
<1>3. CASE ExpandKey(t) \/ DerivePowers(t) \/ PowersFail(t) \/ Drop(t) \/ DropBox(t)
  <2>1. owner[t] # Nothing
    BY <1>3 DEF ExpandKey, DerivePowers, PowersFail, Drop, DropBox, Nothing
  <2> DEFINE size == Size(owner[t].scheme)
  <2>2. /\ size \in Nat /\ AesSize \in Nat /\ AesSize <= size /\ owner[t].at \in Nat
        /\ owner[t].scheme \in Schemes /\ owner[t].key \in Keys
    BY <2>1, Held, Sizes
  <2>3. \A m, n \in Nat : n <= size => KeyPart(owner[t].key, m, n) \in [m .. n - 1 -> Byte]
    <3> SUFFICES ASSUME NEW m \in Nat, NEW n \in Nat, n <= size
                 PROVE  KeyPart(owner[t].key, m, n) \in [m .. n - 1 -> Byte]
      OBVIOUS
    <3>1. m .. n - 1 \subseteq 0 .. AesSize + PowersSize - 1
      BY <2>2, Sizes DEF Schemes
    <3> QED  BY <2>2, <3>1 DEF KeyPart, KeyByte, KeyBytes, Byte
  <2>4. \A n \in Nat : Zeros(n) \in [0 .. n - 1 -> Byte]
    BY DEF Zeros, Byte
  <2>5. 0 \in Nat
    OBVIOUS
  <2>6. CASE ExpandKey(t)
    <3>1. Store(owner[t].at, KeyPart(owner[t].key, 0, AesSize))
      BY <2>6 DEF ExpandKey
    <3>2. KeyPart(owner[t].key, 0, AesSize) \in [0 .. AesSize - 1 -> Byte]
      BY <2>2, <2>3, <2>5
    <3> QED  BY <2>1, <2>2, <2>5, <3>1, <3>2, StoreWrites
  <2>7. CASE DerivePowers(t)
    <3>1. /\ Store(owner[t].at, KeyPart(owner[t].key, AesSize, Size("gcm")))
          /\ owner[t].stage = "expanded"
      BY <2>7 DEF DerivePowers
    <3>2. Size("gcm") = size
      BY <2>1, <3>1 DEF Shape
    <3>3. /\ KeyPart(owner[t].key, AesSize, size) \in [AesSize .. size - 1 -> Byte]
          /\ size <= size
      BY <2>2, <2>3
    <3> QED  BY <2>1, <2>2, <3>1, <3>2, <3>3, StoreWrites
  <2>8. CASE PowersFail(t)
    <3>1. Store(owner[t].at, Zeros(AesSize))
      BY <2>8 DEF PowersFail
    <3> QED  BY <2>1, <2>2, <2>4, <2>5, <3>1, StoreWrites
  <2>9. CASE Drop(t) \/ DropBox(t)
    <3>1. Store(owner[t].at, Zeros(size))
      BY <2>2, <2>9, WipeIsWhole, FieldDropsAreWhole DEF Drop, DropBox, WipeSize
    <3>2. size <= size
      BY <2>2
    <3> QED  BY <2>1, <2>2, <2>4, <2>5, <3>1, <3>2, StoreWrites
  <2> QED  BY <1>3, <2>6, <2>7, <2>8, <2>9
<1>4. ASSUME NEW to \in Addresses, Move(t, to)
      PROVE  Writes(t)
  <2>1. owner[t].stage = "handle" /\ owner[t].place = "inline" /\ owner[t] # Nothing
    BY <1>4 DEF Move, Nothing
  <2>2. owner[t] \in Holdings /\ owner[t].len = Size(owner[t].scheme)
    BY <2>1, Held DEF Shape
  <2>3. owner'[t] = [owner[t] EXCEPT !.at = to]
    BY <1>4, <2>2 DEF Move, TypeOK
  <2>4. owner'[t].at = to /\ owner'[t].len = owner[t].len /\ owner'[t].stage = "handle"
    BY <2>1, <2>2, <2>3 DEF Holdings
  <2>5. owner'[t] # Nothing
    BY <2>4 DEF Nothing
  <2>6. Borrowed(t)' = Span(to, Size(owner[t].scheme))
    BY <2>2, <2>4, <2>5 DEF Borrowed, Span
  <2>7. \A a \in Addresses \ Span(to, Size(owner[t].scheme)) : memory'[a] = memory[a]
    BY <1>4 DEF Move
  <2> QED  BY <2>6, <2>7 DEF Writes
<1>5. CASE \/ \E s \in Schemes, a \in Addresses, n \in 0 .. Length, k \in Keys :
               NewSlot(t, s, a, n, k)
           \/ \E p \in {"boxed", "inline"}, s \in Schemes, a \in Addresses, k \in Keys :
               NewOwned(t, p, s, a, k)
           \/ RefuseKey(t) \/ Leak(t)
  BY <1>2, <1>5 DEF NewSlot, NewOwned, RefuseKey, Leak
<1> QED  BY <1>1, <1>3, <1>4, <1>5

(* Every step of the library writes to one thread's bytes only, whatever    *)
(* the sizes and alignments.                                                *)
THEOREM OnlyBorrowedHolds == Spec => OnlyBorrowed
<1>1. IInv /\ [Next]_vars =>
        [\E t \in Threads : \A a \in Addresses :
           memory'[a] # memory[a] => a \in Borrowed(t) \cup Borrowed(t)']_vars
  BY StepWrites DEF Writes
<1> QED  BY <1>1, Always, PTL DEF Spec, OnlyBorrowed
=============================================================================
