----------------------------- MODULE RingBytes -----------------------------
(***************************************************************************)
(* The byte ring of epicsRingBytes.c.  Without its spin lock one writer    *)
(* and one reader may use it at the same time.  Created locked, any number *)
(* of threads may, one at a time: the behaviours of this module in which   *)
(* no put and get overlap.  Reads and writes of nextPut and nextGet and    *)
(* the two memcpy calls of a put or a get are separate steps, taken in the *)
(* order of the code: the ring relies on volatile accesses being seen in   *)
(* that order.                                                             *)
(***************************************************************************)
EXTENDS Integers, Sequences

CONSTANTS
  Bytes,     \* values of a byte
  Capacity,  \* the size asked for
  SLOP,      \* as in the code: 16
  Sizes      \* the values of nbytes users ask for

ASSUME RingAssumption ==
  /\ Capacity \in Nat \ {0} /\ SLOP \in Nat \ {0}
  /\ Sizes \subseteq Nat

size == Capacity + SLOP

VARIABLES
  nextPut, nextGet, buffer,
  put,   \* the put in progress: pc, data, the nextGet it read, its local nextPut
  get,   \* the get in progress: pc, nbytes, the nextPut it read, its local nextGet
  value  \* bytes the get in progress has copied, or the last one returned

vars == <<nextPut, nextGet, buffer, put, get, value>>

NoPut == [pc |-> "idle", data |-> <<>>, nextGet |-> 0, nextPut |-> 0]
NoGet == [pc |-> "idle", nbytes |-> 0, nextPut |-> 0, nextGet |-> 0]

\* A value of buffer before it is first written is any byte.
Init ==
  /\ nextPut = 0 /\ nextGet = 0
  /\ \E b \in Bytes : buffer = [i \in 0 .. size - 1 |-> b]
  /\ put = NoPut /\ get = NoGet /\ value = <<>>

Least(a, b) == IF a < b THEN a ELSE b

\* Mutant: the reserve is forgotten once the ring has wrapped.
FreeBytes_NoSlop(p, g) == IF p < g THEN g - p ELSE size - p + g - SLOP

FreeBytes(p, g) == IF p < g THEN g - p - SLOP ELSE size - p + g - SLOP

UsedBytes(p, g) == IF p - g < 0 THEN p - g + size ELSE p - g

\* memcpy of s to the slots from i on
Write(i, s) == [j \in DOMAIN buffer |->
                  IF i <= j /\ j < i + Len(s) THEN s[j - i + 1] ELSE buffer[j]]

\* memcpy of n bytes from the slots from i on
Read(i, n) == [k \in 1 .. n |-> buffer[i + k - 1]]

-----------------------------------------------------------------------------
(* epicsRingBytesPut *)

\* The indices are read; what does not fit, and a put of nothing, change
\* nothing.
PutBegin(data) ==
  /\ put.pc = "idle" /\ data # <<>>
  /\ Len(data) <= FreeBytes(nextPut, nextGet)
  /\ put' = [pc |-> "top", data |-> data, nextGet |-> nextGet, nextPut |-> nextPut]
  /\ UNCHANGED <<nextPut, nextGet, buffer, get, value>>

\* up to the end of the buffer
PutTop ==
  LET p == put.nextPut
      n == IF p < put.nextGet THEN Len(put.data) ELSE Least(Len(put.data), size - p)
  IN /\ put.pc = "top"
     /\ buffer' = Write(p, SubSeq(put.data, 1, n))
     /\ put' = [put EXCEPT !.nextPut = p + n,
                           !.pc = IF p + n = size THEN "bottom" ELSE "publish"]
     /\ UNCHANGED <<nextPut, nextGet, get, value>>

\* the rest from its start
PutBottom ==
  LET copied == size - nextPut
      left   == SubSeq(put.data, copied + 1, Len(put.data))
  IN /\ put.pc = "bottom"
     /\ buffer' = Write(0, left)
     /\ put' = [put EXCEPT !.nextPut = Len(left), !.pc = "publish"]
     /\ UNCHANGED <<nextPut, nextGet, get, value>>

PutPublish ==
  /\ put.pc = "publish"
  /\ nextPut' = put.nextPut
  /\ put' = NoPut
  /\ UNCHANGED <<nextGet, buffer, get, value>>

-----------------------------------------------------------------------------
(* epicsRingBytesGet *)

\* Mutant: the bytes are given back before they are copied.
GetBegin_Early(nbytes) ==
  LET n == Least(UsedBytes(nextPut, nextGet), nbytes)
  IN /\ get.pc = "idle"
     /\ get' = [pc |-> "top", nbytes |-> nbytes, nextPut |-> nextPut, nextGet |-> nextGet]
     /\ nextGet' = IF nextGet + n >= size THEN nextGet + n - size ELSE nextGet + n
     /\ value' = <<>>
     /\ UNCHANGED <<nextPut, buffer, put>>

GetBegin(nbytes) ==
  /\ get.pc = "idle"
  /\ get' = [pc |-> "top", nbytes |-> nbytes, nextPut |-> nextPut, nextGet |-> nextGet]
  /\ value' = <<>>
  /\ UNCHANGED <<nextPut, nextGet, buffer, put>>

GetTop ==
  LET g == get.nextGet
      n == Least(IF g <= get.nextPut THEN get.nextPut - g ELSE size - g, get.nbytes)
  IN /\ get.pc = "top"
     /\ value' = Read(g, n)
     /\ get' = [get EXCEPT !.nextGet = g + n,
                  !.pc = IF g > get.nextPut /\ g + n = size THEN "bottom" ELSE "publish"]
     /\ UNCHANGED <<nextPut, nextGet, buffer, put>>

GetBottom ==
  LET left == Least(get.nbytes - Len(value), get.nextPut)
  IN /\ get.pc = "bottom"
     /\ value' = value \o Read(0, left)
     /\ get' = [get EXCEPT !.nextGet = left, !.pc = "publish"]
     /\ UNCHANGED <<nextPut, nextGet, buffer, put>>

GetPublish ==
  /\ get.pc = "publish"
  /\ nextGet' = get.nextGet
  /\ get' = NoGet
  /\ UNCHANGED <<nextPut, buffer, put, value>>

\* The reader drops what it finds: nextPut is read here and nextGet written by GetPublish.
epicsRingBytesFlush ==
  /\ get.pc = "idle"
  /\ get' = [NoGet EXCEPT !.pc = "publish", !.nextGet = nextPut]
  /\ value' = <<>>
  /\ UNCHANGED <<nextPut, nextGet, buffer, put>>

-----------------------------------------------------------------------------
Next ==
  \/ \E n \in Sizes : GetBegin(n) \/ \E data \in [1 .. n -> Bytes] : PutBegin(data)
  \/ PutTop \/ PutBottom \/ PutPublish
  \/ GetTop \/ GetBottom \/ GetPublish
  \/ epicsRingBytesFlush

Spec == Init /\ [][Next]_vars

-----------------------------------------------------------------------------
\* the bytes in the ring, oldest first
Slot(i) == IF i >= size THEN i - size ELSE i
Contents == [i \in 1 .. UsedBytes(nextPut, nextGet) |-> buffer[Slot(nextGet + i - 1)]]

TypeOK ==
  /\ nextPut \in 0 .. size - 1 /\ nextGet \in 0 .. size - 1
  /\ buffer \in [0 .. size - 1 -> Bytes]
  /\ put.pc \in {"idle", "top", "bottom", "publish"} /\ put.nextPut \in 0 .. size
  /\ get.pc \in {"idle", "top", "bottom", "publish"} /\ get.nextGet \in 0 .. size

\* epicsRingBytesFreeBytes and UsedBytes always add up to the size asked for and
\* neither is negative: the spare bytes keep a full ring, whatever was wrapped in
\* it, apart from an empty one.
Accounting ==
  LET free == FreeBytes(nextPut, nextGet)
      used == UsedBytes(nextPut, nextGet)
  IN free + used = Capacity /\ free >= 0 /\ used >= 0

\* Every byte put is got once, in order and unchanged, while one thread writes and
\* another reads.
F == INSTANCE Fifo WITH Elems <- Bytes, q <- Contents, arg <- put.data,
                        got <- IF get.pc = "idle" THEN value ELSE <<>>
RefinesFifo == F!FSpec

=============================================================================
