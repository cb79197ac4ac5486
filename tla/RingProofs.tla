----------------------------- MODULE RingProofs -----------------------------
(***************************************************************************)
(* For rings of any size: the queries of both rings are consistent, and    *)
(* both are FIFOs while one thread puts and another gets.                  *)
(*                                                                         *)
(* Neither is inductive.  A put works with the nextGet it read before, a   *)
(* get with the nextPut it read before; BInv says that what they found     *)
(* then is still there to be written or taken: a put in progress fits, a   *)
(* get in progress takes no more than the ring holds.  PInv says the same  *)
(* of a push and a pop, and that the pointer is in its slot, or has been   *)
(* read, before the index moves.                                           *)
(***************************************************************************)
EXTENDS MCRings, SequenceTheorems, TLAPS

-----------------------------------------------------------------------------
(* Sequences *)

LEMMA IsSeq ==
  ASSUME NEW S, NEW n \in Nat, NEW a \in [1 .. n -> S]
  PROVE  a \in Seq(S) /\ Len(a) = n
<1> DEFINE b == [i \in 1 .. n |-> a[i]]
<1>1. a = b
  OBVIOUS
<1>2. b \in Seq(S) /\ Len(b) = n
  OBVIOUS
<1>3. QED
  BY <1>1, <1>2

LEMMA OneIsSeq ==
  ASSUME NEW S, NEW a \in [1 .. 1 -> S]
  PROVE  a \in Seq(S) /\ Len(a) = 1 /\ a # <<>>
<1> DEFINE b == [i \in 1 .. 1 |-> a[i]]
<1>1. a = b
  OBVIOUS
<1>2. b \in Seq(S) /\ Len(b) = 1
  OBVIOUS
<1>3. QED
  BY <1>1, <1>2

LEMMA ConcatIs ==
  ASSUME NEW S, NEW q \in Seq(S), NEW a \in Seq(S), NEW r \in Seq(S),
         Len(r) = Len(q) + Len(a),
         \A i \in 1 .. Len(q) : r[i] = q[i],
         \A i \in 1 .. Len(a) : r[Len(q) + i] = a[i]
  PROVE  r = q \o a
<1>1. /\ q \o a \in Seq(S) /\ Len(q \o a) = Len(q) + Len(a)
      /\ \A i \in 1 .. Len(q) + Len(a) :
           (q \o a)[i] = IF i <= Len(q) THEN q[i] ELSE a[i - Len(q)]
  BY ConcatProperties
<1>2. ASSUME NEW i \in 1 .. Len(r) PROVE r[i] = (q \o a)[i]
  <2>1. CASE i <= Len(q)
    BY <1>1, <2>1
  <2>2. CASE ~(i <= Len(q))
    <3>1. i - Len(q) \in 1 .. Len(a) /\ Len(q) + (i - Len(q)) = i
      BY <2>2
    <3>2. QED
      BY <1>1, <2>2, <3>1
  <2>3. QED
    BY <2>1, <2>2
<1>3. QED
  BY <1>1, <1>2, SeqEqual

LEMMA SubSeqIs ==
  ASSUME NEW S, NEW q \in Seq(S), NEW n \in 0 .. Len(q), NEW m \in n .. Len(q), NEW r \in Seq(S),
         Len(r) = m - n,
         \A i \in 1 .. Len(r) : r[i] = q[n + i]
  PROVE  r = SubSeq(q, n + 1, m)
<1>1. /\ SubSeq(q, n + 1, m) \in Seq(S) /\ Len(SubSeq(q, n + 1, m)) = m - n
      /\ \A i \in 1 .. m - n : SubSeq(q, n + 1, m)[i] = q[n + i]
  BY SubSeqProperties
<1>2. QED
  BY <1>1, SeqEqual

-----------------------------------------------------------------------------
(* The pointer ring *)

PIndices ==
  /\ nextPush \in 0 .. Size /\ nextPop \in 0 .. Size
  /\ slots \in [0 .. Size -> Items]
  /\ push.pc \in {"idle", "write", "publish"} /\ pop \in {"idle", "read", "publish"}

\* A push in progress has room, and its pointer is in place before nextPush moves.
Pushing ==
  /\ push.pc = "idle" => push = P!NoPush
  /\ push.pc # "idle" =>
       /\ push = [pc |-> push.pc, p |-> push.p]
       /\ push.p \in [1 .. 1 -> Items]
       /\ P!Wrap(nextPush + 1) # nextPop
  /\ push.pc = "publish" => slots[nextPush] = push.p[1]

\* A pop in progress has something to pop, and has read it before nextPop moves.
Popping ==
  /\ pop # "idle" => nextPush # nextPop
  /\ pop = "publish" => ret = <<slots[nextPop]>>

PInv == PIndices /\ Pushing /\ Popping

LEMMA PCounts == PIndices => P!Counts
BY PointerAssumption DEF PIndices, P!Counts, P!getFree, P!getUsed, P!isEmpty, P!isFull, P!size

LEMMA PInitInv == P!Init => PInv
BY PointerAssumption DEF P!Init, PInv, PIndices, Pushing, Popping, P!size, P!NoPush

LEMMA PStepInv == PInv /\ P!Next => PInv'
<1> SUFFICES ASSUME PInv, P!Next PROVE PInv'
  OBVIOUS
<1> USE PointerAssumption DEF PInv
<1>1. ASSUME NEW p \in Items, P!PushBegin(p) PROVE PInv'
  BY <1>1 DEF P!PushBegin, PIndices, Pushing, Popping, P!Wrap, P!size
<1>2. CASE P!PushWrite
  BY <1>2 DEF P!PushWrite, PIndices, Pushing, Popping, P!Wrap, P!size
<1>3. CASE P!PushPublish
  BY <1>3 DEF P!PushPublish, PIndices, Pushing, Popping, P!Wrap, P!size, P!NoPush
<1>4. CASE P!PopBegin
  BY <1>4 DEF P!PopBegin, PIndices, Pushing, Popping, P!Wrap, P!size
<1>5. CASE P!PopRead
  BY <1>5 DEF P!PopRead, PIndices, Pushing, Popping, P!Wrap, P!size
<1>6. CASE P!PopPublish
  BY <1>6 DEF P!PopPublish, PIndices, Pushing, Popping, P!Wrap, P!size
<1>7. CASE P!flush
  BY <1>7 DEF P!flush, PIndices, Pushing, Popping, P!Wrap, P!size, P!NoPush
<1>8. QED
  BY <1>1, <1>2, <1>3, <1>4, <1>5, <1>6, <1>7 DEF P!Next

PShape ==
  /\ P!Contents \in Seq(Items) /\ Len(P!Contents) = P!getUsed
  /\ P!getUsed \in 0 .. Size
  /\ \A i \in 1 .. P!getUsed : P!Contents[i] = slots[P!Slot(nextPop + i - 1)]

LEMMA PContents == PIndices => PShape
BY PointerAssumption DEF PShape, PIndices, P!Contents, P!Slot, P!getUsed, P!size

LEMMA PContentsNext == (PIndices => PShape)'
BY PContents, PTL

PGot == IF pop = "idle" THEN ret ELSE <<>>

LEMMA PStepFifo ==
  ASSUME PInv, PInv', P!Next
  PROVE  P!F!FNext \/ UNCHANGED <<P!Contents, push.p, PGot>>
<1> USE PointerAssumption DEF PInv
<1> DEFINE q == P!Contents
<1>0. /\ q \in Seq(Items) /\ Len(q) = P!getUsed /\ P!getUsed \in 0 .. Size
      /\ \A i \in 1 .. P!getUsed : q[i] = slots[P!Slot(nextPop + i - 1)]
  BY PContents DEF PShape
<1>00. /\ q' \in Seq(Items) /\ Len(q') = P!getUsed' /\ P!getUsed' \in 0 .. Size
       /\ \A i \in 1 .. P!getUsed' : q'[i] = slots'[P!Slot(nextPop' + i - 1)]
  <2>1. PShape'
    BY PContentsNext
  <2>2. \A i : P!Slot(i)' = P!Slot(i)
    BY DEF P!Slot, P!size
  <2>3. QED
    BY <2>1, <2>2 DEF PShape, P!Slot, P!size
<1> HIDE DEF q
<1>1. ASSUME NEW p \in Items, P!PushBegin(p) PROVE P!F!FNext
  <2>1. P!getUsed < Size
    BY <1>1 DEF P!PushBegin, PIndices, P!Wrap, P!size, P!getUsed
  <2>2. push.p = <<>> /\ push'.p = <<p>> /\ push'.p \in [1 .. 1 -> Items]
    BY <1>1 DEF P!PushBegin, Pushing, P!NoPush
  <2>3. q' = q /\ PGot' = PGot
    BY <1>1 DEF P!PushBegin, q, PGot, P!Contents, P!getUsed
  <2>4. 1 \in 1 .. Size - Len(q)
    BY <2>1, <1>0
  <2>5. QED
    BY <2>2, <2>3, <2>4 DEF q, PGot, P!F!FNext, P!F!Begin
<1>2. CASE P!PushWrite
  <2>1. P!getUsed' = P!getUsed /\ push'.p = push.p /\ PGot' = PGot
    BY <1>2 DEF P!PushWrite, P!getUsed, PGot, Pushing
  <2>2. ASSUME NEW i \in 1 .. P!getUsed PROVE q'[i] = q[i]
    <3>1. P!Slot(nextPop + i - 1) \in 0 .. Size /\ P!Slot(nextPop + i - 1) # nextPush
      BY DEF P!Slot, P!getUsed, P!size, PIndices
    <3>2. QED
      BY <3>1, <1>2, <2>1, <1>0, <1>00 DEF P!PushWrite, PIndices, P!Slot
  <2>3. q' = q
    BY <2>1, <2>2, <1>0, <1>00, SeqEqual
  <2>4. QED
    BY <2>1, <2>3 DEF q
<1>3. CASE P!PushPublish
  <2>1. /\ P!getUsed' = P!getUsed + 1 /\ nextPop' = nextPop /\ slots' = slots
        /\ P!Slot(nextPop + P!getUsed) = nextPush
    BY <1>3 DEF P!PushPublish, P!getUsed, PIndices, Pushing, P!Wrap, P!size, P!Slot
  <2>2. push.p \in [1 .. 1 -> Items] /\ push'.p = <<>> /\ PGot' = PGot
        /\ push.p[1] = slots[nextPush]
    BY <1>3 DEF P!PushPublish, Pushing, PGot, P!NoPush
  <2>3. push.p \in Seq(Items) /\ Len(push.p) = 1 /\ push.p # <<>>
    BY <2>2, OneIsSeq
  <2>4. q' = q \o push.p
    <3>1. ASSUME NEW i \in 1 .. P!getUsed PROVE q'[i] = q[i]
      BY <1>0, <1>00, <2>1 DEF P!Slot, P!size
    <3>2. q'[P!getUsed + 1] = push.p[1]
      <4>1. nextPop' + (P!getUsed + 1) - 1 = nextPop + P!getUsed
        BY <1>0, <2>1 DEF PIndices
      <4>2. QED
        BY <4>1, <1>0, <1>00, <2>1, <2>2
    <3>3. QED
      <4>1. Len(q') = Len(q) + Len(push.p) /\ \A i \in 1 .. Len(q) : q'[i] = q[i]
        BY <3>1, <1>0, <1>00, <2>1, <2>3
      <4>2. \A i \in 1 .. Len(push.p) : q'[Len(q) + i] = push.p[i]
        BY <3>2, <1>0, <2>3
      <4>3. QED
        BY <4>1, <4>2, <1>0, <1>00, <2>3, ConcatIs
  <2>5. QED
    BY <2>2, <2>3, <2>4 DEF q, PGot, P!F!FNext, P!F!Put
<1>4. CASE P!PopBegin
  <2>1. q' = q /\ push'.p = push.p /\ PGot' = <<>>
    BY <1>4 DEF P!PopBegin, q, PGot, P!Contents, P!getUsed
  <2>2. SubSeq(q, 1, 0) = <<>> /\ SubSeq(q, 0 + 1, Len(q)) = q /\ 0 \in 0 .. Len(q)
    BY <1>0
  <2>3. QED
    BY <2>1, <2>2 DEF q, PGot, P!F!FNext, P!F!Get
<1>5. CASE P!PopRead
  BY <1>5 DEF P!PopRead, q, PGot, P!Contents, P!getUsed
<1>6. CASE P!PopPublish
  <2>1. /\ P!getUsed' = P!getUsed - 1 /\ P!getUsed >= 1
        /\ \A i \in 1 .. P!getUsed - 1 : P!Slot(nextPop' + i - 1) = P!Slot(nextPop + i)
    BY <1>6 DEF P!PopPublish, P!getUsed, PIndices, Popping, P!Wrap, P!size, P!Slot
  <2>2. push'.p = push.p /\ slots' = slots /\ PGot' = <<slots[nextPop]>>
    BY <1>6 DEF P!PopPublish, Popping, PGot
  <2>3. <<slots[nextPop]>> = SubSeq(q, 0 + 1, 1)
    <3>1. q[1] = slots[nextPop] /\ slots[nextPop] \in Items
      BY <1>0, <2>1 DEF P!Slot, PIndices, P!size
    <3>2. QED
      BY <3>1, <1>0, <2>1, SubSeqIs
  <2>4. q' = SubSeq(q, 1 + 1, Len(q))
    <3>1. ASSUME NEW i \in 1 .. P!getUsed - 1 PROVE q'[i] = q[1 + i]
      <4>1. 1 + i \in 1 .. P!getUsed /\ nextPop + (1 + i) - 1 = nextPop + i
        BY <1>0, <2>1 DEF PIndices
      <4>2. q'[i] = slots'[P!Slot(nextPop' + i - 1)]
        BY <1>00, <2>1
      <4>3. q[1 + i] = slots[P!Slot(nextPop + i)]
        BY <1>0, <4>1
      <4>4. QED
        BY <4>2, <4>3, <2>1, <2>2
    <3>2. QED
      BY <3>1, <1>0, <1>00, <2>1, SubSeqIs
  <2>5. 1 \in 0 .. Len(q)
    BY <1>0, <2>1
  <2>6. QED
    <3>1. SubSeq(q, 1, 1) = PGot'
      <4>1. 0 + 1 = 1
        OBVIOUS
      <4>2. QED
        BY <4>1, <2>2, <2>3
    <3>2. P!F!Get
      BY <2>2, <2>4, <2>5, <3>1 DEF q, PGot, P!F!Get
    <3>3. QED
      BY <3>2 DEF P!F!FNext
<1>7. CASE P!flush
  <2>1. P!getUsed' = 0 /\ push'.p = push.p /\ PGot' = PGot
    BY <1>7 DEF P!flush, P!getUsed, PGot, P!size
  <2>2. q' = <<>> /\ SubSeq(q, Len(q) + 1, Len(q)) = <<>> /\ Len(q) \in 0 .. Len(q)
    BY <2>1, <1>0, <1>00
  <2>3. QED
    BY <2>1, <2>2 DEF q, PGot, P!F!FNext, P!F!Flush
<1>8. QED
  BY <1>1, <1>2, <1>3, <1>4, <1>5, <1>6, <1>7 DEF P!Next, q

-----------------------------------------------------------------------------
(* The queries of the byte ring *)

Indices ==
  /\ nextPut \in 0 .. size - 1 /\ nextGet \in 0 .. size - 1
  /\ put \in [pc : {"idle", "top", "bottom", "publish"}, data : Seq(Bytes),
             nextGet : 0 .. size - 1, nextPut : 0 .. size]
  /\ get \in [pc : {"idle", "top", "bottom", "publish"}, nbytes : Nat,
             nextPut : 0 .. size - 1, nextGet : 0 .. size]
  /\ UsedBytes(nextPut, nextGet) <= Capacity

\* What a put has to write fits, both behind the nextGet it has read and behind the
\* nextGet of now; before it publishes, its local index is where its data ends.
Putting ==
  put.pc # "idle" =>
    LET n == Len(put.data)
    IN /\ n >= 1 /\ n + UsedBytes(nextPut, nextGet) <= Capacity
       /\ n <= FreeBytes(nextPut, put.nextGet)
       /\ put.pc = "top" => put.nextPut = nextPut
       /\ put.pc = "bottom" => nextPut + n >= size
       /\ put.pc = "publish" =>
            put.nextPut = IF nextPut + n >= size THEN nextPut + n - size ELSE nextPut + n

\* A get takes no more than the ring holds.
Getting ==
  LET used == UsedBytes(nextPut, nextGet)
  IN /\ get.pc \in {"top", "bottom"} => UsedBytes(get.nextPut, nextGet) <= used
     /\ get.pc = "top" => get.nextGet = nextGet
     /\ get.pc = "bottom" =>
          /\ get.nextPut < nextGet
          /\ Len(value) = size - nextGet /\ Len(value) <= get.nbytes
     /\ get.pc = "publish" =>
          /\ get.nextGet < size
          /\ UsedBytes(get.nextGet, nextGet) <= used

BInv == Indices /\ Putting /\ Getting

LEMMA BAccounting == BInv => Accounting
BY RingAssumption DEF BInv, Indices, Accounting, UsedBytes, FreeBytes, size

LEMMA BInitInv == Init => BInv
BY RingAssumption DEF Init, BInv, Indices, Putting, Getting, UsedBytes, size, NoPut, NoGet

LEMMA UsedType ==
  ASSUME NEW p \in 0 .. size - 1, NEW g \in 0 .. size - 1
  PROVE  UsedBytes(p, g) \in 0 .. size - 1
BY RingAssumption DEF UsedBytes, size

\* A put moves nextPut on by n, a get moves nextGet on to h.
LEMMA UsedGrows ==
  ASSUME NEW p \in 0 .. size - 1, NEW g \in 0 .. size - 1, NEW n \in Nat, NEW e,
         n + UsedBytes(p, g) <= Capacity,
         e = IF p + n >= size THEN p + n - size ELSE p + n
  PROVE  e \in 0 .. size - 1 /\ UsedBytes(e, g) = UsedBytes(p, g) + n
BY RingAssumption DEF UsedBytes, size

LEMMA UsedShrinks ==
  ASSUME NEW p \in 0 .. size - 1, NEW g \in 0 .. size - 1, NEW h \in 0 .. size - 1,
         UsedBytes(h, g) <= UsedBytes(p, g)
  PROVE  UsedBytes(p, h) = UsedBytes(p, g) - UsedBytes(h, g)
BY RingAssumption DEF UsedBytes, size

LEMMA SizeType == size \in Nat /\ size > Capacity /\ Capacity \in Nat
BY RingAssumption DEF size

\* A put that fits ends before the nextGet it has read, or wraps and ends before it.
LEMMA FreeFits ==
  ASSUME NEW p \in 0 .. size - 1, NEW g \in 0 .. size - 1, NEW n \in Nat,
         n <= FreeBytes(p, g)
  PROVE  n < size /\ (p < g => p + n < size)
BY RingAssumption DEF FreeBytes, size

LEMMA BStepInv == BInv /\ Next => BInv'
<1> SUFFICES ASSUME BInv, Next PROVE BInv'
  OBVIOUS
<1> USE DEF BInv
<1>0. /\ size \in Nat /\ size > Capacity /\ Capacity \in Nat /\ Sizes \subseteq Nat
      /\ nextPut \in 0 .. size - 1 /\ nextGet \in 0 .. size - 1
      /\ Len(put.data) \in Nat /\ put.data \in Seq(Bytes)
  BY SizeType, RingAssumption DEF Indices
<1>1. ASSUME NEW n \in Sizes, GetBegin(n) PROVE BInv'
  <2>1. Indices'
    BY <1>0, <1>1 DEF GetBegin, Indices
  <2>2. Putting'
    BY <1>1 DEF GetBegin, Putting
  <2>3. Getting'
    BY <1>0, <1>1, UsedType DEF GetBegin, Getting
  <2>4. QED
    BY <2>1, <2>2, <2>3
<1>2. ASSUME NEW n \in Sizes, NEW data \in [1 .. n -> Bytes], PutBegin(data) PROVE BInv'
  <2>0. data \in Seq(Bytes) /\ Len(data) = n /\ n >= 1 /\ n \in Nat
    BY <1>0, <1>2, IsSeq DEF PutBegin
  <2>1. Indices'
    BY <1>0, <1>2, <2>0 DEF PutBegin, Indices
  <2>2. Putting'
    <3>1. n + UsedBytes(nextPut, nextGet) <= Capacity
      BY <1>0, <1>2, <2>0, RingAssumption DEF PutBegin, UsedBytes, FreeBytes, size
    <3>2. QED
      BY <1>2, <2>0, <3>1 DEF PutBegin, Putting
  <2>3. Getting'
    BY <1>2 DEF PutBegin, Getting
  <2>4. QED
    BY <2>1, <2>2, <2>3
<1>3. CASE PutTop
  <2> DEFINE p == put.nextPut
             n == IF p < put.nextGet THEN Len(put.data) ELSE Least(Len(put.data), size - p)
  <2>0. /\ put.pc = "top" /\ p = nextPut /\ put.nextGet \in 0 .. size - 1
        /\ Len(put.data) < size /\ (p < put.nextGet => p + Len(put.data) < size)
    BY <1>0, <1>3, FreeFits DEF PutTop, Putting, Indices
  <2>1. /\ n \in 0 .. size - p
        /\ p + n = size => nextPut + Len(put.data) >= size
        /\ p + n # size => n = Len(put.data) /\ p + n < size
    BY <1>0, <2>0 DEF Least
  <2>2. /\ put' = [put EXCEPT !.nextPut = p + n,
                              !.pc = IF p + n = size THEN "bottom" ELSE "publish"]
        /\ UNCHANGED <<nextPut, nextGet, get, value>>
    BY <1>3 DEF PutTop
  <2> HIDE DEF p, n
  <2>3. Indices'
    <3>1. p + n \in 0 .. size
      BY <1>0, <2>0, <2>1
    <3>2. QED
      BY <2>2, <3>1 DEF Indices
  <2>4. Putting'
    BY <1>0, <2>0, <2>1, <2>2 DEF Indices, Putting
  <2>5. Getting'
    BY <2>2 DEF Getting
  <2>6. QED
    BY <2>3, <2>4, <2>5
<1>4. CASE PutBottom
  <2> DEFINE n == Len(put.data)
             m == size - nextPut
             left == SubSeq(put.data, m + 1, n)
  <2>1. put.pc = "bottom" /\ n \in Nat /\ m \in 1 .. n /\ n < size
    BY <1>0, <1>4, FreeFits, SMTT(30) DEF PutBottom, Indices, Putting
  <2>2. Len(left) = n - m
    BY <1>0, <2>1, SubSeqProperties
  <2>3. /\ put' = [put EXCEPT !.nextPut = n - m, !.pc = "publish"]
        /\ UNCHANGED <<nextPut, nextGet, get, value>>
    BY <1>4, <2>2 DEF PutBottom
  <2>4. n - m \in 0 .. size /\ n - m = nextPut + n - size /\ nextPut + n >= size
    BY <1>0, <2>1
  <2> HIDE DEF n, m, left
  <2>5. Indices'
    BY <2>3, <2>4 DEF Indices
  <2>6. Putting'
    BY <2>1, <2>3, <2>4 DEF Indices, Putting, n
  <2>7. Getting'
    BY <2>3 DEF Getting
  <2>8. QED
    BY <2>5, <2>6, <2>7
<1>5. CASE PutPublish
  <2> DEFINE n == Len(put.data)
  <2>1. /\ nextPut' \in 0 .. size - 1
        /\ UsedBytes(nextPut', nextGet) = UsedBytes(nextPut, nextGet) + n
        /\ n \in Nat /\ n + UsedBytes(nextPut, nextGet) <= Capacity
    BY <1>0, <1>5, UsedGrows DEF PutPublish, Putting
  <2>2. put' = NoPut /\ UNCHANGED <<nextGet, get, value>>
    BY <1>5 DEF PutPublish
  <2>3. UsedBytes(nextPut, nextGet) \in 0 .. size - 1
    BY <1>0, UsedType
  <2>4. UsedBytes(nextPut, nextGet)' = UsedBytes(nextPut', nextGet)
    BY <2>2 DEF UsedBytes, size
  <2> HIDE DEF n
  <2>5. Indices'
    BY <1>0, <2>1, <2>2, <2>3, <2>4 DEF Indices, NoPut
  <2>6. Putting'
    BY <2>2 DEF Putting, NoPut
  <2>7. Getting'
    <3>1. UsedBytes(nextPut, nextGet) <= UsedBytes(nextPut', nextGet)
      BY <2>1, <2>3
    <3>2. /\ get.nextPut \in 0 .. size - 1
          /\ get.pc = "publish" => get.nextGet \in 0 .. size - 1
      BY <1>0 DEF Indices, Getting
    <3>3. /\ UsedBytes(get.nextPut, nextGet) \in Int
          /\ get.pc = "publish" => UsedBytes(get.nextGet, nextGet) \in Int
      BY <3>2, <1>0 DEF UsedBytes
    <3>4. QED
      BY <2>1, <2>2, <2>3, <2>4, <3>1, <3>3 DEF Getting
  <2>8. QED
    BY <2>5, <2>6, <2>7
<1>6. CASE GetTop
  <2> DEFINE g == get.nextGet
             n == Least(IF g <= get.nextPut THEN get.nextPut - g ELSE size - g, get.nbytes)
  <2>1. g = nextGet /\ get.pc = "top" /\ get.nextPut \in 0 .. size - 1 /\ get.nbytes \in Nat
    BY <1>6 DEF GetTop, Getting, Indices
  <2>2. /\ n \in 0 .. size - g /\ n <= get.nbytes
        /\ g <= get.nextPut => g + n <= get.nextPut
    BY <1>0, <2>1 DEF Least
  <2>3. /\ value' = Read(g, n)
        /\ get' = [get EXCEPT !.nextGet = g + n,
                     !.pc = IF g > get.nextPut /\ g + n = size THEN "bottom" ELSE "publish"]
        /\ UNCHANGED <<nextPut, nextGet, put>>
    BY <1>6 DEF GetTop
  <2> HIDE DEF n
  <2>4. Len(value') = n
    BY <1>0, <2>1, <2>2, <2>3 DEF Read
  <2>5. ~(g > get.nextPut /\ g + n = size) =>
          g + n < size /\ UsedBytes(g + n, nextGet) <= UsedBytes(get.nextPut, nextGet)
    BY <1>0, <2>1, <2>2 DEF UsedBytes
  <2>6. Indices'
    <3>1. g + n \in 0 .. size
      BY <1>0, <2>1, <2>2
    <3>2. QED
      BY <2>3, <3>1 DEF Indices
  <2>7. Putting'
    BY <2>3 DEF Putting
  <2>8. Getting'
    <3>1. CASE g > get.nextPut /\ g + n = size
      BY <3>1, <1>0, <2>1, <2>2, <2>3, <2>4 DEF Getting, Indices
    <3>2. CASE ~(g > get.nextPut /\ g + n = size)
      <4>1. UsedBytes(get.nextPut, nextGet) \in Int /\ UsedBytes(nextPut, nextGet) \in Int
            /\ UsedBytes(g + n, nextGet) \in Int
        BY <3>2, <1>0, <2>1, <2>2, <2>5 DEF UsedBytes
      <4>2. UsedBytes(get.nextPut, nextGet) <= UsedBytes(nextPut, nextGet)
        BY <2>1 DEF Getting
      <4>3. get'.pc = "publish" /\ get'.nextGet = g + n
        BY <2>3, <3>2 DEF Indices
      <4>4. UsedBytes(g + n, nextGet) <= UsedBytes(nextPut, nextGet)
        BY <2>5, <3>2, <4>1, <4>2
      <4>5. QED
        BY <2>3, <2>5, <3>2, <4>3, <4>4 DEF Getting
    <3>3. QED
      BY <3>1, <3>2
  <2>9. QED
    BY <2>6, <2>7, <2>8
<1>7. CASE GetBottom
  <2> DEFINE left == Least(get.nbytes - Len(value), get.nextPut)
  <2>1. /\ get.pc = "bottom" /\ get.nextPut \in 0 .. size - 1 /\ get.nextPut < nextGet
        /\ left \in 0 .. get.nextPut
    BY <1>0, <1>7, SMTT(30) DEF GetBottom, Getting, Indices, Least
  <2>2. /\ get' = [get EXCEPT !.nextGet = left, !.pc = "publish"]
        /\ UNCHANGED <<nextPut, nextGet, put>>
    BY <1>7 DEF GetBottom
  <2> HIDE DEF left
  <2>3. /\ left < size /\ left \in 0 .. size - 1
        /\ UsedBytes(left, nextGet) <= UsedBytes(get.nextPut, nextGet)
    BY <1>0, <2>1 DEF UsedBytes
  <2>4. Indices'
    <3>1. left \in 0 .. size
      BY <1>0, <2>3
    <3>2. QED
      BY <2>2, <3>1 DEF Indices
  <2>5. Putting'
    BY <2>2 DEF Putting
  <2>6. Getting'
    <3>1. UsedBytes(get.nextPut, nextGet) \in Int /\ UsedBytes(nextPut, nextGet) \in Int
          /\ UsedBytes(left, nextGet) \in Int
      BY <1>0, <2>1, <2>3 DEF UsedBytes
    <3>2. UsedBytes(left, nextGet) <= UsedBytes(nextPut, nextGet)
      BY <2>1, <2>3, <3>1 DEF Getting
    <3>3. get'.pc = "publish" /\ get'.nextGet = left
      BY <2>2 DEF Indices
    <3>4. QED
      BY <2>2, <2>3, <3>2, <3>3 DEF Getting
  <2>7. QED
    BY <2>4, <2>5, <2>6
<1>8. CASE GetPublish
  <2> DEFINE h == get.nextGet
  <2>1. h \in 0 .. size - 1 /\ UsedBytes(h, nextGet) <= UsedBytes(nextPut, nextGet)
    BY <1>0, <1>8 DEF GetPublish, Getting, Indices
  <2>2. nextGet' = h /\ get' = NoGet /\ UNCHANGED <<nextPut, put>>
    BY <1>8 DEF GetPublish
  <2> HIDE DEF h
  <2>3. /\ UsedBytes(nextPut, h) = UsedBytes(nextPut, nextGet) - UsedBytes(h, nextGet)
        /\ UsedBytes(nextPut, h) \in Nat /\ UsedBytes(h, nextGet) \in Nat
        /\ UsedBytes(nextPut, nextGet) \in Nat
    BY <1>0, <2>1, UsedShrinks, UsedType
  <2>4. UsedBytes(nextPut, nextGet)' = UsedBytes(nextPut, h)
    BY <2>2 DEF UsedBytes, size
  <2>5. Indices'
    BY <1>0, <2>1, <2>2, <2>3, <2>4, SMTT(30) DEF Indices, NoGet
  <2>6. Putting'
    BY <1>0, <2>2, <2>3, <2>4 DEF Putting
  <2>7. Getting'
    BY <2>2 DEF Getting, NoGet
  <2>8. QED
    BY <2>5, <2>6, <2>7
<1>9. CASE epicsRingBytesFlush
  <2>1. Indices'
    <3>1. nextPut \in 0 .. size
      BY <1>0
    <3>2. get' = [pc |-> "publish", nbytes |-> 0, nextPut |-> 0, nextGet |-> nextPut]
      BY <1>9 DEF epicsRingBytesFlush, NoGet
    <3>3. 0 \in 0 .. size - 1
      BY <1>0
    <3>4. QED
      BY <1>9, <3>1, <3>2, <3>3 DEF epicsRingBytesFlush, Indices
  <2>2. Putting'
    BY <1>9 DEF epicsRingBytesFlush, Putting
  <2>3. Getting'
    BY <1>0, <1>9, UsedType DEF epicsRingBytesFlush, Getting, NoGet
  <2>4. QED
    BY <2>1, <2>2, <2>3
<1>10. QED
  BY <1>1, <1>2, <1>3, <1>4, <1>5, <1>6, <1>7, <1>8, <1>9 DEF Next

-----------------------------------------------------------------------------
(* Both rings *)

LEMMA RingsInv ==
  ASSUME BInv, PInv, [RingsNext]_<<which, vars, pointerVars>>
  PROVE  BInv' /\ PInv'
<1>1. BInv'
  <2>1. CASE Next
    BY <2>1, BStepInv
  <2>2. CASE UNCHANGED vars
    BY <2>2 DEF vars, BInv, Indices, Putting, Getting
  <2>3. QED
    BY <2>1, <2>2 DEF RingsNext
<1>2. PInv'
  <2>1. CASE P!Next
    BY <2>1, PStepInv
  <2>2. CASE UNCHANGED pointerVars
    BY <2>2 DEF pointerVars, PInv, PIndices, Pushing, Popping, P!Wrap
  <2>3. QED
    BY <2>1, <2>2 DEF RingsNext
<1>3. QED
  BY <1>1, <1>2

\* The queries of both rings agree with each other and with the size asked for, for any
\* size, any reserve SLOP and any sizes of puts and gets: FreeBytes and UsedBytes of
\* epicsRingBytes.c add up although put and get work with indices read earlier.
THEOREM QueriesConsistent == RingsSpec => []QueriesAgree
<1>1. RingsInit => BInv /\ PInv
  BY BInitInv, PInitInv DEF RingsInit
<1>2. BInv /\ PInv /\ [RingsNext]_<<which, vars, pointerVars>> => BInv' /\ PInv'
  BY RingsInv
<1>3. BInv /\ PInv => QueriesAgree
  BY BAccounting, PCounts DEF PInv, QueriesAgree
<1>4. QED
  BY <1>1, <1>2, <1>3, PTL DEF RingsSpec

LEMMA PInitFifo == P!Init => P!F!FInit
<1> SUFFICES ASSUME P!Init PROVE P!F!FInit
  OBVIOUS
<1>1. P!getUsed = 0 /\ push.p = <<>> /\ PGot = <<>>
  BY DEF P!Init, P!getUsed, PGot, P!NoPush
<1>2. P!Contents = <<>>
  BY <1>1 DEF P!Contents
<1>3. QED
  BY <1>1, <1>2 DEF P!F!FInit, PGot

\* Pointers pushed are popped once and in order, for a ring of any size: the accesses of
\* push and pop in epicsRingPointer.h, interleaved in any way, are the steps of a FIFO.
THEOREM PointersInOrder == RingsSpec => PointersAreFifo
<1>1. RingsInit => BInv /\ PInv /\ P!F!FInit
  BY BInitInv, PInitInv, PInitFifo DEF RingsInit
<1>2. BInv /\ PInv /\ [RingsNext]_<<which, vars, pointerVars>> => BInv' /\ PInv'
  BY RingsInv
<1>3. PInv /\ PInv' /\ [RingsNext]_<<which, vars, pointerVars>>
        => [P!F!FNext]_<<P!Contents, push.p, PGot>>
  <2> SUFFICES ASSUME PInv, PInv', [RingsNext]_<<which, vars, pointerVars>>
               PROVE  [P!F!FNext]_<<P!Contents, push.p, PGot>>
    OBVIOUS
  <2>1. CASE P!Next
    BY <2>1, PStepFifo
  <2>2. CASE UNCHANGED pointerVars
    BY <2>2 DEF pointerVars, P!Contents, P!getUsed, P!Slot, PGot
  <2>3. QED
    BY <2>1, <2>2 DEF RingsNext
<1>4. QED
  BY <1>1, <1>2, <1>3, PTL DEF RingsSpec, PointersAreFifo, P!RefinesFifo, P!F!FSpec, PGot

-----------------------------------------------------------------------------
(* The byte ring is a FIFO.  To BInv, which keeps a put and a get apart, BData  *)
(* adds what the bytes copied so far are: those a put has written are the head  *)
(* of its data, in slots no get can see yet; those a get has read are the head  *)
(* of the contents, in slots no put may write yet.                              *)

Written ==
  /\ put.pc = "idle" => put.data = <<>>
  /\ put.pc = "bottom" =>
       \A i \in 1 .. size - nextPut : buffer[nextPut + i - 1] = put.data[i]
  /\ put.pc = "publish" =>
       \A i \in 1 .. Len(put.data) : buffer[Slot(nextPut + i - 1)] = put.data[i]

\* The get that ends a flush has read nothing.
HasRead ==
  /\ get.pc = "bottom" =>
       /\ value \in Seq(Bytes)
       /\ \A k \in 1 .. Len(value) : value[k] = buffer[nextGet + k - 1]
  /\ get.pc = "publish" =>
       \/ value = <<>>
       \/ /\ value \in Seq(Bytes) /\ Len(value) = UsedBytes(get.nextGet, nextGet)
          /\ \A k \in 1 .. Len(value) : value[k] = buffer[Slot(nextGet + k - 1)]

BData == buffer \in [0 .. size - 1 -> Bytes] /\ Written /\ HasRead

-----------------------------------------------------------------------------
(* Slots *)

\* A slot in use is none of those the next n bytes go to.
LEMMA UsedSlots ==
  ASSUME NEW p \in 0 .. size - 1, NEW g \in 0 .. size - 1, NEW n \in Nat,
         n + UsedBytes(p, g) <= Capacity, NEW i \in 1 .. UsedBytes(p, g)
  PROVE  /\ Slot(g + i - 1) \in 0 .. size - 1
         /\ ~(p <= Slot(g + i - 1) /\ Slot(g + i - 1) < p + n)
         /\ p + n >= size => Slot(g + i - 1) >= p + n - size
BY RingAssumption DEF UsedBytes, size, Slot

\* The slots behind those in use are the ones from nextPut on.
LEMMA SlotShift ==
  ASSUME NEW p \in 0 .. size - 1, NEW g \in 0 .. size - 1, NEW i \in Nat \ {0},
         UsedBytes(p, g) + i <= Capacity
  PROVE  Slot(g + UsedBytes(p, g) + i - 1) = Slot(p + i - 1)
BY RingAssumption DEF UsedBytes, size, Slot

BShape ==
  LET used == UsedBytes(nextPut, nextGet)
  IN /\ Contents \in Seq(Bytes) /\ Len(Contents) = used /\ used \in 0 .. Capacity
     /\ \A i \in 1 .. used : Contents[i] = buffer[Slot(nextGet + i - 1)]

LEMMA BContents == BInv /\ BData => BShape
<1> SUFFICES ASSUME BInv, BData PROVE BShape
  OBVIOUS
<1> DEFINE used == UsedBytes(nextPut, nextGet)
<1>1. used \in 0 .. Capacity /\ nextPut \in 0 .. size - 1 /\ nextGet \in 0 .. size - 1
  BY UsedType, SizeType DEF BInv, Indices
<1>2. \A i \in 1 .. used : buffer[Slot(nextGet + i - 1)] \in Bytes
  <2> TAKE i \in 1 .. used
  <2>1. Slot(nextGet + i - 1) \in 0 .. size - 1
    BY <1>1, SizeType DEF Slot
  <2>2. QED
    BY <2>1 DEF BData
<1>3. Contents = [i \in 1 .. used |-> buffer[Slot(nextGet + i - 1)]]
  BY DEF Contents
<1> HIDE DEF used
<1>4. Contents \in [1 .. used -> Bytes] /\ used \in Nat
  <2>1. used \in Nat
    BY <1>1, SizeType
  <2>2. Contents \in [1 .. used -> Bytes]
    BY <1>2, <1>3
  <2>3. QED
    BY <2>1, <2>2
<1>5. Contents \in Seq(Bytes) /\ Len(Contents) = used
  BY <1>4, IsSeq
<1>6. \A i \in 1 .. used : Contents[i] = buffer[Slot(nextGet + i - 1)]
  BY <1>3
<1>7. QED
  BY <1>1, <1>5, <1>6 DEF BShape, used

LEMMA BContentsNext == (BInv /\ BData => BShape)'
BY BContents, PTL

-----------------------------------------------------------------------------
(* What the writer writes does not touch what the reader sees. *)

Kept ==
  \A i \in 1 .. UsedBytes(nextPut, nextGet) :
    buffer'[Slot(nextGet + i - 1)] = buffer[Slot(nextGet + i - 1)]

LEMMA KeptContents ==
  ASSUME BShape, BShape', Kept, UNCHANGED <<nextPut, nextGet>>
  PROVE  Contents' = Contents
<1> DEFINE used == UsedBytes(nextPut, nextGet)
<1>1. /\ Contents \in Seq(Bytes) /\ Len(Contents) = used
      /\ \A i \in 1 .. used : Contents[i] = buffer[Slot(nextGet + i - 1)]
  BY DEF BShape
<1>2. UsedBytes(nextPut, nextGet)' = used /\ \A i : Slot(i)' = Slot(i)
  BY DEF UsedBytes, Slot, size
<1>3. /\ Contents' \in Seq(Bytes) /\ Len(Contents') = used
      /\ \A i \in 1 .. used : Contents'[i] = buffer'[Slot(nextGet + i - 1)]
  BY <1>2 DEF BShape, Slot, size
<1> HIDE DEF used
<1>4. \A i \in 1 .. used : Contents'[i] = Contents[i]
  BY <1>1, <1>3 DEF Kept, used
<1>5. QED
  BY <1>1, <1>3, <1>4, SeqEqual

LEMMA KeptRead ==
  ASSUME BInv, BData, Kept, UNCHANGED <<nextPut, nextGet, get, value>>
  PROVE  HasRead'
<1> DEFINE used == UsedBytes(nextPut, nextGet)
<1>0. /\ nextPut \in 0 .. size - 1 /\ nextGet \in 0 .. size - 1 /\ used \in 0 .. size - 1
      /\ get.nextPut \in 0 .. size - 1 /\ size \in Nat
  BY UsedType, SizeType DEF BInv, Indices
<1>1. CASE get.pc = "bottom"
  <2>1. /\ get.nextPut < nextGet /\ Len(value) = size - nextGet
        /\ UsedBytes(get.nextPut, nextGet) <= used
        /\ value \in Seq(Bytes)
        /\ \A k \in 1 .. Len(value) : value[k] = buffer[nextGet + k - 1]
    BY <1>1 DEF BInv, Getting, BData, HasRead
  <2>2. size - nextGet <= used
    BY <1>0, <2>1 DEF UsedBytes
  <2>3. \A k \in 1 .. Len(value) : value[k] = buffer'[nextGet + k - 1]
    <3> TAKE k \in 1 .. Len(value)
    <3>1. k \in 1 .. used /\ Slot(nextGet + k - 1) = nextGet + k - 1
      <4> HIDE DEF used
      <4>1. QED
        BY <1>0, <2>1, <2>2 DEF Slot
    <3>2. QED
      BY <2>1, <3>1 DEF Kept
  <2>4. QED
    BY <1>1, <2>1, <2>3 DEF HasRead
<1>2. CASE get.pc = "publish"
  <2>1. CASE value = <<>>
    BY <1>2, <2>1 DEF HasRead
  <2>2. CASE value # <<>>
    <3>1. /\ value \in Seq(Bytes) /\ Len(value) = UsedBytes(get.nextGet, nextGet)
          /\ \A k \in 1 .. Len(value) : value[k] = buffer[Slot(nextGet + k - 1)]
          /\ UsedBytes(get.nextGet, nextGet) <= used
      BY <1>2, <2>2 DEF BInv, Getting, BData, HasRead
    <3>2. \A k \in 1 .. Len(value) : value[k] = buffer'[Slot(nextGet + k - 1)]
      <4> TAKE k \in 1 .. Len(value)
      <4>1. k \in 1 .. used
        <5> HIDE DEF used
        <5>1. QED
          BY <1>0, <3>1
      <4>2. QED
        BY <3>1, <4>1 DEF Kept
    <3>3. /\ UsedBytes(get.nextGet, nextGet)' = UsedBytes(get.nextGet, nextGet)
          /\ \A i : Slot(i)' = Slot(i)
      BY DEF UsedBytes, Slot, size
    <3>4. QED
      BY <1>2, <3>1, <3>2, <3>3 DEF HasRead, Slot, size
  <2>3. QED
    BY <2>1, <2>2
<1>3. CASE get.pc \notin {"bottom", "publish"}
  BY <1>3 DEF HasRead
<1>4. QED
  BY <1>1, <1>2, <1>3

-----------------------------------------------------------------------------
(* The writer *)

LEMMA WriteIs ==
  ASSUME buffer \in [0 .. size - 1 -> Bytes], NEW s \in Seq(Bytes), NEW i \in 0 .. size
  PROVE  /\ Write(i, s) \in [0 .. size - 1 -> Bytes]
         /\ \A j \in 0 .. size - 1 :
              Write(i, s)[j] = IF i <= j /\ j < i + Len(s) THEN s[j - i + 1] ELSE buffer[j]
<1>1. size \in Nat /\ Len(s) \in Nat
  BY SizeType
<1>2. \A j \in 0 .. size - 1 : i <= j /\ j < i + Len(s) => s[j - i + 1] \in Bytes
  <2> TAKE j \in 0 .. size - 1
  <2> HAVE i <= j /\ j < i + Len(s)
  <2>1. j - i + 1 \in 1 .. Len(s)
    BY <1>1
  <2>2. QED
    BY <2>1, ElementOfSeq
<1>3. Write(i, s) = [j \in 0 .. size - 1 |->
                       IF i <= j /\ j < i + Len(s) THEN s[j - i + 1] ELSE buffer[j]]
  BY DEF Write
<1>4. QED
  BY <1>2, <1>3

LEMMA BFacts ==
  ASSUME BInv, BData
  PROVE  /\ nextPut \in 0 .. size - 1 /\ nextGet \in 0 .. size - 1
         /\ size \in Nat /\ Capacity \in Nat
         /\ put.data \in Seq(Bytes) /\ Len(put.data) \in Nat
         /\ put.nextGet \in 0 .. size - 1
         /\ buffer \in [0 .. size - 1 -> Bytes]
         /\ UsedBytes(nextPut, nextGet) \in 0 .. size - 1
<1>1. /\ nextPut \in 0 .. size - 1 /\ nextGet \in 0 .. size - 1
      /\ put.data \in Seq(Bytes) /\ put.nextGet \in 0 .. size - 1
      /\ buffer \in [0 .. size - 1 -> Bytes]
  BY DEF BInv, BData, Indices
<1>2. UsedBytes(nextPut, nextGet) \in 0 .. size - 1
  BY <1>1, UsedType
<1>3. Len(put.data) \in Nat
  BY <1>1
<1>4. QED
  BY <1>1, <1>2, <1>3, SizeType

LEMMA PutTopData ==
  ASSUME BInv, BData, PutTop
  PROVE  BData' /\ Kept /\ UNCHANGED <<nextPut, nextGet, get, value>> /\ put'.data = put.data
<1> DEFINE p == nextPut
           len == Len(put.data)
           n == IF p < put.nextGet THEN len ELSE Least(len, size - p)
           used == UsedBytes(nextPut, nextGet)
           s == SubSeq(put.data, 1, n)
<1>0. /\ p \in 0 .. size - 1 /\ nextGet \in 0 .. size - 1 /\ size \in Nat /\ Capacity \in Nat
      /\ put.data \in Seq(Bytes) /\ len \in Nat /\ put.nextGet \in 0 .. size - 1
      /\ buffer \in [0 .. size - 1 -> Bytes] /\ used \in 0 .. size - 1
  BY BFacts
<1>1. /\ put.pc = "top" /\ put.nextPut = p /\ len + used <= Capacity /\ len < size
      /\ (p < put.nextGet => p + len < size)
  BY <1>0, FreeFits DEF PutTop, BInv, Putting
<1>2. /\ n \in 0 .. size - p /\ n <= len /\ n \in Nat
      /\ p + n = size => n = size - p
      /\ p + n # size => n = len /\ p + n < size
  <2> HIDE DEF used, len
  <2>1. QED
    BY <1>0, <1>1 DEF Least
<1>3. /\ buffer' = Write(p, s)
      /\ put' = [put EXCEPT !.nextPut = p + n,
                            !.pc = IF p + n = size THEN "bottom" ELSE "publish"]
      /\ UNCHANGED <<nextPut, nextGet, get, value>>
  BY <1>1 DEF PutTop
<1> HIDE DEF n, used, len
<1>4. s \in Seq(Bytes) /\ Len(s) = n /\ \A k \in 1 .. n : s[k] = put.data[k]
  BY <1>0, <1>2, SubSeqProperties DEF len
<1> HIDE DEF s, p
<1>5. /\ buffer' \in [0 .. size - 1 -> Bytes]
      /\ \A j \in 0 .. size - 1 :
           buffer'[j] = IF p <= j /\ j < p + n THEN s[j - p + 1] ELSE buffer[j]
  <2>1. p \in 0 .. size
    BY <1>0
  <2>2. QED
    BY <1>0, <1>3, <1>4, <2>1, WriteIs
<1>6. Kept
  <2>1. SUFFICES ASSUME NEW i \in 1 .. used
                 PROVE  buffer'[Slot(nextGet + i - 1)] = buffer[Slot(nextGet + i - 1)]
    BY DEF Kept, used
  <2>2. n + used <= Capacity
    BY <1>0, <1>1, <1>2
  <2>3. /\ Slot(nextGet + i - 1) \in 0 .. size - 1
        /\ ~(p <= Slot(nextGet + i - 1) /\ Slot(nextGet + i - 1) < p + n)
    BY <1>0, <1>2, <2>2, UsedSlots DEF p, used
  <2>4. QED
    BY <1>5, <2>3
<1>7. HasRead'
  BY <1>3, <1>6, KeptRead
<1>8. \A i \in 1 .. n : buffer'[p + i - 1] = put.data[i]
  <2> TAKE i \in 1 .. n
  <2>1. p + i - 1 \in 0 .. size - 1 /\ p <= p + i - 1 /\ p + i - 1 < p + n
        /\ (p + i - 1) - p + 1 = i
    BY <1>0, <1>2
  <2>2. QED
    BY <1>4, <1>5, <2>1
<1>9. put'.data = put.data /\ put'.pc = IF p + n = size THEN "bottom" ELSE "publish"
  BY <1>3 DEF BInv, Indices
<1>10. Written'
  <2>1. CASE p + n = size
    BY <1>2, <1>3, <1>8, <1>9, <2>1 DEF Written, p
  <2>2. CASE p + n # size
    <3>1. \A i \in 1 .. n : Slot(p + i - 1) = p + i - 1
      BY <1>0, <1>2, <2>2 DEF Slot
    <3>2. \A i \in 1 .. Len(put.data) : buffer'[Slot(nextPut + i - 1)] = put.data[i]
      BY <1>2, <1>8, <2>2, <3>1 DEF p, len
    <3>3. QED
      BY <1>3, <1>9, <2>2, <3>2 DEF Written, Slot, size
  <2>3. QED
    BY <2>1, <2>2
<1>11. QED
  BY <1>3, <1>5, <1>6, <1>7, <1>9, <1>10 DEF BData

LEMMA PutBottomData ==
  ASSUME BInv, BData, PutBottom
  PROVE  BData' /\ Kept /\ UNCHANGED <<nextPut, nextGet, get, value>> /\ put'.data = put.data
<1> DEFINE len == Len(put.data)
           m == size - nextPut
           used == UsedBytes(nextPut, nextGet)
           s == SubSeq(put.data, m + 1, len)
<1>0. /\ nextPut \in 0 .. size - 1 /\ nextGet \in 0 .. size - 1 /\ size \in Nat
      /\ Capacity \in Nat /\ put.data \in Seq(Bytes) /\ len \in Nat
      /\ put.nextGet \in 0 .. size - 1
      /\ buffer \in [0 .. size - 1 -> Bytes] /\ used \in 0 .. size - 1
  BY BFacts
<1>1. /\ put.pc = "bottom" /\ len + used <= Capacity /\ nextPut + len >= size /\ len < size
      /\ \A i \in 1 .. m : buffer[nextPut + i - 1] = put.data[i]
  BY <1>0, FreeFits DEF PutBottom, BInv, Putting, BData, Written
<1>2. m \in 1 .. len
  <2> HIDE DEF used, len
  <2>1. QED
    BY <1>0, <1>1
<1>3. /\ s \in Seq(Bytes) /\ Len(s) = len - m
      /\ \A k \in 1 .. len - m : s[k] = put.data[m + k]
  BY SMTT(30), <1>0, <1>2, SubSeqProperties
<1>4. /\ buffer' = Write(0, s)
      /\ put' = [put EXCEPT !.nextPut = Len(s), !.pc = "publish"]
      /\ UNCHANGED <<nextPut, nextGet, get, value>>
  BY DEF PutBottom
<1> HIDE DEF s, used, len
<1>5. /\ buffer' \in [0 .. size - 1 -> Bytes]
      /\ \A j \in 0 .. size - 1 : buffer'[j] = IF j < len - m THEN s[j + 1] ELSE buffer[j]
  <2>1. /\ buffer' \in [0 .. size - 1 -> Bytes]
        /\ \A j \in 0 .. size - 1 :
             buffer'[j] = IF 0 <= j /\ j < 0 + Len(s) THEN s[j - 0 + 1] ELSE buffer[j]
    <3>1. 0 \in 0 .. size
      BY <1>0
    <3>2. QED
      BY <1>0, <1>3, <1>4, <3>1, WriteIs
  <2>2. \A j \in 0 .. size - 1 : (0 <= j /\ j < 0 + Len(s) <=> j < len - m) /\ j - 0 + 1 = j + 1
    BY <1>0, <1>2, <1>3
  <2>3. QED
    BY <2>1, <2>2
<1>6. Kept
  <2>1. SUFFICES ASSUME NEW i \in 1 .. used
                 PROVE  buffer'[Slot(nextGet + i - 1)] = buffer[Slot(nextGet + i - 1)]
    BY DEF Kept, used
  <2>2. /\ Slot(nextGet + i - 1) \in 0 .. size - 1
        /\ Slot(nextGet + i - 1) >= nextPut + len - size
    BY <1>0, <1>1, UsedSlots DEF used
  <2>3. ~(Slot(nextGet + i - 1) < len - m)
    BY <1>0, <2>2
  <2>4. QED
    BY <1>5, <2>2, <2>3
<1>7. HasRead'
  BY <1>4, <1>6, KeptRead
<1>8. put'.data = put.data /\ put'.pc = "publish"
  BY <1>4 DEF BInv, Indices
<1>9. ASSUME NEW i \in 1 .. len PROVE buffer'[Slot(nextPut + i - 1)] = put.data[i]
  <2>1. CASE i <= m
    <3>1. /\ Slot(nextPut + i - 1) = nextPut + i - 1 /\ nextPut + i - 1 \in 0 .. size - 1
          /\ ~(nextPut + i - 1 < len - m) /\ i \in 1 .. m
      BY <1>0, <1>1, <1>2, <2>1 DEF Slot
    <3>2. QED
      BY <1>1, <1>5, <3>1
  <2>2. CASE i > m
    <3>1. /\ Slot(nextPut + i - 1) = i - m - 1 /\ i - m - 1 \in 0 .. size - 1
          /\ i - m - 1 < len - m /\ i - m \in 1 .. len - m
          /\ (i - m - 1) + 1 = i - m /\ m + (i - m) = i
      BY <1>0, <1>1, <1>2, <2>2 DEF Slot
    <3>2. QED
      BY <1>3, <1>5, <3>1
  <2>3. QED
    BY <1>0, <1>2, <2>1, <2>2
<1>10. Written'
  BY <1>4, <1>8, <1>9 DEF Written, Slot, size, len
<1>11. QED
  BY <1>4, <1>5, <1>6, <1>7, <1>8, <1>10 DEF BData

\* The contents grow by the data of the put.
LEMMA PutPublishData ==
  ASSUME BInv, BData, PutPublish
  PROVE  /\ BData' /\ put.data # <<>> /\ put'.data = <<>> /\ UNCHANGED <<get, value>>
         /\ BShape /\ BShape' => Contents' = Contents \o put.data
<1> DEFINE n == Len(put.data)
           used == UsedBytes(nextPut, nextGet)
<1>0. /\ nextPut \in 0 .. size - 1 /\ nextGet \in 0 .. size - 1
      /\ size \in Nat /\ Capacity \in Nat /\ put.data \in Seq(Bytes) /\ n \in Nat
      /\ buffer \in [0 .. size - 1 -> Bytes] /\ used \in 0 .. size - 1
  BY BFacts
<1>1. /\ n >= 1 /\ n + used <= Capacity
      /\ \A i \in 1 .. n : buffer[Slot(nextPut + i - 1)] = put.data[i]
  BY DEF PutPublish, BInv, Putting, BData, Written
<1>2. nextPut' \in 0 .. size - 1 /\ UsedBytes(nextPut', nextGet) = used + n
  <2>1. nextPut' = IF nextPut + n >= size THEN nextPut + n - size ELSE nextPut + n
    BY DEF PutPublish, BInv, Putting
  <2> HIDE DEF n
  <2>2. QED
    BY <1>0, <1>1, <2>1, UsedGrows
<1>3. put' = NoPut /\ UNCHANGED <<nextGet, buffer, get, value>>
  BY DEF PutPublish
<1>4. put.data # <<>>
  BY <1>0, <1>1
<1>5. BData'
  <2>1. Written'
    BY <1>3 DEF Written, NoPut
  <2>2. UsedBytes(get.nextGet, nextGet)' = UsedBytes(get.nextGet, nextGet)
    BY <1>3 DEF UsedBytes, size
  <2>3. HasRead'
    BY <1>3, <2>2 DEF HasRead, BData, Slot, size
  <2>4. QED
    BY <1>0, <1>3, <2>1, <2>3 DEF BData
<1>6. ASSUME BShape, BShape' PROVE Contents' = Contents \o put.data
  <2>1. UsedBytes(nextPut, nextGet)' = used + n
    BY <1>2, <1>3 DEF UsedBytes, size
  <2>2. /\ Contents \in Seq(Bytes) /\ Len(Contents) = used
        /\ \A i \in 1 .. used : Contents[i] = buffer[Slot(nextGet + i - 1)]
    BY <1>6 DEF BShape
  <2>3. /\ Contents' \in Seq(Bytes) /\ Len(Contents') = used + n
        /\ \A i \in 1 .. used + n : Contents'[i] = buffer[Slot(nextGet + i - 1)]
    BY <1>3, <1>6, <2>1 DEF BShape, Slot, size
  <2>4. \A i \in 1 .. n : Slot(nextGet + (used + i) - 1) = Slot(nextPut + i - 1)
    <3> TAKE i \in 1 .. n
    <3>1. /\ i \in Nat \ {0} /\ used + i <= Capacity
          /\ nextGet + (used + i) - 1 = nextGet + used + i - 1
      <4> HIDE DEF used, n
      <4>1. QED
        BY <1>0, <1>1
    <3>2. QED
      BY <1>0, <3>1, SlotShift
  <2> HIDE DEF used, n
  <2>5. \A i \in 1 .. used : Contents'[i] = Contents[i]
    BY SMTT(30), <1>0, <2>2, <2>3
  <2>6. \A i \in 1 .. n : Contents'[used + i] = put.data[i]
    <3> TAKE i \in 1 .. n
    <3>1. used + i \in 1 .. used + n
      BY <1>0
    <3>2. QED
      BY <1>1, <2>3, <2>4, <3>1
  <2>7. QED
    BY <1>0, <2>2, <2>3, <2>5, <2>6, ConcatIs DEF n
<1>7. put'.data = <<>>
  BY <1>3 DEF NoPut
<1>8. QED
  BY <1>3, <1>4, <1>5, <1>6, <1>7

-----------------------------------------------------------------------------
(* The reader *)

LEMMA ReadIs ==
  ASSUME buffer \in [0 .. size - 1 -> Bytes], NEW i \in 0 .. size, NEW n \in Nat, i + n <= size
  PROVE  /\ Read(i, n) \in Seq(Bytes) /\ Len(Read(i, n)) = n
         /\ \A k \in 1 .. n : Read(i, n)[k] = buffer[i + k - 1]
<1>1. Read(i, n) = [k \in 1 .. n |-> buffer[i + k - 1]]
  BY DEF Read
<1>2. \A k \in 1 .. n : buffer[i + k - 1] \in Bytes
  <2> TAKE k \in 1 .. n
  <2>1. i + k - 1 \in 0 .. size - 1
    BY SizeType
  <2>2. QED
    BY <2>1
<1>3. Read(i, n) \in [1 .. n -> Bytes]
  BY <1>1, <1>2
<1>4. QED
  BY <1>1, <1>3, IsSeq

LEMMA GetTopData ==
  ASSUME BInv, BData, GetTop
  PROVE  BData' /\ get.pc # "idle" /\ get'.pc # "idle" /\ UNCHANGED <<nextPut, nextGet, buffer, put>>
<1> DEFINE g == nextGet
           n == Least(IF g <= get.nextPut THEN get.nextPut - g ELSE size - g, get.nbytes)
<1>0. /\ g \in 0 .. size - 1 /\ size \in Nat /\ buffer \in [0 .. size - 1 -> Bytes]
  BY BFacts
<1>1. /\ get.pc = "top" /\ get.nextGet = g
      /\ get.nextPut \in 0 .. size - 1 /\ get.nbytes \in Nat
  BY DEF GetTop, BInv, Getting, Indices
<1>2. /\ n \in Nat /\ g + n <= size
      /\ g <= get.nextPut => g + n < size
  BY <1>0, <1>1 DEF Least
<1>3. /\ value' = Read(g, n)
      /\ get' = [get EXCEPT !.nextGet = g + n,
                   !.pc = IF g > get.nextPut /\ g + n = size THEN "bottom" ELSE "publish"]
      /\ UNCHANGED <<nextPut, nextGet, buffer, put>>
  BY <1>1 DEF GetTop
<1> HIDE DEF n
<1>4. /\ value' \in Seq(Bytes) /\ Len(value') = n
      /\ \A k \in 1 .. n : value'[k] = buffer[g + k - 1]
  <2>1. g \in 0 .. size
    BY <1>0
  <2>2. QED
    BY <1>0, <1>2, <1>3, <2>1, ReadIs
<1>5. /\ get'.nextGet = g + n
      /\ get'.pc = IF g > get.nextPut /\ g + n = size THEN "bottom" ELSE "publish"
  BY <1>3 DEF BInv, Indices
<1>6. HasRead'
  <2>1. CASE g > get.nextPut /\ g + n = size
    BY <1>3, <1>4, <1>5, <2>1 DEF HasRead
  <2>2. CASE ~(g > get.nextPut /\ g + n = size)
    <3>1. g + n < size
      BY <1>0, <1>1, <1>2, <2>2
    <3>2. UsedBytes(g + n, g) = n /\ \A k \in 1 .. n : Slot(g + k - 1) = g + k - 1
      BY <1>0, <1>2, <3>1 DEF UsedBytes, Slot
    <3>3. UsedBytes(get.nextGet, nextGet)' = n
      BY <1>3, <1>5, <3>2 DEF UsedBytes, size
    <3>4. \A k \in 1 .. n : value'[k] = buffer[Slot(g + k - 1)]
      BY <1>4, <3>2
    <3>5. QED
      BY <1>3, <1>4, <1>5, <2>2, <3>3, <3>4 DEF HasRead, Slot, size
  <2>3. QED
    BY <2>1, <2>2
<1>7. Written'
  BY <1>3 DEF BData, Written, Slot, size
<1>8. QED
  BY <1>0, <1>1, <1>3, <1>5, <1>6, <1>7 DEF BData

LEMMA GetBottomData ==
  ASSUME BInv, BData, GetBottom
  PROVE  BData' /\ get.pc # "idle" /\ get'.pc # "idle" /\ UNCHANGED <<nextPut, nextGet, buffer, put>>
<1> DEFINE g == nextGet
           m == Len(value)
           left == Least(get.nbytes - m, get.nextPut)
           s == Read(0, left)
<1>0. /\ g \in 0 .. size - 1 /\ size \in Nat /\ buffer \in [0 .. size - 1 -> Bytes]
  BY BFacts
<1>1. /\ get.pc = "bottom" /\ get.nextPut \in 0 .. size - 1 /\ get.nbytes \in Nat
      /\ get.nextPut < g /\ m = size - g /\ m <= get.nbytes /\ value \in Seq(Bytes)
      /\ \A k \in 1 .. m : value[k] = buffer[g + k - 1]
  BY DEF GetBottom, BInv, Getting, Indices, BData, HasRead
<1> HIDE DEF m
<1>2. left \in Nat /\ left < g /\ m \in Nat
  BY <1>0, <1>1 DEF Least
<1>3. /\ value' = value \o s
      /\ get' = [get EXCEPT !.nextGet = left, !.pc = "publish"]
      /\ UNCHANGED <<nextPut, nextGet, buffer, put>>
  BY DEF GetBottom, m
<1> HIDE DEF left
<1>4. /\ s \in Seq(Bytes) /\ Len(s) = left
      /\ \A k \in 1 .. left : s[k] = buffer[0 + k - 1]
  <2>1. 0 \in 0 .. size /\ 0 + left <= size
    BY <1>0, <1>2
  <2>2. QED
    BY <1>0, <1>2, <2>1, ReadIs
<1> HIDE DEF s
<1>5. /\ value' \in Seq(Bytes) /\ Len(value') = m + left
      /\ \A k \in 1 .. m + left : value'[k] = IF k <= m THEN value[k] ELSE s[k - m]
  BY <1>1, <1>3, <1>4, ConcatProperties DEF m
<1>6. ASSUME NEW k \in 1 .. m + left PROVE value'[k] = buffer[Slot(g + k - 1)]
  <2>1. CASE k <= m
    <3>1. k \in 1 .. m /\ Slot(g + k - 1) = g + k - 1
      BY <1>0, <1>1, <1>2, <2>1 DEF Slot
    <3>2. QED
      BY <1>1, <1>5, <2>1, <3>1
  <2>2. CASE k > m
    <3>1. ~(k <= m) /\ k - m \in 1 .. left /\ Slot(g + k - 1) = 0 + (k - m) - 1
      BY <1>0, <1>1, <1>2, <2>2 DEF Slot
    <3>2. QED
      BY <1>4, <1>5, <3>1
  <2>3. QED
    BY <1>2, <2>1, <2>2
<1>7. get'.nextGet = left /\ get'.pc = "publish"
  BY <1>3 DEF BInv, Indices
<1>8. HasRead'
  <2>1. UsedBytes(left, g) = m + left
    BY <1>0, <1>1, <1>2 DEF UsedBytes
  <2>2. UsedBytes(get.nextGet, nextGet)' = m + left
    BY <1>3, <1>7, <2>1 DEF UsedBytes, size
  <2>3. QED
    BY <1>3, <1>5, <1>6, <1>7, <2>2 DEF HasRead, Slot, size
<1>9. Written'
  BY <1>3 DEF BData, Written, Slot, size
<1>10. QED
  BY <1>0, <1>1, <1>3, <1>7, <1>8, <1>9 DEF BData

\* What is taken out is the head of the contents; a flush returns nothing.
LEMMA GetPublishData ==
  ASSUME BInv, BData, GetPublish
  PROVE  /\ BData' /\ get.pc # "idle" /\ get'.pc = "idle" /\ UNCHANGED <<put, value>>
         /\ BShape /\ BShape' =>
              \E d \in 0 .. Len(Contents) :
                /\ Contents' = SubSeq(Contents, d + 1, Len(Contents))
                /\ value = <<>> \/ value = SubSeq(Contents, 1, d)
<1> DEFINE h == get.nextGet
           d == UsedBytes(h, nextGet)
           used == UsedBytes(nextPut, nextGet)
<1>0. /\ nextPut \in 0 .. size - 1 /\ nextGet \in 0 .. size - 1
      /\ size \in Nat /\ Capacity \in Nat
      /\ buffer \in [0 .. size - 1 -> Bytes] /\ used \in 0 .. size - 1
  BY BFacts
<1>1. get.pc = "publish" /\ h \in 0 .. size - 1 /\ d <= used /\ used <= Capacity
  BY <1>0 DEF GetPublish, BInv, Getting, Indices
<1>2. nextGet' = h /\ get' = NoGet /\ UNCHANGED <<nextPut, buffer, put, value>>
  BY DEF GetPublish
<1>3. d \in 0 .. used
  <2>1. d \in 0 .. size - 1
    BY <1>0, <1>1, UsedType
  <2> HIDE DEF d, used
  <2>2. QED
    BY <1>0, <1>1, <2>1
<1>4. UsedBytes(nextPut, h) = used - d
  BY <1>0, <1>1, UsedShrinks
<1>5. BData'
  <2>1. HasRead'
    BY <1>2 DEF HasRead, NoGet
  <2>2. Written'
    BY <1>2 DEF BData, Written, Slot, size
  <2>3. QED
    BY <1>0, <1>2, <2>1, <2>2 DEF BData
<1>6. ASSUME BShape, BShape'
      PROVE  /\ d \in 0 .. Len(Contents)
             /\ Contents' = SubSeq(Contents, d + 1, Len(Contents))
             /\ value = <<>> \/ value = SubSeq(Contents, 1, d)
  <2>1. UsedBytes(nextPut, nextGet)' = used - d
    BY <1>2, <1>4 DEF UsedBytes, size
  <2>2. /\ Contents \in Seq(Bytes) /\ Len(Contents) = used
        /\ \A i \in 1 .. used : Contents[i] = buffer[Slot(nextGet + i - 1)]
    BY <1>6 DEF BShape
  <2>3. /\ Contents' \in Seq(Bytes) /\ Len(Contents') = used - d
        /\ \A i \in 1 .. used - d : Contents'[i] = buffer[Slot(h + i - 1)]
    BY <1>2, <1>6, <2>1 DEF BShape, Slot, size
  <2>4. \A i \in 1 .. used - d : Slot(nextGet + (d + i) - 1) = Slot(h + i - 1)
    <3> TAKE i \in 1 .. used - d
    <3>1. /\ i \in Nat \ {0} /\ d + i <= Capacity
          /\ nextGet + (d + i) - 1 = nextGet + d + i - 1
      <4> HIDE DEF used, d
      <4>1. QED
        BY <1>0, <1>1, <1>3
    <3>2. QED
      BY <1>0, <1>1, <3>1, SlotShift
  <2>5. \/ value = <<>>
        \/ /\ value \in Seq(Bytes) /\ Len(value) = d
           /\ \A k \in 1 .. d : value[k] = buffer[Slot(nextGet + k - 1)]
    BY <1>1 DEF BData, HasRead
  <2> HIDE DEF used, d, h
  <2>6. Contents' = SubSeq(Contents, d + 1, used)
    <3>1. ASSUME NEW i \in 1 .. Len(Contents') PROVE Contents'[i] = Contents[d + i]
      <4>1. i \in 1 .. used - d /\ d + i \in 1 .. used
        BY <1>0, <1>3, <2>3
      <4>2. QED
        BY <2>2, <2>3, <2>4, <4>1
    <3>2. d \in 0 .. Len(Contents) /\ used \in d .. Len(Contents)
      BY <1>0, <1>3, <2>2
    <3>3. QED
      BY <2>2, <2>3, <3>1, <3>2, SubSeqIs
  <2>7. value = <<>> \/ value = SubSeq(Contents, 1, d)
    <3>1. SUFFICES ASSUME value # <<>> PROVE value = SubSeq(Contents, 1, d)
      OBVIOUS
    <3>2. /\ 0 \in 0 .. Len(Contents) /\ d \in 0 .. Len(Contents) /\ d = d - 0
      BY <1>0, <1>3, <2>2
    <3>3. \A k \in 1 .. Len(value) : value[k] = Contents[0 + k]
      <4> TAKE k \in 1 .. Len(value)
      <4>1. k \in 1 .. d /\ k \in 1 .. used /\ 0 + k = k
        BY <1>0, <1>3, <2>5, <3>1
      <4>2. QED
        BY <2>2, <2>5, <3>1, <4>1
    <3>4. value = SubSeq(Contents, 0 + 1, d)
      BY <2>2, <2>5, <3>1, <3>2, <3>3, SubSeqIs
    <3>5. 0 + 1 = 1
      OBVIOUS
    <3>6. QED
      BY <3>4, <3>5
  <2>8. QED
    BY <1>3, <2>2, <2>6, <2>7
<1>7. QED
  BY <1>1, <1>2, <1>5, <1>6 DEF NoGet

-----------------------------------------------------------------------------
(* The byte ring implements Fifo *)

LEMMA BInitData == Init => BData
BY SizeType DEF Init, BData, Written, HasRead, NoPut, NoGet

LEMMA BStepData == BInv /\ BData /\ Next => BData'
<1> SUFFICES ASSUME BInv, BData, Next PROVE BData'
  OBVIOUS
<1>1. ASSUME NEW n \in Sizes, GetBegin(n) PROVE BData'
  BY <1>1 DEF GetBegin, BData, Written, HasRead, Slot, size
<1>2. ASSUME NEW n \in Sizes, NEW data \in [1 .. n -> Bytes], PutBegin(data) PROVE BData'
  <2>1. HasRead'
    <3>1. UsedBytes(get.nextGet, nextGet)' = UsedBytes(get.nextGet, nextGet)
      BY <1>2 DEF PutBegin, UsedBytes, size
    <3>2. QED
      BY <1>2, <3>1 DEF PutBegin, BData, HasRead, Slot, size
  <2>2. Written'
    BY <1>2 DEF PutBegin, Written
  <2>3. QED
    BY <1>2, <2>1, <2>2 DEF PutBegin, BData
<1>3. CASE epicsRingBytesFlush
  BY <1>3 DEF epicsRingBytesFlush, BData, Written, HasRead, NoGet, Slot, size
<1>4. QED
  BY <1>1, <1>2, <1>3, PutTopData, PutBottomData, PutPublishData, GetTopData, GetBottomData,
     GetPublishData DEF Next

BGot == IF get.pc = "idle" THEN value ELSE <<>>

LEMMA BStepFifo ==
  ASSUME BInv, BData, BInv', BData', Next
  PROVE  F!FNext \/ UNCHANGED <<Contents, put.data, BGot>>
<1> DEFINE q == Contents
<1>0. BShape /\ BShape'
  BY BContents, BContentsNext
<1>00. q \in Seq(Bytes) /\ Len(q) = UsedBytes(nextPut, nextGet) /\ Len(q) \in Nat
  BY <1>0 DEF BShape
<1>1. ASSUME UNCHANGED <<nextPut, nextGet, buffer>> PROVE q' = q
  <2>1. Kept
    BY <1>1 DEF Kept
  <2>2. QED
    BY <1>0, <1>1, <2>1, KeptContents
<1>2. ASSUME q' = q, BGot' = <<>>, put'.data = put.data PROVE F!FNext
  <2>1. SubSeq(q, 1, 0) = <<>> /\ SubSeq(q, 0 + 1, Len(q)) = q /\ 0 \in 0 .. Len(q)
    BY <1>00
  <2> HIDE DEF q
  <2>2. QED
    BY <1>2, <2>1 DEF q, BGot, F!FNext, F!Get
<1> HIDE DEF q
<1>3. ASSUME NEW n \in Sizes, GetBegin(n) PROVE F!FNext
  BY <1>1, <1>2, <1>3 DEF GetBegin, BGot
<1>4. ASSUME NEW n \in Sizes, NEW data \in [1 .. n -> Bytes], PutBegin(data) PROVE F!FNext
  <2>1. put.data = <<>> /\ put'.data = data /\ q' = q /\ BGot' = BGot
    BY <1>1, <1>4 DEF PutBegin, BData, Written, BGot
  <2>2. n \in Nat /\ Len(data) = n /\ n >= 1
    BY <1>4, IsSeq, RingAssumption DEF PutBegin
  <2>3. n \in 1 .. Capacity - Len(q)
    <3>1. /\ nextPut \in 0 .. size - 1 /\ nextGet \in 0 .. size - 1
          /\ n <= FreeBytes(nextPut, nextGet)
      BY <1>4, <2>2, BFacts DEF PutBegin
    <3>2. FreeBytes(nextPut, nextGet) + UsedBytes(nextPut, nextGet) = Capacity
      BY BAccounting DEF Accounting
    <3>3. FreeBytes(nextPut, nextGet) \in Int /\ Capacity \in Nat
      BY <3>1, RingAssumption DEF FreeBytes, size
    <3>4. QED
      BY <1>00, <2>2, <3>1, <3>2, <3>3
  <2>4. QED
    BY <2>1, <2>3 DEF q, BGot, F!FNext, F!Begin
<1>5. CASE PutTop
  BY <1>0, <1>5, PutTopData, KeptContents DEF BGot
<1>6. CASE PutBottom
  BY <1>0, <1>6, PutBottomData, KeptContents DEF BGot
<1>7. CASE PutPublish
  <2>1. /\ put.data # <<>> /\ put'.data = <<>> /\ BGot' = BGot
        /\ Contents' = Contents \o put.data
    BY <1>0, <1>7, PutPublishData DEF BGot
  <2>2. QED
    BY <2>1 DEF BGot, F!FNext, F!Put
<1>8. CASE GetTop
  BY <1>1, <1>8, GetTopData DEF BGot, q
<1>9. CASE GetBottom
  BY <1>1, <1>9, GetBottomData DEF BGot, q
<1>10. CASE GetPublish
  <2>1. PICK d \in 0 .. Len(Contents) :
          /\ Contents' = SubSeq(Contents, d + 1, Len(Contents))
          /\ value = <<>> \/ value = SubSeq(Contents, 1, d)
    BY <1>0, <1>10, GetPublishData
  <2>2. BGot = <<>> /\ BGot' = value /\ put'.data = put.data
    BY <1>10, GetPublishData DEF BGot
  <2>3. CASE value = <<>>
    BY <2>1, <2>2, <2>3 DEF BGot, F!FNext, F!Flush
  <2>4. CASE value = SubSeq(Contents, 1, d)
    BY <2>1, <2>2, <2>4 DEF BGot, F!FNext, F!Get
  <2>5. QED
    BY <2>1, <2>3, <2>4
<1>11. CASE epicsRingBytesFlush
  BY <1>1, <1>2, <1>11 DEF epicsRingBytesFlush, BGot, NoGet
<1>12. QED
  BY <1>3, <1>4, <1>5, <1>6, <1>7, <1>8, <1>9, <1>10, <1>11 DEF Next

LEMMA BInitFifo == Init => F!FInit
<1> SUFFICES ASSUME Init PROVE F!FInit
  OBVIOUS
<1>1. UsedBytes(nextPut, nextGet) = 0 /\ put.data = <<>> /\ BGot = <<>>
  BY DEF Init, UsedBytes, BGot, NoPut, NoGet
<1>2. Contents = <<>>
  BY <1>1 DEF Contents
<1>3. QED
  BY <1>1, <1>2 DEF F!FInit, BGot

\* Every byte put is got once, in order and unchanged, for a ring of any size and puts and
\* gets of any size: the copies and the index updates of epicsRingBytesPut, Get and Flush,
\* interleaved in any way, are the steps of a FIFO.
THEOREM BytesInOrder == RingsSpec => BytesAreFifo
<1> DEFINE Inv == BInv /\ PInv /\ BData
<1>1. RingsInit => Inv /\ F!FInit
  BY BInitInv, PInitInv, BInitData, BInitFifo DEF RingsInit
<1>2. Inv /\ [RingsNext]_<<which, vars, pointerVars>> => Inv'
  <2> SUFFICES ASSUME Inv, [RingsNext]_<<which, vars, pointerVars>> PROVE Inv'
    OBVIOUS
  <2>1. BInv' /\ PInv'
    BY RingsInv
  <2>2. CASE Next
    BY <2>1, <2>2, BStepData
  <2>3. CASE UNCHANGED vars
    <3>1. UsedBytes(get.nextGet, nextGet)' = UsedBytes(get.nextGet, nextGet)
      BY <2>3 DEF vars, UsedBytes, size
    <3>2. BData'
      BY <2>3, <3>1 DEF vars, BData, Written, HasRead, Slot, size
    <3>3. QED
      BY <2>1, <3>2
  <2>4. QED
    BY <2>2, <2>3 DEF RingsNext
<1>3. Inv /\ Inv' /\ [RingsNext]_<<which, vars, pointerVars>>
        => [F!FNext]_<<Contents, put.data, BGot>>
  <2> SUFFICES ASSUME Inv, Inv', [RingsNext]_<<which, vars, pointerVars>>
               PROVE  [F!FNext]_<<Contents, put.data, BGot>>
    OBVIOUS
  <2>1. CASE Next
    BY <2>1, BStepFifo
  <2>2. CASE UNCHANGED vars
    BY <2>2 DEF vars, Contents, UsedBytes, Slot, BGot
  <2>3. QED
    BY <2>1, <2>2 DEF RingsNext
<1> HIDE DEF Inv
<1>4. QED
  BY <1>1, <1>2, <1>3, PTL DEF RingsSpec, BytesAreFifo, RefinesFifo, F!FSpec, BGot

=============================================================================
