---------------------------- MODULE RingPointer ----------------------------
(***************************************************************************)
(* The pointer ring of epicsRingPointer.h, used by one writer and one      *)
(* reader at the same time.  Created locked, as callback.c does, any       *)
(* number of threads use it one at a time: the behaviours of this module   *)
(* in which no push and pop overlap.  Every access to a volatile member is *)
(* a step of its own, except that a thread reads an index only it writes   *)
(* together with the other one.                                            *)
(***************************************************************************)
EXTENDS Integers, Sequences

CONSTANTS
  Items,  \* the pointers pushed
  Size    \* the size asked for, not zero

\* "Space is allocated for one additional element."
size == Size + 1

VARIABLES
  nextPush, nextPop, buffer,
  push,  \* the push in progress: pc and pointer
  pop,   \* the pop in progress: pc
  ret    \* what it read, or what the last pop returned

vars == <<nextPush, nextPop, buffer, push, pop, ret>>

NoPush == [pc |-> "idle", p |-> <<>>]

Init ==
  /\ nextPush = 0 /\ nextPop = 0
  /\ \E p \in Items : buffer = [i \in 0 .. size - 1 |-> p]
  /\ push = NoPush /\ pop = "idle" /\ ret = <<>>

Wrap(i) == IF i >= size THEN 0 ELSE i

\* Mutant: the additional element is used too.
PushBegin_Full(p) ==
  /\ push.pc = "idle"
  /\ push' = [pc |-> "write", p |-> <<p>>]
  /\ UNCHANGED <<nextPush, nextPop, buffer, pop, ret>>

\* "A put request is rejected if the it would cause nextPush to equal nextPop"
PushBegin(p) ==
  /\ push.pc = "idle"
  /\ Wrap(nextPush + 1) # nextPop
  /\ push' = [pc |-> "write", p |-> <<p>>]
  /\ UNCHANGED <<nextPush, nextPop, buffer, pop, ret>>

PushWrite ==
  /\ push.pc = "write"
  /\ buffer' = [buffer EXCEPT ![nextPush] = push.p[1]]
  /\ push' = [push EXCEPT !.pc = "publish"]
  /\ UNCHANGED <<nextPush, nextPop, pop, ret>>

PushPublish ==
  /\ push.pc = "publish"
  /\ nextPush' = Wrap(nextPush + 1)
  /\ push' = NoPush
  /\ UNCHANGED <<nextPop, buffer, pop, ret>>

\* An empty ring gives 0.
PopBegin ==
  /\ pop = "idle"
  /\ ret' = <<>>
  /\ pop' = IF nextPop = nextPush THEN "idle" ELSE "read"
  /\ UNCHANGED <<nextPush, nextPop, buffer, push>>

PopRead ==
  /\ pop = "read"
  /\ ret' = <<buffer[nextPop]>>
  /\ pop' = "publish"
  /\ UNCHANGED <<nextPush, nextPop, buffer, push>>

PopPublish ==
  /\ pop = "publish"
  /\ nextPop' = Wrap(nextPop + 1)
  /\ pop' = "idle"
  /\ UNCHANGED <<nextPush, buffer, push, ret>>

\* Only when no push or pop is in progress: both indices are written.
flush ==
  /\ push.pc = "idle" /\ pop = "idle"
  /\ nextPop' = 0 /\ nextPush' = 0
  /\ UNCHANGED <<buffer, push, pop, ret>>

Next ==
  \/ \E p \in Items : PushBegin(p)
  \/ PushWrite \/ PushPublish \/ PopBegin \/ PopRead \/ PopPublish \/ flush

Spec == Init /\ [][Next]_vars

-----------------------------------------------------------------------------
getFree == LET n == nextPop - nextPush - 1 IN IF n < 0 THEN n + size ELSE n
getUsed == LET n == nextPush - nextPop IN IF n < 0 THEN n + size ELSE n
isEmpty == nextPush = nextPop

isFull == LET count == nextPush - nextPop + 1 IN count = 0 \/ count = size

TypeOK ==
  /\ nextPush \in 0 .. size - 1 /\ nextPop \in 0 .. size - 1
  /\ buffer \in [0 .. size - 1 -> Items]
  /\ push.pc \in {"idle", "write", "publish"} /\ pop \in {"idle", "read", "publish"}

\* The four queries agree with each other in every state of the two indices, and
\* what they say fits the size asked for.
Counts ==
  /\ getFree + getUsed = Size
  /\ isEmpty <=> getUsed = 0
  /\ isFull <=> getFree = 0

\* the pointers in the ring, oldest first
Slot(i) == IF i >= size THEN i - size ELSE i
Contents == [i \in 1 .. getUsed |-> buffer[Slot(nextPop + i - 1)]]

\* Pointers pushed are popped once and in order while one thread pushes and another
\* pops: "does not require locking puts for a single writer or locking of gets for a
\* single reader".
F == INSTANCE Fifo WITH Elems <- Items, Capacity <- Size, q <- Contents, arg <- push.p,
                        got <- IF pop = "idle" THEN ret ELSE <<>>
RefinesFifo == F!FSpec

=============================================================================
