------------------------------ MODULE MCRings ------------------------------
(***************************************************************************)
(* A byte ring and a pointer ring for TLC.  One of them is used: the two   *)
(* have nothing to do with each other.                                     *)
(***************************************************************************)
EXTENDS RingBytes

CONSTANTS Items, Size

ASSUME PointerAssumption == Size \in Nat \ {0}

VARIABLES
  which,  \* the ring that is used
  nextPush, nextPop, slots, push, pop, ret

P == INSTANCE RingPointer WITH buffer <- slots

pointerVars == <<nextPush, nextPop, slots, push, pop, ret>>

RingsInit == which \in {"bytes", "pointers"} /\ Init /\ P!Init

RingsNext ==
  /\ UNCHANGED which
  /\ \/ which = "bytes" /\ Next /\ UNCHANGED pointerVars
     \/ which = "pointers" /\ P!Next /\ UNCHANGED vars

RingsSpec == RingsInit /\ [][RingsNext]_<<which, vars, pointerVars>>

\* In every state of their indices the queries of the rings agree with each other
\* and with the size asked for, and no count is negative: the spare bytes and the
\* spare element keep a full ring, whatever was wrapped in it, apart from an empty one.
QueriesAgree == Accounting /\ P!Counts

\* Every byte put is got once, in order and unchanged, while one thread writes and
\* another reads.
BytesAreFifo == RefinesFifo

\* Pointers pushed are popped once and in order while one thread pushes and another
\* pops.
PointersAreFifo == P!RefinesFifo

=============================================================================
