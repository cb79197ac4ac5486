------------------------------- MODULE Fifo -------------------------------
(***************************************************************************)
(* What a ring buffer promises: a queue of at most Capacity elements in    *)
(* which a put appends all of its data or nothing, and a get takes out the *)
(* oldest elements in order.                                               *)
(***************************************************************************)
EXTENDS Naturals, Sequences

CONSTANTS Elems, Capacity

\* contents; data of the put in progress; what the last get returned
VARIABLES q, arg, got

FInit == q = <<>> /\ arg = <<>> /\ got = <<>>

\* A put that fits begins...
Begin ==
  /\ arg = <<>>
  /\ \E n \in 1 .. Capacity - Len(q) : arg' \in [1 .. n -> Elems]
  /\ UNCHANGED <<q, got>>

\* ... and takes effect at once.
Put == arg # <<>> /\ q' = q \o arg /\ arg' = <<>> /\ UNCHANGED got

Get ==
  /\ \E n \in 0 .. Len(q) :
       got' = SubSeq(q, 1, n) /\ q' = SubSeq(q, n + 1, Len(q))
  /\ UNCHANGED arg

\* Drops what was there when it began; a put may have come since.
Flush ==
  /\ \E n \in 0 .. Len(q) : q' = SubSeq(q, n + 1, Len(q))
  /\ UNCHANGED <<arg, got>>

FNext == Begin \/ Put \/ Get \/ Flush

FSpec == FInit /\ [][FNext]_<<q, arg, got>>

=============================================================================
