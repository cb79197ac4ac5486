------------------------------ MODULE MCDbLock ------------------------------
(***************************************************************************)
(* Instances of DbLock for TLC.                                            *)
(***************************************************************************)
EXTENDS DbLock, TLC

CONSTANTS a, b, c

\* a always points to b; b and c are linked to each other and cut off again
Chain    == [r \in Record |-> IF r = a THEN b ELSE None]
Retarget == {<<b, c>>, <<c, b>>, <<b, None>>}

ThreadSymmetry == Permutations(Thread)

=============================================================================
