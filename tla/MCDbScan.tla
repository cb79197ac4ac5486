------------------------------ MODULE MCDbScan ------------------------------
(***************************************************************************)
(* Instances of DbScan: a periodic list with all the records, of two       *)
(* phases, and an I/O interrupt list.                                      *)
(***************************************************************************)
EXTENDS DbScan

CONSTANTS r1, r2, r3, periodic, event

OnePeriodic == <<periodic>>
AllPeriodic == [r \in Records |-> periodic]
TwoPhases   == [r \in Records |-> IF r = r1 THEN 0 ELSE 1]

=============================================================================
