----------------------------- MODULE MCDbNotify -----------------------------
(***************************************************************************)
(* Instances of DbNotify: a chain of records r1 -> r2, of which some are   *)
(* asynchronous, with two or three notifies on them.                       *)
(***************************************************************************)
EXTENDS DbNotify, TLC

CONSTANTS r1, r2, n1, n2, n3, p1, p2, p3

Chain2 == r1 :> r2 @@ r2 :> None

\* two notifies on the first record of the chain; one on the second as well
Both    == n1 :> r1 @@ n2 :> r1
Three   == n1 :> r1 @@ n2 :> r1 @@ n3 :> r2

PutTwo    == n1 :> "putProcess" @@ n2 :> "processGet"
PutThree  == n1 :> "putProcess" @@ n2 :> "process" @@ n3 :> "putProcessGet"

\* The notifies on r1 and the blocks are alike when they make the same request.
PvtSymmetry == Permutations(Pvts)

=============================================================================
