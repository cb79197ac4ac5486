----------------------------- MODULE RecordLock -----------------------------
(***************************************************************************)
(* What lock sets promise to the code that uses records.                   *)
(*                                                                         *)
(* A thread locks records and with them every record that a chain of       *)
(* database links ties to them; no other thread holds any of those; links  *)
(* are changed only by a thread that holds both ends.                      *)
(***************************************************************************)
CONSTANTS Thread, Record, None, InitLink

VARIABLES
  link,     \* the target of a record's database link, or None
  holds     \* the records a thread has locked

vars == <<link, holds>>

\* no link enters or leaves R
Closed(R) == \A r \in Record : link[r] # None => (r \in R <=> link[r] \in R)

Init ==
  /\ link = InitLink
  /\ holds = [t \in Thread |-> {}]

Acquire(t, R) ==
  /\ holds[t] = {}
  /\ Closed(R)
  /\ \A u \in Thread : holds[u] \cap R = {}
  /\ holds' = [holds EXCEPT ![t] = R]
  /\ UNCHANGED link

Release(t) ==
  /\ holds' = [holds EXCEPT ![t] = {}]
  /\ UNCHANGED link

Relink(t, r, q) ==
  /\ r \in holds[t] /\ q \in holds[t] \cup {None}
  /\ link' = [link EXCEPT ![r] = q]
  /\ UNCHANGED holds

Next ==
  \E t \in Thread :
    \/ \E R \in SUBSET Record : Acquire(t, R)
    \/ Release(t)
    \/ \E r \in Record, q \in Record \cup {None} : Relink(t, r, q)

Spec == Init /\ [][Next]_vars

=============================================================================
