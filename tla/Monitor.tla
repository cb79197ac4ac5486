------------------------------ MODULE Monitor ------------------------------
(***************************************************************************)
(* What a subscription promises, whatever shares its ring: a queue of its  *)
(* own, whose last log may be replaced by a newer one, drained in order by *)
(* callbacks that never run once the subscription is closed.               *)
(***************************************************************************)
EXTENDS Integers, Sequences

CONSTANTS Subs,     \* subscriptions
          Values,   \* values of the fields
          Ref,      \* the log that only refers to the record
          None      \* no log

VARIABLES st,    \* "closed", "open", or "draining": purged, in its last callback
          pend,  \* logs that wait
          busy,  \* the callback runs
          hand,  \* the log it is to deliver
          got    \* the value it delivered last

mvars == <<st, pend, busy, hand, got>>

MInit ==
  /\ st = [s \in Subs |-> "closed"]
  /\ pend = [s \in Subs |-> <<>>]
  /\ busy = [s \in Subs |-> FALSE]
  /\ hand = [s \in Subs |-> None]
  /\ got = [s \in Subs |-> 0]

Open(s) ==
  /\ st[s] = "closed"
  /\ st' = [st EXCEPT ![s] = "open"]
  /\ UNCHANGED <<pend, busy, hand, got>>

\* v is queued or takes the place of the newest log.  A reference that takes the
\* place of another is no step.
Post(s) ==
  /\ st[s] = "open"
  /\ pend' # pend /\ UNCHANGED <<st, busy, hand, got>>
  /\ \E v \in Values \cup {Ref} :
       LET longer   == [pend EXCEPT ![s] = Append(@, v)]
           replaced == [pend EXCEPT ![s][Len(pend[s])] = v]
       IN pend' \in IF pend[s] = <<>> THEN {longer} ELSE {longer, replaced}

StartCallback(s) ==
  /\ st[s] = "open" /\ pend[s] # <<>> /\ ~busy[s]
  /\ busy' = [busy EXCEPT ![s] = TRUE]
  /\ hand' = [hand EXCEPT ![s] = Head(pend[s])]
  /\ pend' = [pend EXCEPT ![s] = Tail(@)]
  /\ UNCHANGED <<st, got>>

Deliver(s) ==
  /\ busy[s] /\ hand[s] # None
  /\ \E v \in Values : /\ hand[s] \in {v, Ref}
                       /\ got' = [got EXCEPT ![s] = v]
  /\ hand' = [hand EXCEPT ![s] = None]
  /\ UNCHANGED <<st, pend, busy>>

EndCallback(s) ==
  /\ busy[s] /\ hand[s] = None
  /\ busy' = [busy EXCEPT ![s] = FALSE]
  /\ UNCHANGED <<st, pend, hand, got>>

\* Another thread cancels: what waits is dropped, what runs is waited for.
Drain(s) ==
  /\ st[s] = "open" /\ busy[s]
  /\ st' = [st EXCEPT ![s] = "draining"]
  /\ pend' = [pend EXCEPT ![s] = <<>>]
  /\ UNCHANGED <<busy, hand, got>>

\* Closed: by another thread while no callback runs, or by the callback itself.
Close(s) ==
  /\ st[s] # "closed"
  /\ busy[s] => st[s] = "open" /\ hand[s] = None
  /\ st' = [st EXCEPT ![s] = "closed"]
  /\ pend' = [pend EXCEPT ![s] = <<>>]
  /\ busy' = [busy EXCEPT ![s] = FALSE]
  /\ got' = [got EXCEPT ![s] = 0]
  /\ UNCHANGED hand

MNext ==
  \E s \in Subs :
    \/ Open(s) \/ StartCallback(s) \/ Deliver(s) \/ EndCallback(s)
    \/ Drain(s) \/ Close(s) \/ Post(s)

MSpec == MInit /\ [][MNext]_mvars

=============================================================================
