----------------------------- MODULE MCDbEvent -----------------------------
(***************************************************************************)
(* Instances of DbEvent for TLC, and its refinement of Monitor.            *)
(***************************************************************************)
EXTENDS DbEvent, Sequences, TLC

\* Subscriptions of one kind, and clients, are interchangeable.
Symmetry ==
  Permutations(ValSubs) \cup Permutations(Subs \ ValSubs) \cup Permutations(Clients)

\* The slot of E that is the k-th on the way from g around the ring, and the logs
\* of these slots in this order
Rank(E, g, i)    == Cardinality({j \in E : OnTheWay(g, j, i)})
Nth(E, g, k)     == CHOOSE i \in E : Rank(E, g, i) = k
InOrder(E, g, v) == [k \in 1 .. Cardinality(E) |-> v[Nth(E, g, k)]]

\* The logs of s in its ring, from getix on
Backlog(s) == LET q == sub[s].que IN InOrder(Entries(s), getix[q], valque[q])

\* The callback of s runs and s is not cancelled by it
Running(s) ==
  tsub = s /\ (tpc = "callback" \/ (tpc = "return" /\ evUser.pSuicideEvent # s))

St   == [s \in Subs |-> IF sub[s].st = "free" THEN "closed"
                        ELSE IF sub[s].user_sub THEN "open" ELSE "draining"]
Pend == [s \in Subs |-> Backlog(s)]
Busy == [s \in Subs |-> Running(s)]
Hand == [s \in Subs |-> IF InHand(s) THEN tlog ELSE NoLog]

M == INSTANCE Monitor WITH
       Values <- 1 .. MaxVal, Ref <- RecLog, None <- NoLog,
       st <- St, pend <- Pend, busy <- Busy, hand <- Hand, got <- seen

\* The rings, shared by many subscriptions and full of cancelled placeholders,
\* give every subscription the queue and the callbacks that Monitor promises it.
RefinesMonitor == M!MSpec

=============================================================================
