----------------------------- MODULE TaskProofs -----------------------------
(***************************************************************************)
(* Proofs about the tasks that process records: the scan tasks, DbScan,    *)
(* and the callback tasks, Callback.  The two are independent here: the    *)
(* scan tasks know the callback tasks by the requests they make.           *)
(*                                                                         *)
(* Scanning: type correctness, that lists and scan elements agree, that a  *)
(* walk stays on its list and that it is complete.  Callbacks:             *)
(* callbackStop returns only when every worker has left its loop, no       *)
(* worker sleeps over a callback, and type correctness, which bounds the   *)
(* rings, the counts and the late signals.  All for every value of the     *)
(* constants.                                                              *)
(***************************************************************************)
EXTENDS DbScan, Callback, ListLemmas

-----------------------------------------------------------------------------
(* Scan lists *)

\* a comes before b.
Ahead(s, a, b) == \E i, j \in 1 .. Len(s) : i < j /\ s[i] = a /\ s[j] = b

\* The range of a list is what it contains.
LEMMA InRange ==
  ASSUME NEW S, NEW q \in Seq(S)
  PROVE  /\ Range(q) \in SUBSET S
         /\ \A e : e \in Range(q) <=> Contains(q, e)
<1>1. DOMAIN q = 1 .. Len(q) /\ \A i \in 1 .. Len(q) : q[i] \in S
  BY LenProperties, ElementOfSeq
<1> QED
  BY <1>1 DEF Range, Contains

\* What is ahead of something is on the list.
LEMMA AheadOnList ==
  ASSUME NEW q, NEW a, NEW b, Ahead(q, a, b) PROVE Contains(q, a) /\ Contains(q, b)
BY DEF Ahead, Contains

\* An element joins a list: the others keep their order.
LEMMA InsertionKeeps ==
  ASSUME NEW S, NEW q \in Seq(S), NEW x \in S, NEW p \in 0 .. Len(q), NEW t \in Seq(S),
         Insertion(t, q, p, x), ~Contains(q, x)
  PROVE  /\ IsInjective(q) => IsInjective(t)
         /\ \A e : Contains(t, e) <=> Contains(q, e) \/ e = x
         /\ \A a, b : Ahead(q, a, b) => Ahead(t, a, b)
<1>1. /\ Len(q) \in Nat /\ Len(t) = Len(q) + 1 /\ p \in Nat /\ p <= Len(q)
      /\ DOMAIN q = 1 .. Len(q) /\ DOMAIN t = 1 .. Len(t)
  BY LenProperties DEF Insertion
<1>2. PICK old : old = [i \in 1 .. Len(t) |-> IF i <= p THEN i ELSE i - 1]
  OBVIOUS
<1>3. PICK new : new = [i \in 1 .. Len(q) |-> IF i <= p THEN i ELSE i + 1]
  OBVIOUS
<1>4. \A i \in 1 .. Len(t) : i # p + 1 => old[i] \in 1 .. Len(q) /\ t[i] = q[old[i]]
  BY <1>1, <1>2 DEF Insertion
<1>5. \A i, j \in 1 .. Len(t) : i # p + 1 /\ j # p + 1 /\ old[i] = old[j] => i = j
  BY <1>1, <1>2
<1>6. t[p + 1] = x /\ p + 1 \in 1 .. Len(t)
  BY <1>1 DEF Insertion
<1>7. \A i \in 1 .. Len(q) : new[i] \in 1 .. Len(t) /\ t[new[i]] = q[i]
  <2>1. SUFFICES ASSUME NEW i \in 1 .. Len(q) PROVE new[i] \in 1 .. Len(t) /\ t[new[i]] = q[i]
    OBVIOUS
  <2>2. CASE i <= p
    BY <1>1, <1>3, <2>2 DEF Insertion
  <2>3. CASE i > p
    <3>1. new[i] = i + 1 /\ i + 1 \in 1 .. Len(q) + 1 /\ i + 1 > p + 1 /\ (i + 1) - 1 = i
      BY <1>1, <1>3, <2>3
    <3>2. QED
      BY <1>1, <3>1 DEF Insertion
  <2> QED
    BY <1>1, <2>2, <2>3
<1>8. \A i, j \in 1 .. Len(q) : i < j => new[i] < new[j]
  BY <1>1, <1>3
<1>9. \A i \in 1 .. Len(q) : q[i] # x
  BY DEF Contains
<1>10. ASSUME IsInjective(q) PROVE IsInjective(t)
  <2>1. \A i, j \in 1 .. Len(q) : q[i] = q[j] => i = j
    BY <1>1, <1>10 DEF IsInjective
  <2>2. ASSUME NEW i \in 1 .. Len(t), NEW j \in 1 .. Len(t), t[i] = t[j] PROVE i = j
    <3>1. CASE i = p + 1 \/ j = p + 1
      BY <1>4, <1>6, <1>9, <2>2, <3>1
    <3>2. CASE i # p + 1 /\ j # p + 1
      BY <1>4, <1>5, <2>1, <2>2, <3>2
    <3> QED
      BY <3>1, <3>2
  <2> QED
    BY <1>1, <2>2, Zenon DEF IsInjective
<1>11. ASSUME NEW e PROVE Contains(t, e) <=> Contains(q, e) \/ e = x
  <2>1. Contains(t, e) => Contains(q, e) \/ e = x
    BY <1>4, <1>6, Zenon DEF Contains
  <2>2. Contains(q, e) \/ e = x => Contains(t, e)
    BY <1>6, <1>7, Zenon DEF Contains
  <2> QED
    BY <2>1, <2>2
<1>12. ASSUME NEW a, NEW b, Ahead(q, a, b) PROVE Ahead(t, a, b)
  BY <1>7, <1>8, <1>12, Zenon DEF Ahead
<1> QED
  BY <1>10, <1>11, <1>12

\* addToList inserts somewhere.
LEMMA AddToList ==
  ASSUME NEW q \in Seq(Records), NEW r \in Records
  PROVE  /\ Placed(q, r) \in Seq(Records)
         /\ \E p \in 0 .. Len(q) : Insertion(Placed(q, r), q, p, r)
<1>1. PICK lower : lower = {i \in 1 .. Len(q) : phas[q[i]] <= phas[r]}
  OBVIOUS
<1>2. Len(q) \in Nat
  BY LenProperties
<1>3. CASE lower = {}
  <2>1. Placed(q, r) = Append(q, r)
    BY <1>1, <1>3 DEF Placed
  <2>2. /\ Append(q, r) \in Seq(Records) /\ Len(Append(q, r)) = Len(q) + 1
        /\ \A i \in 1 .. Len(q) : Append(q, r)[i] = q[i]
        /\ Append(q, r)[Len(q) + 1] = r
    BY AppendProperties
  <2>3. Insertion(Append(q, r), q, Len(q), r)
    BY <1>2, <2>2 DEF Insertion
  <2> QED
    BY <1>2, <2>1, <2>2, <2>3
<1>4. CASE lower # {}
  <2>1. PICK m : m = Max(lower)
    OBVIOUS
  <2>2. Placed(q, r) = InsertAt(q, m + 1, r)
    BY <1>1, <1>4, <2>1 DEF Placed
  <2>3. lower \in SUBSET (0 .. Len(q))
    BY <1>1, <1>2
  <2>4. m \in 0 .. Len(q)
    BY <1>2, <1>4, <2>1, <2>3, MaxIs
  <2> QED
    BY <2>2, <2>4, ListInsert
<1> QED
  BY <1>3, <1>4

\* So a record that joins a list is on it, and the others keep their order.
LEMMA AddKeeps ==
  ASSUME NEW q \in Seq(Records), NEW r \in Records, ~Contains(q, r)
  PROVE  /\ Placed(q, r) \in Seq(Records)
         /\ IsInjective(q) => IsInjective(Placed(q, r))
         /\ \A e : Contains(Placed(q, r), e) <=> Contains(q, e) \/ e = r
         /\ \A a, b : Ahead(q, a, b) => Ahead(Placed(q, r), a, b)
<1>1. PICK t : t = Placed(q, r)
  OBVIOUS
<1>2. t \in Seq(Records)
  BY <1>1, AddToList
<1>3. PICK p \in 0 .. Len(q) : Insertion(t, q, p, r)
  BY <1>1, AddToList
<1>4. /\ IsInjective(q) => IsInjective(t)
      /\ \A e : Contains(t, e) <=> Contains(q, e) \/ e = r
      /\ \A a, b : Ahead(q, a, b) => Ahead(t, a, b)
  BY <1>2, <1>3, InsertionKeeps
<1> QED
  BY <1>1, <1>2, <1>4

\* And so do those a record leaves.
LEMMA DeleteKeeps ==
  ASSUME NEW q \in Seq(Records), NEW r, IsInjective(q), NEW a, NEW b, Ahead(q, a, b), a # r, b # r
  PROVE  Ahead(RemoveFirst(q, r), a, b)
<1>1. CASE ~Contains(q, r)
  BY <1>1, ListDelete
<1>2. CASE Contains(q, r)
  <2>1. PICK t : t = RemoveFirst(q, r)
    OBVIOUS
  <2>2. PICK p \in 1 .. Len(q) :
          /\ q[p] = r /\ Len(t) = Len(q) - 1
          /\ \A i \in 1 .. Len(q) - 1 : t[i] = IF i < p THEN q[i] ELSE q[i + 1]
    BY <1>2, <2>1, ListDelete
  <2>3. PICK i \in 1 .. Len(q), j \in 1 .. Len(q) : i < j /\ q[i] = a /\ q[j] = b
    BY DEF Ahead
  <2>4. PICK new : new = [k \in 1 .. Len(q) |-> IF k < p THEN k ELSE k - 1]
    OBVIOUS
  <2>5. Len(q) \in Nat
    BY LenProperties
  <2>6. \A k \in 1 .. Len(q) : k # p => new[k] \in 1 .. Len(t) /\ t[new[k]] = q[k]
    <3>1. SUFFICES ASSUME NEW k \in 1 .. Len(q), k # p
                   PROVE  new[k] \in 1 .. Len(t) /\ t[new[k]] = q[k]
      OBVIOUS
    <3>2. CASE k < p
      BY <2>2, <2>4, <2>5, <3>1, <3>2
    <3>3. CASE k > p
      <4>1. new[k] = k - 1 /\ k - 1 \in 1 .. Len(q) - 1 /\ ~(k - 1 < p) /\ (k - 1) + 1 = k
        BY <2>2, <2>4, <2>5, <3>3
      <4> QED
        BY <2>2, <4>1
    <3> QED
      BY <2>5, <3>1, <3>2, <3>3
  <2>7. i # p /\ j # p
    BY <2>2, <2>3
  <2>8. new[i] < new[j]
    BY <2>2, <2>3, <2>4, <2>5, <2>7
  <2>9. Ahead(t, a, b)
    BY <2>3, <2>6, <2>7, <2>8 DEF Ahead
  <2> QED
    BY <2>1, <2>9
<1> QED
  BY <1>1, <1>2

-----------------------------------------------------------------------------
(* Neighbours *)

\* What Agreement says of one list.
LEMMA OneList ==
  ASSUME ScanTypeOK, Agreement, NEW l \in Lists
  PROVE  /\ list[l] \in Seq(Records) /\ IsInjective(list[l]) /\ l # None
         /\ \A r \in Records : Contains(list[l], r) <=> pscan_list[r] = l
         /\ \A e : Contains(list[l], e) => e \in Records
<1>1. list[l] \in Seq(Records) /\ IsInjective(list[l]) /\ l # None
  BY ScanAssumption DEF ScanTypeOK, Agreement
<1>2. Range(list[l]) \in SUBSET Records /\ \A e : e \in Range(list[l]) <=> Contains(list[l], e)
  BY <1>1, InRange
<1> QED
  BY <1>1, <1>2 DEF Agreement

\* The position of an element.
LEMMA IndexIs ==
  ASSUME NEW S, NEW q \in Seq(S), IsInjective(q), NEW i \in 1 .. Len(q) PROVE Index(q, q[i]) = i
<1>1. \A j \in 1 .. Len(q) : q[j] = q[i] => j = i
  BY LenProperties DEF IsInjective
<1> QED
  BY <1>1 DEF Index

\* Being ahead is transitive.
LEMMA AheadTrans ==
  ASSUME NEW S, NEW q \in Seq(S), IsInjective(q), NEW a, NEW b, NEW c, Ahead(q, a, b), Ahead(q, b, c)
  PROVE  Ahead(q, a, c)
<1>1. PICK i \in 1 .. Len(q), j \in 1 .. Len(q) : i < j /\ q[i] = a /\ q[j] = b
  BY DEF Ahead
<1>2. PICK k \in 1 .. Len(q), m \in 1 .. Len(q) : k < m /\ q[k] = b /\ q[m] = c
  BY DEF Ahead
<1>3. j = k /\ Len(q) \in Nat
  BY <1>1, <1>2, LenProperties DEF IsInjective
<1> QED
  BY <1>1, <1>2, <1>3 DEF Ahead

\* The neighbours of the element at i.
LEMMA NeighboursAt ==
  ASSUME ScanTypeOK, Agreement, NEW l \in Lists, NEW i \in 1 .. Len(list[l])
  PROVE  /\ list[l][i] \in Records /\ pscan_list[list[l][i]] = l
         /\ ellNext(list[l][i]) = IF i = Len(list[l]) THEN None ELSE list[l][i + 1]
         /\ ellPrevious(list[l][i]) = IF i = 1 THEN None ELSE list[l][i - 1]
<1>1. PICK q : q = list[l]
  OBVIOUS
<1>2. q \in Seq(Records) /\ IsInjective(q) /\ l # None
  BY <1>1, OneList
<1>3. PICK r : r = q[i]
  OBVIOUS
<1>4. r \in Records /\ pscan_list[r] = l
  BY <1>1, <1>2, <1>3, OneList, ElementOfSeq DEF Contains
<1>5. Len(q) \in Nat \ {0} /\ i \in 1 .. Len(q) /\ DOMAIN q = 1 .. Len(q) /\ 1 \in 1 .. Len(q)
  BY <1>1, <1>2, LenProperties
<1>6. Index(q, r) = i
  BY <1>2, <1>3, <1>5, IndexIs
<1>7. Last(q) = q[Len(q)] /\ Head(q) = q[1]
  BY <1>2, <1>5 DEF Last
<1>8. (r = Last(q) <=> i = Len(q)) /\ (r = Head(q) <=> i = 1)
  <2>1. \A j, k \in 1 .. Len(q) : q[j] = q[k] => j = k
    BY <1>2, <1>5 DEF IsInjective
  <2>2. Len(q) \in 1 .. Len(q)
    BY <1>5
  <2> QED
    BY <1>3, <1>5, <1>7, <2>1, <2>2
<1>9. ellNext(r) = IF i = Len(q) THEN None ELSE q[i + 1]
  BY <1>1, <1>2, <1>4, <1>6, <1>8 DEF ellNext
<1>10. ellPrevious(r) = IF i = 1 THEN None ELSE q[i - 1]
  BY <1>1, <1>2, <1>4, <1>6, <1>8 DEF ellPrevious
<1> QED
  BY <1>1, <1>3, <1>4, <1>9, <1>10

\* The next element is on the list, behind this one, and nothing is between them.
LEMMA NextOf ==
  ASSUME ScanTypeOK, Agreement, NEW l \in Lists, NEW r \in Records, pscan_list[r] = l, NEW n, n = ellNext(r)
  PROVE  /\ n = None => \A d : ~Ahead(list[l], r, d)
         /\ n # None => /\ n \in Records /\ pscan_list[n] = l /\ ellPrevious(n) = r
                        /\ Ahead(list[l], r, n)
                        /\ \A d : Ahead(list[l], r, d) => d = n \/ Ahead(list[l], n, d)
<1>1. PICK q : q = list[l]
  OBVIOUS
<1>2. q \in Seq(Records) /\ IsInjective(q) /\ Contains(q, r) /\ Len(q) \in Nat /\ DOMAIN q = 1 .. Len(q)
  BY <1>1, OneList, LenProperties
<1>3. PICK i \in 1 .. Len(q) : q[i] = r
  BY <1>2 DEF Contains
<1>4. \A j \in 1 .. Len(q) : q[j] = r => j = i
  BY <1>2, <1>3 DEF IsInjective
<1>5. n = IF i = Len(q) THEN None ELSE q[i + 1]
  BY <1>1, <1>3, NeighboursAt
<1>6. \A d : Ahead(q, r, d) => \E j \in 1 .. Len(q) : i < j /\ q[j] = d
  BY <1>4 DEF Ahead
<1>7. CASE i = Len(q)
  <2>1. \A j \in 1 .. Len(q) : ~(i < j)
    BY <1>2, <1>7
  <2>2. n = None /\ \A d : ~Ahead(q, r, d)
    BY <1>5, <1>6, <1>7, <2>1
  <2> QED
    BY <1>1, <2>2
<1>8. CASE i # Len(q)
  <2>1. i + 1 \in 1 .. Len(q) /\ i + 1 # 1 /\ (i + 1) - 1 = i /\ i < i + 1
    <3>1. \A m \in Nat : \A k \in 1 .. m : k # m =>
            k + 1 \in 1 .. m /\ k + 1 # 1 /\ (k + 1) - 1 = k /\ k < k + 1
      OBVIOUS
    <3> QED
      BY <1>2, <1>3, <1>8, <3>1
  <2>2. n = q[i + 1]
    BY <1>5, <1>8
  <2>3. n \in Records /\ pscan_list[n] = l /\ ellPrevious(n) = r
    BY <1>1, <1>3, <2>1, <2>2, NeighboursAt
  <2>4. n # None
    BY <2>3, ScanAssumption
  <2>5. Ahead(q, r, n)
    BY <1>3, <2>1, <2>2 DEF Ahead
  <2>6. ASSUME NEW d, Ahead(q, r, d) PROVE d = n \/ Ahead(q, n, d)
    <3>1. PICK j \in 1 .. Len(q) : i < j /\ q[j] = d
      BY <1>6, <2>6
    <3>2. j = i + 1 \/ i + 1 < j
      BY <1>2, <3>1
    <3> QED
      BY <2>1, <2>2, <3>1, <3>2 DEF Ahead
  <2> QED
    BY <1>1, <2>3, <2>4, <2>5, <2>6
<1> QED
  BY <1>7, <1>8

\* The previous element is on the list, ahead of this one.
LEMMA PreviousOf ==
  ASSUME ScanTypeOK, Agreement, NEW l \in Lists, NEW r \in Records, pscan_list[r] = l,
         NEW p, p = ellPrevious(r), p # None
  PROVE  p \in Records /\ pscan_list[p] = l /\ Ahead(list[l], p, r)
<1>1. PICK q : q = list[l]
  OBVIOUS
<1>2. Contains(q, r) /\ Len(q) \in Nat
  BY <1>1, OneList, LenProperties
<1>3. PICK i \in 1 .. Len(q) : q[i] = r
  BY <1>2 DEF Contains
<1>4. p = IF i = 1 THEN None ELSE q[i - 1]
  BY <1>1, <1>3, NeighboursAt
<1>5. i # 1 /\ p = q[i - 1]
  BY <1>4
<1>6. i - 1 \in 1 .. Len(q) /\ i - 1 < i
  BY <1>2, <1>5
<1>7. p \in Records /\ pscan_list[p] = l
  BY <1>1, <1>5, <1>6, NeighboursAt
<1>8. Ahead(q, p, r)
  BY <1>3, <1>5, <1>6 DEF Ahead
<1> QED
  BY <1>1, <1>7, <1>8

\* The first element is ahead of all others.
LEMMA FirstOf ==
  ASSUME ScanTypeOK, Agreement, NEW l \in Lists, list[l] # <<>>
  PROVE  /\ Head(list[l]) \in Records /\ pscan_list[Head(list[l])] = l
         /\ ellPrevious(Head(list[l])) = None
         /\ \A d : Contains(list[l], d) => d = Head(list[l]) \/ Ahead(list[l], Head(list[l]), d)
<1>1. PICK q : q = list[l]
  OBVIOUS
<1>2. q \in Seq(Records) /\ q # <<>> /\ Len(q) \in Nat
  BY <1>1, OneList, LenProperties
<1>3. 1 \in 1 .. Len(q) /\ Head(q) = q[1]
  BY <1>2, EmptySeq
<1>4. Head(q) \in Records /\ pscan_list[Head(q)] = l /\ ellPrevious(Head(q)) = None
  BY <1>1, <1>3, NeighboursAt
<1>5. ASSUME NEW d, Contains(q, d) PROVE d = Head(q) \/ Ahead(q, Head(q), d)
  <2>1. PICK i \in 1 .. Len(q) : q[i] = d
    BY <1>5 DEF Contains
  <2>2. i = 1 \/ 1 < i
    BY <1>2, <2>1
  <2> QED
    BY <1>3, <2>1, <2>2 DEF Ahead
<1> QED
  BY <1>1, <1>4, <1>5

-----------------------------------------------------------------------------
(* Type correctness *)

\* The three parts of TypeOK: the lists, the walks, and the control.
ListType ==
  /\ list \in [Lists -> Seq(Records)] /\ modified \in [Lists -> BOOLEAN]
  /\ scan \in [Records -> Lists \cup {None}] /\ pscan_list \in [Records -> Lists \cup {None}]
  /\ gaveUp \in SUBSET Records /\ tangled \in BOOLEAN
  /\ changing \in SUBSET Records /\ puts \in 0 .. MaxPuts

WalkType ==
  /\ spc \in [Lists -> {"idle", "process", "step", "exit"}]
  /\ pse \in [Lists -> Records \cup {None}] /\ prev \in [Lists -> Records \cup {None}]
  /\ next \in [Lists -> Records \cup {None}]
  /\ was \in [Lists -> SUBSET Records] /\ due \in [Lists -> SUBSET Records]

CtlType ==
  /\ scanCtl \in Ctl /\ listCtl \in [Range(Periodic) -> Ctl]
  /\ requests \in [EventLists -> 0 .. MaxRequests]
  /\ onceQ \in Seq({"record", "exitOnce"}) /\ Len(onceQ) <= onceQueueSize
  /\ onceSem \in BOOLEAN /\ scanStartStopEvent \in BOOLEAN /\ opc \in {"wait", "get", "exit"}
  /\ runAt \in 0 .. nPeriodic /\ pauseAt \in 0 .. nPeriodic /\ stopAt \in 0 .. nPeriodic + 2

\* Together they are TypeOK.
LEMMA TypeParts == ScanTypeOK <=> ListType /\ WalkType /\ CtlType
BY DEF ScanTypeOK, ListType, WalkType, CtlType

\* And after a step.
LEMMA TypePartsNext == ScanTypeOK' <=> ListType' /\ WalkType' /\ CtlType'
BY DEF ScanTypeOK, ListType, WalkType, CtlType

\* What a step leaves alone keeps its type.
LEMMA TypeFrames ==
  ASSUME ScanTypeOK
  PROVE  /\ UNCHANGED lvars => ListType'
         /\ UNCHANGED <<wvars, gvars>> => WalkType'
         /\ UNCHANGED <<cvars, requests, ovars, scanStartStopEvent, stopAt>> => CtlType'
<1>1. ListType /\ WalkType /\ CtlType
  BY TypeParts
<1>2. UNCHANGED lvars => ListType'
  BY <1>1 DEF ListType, lvars
<1>3. UNCHANGED <<wvars, gvars>> => WalkType'
  BY <1>1 DEF WalkType, wvars, gvars
<1>4. UNCHANGED <<cvars, requests, ovars, scanStartStopEvent, stopAt>> => CtlType'
  BY <1>1 DEF CtlType, cvars, ovars
<1> QED
  BY <1>2, <1>3, <1>4

\* A neighbour is a record, or none.
LEMMA NeighbourType ==
  ASSUME ScanTypeOK, Agreement, NEW r \in Records
  PROVE  ellNext(r) \in Records \cup {None} /\ ellPrevious(r) \in Records \cup {None}
<1>1. CASE pscan_list[r] = None
  BY <1>1 DEF ellNext, ellPrevious
<1>2. CASE pscan_list[r] # None
  <2>1. PICK l \in Lists : pscan_list[r] = l
    BY <1>2, TypeParts DEF ListType
  <2>2. ellNext(r) \in Records \cup {None}
    BY <2>1, NextOf
  <2>3. ellPrevious(r) \in Records \cup {None}
    BY <2>1, PreviousOf
  <2> QED
    BY <2>2, <2>3
<1> QED
  BY <1>1, <1>2

\* A walk that moves keeps its types.
LEMMA AtType ==
  ASSUME ScanTypeOK, NEW l \in Lists, NEW r \in Records \cup {None}, NEW p \in Records \cup {None},
         NEW n \in Records \cup {None}, At(l, r, p, n),
         was' \in [Lists -> SUBSET Records], due' \in [Lists -> SUBSET Records]
  PROVE  WalkType'
<1>1. WalkType
  BY TypeParts
<1> QED
  BY <1>1 DEF WalkType, At

\* scanDelete: the record leaves its list, or stays where it is; on an I/O interrupt
\* list, if it is on one.
LEMMA scanDelete_Cases ==
  ASSUME ScanTypeOK, Agreement, NEW r \in Records, scanDelete(r)
  PROVE  \/ /\ UNCHANGED <<list, modified, pscan_list, was, due, wvars>>
            /\ gaveUp' = IF pscan_list[r] = None THEN gaveUp ELSE gaveUp \cup {r}
            /\ pscan_list[r] # None => pscan_list[r] \in IoLists
         \/ \E l \in Lists :
              /\ pscan_list[r] = l /\ gaveUp' = gaveUp \ {r}
              /\ list' = [list EXCEPT ![l] = RemoveFirst(list[l], r)]
              /\ pscan_list' = [pscan_list EXCEPT ![r] = None]
              /\ modified' = [modified EXCEPT ![l] = TRUE]
              /\ due' = [due EXCEPT ![l] = due[l] \ {r}]
              /\ was' = was /\ UNCHANGED wvars
<1>1. scan[r] \in Lists \cup {None} /\ IoLists \subseteq Lists
  BY ScanAssumption DEF ScanTypeOK, Lists
<1>2. PICK l \in Named(r) :
        \/ /\ l # None /\ pscan_list[r] = l
           /\ deleteFromList(r, l)
           /\ gaveUp' = gaveUp \ {r}
        \/ /\ l = None \/ pscan_list[r] # l
           /\ gaveUp' = IF pscan_list[r] = None THEN gaveUp ELSE gaveUp \cup {r}
           /\ UNCHANGED <<list, modified, pscan_list, due>>
  BY DEF scanDelete
<1>3. was' = was /\ UNCHANGED wvars /\ r \notin changing
  BY DEF scanDelete
<1>4. CASE l # None /\ pscan_list[r] = l /\ deleteFromList(r, l) /\ gaveUp' = gaveUp \ {r}
  <2>1. l \in Lists
    BY <1>1, <1>4 DEF Named
  <2> QED
    BY <1>3, <1>4, <2>1 DEF deleteFromList
<1>5. CASE /\ l = None \/ pscan_list[r] # l
           /\ gaveUp' = IF pscan_list[r] = None THEN gaveUp ELSE gaveUp \cup {r}
           /\ UNCHANGED <<list, modified, pscan_list, due>>
  <2>1. r \in gaveUp => pscan_list[r] \in IoLists
    BY DEF Agreement
  <2>2. r \notin gaveUp => pscan_list[r] = scan[r]
    BY <1>3 DEF Agreement
  <2>3. scan[r] \notin IoLists => l = scan[r]
    BY DEF Named
  <2>4. pscan_list[r] # None => pscan_list[r] \in IoLists
    BY <1>5, <2>1, <2>2, <2>3
  <2> QED
    BY <1>3, <1>5, <2>4
<1> QED
  BY <1>2, <1>4, <1>5

\* scanAdd: the record joins a list, which it does only from none, or nothing happens to
\* the lists.
LEMMA scanAdd_Cases ==
  ASSUME NEW r \in Records, NEW l, scanAdd(r, l)
  PROVE  \/ /\ UNCHANGED <<list, modified, pscan_list, was, due, wvars>>
            /\ l = None \/ pscan_list[r] # None
            /\ tangled' = tangled \/ pscan_list[r] # None
            /\ tangled' \in {tangled, TRUE}
         \/ /\ l # None /\ pscan_list[r] = None /\ tangled' = tangled
            /\ list' = [list EXCEPT ![l] = Placed(list[l], r)]
            /\ pscan_list' = [pscan_list EXCEPT ![r] = l]
            /\ modified' = [modified EXCEPT ![l] = TRUE]
            /\ was' = [was EXCEPT ![l] = IF spc[l] = "idle" THEN {} ELSE was[l] \cup {r}]
            /\ due' = [due EXCEPT ![l] = IF r \in was[l] THEN {} ELSE due[l]]
            /\ UNCHANGED wvars
BY DEF scanAdd, addToList, gvars

\* scanDelete keeps the types.
LEMMA scanDelete_Type ==
  ASSUME ScanTypeOK, Agreement, NEW r \in Records, scanDelete(r) PROVE ScanTypeOK'
<1>1. ListType /\ WalkType
  BY TypeParts
<1>2. CtlType'
  BY TypeFrames DEF scanDelete
<1>3. puts' \in 0 .. MaxPuts /\ changing' = changing \cup {r} /\ scan' = scan /\ tangled' = tangled
  BY <1>1, ScanAssumption DEF ListType, scanDelete
<1>4. CASE /\ UNCHANGED <<list, modified, pscan_list, was, due, wvars>>
           /\ gaveUp' = IF pscan_list[r] = None THEN gaveUp ELSE gaveUp \cup {r}
  <2>1. ListType' /\ WalkType'
    BY <1>1, <1>3, <1>4 DEF ListType, WalkType, wvars
  <2> QED
    BY <1>2, <2>1, TypePartsNext
<1>5. ASSUME NEW l \in Lists, gaveUp' = gaveUp \ {r},
             list' = [list EXCEPT ![l] = RemoveFirst(list[l], r)],
             pscan_list' = [pscan_list EXCEPT ![r] = None],
             modified' = [modified EXCEPT ![l] = TRUE],
             due' = [due EXCEPT ![l] = due[l] \ {r}],
             was' = was, UNCHANGED wvars
      PROVE  ScanTypeOK'
  <2>1. RemoveFirst(list[l], r) \in Seq(Records)
    BY OneList, ListDeleted
  <2>2. ListType'
    BY <1>1, <1>3, <1>5, <2>1 DEF ListType
  <2>3. WalkType'
    BY <1>1, <1>5 DEF WalkType, wvars
  <2> QED
    BY <1>2, <2>2, <2>3, TypePartsNext
<1> QED
  BY <1>4, <1>5, scanDelete_Cases

\* scanAdd keeps the types.
LEMMA scanAdd_Type ==
  ASSUME ScanTypeOK, Agreement, NEW r \in Records, NEW l \in Lists \cup {None}, scanAdd(r, l) PROVE ScanTypeOK'
<1>1. ListType /\ WalkType
  BY TypeParts
<1>2. CtlType'
  BY TypeFrames DEF scanAdd
<1>3. /\ scan' \in [Records -> Lists \cup {None}] /\ changing' \in SUBSET Records
      /\ puts' \in 0 .. MaxPuts /\ gaveUp' = gaveUp
  BY <1>1 DEF ListType, scanAdd
<1>4. CASE UNCHANGED <<list, modified, pscan_list, was, due, wvars>> /\ tangled' \in {tangled, TRUE}
  <2>1. ListType' /\ WalkType'
    BY <1>1, <1>3, <1>4 DEF ListType, WalkType, wvars
  <2> QED
    BY <1>2, <2>1, TypePartsNext
<1>5. CASE /\ l # None /\ tangled' = tangled
           /\ list' = [list EXCEPT ![l] = Placed(list[l], r)]
           /\ pscan_list' = [pscan_list EXCEPT ![r] = l]
           /\ modified' = [modified EXCEPT ![l] = TRUE]
           /\ was' = [was EXCEPT ![l] = IF spc[l] = "idle" THEN {} ELSE was[l] \cup {r}]
           /\ due' = [due EXCEPT ![l] = IF r \in was[l] THEN {} ELSE due[l]]
           /\ UNCHANGED wvars
  <2>1. l \in Lists /\ Placed(list[l], r) \in Seq(Records)
    BY <1>1, <1>5, AddToList DEF ListType
  <2>2. ListType'
    BY <1>1, <1>3, <1>5, <2>1 DEF ListType
  <2>3. WalkType'
    BY <1>1, <1>5, <2>1 DEF WalkType, wvars
  <2> QED
    BY <1>2, <2>2, <2>3, TypePartsNext
<1> QED
  BY <1>4, <1>5, scanAdd_Cases

\* A walk that begins keeps the types of the lists and of the walks.
LEMMA scanList_Type ==
  ASSUME ScanTypeOK, Agreement, NEW l \in Lists, scanList(l) PROVE ListType' /\ WalkType'
<1>1. ListType /\ WalkType
  BY TypeParts
<1>2. PICK f : f = IF list[l] = <<>> THEN None ELSE Head(list[l])
  OBVIOUS
<1>3. f \in Records \cup {None}
  BY <1>2, FirstOf
<1>4. After(f) \in Records \cup {None}
  BY <1>3, NeighbourType DEF After
<1>5. Range(list[l]) \in SUBSET Records
  BY <1>1, InRange DEF ListType
<1>6. was' \in [Lists -> SUBSET Records] /\ due' \in [Lists -> SUBSET Records]
  BY <1>1, <1>5 DEF WalkType, scanList
<1>7. At(l, f, None, After(f))
  BY <1>2 DEF scanList
<1>8. WalkType'
  BY <1>3, <1>4, <1>6, <1>7, AtType
<1>9. ListType'
  BY <1>1 DEF ListType, scanList
<1> QED
  BY <1>8, <1>9

\* dbProcess keeps the types.
LEMMA dbProcess_Type == ASSUME ScanTypeOK, NEW l \in Lists, dbProcess(l) PROVE ScanTypeOK'
<1>1. WalkType
  BY TypeParts
<1>2. ListType' /\ CtlType'
  BY TypeFrames DEF dbProcess
<1>3. WalkType'
  BY <1>1 DEF WalkType, dbProcess
<1> QED
  BY <1>2, <1>3, TypePartsNext

\* Where scanNext goes on: behind this element, behind the previous one, at the one
\* that was next, or nowhere.
LEMMA scanNext_Cases ==
  ASSUME ScanTypeOK, NEW l \in Lists, scanNext(l)
  PROVE  \/ /\ ~modified[l] \/ OnList(l, pse[l])
            /\ At(l, ellNext(pse[l]), pse[l], After(ellNext(pse[l]))) /\ due' = due
            /\ modified'[l] = FALSE
         \/ /\ modified[l] /\ ~OnList(l, pse[l]) /\ OnList(l, prev[l])
            /\ At(l, ellNext(prev[l]), prev[l], After(ellNext(prev[l]))) /\ due' = due
            /\ modified'[l] = FALSE
         \/ /\ modified[l] /\ ~OnList(l, pse[l]) /\ ~OnList(l, prev[l]) /\ OnList(l, next[l])
            /\ At(l, next[l], ellPrevious(next[l]), ellNext(next[l])) /\ due' = due
            /\ modified'[l] = FALSE
         \/ At(l, None, None, None) /\ due' = [due EXCEPT ![l] = {}]
<1>1. ListType
  BY TypeParts
<1>2. modified'[l] = (modified[l] /\ ~\E q \in {pse[l], prev[l], next[l]} : OnList(l, q))
  BY <1>1 DEF scanNext, ListType
<1> QED
  BY <1>2 DEF scanNext, ResumeAtNext

-----------------------------------------------------------------------------
(* The inductive invariant *)

\* The walk of l is under way.
Walking(l) == spc[l] \in {"process", "step"}

\* What a walk still owes is on the list, at its element or behind it, behind the
\* previous one, and at its element, at the next one or behind that.
Owes(l) ==
  /\ pse[l] # None
  /\ Range(list[l]) \cup ({pse[l], prev[l], next[l]} \ {None}) \subseteq was[l]
  /\ due[l] \subseteq Range(list[l])
  /\ spc[l] = "step" => pse[l] \notin due[l]
  /\ \A d \in due[l] :
       /\ OnList(l, pse[l]) => d = pse[l] \/ Ahead(list[l], pse[l], d)
       /\ OnList(l, prev[l]) => Ahead(list[l], prev[l], d)
       /\ OnList(l, next[l]) => d \in {pse[l], next[l]} \/ Ahead(list[l], next[l], d)

\* So it is for every walk; nothing is owed when none is under way.
Dues == \A l \in Lists : IF Walking(l) THEN Owes(l) ELSE due[l] = {}

\* While its list is not marked the element of a walk and its neighbours are on it.
OnIt(l) ==
  Walking(l) /\ ~modified[l] =>
    /\ pscan_list[pse[l]] = l
    /\ prev[l] = ellPrevious(pse[l]) /\ next[l] = ellNext(pse[l])

\* What WalkIsOnList says of untangled lists.
Walks == \A l \in Lists : OnItsList(l)

\* Lists get tangled only by a record that scanDelete gave up on.
Tangle == tangled => gaveUp # {}

\* The inductive invariant.  The model leaves tangled lists as they were, so that all of
\* it is kept, and what holds until then need not be said with that condition.
ScanInv == ScanTypeOK /\ Agreement /\ Walks /\ Dues /\ Tangle

\* Walks says this of every list.
LEMMA OnItIs == (Walks <=> \A l \in Lists : OnIt(l)) /\ (Walks' <=> \A l \in Lists : OnIt(l)')
BY DEF Walks, OnItsList, OnIt, Walking

\* The element of a walk in its list's lock.
LEMMA WalkElement ==
  ASSUME ScanInv, NEW l \in Lists, Walking(l)
  PROVE  /\ pse[l] \in Records /\ (OnList(l, pse[l]) <=> pscan_list[pse[l]] = l)
         /\ ~modified[l] => OnList(l, pse[l])
<1>1. ScanTypeOK /\ Owes(l) /\ OnIt(l)
  BY OnItIs DEF ScanInv, Dues
<1>2. pse[l] \in Records
  BY <1>1, TypeParts DEF Owes, WalkType
<1> QED
  BY <1>1, <1>2, ScanAssumption DEF OnIt, OnList

\* scanNext keeps the types.
LEMMA scanNext_Type == ASSUME ScanInv, NEW l \in Lists, scanNext(l) PROVE ScanTypeOK'
<1>1. ScanTypeOK /\ Agreement /\ ListType /\ WalkType
  BY TypeParts DEF ScanInv
<1>2. CtlType'
  BY <1>1, TypeFrames DEF scanNext
<1>3. ListType'
  <2>1. UNCHANGED <<list, scan, pscan_list, gaveUp, tangled, changing, puts>>
    BY DEF scanNext
  <2>2. modified' \in [Lists -> BOOLEAN]
    BY <1>1 DEF ListType, scanNext
  <2> QED
    BY <1>1, <2>1, <2>2 DEF ListType
<1>4. due' \in [Lists -> SUBSET Records]
  BY <1>1 DEF WalkType, scanNext
<1>5. was' \in [Lists -> SUBSET Records]
  BY <1>1 DEF WalkType, scanNext
<1>6. Walking(l)
  BY DEF scanNext, Walking
<1>7. pse[l] \in Records
  BY <1>6, WalkElement
<1>8. \A q \in Records \cup {None} : q # None => ellNext(q) \in Records \cup {None}
                                               /\ ellPrevious(q) \in Records \cup {None}
  BY <1>1, NeighbourType
<1>9. \A q \in Records \cup {None} : After(q) \in Records \cup {None}
  BY <1>8 DEF After
<1>10. prev[l] \in Records \cup {None} /\ next[l] \in Records \cup {None}
  BY <1>1 DEF WalkType
<1>11. pse[l] # None /\ (OnList(l, prev[l]) => prev[l] # None) /\ (OnList(l, next[l]) => next[l] # None)
  BY <1>7, ScanAssumption DEF OnList
<1>12. \E r, p, n \in Records \cup {None} : At(l, r, p, n)
  BY <1>1, <1>7, <1>8, <1>9, <1>10, <1>11, scanNext_Cases, Zenon
<1>13. WalkType'
  BY <1>1, <1>4, <1>5, <1>12, AtType
<1> QED
  BY <1>2, <1>3, <1>13, TypePartsNext

\* The tasks, the requests and the control keep the types.
LEMMA periodicTask_Type ==
  ASSUME ScanTypeOK, Agreement, NEW l \in Range(Periodic), periodicTask(l) PROVE ScanTypeOK'
<1>0. l \in Lists /\ WalkType /\ CtlType
  BY TypeParts DEF Lists
<1>1. CASE scanList(l) /\ UNCHANGED <<cvars, requests>>
  <2>1. CtlType'
    BY <1>1, TypeFrames DEF scanList
  <2> QED
    BY <1>0, <1>1, <2>1, scanList_Type, TypePartsNext
<1>2. CASE ~scanList(l)
  <2>1. /\ spc' = [spc EXCEPT ![l] = "exit"] /\ scanStartStopEvent' = TRUE
        /\ UNCHANGED <<lvars, pse, prev, next, gvars, cvars, requests, ovars, stopAt>>
    BY <1>2 DEF periodicTask, TaskExits
  <2>2. ListType'
    BY <2>1, TypeFrames
  <2>3. WalkType' /\ CtlType'
    BY <1>0, <2>1 DEF WalkType, CtlType, gvars, cvars, ovars
  <2> QED
    BY <2>2, <2>3, TypePartsNext
<1> QED
  BY <1>1, <1>2 DEF periodicTask, TaskExits

\* The same for the callbacks of a list.
LEMMA eventCallback_Type ==
  ASSUME ScanTypeOK, Agreement, NEW l \in EventLists, eventCallback(l) PROVE ScanTypeOK'
<1>0. l \in Lists /\ CtlType
  BY TypeParts DEF Lists
<1>1. ListType' /\ WalkType'
  BY <1>0, scanList_Type DEF eventCallback
<1>2. requests' \in [EventLists -> 0 .. MaxRequests]
  BY <1>0, ScanAssumption DEF CtlType, eventCallback
<1>3. UNCHANGED <<cvars, ovars, scanStartStopEvent, stopAt>>
  BY DEF eventCallback, scanList
<1>4. CtlType'
  BY <1>0, <1>2, <1>3 DEF CtlType, cvars, ovars
<1> QED
  BY <1>1, <1>4, TypePartsNext

\* The once ring has room for what Push puts on it.
LEMMA PushType ==
  ASSUME CtlType, NEW e \in {"record", "exitOnce"}, PushOnce(e)
  PROVE  onceQ' \in Seq({"record", "exitOnce"}) /\ Len(onceQ') <= onceQueueSize /\ onceSem' = TRUE
<1>1. onceQ \in Seq({"record", "exitOnce"}) /\ Len(onceQ) <= onceQueueSize /\ Len(onceQ) \in Nat
  BY LenProperties DEF CtlType
<1>2. CASE Len(onceQ) < onceQueueSize
  <2>1. onceQ' = Append(onceQ, e)
    BY <1>2 DEF PushOnce
  <2>2. Append(onceQ, e) \in Seq({"record", "exitOnce"}) /\ Len(Append(onceQ, e)) = Len(onceQ) + 1
    BY <1>1, AppendProperties
  <2> QED
    BY <1>1, <1>2, <2>1, <2>2, ScanAssumption DEF PushOnce
<1>3. CASE ~(Len(onceQ) < onceQueueSize)
  BY <1>1, <1>3 DEF PushOnce
<1> QED
  BY <1>2, <1>3

\* scanStop's loop keeps the types.
LEMMA Tell_Type ==
  ASSUME CtlType, NEW i \in 1 .. nPeriodic + 2, Tell(i)
  PROVE  /\ stopAt' \in 0 .. nPeriodic + 2 /\ listCtl' \in [Range(Periodic) -> Ctl]
         /\ onceQ' \in Seq({"record", "exitOnce"}) /\ Len(onceQ') <= onceQueueSize /\ onceSem' \in BOOLEAN
<1>1. stopAt' \in 0 .. nPeriodic + 2
  BY DEF Tell
<1>2. listCtl' \in [Range(Periodic) -> Ctl]
  BY DEF Tell, CtlType, Ctl
<1>3. onceQ' \in Seq({"record", "exitOnce"}) /\ Len(onceQ') <= onceQueueSize /\ onceSem' \in BOOLEAN
  <2>1. CASE PushOnce("exitOnce")
    BY <2>1, PushType
  <2>2. CASE UNCHANGED <<onceQ, onceSem>>
    BY <2>2 DEF CtlType
  <2> QED
    BY <2>1, <2>2 DEF Tell
<1> QED
  BY <1>1, <1>2, <1>3

\* The steps that leave lists and walks alone.
LEMMA Control_Type ==
  ASSUME ScanTypeOK,
         \/ \E l \in EventLists : postEvent(l)
         \/ scanOnce \/ onceTask \/ scanRun \/ scanPause \/ scanStop
  PROVE  ScanTypeOK' /\ UNCHANGED <<lvars, wvars, gvars>>
<1>0. CtlType
  BY TypeParts
<1>1. UNCHANGED <<lvars, wvars, gvars>>
  BY DEF postEvent, scanOnce, onceTask, scanRun, scanPause, scanStop
<1>2. ASSUME NEW l \in EventLists, postEvent(l) PROVE CtlType'
  <2>1. requests' \in [EventLists -> 0 .. MaxRequests]
    BY <1>0, <1>2, ScanAssumption DEF CtlType, postEvent
  <2> QED
    BY <1>0, <1>2, <2>1 DEF CtlType, postEvent, cvars, ovars
<1>3. ASSUME scanOnce PROVE CtlType'
  <2>1. onceQ' \in Seq({"record", "exitOnce"}) /\ Len(onceQ') <= onceQueueSize /\ onceSem' = TRUE
    BY <1>0, <1>3, PushType DEF scanOnce
  <2> QED
    BY <1>0, <1>3, <2>1 DEF CtlType, scanOnce, cvars
<1>4. ASSUME onceTask PROVE CtlType'
  <2>1. onceQ' \in Seq({"record", "exitOnce"}) /\ Len(onceQ') <= onceQueueSize
    <3>1. CASE onceQ' = onceQ
      BY <1>0, <3>1 DEF CtlType
    <3>2. CASE onceQ # <<>> /\ onceQ' = Tail(onceQ)
      <4>1. onceQ \in Seq({"record", "exitOnce"}) /\ Len(onceQ) <= onceQueueSize
        BY <1>0 DEF CtlType
      <4>2. Tail(onceQ) \in Seq({"record", "exitOnce"}) /\ Len(Tail(onceQ)) = Len(onceQ) - 1
            /\ Len(onceQ) \in Nat
        BY <3>2, <4>1, HeadTailProperties, LenProperties
      <4> QED
        BY <3>2, <4>1, <4>2, ScanAssumption
    <3> QED
      BY <1>4, <3>1, <3>2 DEF onceTask
  <2>2. onceSem' \in BOOLEAN /\ scanStartStopEvent' \in BOOLEAN /\ opc' \in {"wait", "get", "exit"}
    BY <1>0, <1>4 DEF CtlType, onceTask
  <2>3. UNCHANGED <<cvars, requests, stopAt>>
    BY <1>4 DEF onceTask
  <2> QED
    BY <1>0, <2>1, <2>2, <2>3 DEF CtlType, cvars
<1>N. nPeriodic \in Nat
  BY ScanAssumption, LenProperties DEF nPeriodic
<1>5. ASSUME scanRun \/ scanPause PROVE CtlType'
  <2>1. UNCHANGED <<requests, onceQ, onceSem, opc, scanStartStopEvent, stopAt>>
    BY <1>5 DEF scanRun, scanPause, ovars
  <2>2. CASE scanRun
    <3>1. scanCtl' \in Ctl /\ listCtl' \in [Range(Periodic) -> Ctl] /\ pauseAt' = pauseAt
      BY <1>0, <2>2 DEF CtlType, scanRun, Ctl
    <3>2. runAt' \in 0 .. nPeriodic
      BY <1>0, <1>N, <2>2 DEF CtlType, scanRun
    <3> QED
      BY <1>0, <2>1, <3>1, <3>2 DEF CtlType
  <2>3. CASE scanPause
    <3>1. \E i \in 0 .. nPeriodic : PauseAt(i)
      BY <1>0, <1>N, <2>3 DEF CtlType, scanPause
    <3>2. scanCtl' \in Ctl /\ listCtl' \in [Range(Periodic) -> Ctl] /\ pauseAt' \in 0 .. nPeriodic
      BY <1>0, <3>1 DEF CtlType, PauseAt, Ctl
    <3>3. runAt' = runAt
      BY <2>3 DEF scanPause
    <3> QED
      BY <1>0, <2>1, <3>2, <3>3 DEF CtlType
  <2> QED
    BY <1>5, <2>2, <2>3
<1>6. ASSUME scanStop PROVE CtlType'
  <2>2. PICK i \in 1 .. nPeriodic + 2 : Tell(i)
    BY <1>6, <1>N DEF scanStop
  <2>3. /\ stopAt' \in 0 .. nPeriodic + 2 /\ listCtl' \in [Range(Periodic) -> Ctl]
        /\ onceQ' \in Seq({"record", "exitOnce"}) /\ Len(onceQ') <= onceQueueSize /\ onceSem' \in BOOLEAN
    BY <1>0, <2>2, Tell_Type
  <2>4. scanStartStopEvent' \in BOOLEAN /\ scanCtl' \in Ctl /\ UNCHANGED <<requests, opc, runAt, pauseAt>>
    BY <1>0, <1>6 DEF CtlType, scanStop, Ctl
  <2> QED
    BY <1>0, <2>3, <2>4 DEF CtlType
<1>7. CtlType'
  BY <1>2, <1>3, <1>4, <1>5, <1>6
<1> QED
  BY <1>1, <1>7, TypeFrames, TypePartsNext

-----------------------------------------------------------------------------
(* Lists and scan elements agree *)

\* Agreement by what the lists contain.
LEMMA AgreeIs ==
  ASSUME ScanTypeOK'
  PROVE  Agreement' <=>
           /\ \A l \in Lists : IsInjective(list'[l])
           /\ \A r \in Records :
                /\ \A l \in Lists : Contains(list'[l], r) <=> pscan_list'[r] = l
                /\ r \in gaveUp' => pscan_list'[r] \in IoLists
                /\ r \notin gaveUp' => pscan_list'[r] = IF r \in changing' THEN None ELSE scan'[r]
<1>1. \A l \in Lists : list'[l] \in Seq(Records)
  BY TypePartsNext DEF ListType
<1>2. \A l \in Lists, r \in Records : r \in Range(list'[l]) <=> Contains(list'[l], r)
  BY <1>1, InRange
<1> QED
  BY <1>2 DEF Agreement

\* A list without a record.
LEMMA Leaves ==
  ASSUME ScanTypeOK, Agreement, NEW r \in Records, NEW l \in Lists
  PROVE  /\ IsInjective(RemoveFirst(list[l], r))
         /\ \A e : Contains(RemoveFirst(list[l], r), e) <=> Contains(list[l], e) /\ e # r
BY OneList, ListDeleted

\* A list with a record that was on none.
LEMMA Joins ==
  ASSUME ScanTypeOK, Agreement, NEW r \in Records, NEW l \in Lists, pscan_list[r] = None
  PROVE  /\ ~Contains(list[l], r) /\ IsInjective(Placed(list[l], r))
         /\ \A e : Contains(Placed(list[l], r), e) <=> Contains(list[l], e) \/ e = r
<1>1. list[l] \in Seq(Records) /\ IsInjective(list[l]) /\ l # None /\ ~Contains(list[l], r)
  BY OneList
<1> QED
  BY <1>1, AddKeeps

\* scanDelete keeps the agreement.
LEMMA scanDelete_Agree ==
  ASSUME ScanTypeOK, ScanTypeOK', Agreement, NEW r \in Records, scanDelete(r) PROVE Agreement'
<1>1. ListType
  BY TypeParts
<1>2. scan' = scan /\ changing' = changing \cup {r} /\ r \notin changing
  BY DEF scanDelete
<1>3. \A l \in Lists : IsInjective(list[l]) /\ \A t \in Records : Contains(list[l], t) <=> pscan_list[t] = l
  BY OneList
<1>4. \A t \in Records :
        /\ t \in gaveUp => pscan_list[t] \in IoLists
        /\ t \notin gaveUp => pscan_list[t] = IF t \in changing THEN None ELSE scan[t]
  BY DEF Agreement
<1>5. CASE /\ UNCHANGED <<list, pscan_list>>
           /\ gaveUp' = IF pscan_list[r] = None THEN gaveUp ELSE gaveUp \cup {r}
           /\ pscan_list[r] # None => pscan_list[r] \in IoLists
  <2>1. \A t \in Records :
          /\ t \in gaveUp' => pscan_list'[t] \in IoLists
          /\ t \notin gaveUp' => pscan_list'[t] = IF t \in changing' THEN None ELSE scan'[t]
    BY <1>2, <1>4, <1>5
  <2> QED
    BY <1>3, <1>5, <2>1, AgreeIs
<1>6. ASSUME NEW l \in Lists, pscan_list[r] = l, gaveUp' = gaveUp \ {r},
             list' = [list EXCEPT ![l] = RemoveFirst(list[l], r)],
             pscan_list' = [pscan_list EXCEPT ![r] = None]
      PROVE  Agreement'
  <2>1. /\ IsInjective(RemoveFirst(list[l], r))
        /\ \A e : Contains(RemoveFirst(list[l], r), e) <=> Contains(list[l], e) /\ e # r
    BY Leaves
  <2>2. \A m \in Lists : list'[m] = IF m = l THEN RemoveFirst(list[l], r) ELSE list[m]
    BY <1>1, <1>6 DEF ListType
  <2>3. \A t \in Records : pscan_list'[t] = IF t = r THEN None ELSE pscan_list[t]
    BY <1>1, <1>6 DEF ListType
  <2>4. \A m \in Lists : IsInjective(list'[m])
    BY <1>3, <2>1, <2>2
  <2>5. ASSUME NEW t \in Records, NEW m \in Lists PROVE Contains(list'[m], t) <=> pscan_list'[t] = m
    <3>1. m # None
      BY OneList
    <3>2. CASE m = l
      BY <1>3, <2>1, <2>2, <2>3, <3>1, <3>2
    <3>3. CASE m # l
      BY <1>3, <1>6, <2>1, <2>2, <2>3, <3>1, <3>3
    <3> QED
      BY <3>2, <3>3
  <2>6. \A t \in Records :
          /\ t \in gaveUp' => pscan_list'[t] \in IoLists
          /\ t \notin gaveUp' => pscan_list'[t] = IF t \in changing' THEN None ELSE scan'[t]
    BY <1>2, <1>4, <1>6, <2>3
  <2> QED
    BY <2>4, <2>5, <2>6, AgreeIs
<1> QED
  BY <1>5, <1>6, scanDelete_Cases

\* scanAdd keeps the agreement.
LEMMA scanAdd_Agree ==
  ASSUME ScanTypeOK, ScanTypeOK', Agreement, NEW r \in Records, NEW l \in Lists \cup {None}, scanAdd(r, l)
  PROVE  Agreement'
<1>1. ListType
  BY TypeParts
<1>2. /\ scan' = [scan EXCEPT ![r] = l] /\ changing' = changing \ {r} /\ r \in changing
      /\ gaveUp' = gaveUp
  BY DEF scanAdd
<1>3. \A m \in Lists : IsInjective(list[m]) /\ \A t \in Records : Contains(list[m], t) <=> pscan_list[t] = m
  BY OneList
<1>4. \A t \in Records :
        /\ t \in gaveUp => pscan_list[t] \in IoLists
        /\ t \notin gaveUp => pscan_list[t] = IF t \in changing THEN None ELSE scan[t]
  BY DEF Agreement
<1>5. \A t \in Records : scan'[t] = IF t = r THEN l ELSE scan[t]
  BY <1>1, <1>2 DEF ListType
<1>6. CASE UNCHANGED <<list, pscan_list>> /\ (l = None \/ pscan_list[r] # None)
  <2>1. \A t \in Records :
          /\ t \in gaveUp' => pscan_list'[t] \in IoLists
          /\ t \notin gaveUp' => pscan_list'[t] = IF t \in changing' THEN None ELSE scan'[t]
    BY <1>2, <1>4, <1>5, <1>6
  <2> QED
    BY <1>3, <1>6, <2>1, AgreeIs
<1>7. CASE /\ l # None /\ pscan_list[r] = None
           /\ list' = [list EXCEPT ![l] = Placed(list[l], r)]
           /\ pscan_list' = [pscan_list EXCEPT ![r] = l]
  <2>1. /\ l \in Lists /\ IsInjective(Placed(list[l], r))
        /\ \A e : Contains(Placed(list[l], r), e) <=> Contains(list[l], e) \/ e = r
    BY <1>7, Joins
  <2>2. \A m \in Lists : list'[m] = IF m = l THEN Placed(list[l], r) ELSE list[m]
    BY <1>1, <1>7, <2>1 DEF ListType
  <2>3. \A t \in Records : pscan_list'[t] = IF t = r THEN l ELSE pscan_list[t]
    BY <1>1, <1>7, <2>1 DEF ListType
  <2>4. \A m \in Lists : IsInjective(list'[m])
    BY <1>3, <2>1, <2>2
  <2>5. ASSUME NEW t \in Records, NEW m \in Lists PROVE Contains(list'[m], t) <=> pscan_list'[t] = m
    <3>1. m # None
      BY OneList
    <3>2. CASE m = l
      BY <1>3, <2>1, <2>2, <2>3, <3>1, <3>2
    <3>3. CASE m # l
      BY <1>3, <1>7, <2>1, <2>2, <2>3, <3>1, <3>3
    <3> QED
      BY <3>2, <3>3
  <2>6. r \notin gaveUp
    BY <1>4, <1>7, ScanAssumption DEF Lists
  <2>7. \A t \in Records :
          /\ t \in gaveUp' => pscan_list'[t] \in IoLists
          /\ t \notin gaveUp' => pscan_list'[t] = IF t \in changing' THEN None ELSE scan'[t]
    BY <1>2, <1>4, <1>5, <2>3, <2>6
  <2> QED
    BY <2>4, <2>5, <2>7, AgreeIs
<1> QED
  BY <1>6, <1>7, scanAdd_Cases

\* Steps that leave the lists alone.
LEMMA SameAgree ==
  ASSUME Agreement, UNCHANGED <<list, scan, pscan_list, gaveUp, changing>>
  PROVE  Agreement'
BY DEF Agreement

-----------------------------------------------------------------------------
(* Walks *)

\* What is due on list l, walked or not.
DuesAt(l) == IF Walking(l) THEN Owes(l) ELSE due[l] = {}

\* A step leaves the walk of l alone.
SameWalk(l) == spc'[l] = spc[l] /\ pse'[l] = pse[l] /\ prev'[l] = prev[l] /\ next'[l] = next[l]

\* The invariant of the walks, list by list.
LEMMA WalkInvIs ==
  /\ Walks /\ Dues <=> \A l \in Lists : OnIt(l) /\ DuesAt(l)
  /\ (Walks /\ Dues)' <=> \A l \in Lists : OnIt(l)' /\ DuesAt(l)'
BY OnItIs DEF Dues, DuesAt

\* The pointers of an element that stays, in a list that stays.
LEMMA NeighbourFrame ==
  ASSUME NEW l \in Lists, NEW r, pscan_list[r] = l, pscan_list'[r] = l, list'[l] = list[l]
  PROVE  ellNext(r)' = ellNext(r) /\ ellPrevious(r)' = ellPrevious(r)
BY DEF ellNext, ellPrevious

\* A walk on whose list nothing happens.
LEMMA OnItKept ==
  ASSUME NEW l \in Lists, OnIt(l), list'[l] = list[l], modified'[l] = modified[l], SameWalk(l),
         pscan_list[pse[l]] = l => pscan_list'[pse[l]] = l
  PROVE  OnIt(l)'
<1>1. SUFFICES ASSUME Walking(l), ~modified[l]
               PROVE  /\ pscan_list'[pse[l]] = l
                      /\ prev[l] = ellPrevious(pse[l])' /\ next[l] = ellNext(pse[l])'
  BY DEF OnIt, Walking, SameWalk
<1>2. PICK r : r = pse[l]
  OBVIOUS
<1>3. pscan_list[r] = l /\ prev[l] = ellPrevious(r) /\ next[l] = ellNext(r)
  BY <1>1, <1>2 DEF OnIt
<1>4. pscan_list'[r] = l /\ pse'[l] = r
  BY <1>2, <1>3 DEF SameWalk
<1>5. ellNext(r)' = ellNext(r) /\ ellPrevious(r)' = ellPrevious(r)
  BY <1>3, <1>4, NeighbourFrame
<1>6. ellNext(pse[l])' = ellNext(r)' /\ ellPrevious(pse[l])' = ellPrevious(r)'
  BY <1>4 DEF ellNext, ellPrevious
<1> QED
  BY <1>2, <1>3, <1>4, <1>5, <1>6

\* A walk keeps what it owes if no record of it that was off its list is on it now,
\* and those it owes are behind the same ones as before.
LEMMA OwesKept ==
  ASSUME NEW l \in Lists, Owes(l), SameWalk(l),
         due'[l] \in SUBSET due[l], due'[l] \subseteq Range(list'[l]),
         Range(list'[l]) \subseteq was'[l], was[l] \subseteq was'[l],
         \A x \in was[l], d \in due'[l] :
           OnList(l, x)' => OnList(l, x) /\ (Ahead(list[l], x, d) => Ahead(list'[l], x, d))
  PROVE  Owes(l)'
<1>1. spc'[l] = spc[l] /\ pse'[l] = pse[l] /\ prev'[l] = prev[l] /\ next'[l] = next[l]
  BY DEF SameWalk
<1>2. {pse[l], prev[l], next[l]} \ {None} \subseteq was[l]
  BY DEF Owes
<1>3. \A x \in {pse[l], prev[l], next[l]} : OnList(l, x)' => x \in was[l]
  BY <1>2 DEF OnList
<1>4. ASSUME NEW d \in due'[l]
      PROVE  /\ OnList(l, pse[l])' => d = pse[l] \/ Ahead(list'[l], pse[l], d)
             /\ OnList(l, prev[l])' => Ahead(list'[l], prev[l], d)
             /\ OnList(l, next[l])' => d \in {pse[l], next[l]} \/ Ahead(list'[l], next[l], d)
  <2>1. /\ OnList(l, pse[l]) => d = pse[l] \/ Ahead(list[l], pse[l], d)
        /\ OnList(l, prev[l]) => Ahead(list[l], prev[l], d)
        /\ OnList(l, next[l]) => d \in {pse[l], next[l]} \/ Ahead(list[l], next[l], d)
    BY <1>4 DEF Owes
  <2>2. PICK a, b, c : a = pse[l] /\ b = prev[l] /\ c = next[l]
    OBVIOUS
  <2>3. /\ (OnList(l, pse[l])' <=> OnList(l, a)') /\ (OnList(l, prev[l])' <=> OnList(l, b)')
        /\ (OnList(l, next[l])' <=> OnList(l, c)')
    BY <1>1, <2>2 DEF OnList
  <2> QED
    BY <1>3, <1>4, <2>1, <2>2, <2>3
<1>5. /\ pse[l] # None /\ Range(list'[l]) \cup ({pse[l], prev[l], next[l]} \ {None}) \subseteq was'[l]
      /\ spc[l] = "step" => pse[l] \notin due'[l]
  BY <1>2 DEF Owes
<1> QED
  BY <1>1, <1>4, <1>5 DEF Owes

\* Nothing happens to a walk if nothing happens on its list.
LEMMA WalkKept ==
  ASSUME NEW l \in Lists, OnIt(l), DuesAt(l), SameWalk(l), list'[l] = list[l], modified'[l] = modified[l],
         due'[l] = due[l], was'[l] = was[l], \A x : pscan_list'[x] = l <=> pscan_list[x] = l
  PROVE  OnIt(l)' /\ DuesAt(l)'
<1>1. OnIt(l)'
  BY OnItKept
<1>2. \A x : OnList(l, x)' => OnList(l, x)
  BY DEF OnList
<1>3. Owes(l) => Range(list[l]) \subseteq was[l] /\ due[l] \subseteq Range(list[l])
  BY DEF Owes
<1>4. Owes(l) => Owes(l)'
  BY <1>2, <1>3, OwesKept
<1>5. Walking(l)' <=> Walking(l)
  BY DEF Walking, SameWalk
<1> QED
  BY <1>1, <1>4, <1>5 DEF DuesAt

\* A record leaves a list.
LEMMA scanDelete_Walk ==
  ASSUME ScanInv, ScanTypeOK', NEW r \in Records, scanDelete(r) PROVE (Walks /\ Dues)'
<1>1. ScanTypeOK /\ Agreement /\ ListType /\ WalkType /\ \A m \in Lists : OnIt(m) /\ DuesAt(m)
  BY TypeParts, WalkInvIs DEF ScanInv
<1>2. CASE UNCHANGED <<list, modified, pscan_list, was, due, wvars>>
  <2>1. \A m \in Lists : SameWalk(m)
    BY <1>2 DEF wvars, SameWalk
  <2> QED
    BY <1>1, <1>2, <2>1, WalkKept, WalkInvIs
<1>3. ASSUME NEW l \in Lists, pscan_list[r] = l,
             list' = [list EXCEPT ![l] = RemoveFirst(list[l], r)],
             pscan_list' = [pscan_list EXCEPT ![r] = None],
             modified' = [modified EXCEPT ![l] = TRUE],
             due' = [due EXCEPT ![l] = due[l] \ {r}],
             was' = was, UNCHANGED wvars
      PROVE  (Walks /\ Dues)'
  <2>1. /\ pscan_list[r] = l
        /\ list' = [list EXCEPT ![l] = RemoveFirst(list[l], r)]
        /\ pscan_list' = [pscan_list EXCEPT ![r] = None]
        /\ modified' = [modified EXCEPT ![l] = TRUE]
        /\ due' = [due EXCEPT ![l] = due[l] \ {r}]
        /\ was' = was /\ UNCHANGED wvars
        /\ \A e : Contains(RemoveFirst(list[l], r), e) <=> Contains(list[l], e) /\ e # r
    BY <1>1, <1>3, Leaves
  <2>2. \A m \in Lists : SameWalk(m)
    BY <2>1 DEF wvars, SameWalk
  <2>3. ASSUME NEW m \in Lists, m # l PROVE OnIt(m)' /\ DuesAt(m)'
    <3>1. list'[m] = list[m] /\ modified'[m] = modified[m] /\ due'[m] = due[m] /\ was'[m] = was[m]
      BY <1>1, <2>1, <2>3 DEF ListType, WalkType
    <3>2. \A x : pscan_list'[x] = m <=> pscan_list[x] = m
      <4>1. m # None
        BY <1>1, OneList
      <4> QED
        BY <1>1, <2>1, <2>3, <4>1 DEF ListType
    <3> QED
      BY <1>1, <2>2, <3>1, <3>2, WalkKept
  <2>4. OnIt(l)'
    BY <1>1, <2>1 DEF OnIt, ListType
  <2>5. list'[l] = RemoveFirst(list[l], r) /\ due'[l] = due[l] \ {r} /\ was'[l] = was[l]
    BY <1>1, <2>1 DEF ListType, WalkType
  <2>6. ASSUME Owes(l) PROVE Owes(l)'
    <3>1. list[l] \in Seq(Records) /\ IsInjective(list[l]) /\ list'[l] \in Seq(Records)
      BY <1>1, OneList, TypePartsNext DEF ListType
    <3>2. \A e : e \in Range(list'[l]) <=> e \in Range(list[l]) /\ e # r
      BY <2>1, <2>5, <3>1, InRange
    <3>3. Range(list[l]) \subseteq was[l] /\ due[l] \subseteq Range(list[l])
      BY <2>6 DEF Owes
    <3>4. ASSUME NEW x \in was[l], NEW d \in due'[l], OnList(l, x)'
          PROVE  OnList(l, x) /\ (Ahead(list[l], x, d) => Ahead(list'[l], x, d))
      <4>1. x # r /\ OnList(l, x)
        <5>1. l # None /\ x \in Records
          BY <1>1, OneList DEF WalkType
        <5> QED
          BY <1>1, <2>1, <3>4, <5>1 DEF ListType, OnList
      <4>2. d # r
        BY <2>5
      <4> QED
        BY <2>5, <3>1, <4>1, <4>2, DeleteKeeps
    <3>5. /\ due'[l] \in SUBSET due[l] /\ due'[l] \subseteq Range(list'[l])
          /\ Range(list'[l]) \subseteq was'[l] /\ was[l] \subseteq was'[l]
      BY <2>5, <3>2, <3>3
    <3> QED
      BY <2>2, <2>6, <3>4, <3>5, OwesKept
  <2>7. DuesAt(l)'
    BY <1>1, <2>2, <2>5, <2>6 DEF DuesAt, Walking, SameWalk
  <2> QED
    BY <2>3, <2>4, <2>7, WalkInvIs
<1> QED
  BY <1>2, <1>3, <1>1, scanDelete_Cases

\* A record joins a list.
LEMMA scanAdd_Walk ==
  ASSUME ScanInv, ScanTypeOK', NEW r \in Records, NEW l \in Lists \cup {None}, scanAdd(r, l)
  PROVE  (Walks /\ Dues)'
<1>1. ScanTypeOK /\ Agreement /\ ListType /\ WalkType /\ \A m \in Lists : OnIt(m) /\ DuesAt(m)
  BY TypeParts, WalkInvIs DEF ScanInv
<1>2. CASE UNCHANGED <<list, modified, pscan_list, was, due, wvars>>
  <2>1. \A m \in Lists : SameWalk(m)
    BY <1>2 DEF wvars, SameWalk
  <2> QED
    BY <1>1, <1>2, <2>1, WalkKept, WalkInvIs
<1>3. CASE /\ l # None /\ pscan_list[r] = None
           /\ list' = [list EXCEPT ![l] = Placed(list[l], r)]
           /\ pscan_list' = [pscan_list EXCEPT ![r] = l]
           /\ modified' = [modified EXCEPT ![l] = TRUE]
           /\ was' = [was EXCEPT ![l] = IF spc[l] = "idle" THEN {} ELSE was[l] \cup {r}]
           /\ due' = [due EXCEPT ![l] = IF r \in was[l] THEN {} ELSE due[l]]
           /\ UNCHANGED wvars
  <2>0. l \in Lists
    BY <1>3
  <2>1. /\ pscan_list[r] = None /\ ~Contains(list[l], r)
        /\ list' = [list EXCEPT ![l] = Placed(list[l], r)]
        /\ pscan_list' = [pscan_list EXCEPT ![r] = l]
        /\ modified' = [modified EXCEPT ![l] = TRUE]
        /\ was' = [was EXCEPT ![l] = IF spc[l] = "idle" THEN {} ELSE was[l] \cup {r}]
        /\ due' = [due EXCEPT ![l] = IF r \in was[l] THEN {} ELSE due[l]]
        /\ UNCHANGED wvars
        /\ \A e : Contains(Placed(list[l], r), e) <=> Contains(list[l], e) \/ e = r
    BY <1>1, <1>3, <2>0, Joins
  <2>2. \A m \in Lists : SameWalk(m)
    BY <2>1 DEF wvars, SameWalk
  <2>3. ASSUME NEW m \in Lists, m # l PROVE OnIt(m)' /\ DuesAt(m)'
    <3>1. list'[m] = list[m] /\ modified'[m] = modified[m] /\ due'[m] = due[m] /\ was'[m] = was[m]
      BY <1>1, <2>1, <2>3 DEF ListType, WalkType
    <3>2. \A x : pscan_list'[x] = m <=> pscan_list[x] = m
      <4>1. m # None
        BY <1>1, OneList
      <4> QED
        BY <1>1, <2>1, <2>3, <4>1 DEF ListType
    <3> QED
      BY <1>1, <2>2, <3>1, <3>2, WalkKept
  <2>4. OnIt(l)'
    BY <1>1, <2>0, <2>1 DEF OnIt, ListType
  <2>5. /\ list'[l] = Placed(list[l], r) /\ due'[l] = IF r \in was[l] THEN {} ELSE due[l]
        /\ was'[l] = IF spc[l] = "idle" THEN {} ELSE was[l] \cup {r}
    BY <1>1, <2>0, <2>1 DEF ListType, WalkType
  <2>6. ASSUME Walking(l), Owes(l) PROVE Owes(l)'
    <3>1. list[l] \in Seq(Records) /\ list'[l] \in Seq(Records)
      BY <1>1, <2>0, OneList, TypePartsNext DEF ListType
    <3>2. \A e : e \in Range(list'[l]) <=> e \in Range(list[l]) \/ e = r
      BY <2>1, <2>5, <3>1, InRange
    <3>3. Range(list[l]) \subseteq was[l] /\ due[l] \subseteq Range(list[l]) /\ was'[l] = was[l] \cup {r}
      BY <2>5, <2>6 DEF Owes, Walking
    <3>4. ASSUME NEW x \in was[l], NEW d \in due'[l], OnList(l, x)'
          PROVE  OnList(l, x) /\ (Ahead(list[l], x, d) => Ahead(list'[l], x, d))
      <4>1. r \notin was[l]
        BY <2>5, <3>4
      <4>2. x # r /\ OnList(l, x)
        <5>1. x \in Records /\ x # r
          BY <1>1, <2>0, <4>1 DEF WalkType
        <5> QED
          BY <1>1, <2>1, <3>4, <5>1 DEF ListType, OnList
      <4> QED
        BY <2>1, <2>5, <3>1, <4>2, AddKeeps
    <3>5. /\ due'[l] \in SUBSET due[l] /\ due'[l] \subseteq Range(list'[l])
          /\ Range(list'[l]) \subseteq was'[l] /\ was[l] \subseteq was'[l]
      BY <2>5, <3>2, <3>3
    <3> QED
      BY <2>0, <2>2, <2>6, <3>4, <3>5, OwesKept
  <2>7. DuesAt(l)'
    BY <1>1, <2>0, <2>2, <2>5, <2>6 DEF DuesAt, Walking, SameWalk
  <2> QED
    BY <2>3, <2>4, <2>7, WalkInvIs
<1> QED
  BY <1>2, <1>3, scanAdd_Cases

\* A walk comes to r, which is on the list, with its neighbours, and nothing that is
\* due is ahead of it; or to its end, and nothing is due.
LEMMA Position ==
  ASSUME ScanTypeOK, ScanTypeOK', Agreement, NEW l \in Lists, NEW r \in Records \cup {None}, NEW p, NEW n,
         At(l, r, p, n), UNCHANGED <<list, pscan_list>>,
         r = None => due'[l] = {},
         r # None => /\ pscan_list[r] = l /\ p = ellPrevious(r) /\ n = ellNext(r)
                     /\ \A d \in due'[l] : d = r \/ Ahead(list[l], r, d)
                     /\ due'[l] \subseteq Range(list[l]) /\ Range(list[l]) \subseteq was'[l]
  PROVE  OnIt(l)' /\ DuesAt(l)'
<1>1. WalkType /\ l # None
  BY TypeParts, OneList
<1>2. CASE r = None
  <2>1. ~Walking(l)'
    BY <1>1, <1>2 DEF WalkType, At, Walking
  <2> QED
    BY <1>2, <2>1 DEF OnIt, DuesAt
<1>3. CASE r # None
  <2>1. spc'[l] = "process" /\ pse'[l] = r /\ prev'[l] = p /\ next'[l] = n /\ r \in Records
    BY <1>1, <1>3 DEF WalkType, At
  <2>2. ellNext(pse[l])' = n /\ ellPrevious(pse[l])' = p
    <3>1. ellNext(r)' = ellNext(r) /\ ellPrevious(r)' = ellPrevious(r)
      BY <1>3, NeighbourFrame
    <3>2. ellNext(pse[l])' = ellNext(r)' /\ ellPrevious(pse[l])' = ellPrevious(r)'
      BY <2>1 DEF ellNext, ellPrevious
    <3> QED
      BY <1>3, <3>1, <3>2
  <2>3. OnIt(l)'
    BY <1>3, <2>1, <2>2 DEF OnIt
  <2>4. list[l] \in Seq(Records) /\ IsInjective(list[l])
        /\ \A t \in Records : t \in Range(list[l]) <=> pscan_list[t] = l
    BY OneList, InRange
  <2>5. p # None => p \in Records /\ pscan_list[p] = l /\ Ahead(list[l], p, r)
    BY <1>3, <2>1, PreviousOf
  <2>6. n # None => /\ n \in Records /\ pscan_list[n] = l
                    /\ \A d : Ahead(list[l], r, d) => d = n \/ Ahead(list[l], n, d)
    BY <1>3, <2>1, NextOf
  <2>7. Range(list[l]) \cup ({r, p, n} \ {None}) \subseteq was'[l]
    BY <1>3, <2>1, <2>4, <2>5, <2>6
  <2>8. ASSUME NEW d \in due'[l]
        PROVE  /\ d = r \/ Ahead(list[l], r, d)
               /\ p # None => Ahead(list[l], p, d)
               /\ n # None => d \in {r, n} \/ Ahead(list[l], n, d)
    <3>1. d = r \/ Ahead(list[l], r, d)
      BY <1>3, <2>8
    <3>2. p # None => Ahead(list[l], p, d)
      BY <2>4, <2>5, <3>1, AheadTrans
    <3>3. n # None => d \in {r, n} \/ Ahead(list[l], n, d)
      BY <2>6, <3>1
    <3> QED
      BY <3>1, <3>2, <3>3
  <2>9. Owes(l)'
    BY <1>3, <2>1, <2>7, <2>8 DEF Owes, OnList
  <2>10. Walking(l)'
    BY <2>1 DEF Walking
  <2> QED
    BY <2>3, <2>9, <2>10 DEF DuesAt
<1> QED
  BY <1>2, <1>3

\* The other walks, while that of l moves.
LEMMA OtherWalks ==
  ASSUME ScanTypeOK, \A m \in Lists : OnIt(m) /\ DuesAt(m), NEW l \in Lists, UNCHANGED <<list, pscan_list>>,
         OnIt(l)' /\ DuesAt(l)',
         \A m \in Lists : m # l => /\ SameWalk(m) /\ modified'[m] = modified[m]
                                   /\ due'[m] = due[m] /\ was'[m] = was[m]
  PROVE  (Walks /\ Dues)'
<1>1. ASSUME NEW m \in Lists PROVE OnIt(m)' /\ DuesAt(m)'
  <2>1. CASE m = l
    BY <2>1
  <2>2. CASE m # l
    BY <2>2, WalkKept
  <2> QED
    BY <2>1, <2>2
<1> QED
  BY <1>1, WalkInvIs

\* The walk of l moves alone.
LEMMA AtAlone ==
  ASSUME ScanTypeOK, NEW l \in Lists, NEW r, NEW p, NEW n, At(l, r, p, n), NEW m \in Lists, m # l
  PROVE  SameWalk(m)
BY TypeParts DEF WalkType, At, SameWalk

\* A walk begins.
LEMMA scanList_Walk ==
  ASSUME ScanInv, ScanTypeOK', NEW l \in Lists, scanList(l) PROVE (Walks /\ Dues)'
<1>1. ScanTypeOK /\ Agreement /\ ListType /\ WalkType /\ \A m \in Lists : OnIt(m) /\ DuesAt(m)
  BY TypeParts, WalkInvIs DEF ScanInv
<1>2. PICK f : f = IF list[l] = <<>> THEN None ELSE Head(list[l])
  OBVIOUS
<1>3. At(l, f, None, After(f)) /\ UNCHANGED <<list, pscan_list>>
  BY <1>2 DEF scanList
<1>4. due'[l] = Range(list[l]) /\ was'[l] = Range(list[l])
  BY <1>1 DEF scanList, WalkType
<1>5. CASE list[l] = <<>>
  <2>1. f = None /\ due'[l] = {}
    BY <1>2, <1>4, <1>5 DEF Range
  <2>2. OnIt(l)' /\ DuesAt(l)'
    BY <1>1, <1>3, <2>1, Position
  <2> QED
    BY <1>1, <1>3, <2>2, AtAlone, OtherWalks DEF scanList, ListType, WalkType
<1>6. CASE list[l] # <<>>
  <2>1. /\ f = Head(list[l]) /\ f \in Records /\ pscan_list[f] = l /\ ellPrevious(f) = None
        /\ \A d : Contains(list[l], d) => d = f \/ Ahead(list[l], f, d)
    BY <1>1, <1>2, <1>6, FirstOf
  <2>2. f # None /\ After(f) = ellNext(f)
    BY <2>1, ScanAssumption DEF After
  <2>3. \A d \in due'[l] : d = f \/ Ahead(list[l], f, d)
    BY <1>1, <1>4, <2>1, InRange DEF ListType
  <2>4. OnIt(l)' /\ DuesAt(l)'
    BY <1>1, <1>3, <1>4, <2>1, <2>2, <2>3, Position
  <2> QED
    BY <1>1, <1>3, <2>4, AtAlone, OtherWalks DEF scanList, ListType, WalkType
<1> QED
  BY <1>5, <1>6

\* A record is processed.
LEMMA dbProcess_Walk ==
  ASSUME ScanInv, ScanTypeOK', NEW l \in Lists, dbProcess(l) PROVE (Walks /\ Dues)'
<1>1. ScanTypeOK /\ WalkType /\ \A m \in Lists : OnIt(m) /\ DuesAt(m)
  BY TypeParts, WalkInvIs DEF ScanInv
<1>2. /\ UNCHANGED <<list, pscan_list, modified, pse, prev, next, was>>
      /\ spc[l] = "process" /\ spc'[l] = "step" /\ due'[l] = due[l] \ {pse[l]}
  BY <1>1 DEF dbProcess, lvars, WalkType
<1>3. OnIt(l)'
  BY <1>1, <1>2 DEF OnIt, Walking, ellNext, ellPrevious
<1>4. Owes(l)
  BY <1>1, <1>2 DEF DuesAt, Walking
<1>5. Owes(l)'
  BY <1>2, <1>4 DEF Owes, OnList
<1>6. DuesAt(l)'
  BY <1>2, <1>5 DEF DuesAt, Walking
<1>7. \A m \in Lists : m # l => /\ SameWalk(m) /\ modified'[m] = modified[m]
                                /\ due'[m] = due[m] /\ was'[m] = was[m]
  BY <1>1, <1>2 DEF dbProcess, WalkType, SameWalk
<1> QED
  BY <1>1, <1>2, <1>3, <1>6, <1>7, OtherWalks

\* The walk goes on behind q, which is on the list and ahead of all that is due.
LEMMA GoesOn ==
  ASSUME ScanTypeOK, ScanTypeOK', Agreement, NEW l \in Lists, NEW q \in Records, pscan_list[q] = l,
         At(l, ellNext(q), q, After(ellNext(q))), UNCHANGED <<list, pscan_list>>, due'[l] = due[l],
         \A d \in due[l] : Ahead(list[l], q, d), due[l] \subseteq Range(list[l]),
         ellNext(q) # None => Range(list[l]) \subseteq was'[l]
  PROVE  OnIt(l)' /\ DuesAt(l)'
<1>1. PICK r : r = ellNext(q)
  OBVIOUS
<1>2. /\ r = None => \A d : ~Ahead(list[l], q, d)
      /\ r # None => /\ r \in Records /\ pscan_list[r] = l /\ ellPrevious(r) = q
                     /\ \A d : Ahead(list[l], q, d) => d = r \/ Ahead(list[l], r, d)
  BY <1>1, NextOf
<1>3. r \in Records \cup {None} /\ At(l, r, q, After(r))
  BY <1>1, <1>2
<1>4. r = None => due'[l] = {}
  BY <1>2
<1>5. r # None => /\ pscan_list[r] = l /\ q = ellPrevious(r) /\ After(r) = ellNext(r)
                  /\ \A d \in due'[l] : d = r \/ Ahead(list[l], r, d)
                  /\ due'[l] \subseteq Range(list[l]) /\ Range(list[l]) \subseteq was'[l]
  BY <1>1, <1>2 DEF After
<1> QED
  BY <1>3, <1>4, <1>5, Position

\* The walk moves to the next element.
LEMMA scanNext_Walk ==
  ASSUME ScanInv, ScanTypeOK', NEW l \in Lists, scanNext(l) PROVE (Walks /\ Dues)'
<1>1. ScanTypeOK /\ Agreement /\ ListType /\ WalkType /\ \A m \in Lists : OnIt(m) /\ DuesAt(m)
  BY TypeParts, WalkInvIs DEF ScanInv
<1>2. spc[l] = "step" /\ Walking(l) /\ UNCHANGED <<list, pscan_list>>
  BY DEF scanNext, Walking
<1>3. Owes(l)
  BY <1>1, <1>2 DEF DuesAt
<1>4. /\ Range(list[l]) \subseteq was[l] /\ due[l] \subseteq Range(list[l]) /\ pse[l] \notin due[l]
      /\ \A d \in due[l] :
           /\ OnList(l, pse[l]) => d = pse[l] \/ Ahead(list[l], pse[l], d)
           /\ OnList(l, prev[l]) => Ahead(list[l], prev[l], d)
           /\ OnList(l, next[l]) => d \in {pse[l], next[l]} \/ Ahead(list[l], next[l], d)
  BY <1>2, <1>3 DEF Owes
<1>5. was'[l] = IF spc'[l] = "idle" THEN {} ELSE was[l]
  BY <1>1 DEF scanNext, WalkType
<1>6. ASSUME NEW r, NEW p, NEW n, At(l, r, p, n) PROVE r # None => was'[l] = was[l]
  BY <1>1, <1>5, <1>6 DEF At, WalkType
<1>7. /\ pse[l] \in Records /\ (~modified[l] => OnList(l, pse[l]))
      /\ prev[l] \in Records \cup {None} /\ next[l] \in Records \cup {None}
  BY <1>1, <1>2, WalkElement DEF WalkType
<1>8. ASSUME NEW q \in Records \cup {None}, OnList(l, q), \A d \in due[l] : Ahead(list[l], q, d),
             At(l, ellNext(q), q, After(ellNext(q))), due' = due
      PROVE  OnIt(l)' /\ DuesAt(l)'
  <2>1. q \in Records /\ pscan_list[q] = l
    BY <1>8 DEF OnList
  <2>2. ellNext(q) # None => Range(list[l]) \subseteq was'[l]
    BY <1>4, <1>6, <1>8
  <2> QED
    BY <1>1, <1>2, <1>4, <1>8, <2>1, <2>2, GoesOn
<1>9. ASSUME OnList(l, next[l]), due' = due, At(l, next[l], ellPrevious(next[l]), ellNext(next[l]))
      PROVE  OnIt(l)' /\ DuesAt(l)'
  <2>1. PICK r : r = next[l]
    OBVIOUS
  <2>2. r \in Records \cup {None} /\ r # None /\ pscan_list[r] = l
    BY <1>7, <1>9, <2>1 DEF OnList
  <2>3. At(l, r, ellPrevious(r), ellNext(r)) /\ was'[l] = was[l]
    BY <1>6, <1>9, <2>1, <2>2
  <2>4. \A d \in due'[l] : d = r \/ Ahead(list[l], r, d)
    BY <1>4, <1>9, <2>1
  <2> QED
    BY <1>1, <1>2, <1>4, <1>9, <2>2, <2>3, <2>4, Position
<1>10. ASSUME At(l, None, None, None), due' = [due EXCEPT ![l] = {}]
       PROVE  OnIt(l)' /\ DuesAt(l)'
  <2>1. due'[l] = {}
    BY <1>1, <1>10 DEF WalkType
  <2> QED
    BY <1>1, <1>2, <1>10, <2>1, Position
<1>11. OnIt(l)' /\ DuesAt(l)'
  <2>1. OnList(l, pse[l]) => \A d \in due[l] : Ahead(list[l], pse[l], d)
    BY <1>4
  <2>2. OnList(l, prev[l]) => \A d \in due[l] : Ahead(list[l], prev[l], d)
    BY <1>4
  <2> QED
    BY <1>1, <1>7, <1>8, <1>9, <1>10, <2>1, <2>2, scanNext_Cases, Zenon
<1>12. ASSUME NEW m \in Lists, m # l
       PROVE  SameWalk(m) /\ modified'[m] = modified[m] /\ due'[m] = due[m] /\ was'[m] = was[m]
  <2>1. SameWalk(m)
    BY <1>1, <1>12, scanNext_Cases, AtAlone
  <2>2. modified'[m] = modified[m] /\ due'[m] = due[m] /\ was'[m] = was[m]
    BY <1>1, <1>12 DEF scanNext, ListType, WalkType
  <2> QED
    BY <2>1, <2>2
<1> QED
  BY <1>1, <1>2, <1>11, <1>12, OtherWalks

-----------------------------------------------------------------------------
(* buildScanLists *)

\* The records in the order they are found: each once.
LEMMA OrderIs ==
  /\ order \in Seq(Records) /\ Len(order) \in Nat /\ IsInjective(order)
  /\ \A r \in Records : Contains(order, r)
BY ScanAssumption, ListOfSet, LenProperties DEF order

\* f is what buildScanLists computes, for the first m records.
Builds(f, m) ==
  f = [n \in 0 .. m |-> IF n = 0 THEN [l \in Lists |-> <<>>] ELSE Added(f[n - 1], order[n])]

\* There is such a function: otherwise there were a least m without one, and one more
\* record could be added to the lists before it.
LEMMA BuildsExists == ASSUME NEW N \in Nat PROVE \E f : Builds(f, N)
<1>1. PICK T : T = {m \in Nat : ~\E f : Builds(f, m)}
  OBVIOUS
<1>2. SUFFICES ASSUME T # {} PROVE FALSE
  BY <1>1
<1>3. PICK m \in T : \A k \in T : m <= k
  BY <1>1, <1>2, LeastNat
<1>4. m \in Nat /\ ~\E f : Builds(f, m)
  BY <1>1, <1>3
<1>5. CASE m = 0
  <2>1. PICK f : f = [n \in 0 .. 0 |-> [l \in Lists |-> <<>>]]
    OBVIOUS
  <2>2. \A n \in 0 .. 0 : n = 0
    OBVIOUS
  <2>3. Builds(f, 0)
    BY <2>1, <2>2 DEF Builds
  <2> QED
    BY <1>4, <1>5, <2>3
<1>6. CASE m # 0
  <2>1. m - 1 \in Nat /\ m - 1 \notin T
    BY <1>3, <1>4, <1>6
  <2>2. PICK g : Builds(g, m - 1)
    BY <1>1, <2>1
  <2>3. PICK f : f = [n \in 0 .. m |-> IF n = m THEN Added(g[m - 1], order[m]) ELSE g[n]]
    OBVIOUS
  <2>4. ASSUME NEW n \in 0 .. m
        PROVE  f[n] = IF n = 0 THEN [l \in Lists |-> <<>>] ELSE Added(f[n - 1], order[n])
    <3>1. CASE n = m
      <4>1. n # 0 /\ n - 1 \in 0 .. m /\ n - 1 # m
        BY <1>4, <1>6, <3>1
      <4> QED
        BY <2>3, <3>1, <4>1
    <3>2. CASE n = 0
      <4>1. n # m /\ n \in 0 .. m - 1
        BY <1>4, <1>6, <3>2
      <4>2. f[n] = g[n]
        BY <2>3, <4>1
      <4> QED
        BY <2>2, <3>2, <4>1, <4>2 DEF Builds
    <3>3. CASE n # m /\ n # 0
      <4>1. n \in 0 .. m - 1 /\ n - 1 \in 0 .. m /\ n - 1 # m
        BY <1>4, <3>3
      <4>2. f[n] = g[n] /\ f[n - 1] = g[n - 1]
        BY <2>3, <3>3, <4>1
      <4> QED
        BY <2>2, <3>3, <4>1, <4>2 DEF Builds
    <3> QED
      BY <3>1, <3>2, <3>3
  <2>5. f = [n \in 0 .. m |-> f[n]]
    BY <2>3
  <2>6. Builds(f, m)
    BY <2>4, <2>5 DEF Builds
  <2> QED
    BY <1>4, <2>6
<1> QED
  BY <1>5, <1>6

\* So buildScanLists is one.
LEMMA BuildIs == Builds(buildScanLists, Len(order))
<1>1. \E f : f = [n \in 0 .. Len(order) |->
                    IF n = 0 THEN [l \in Lists |-> <<>>] ELSE Added(f[n - 1], order[n])]
  BY OrderIs, BuildsExists DEF Builds
<1> QED
  BY <1>1 DEF buildScanLists, Builds

\* The lists with the first n records: each of these is on its list, once.
Built(b, n) ==
  /\ b \in [Lists -> Seq(Records)]
  /\ \A l \in Lists :
       /\ IsInjective(b[l])
       /\ \A r \in Records : Contains(b[l], r) <=> InitScan[r] = l /\ \E k \in 1 .. n : order[k] = r

\* The next record is added.
LEMMA BuiltNext ==
  ASSUME NEW n \in 1 .. Len(order), NEW b, Built(b, n - 1) PROVE Built(Added(b, order[n]), n)
<1>1. PICK r : r = order[n]
  OBVIOUS
<1>2. r \in Records /\ n \in Nat /\ n # 0 /\ Len(order) \in Nat
  BY <1>1, OrderIs, ElementOfSeq
<1>3. \A k \in 1 .. n - 1 : order[k] # r
  <2>1. \A j, k \in 1 .. Len(order) : order[j] = order[k] => j = k
    BY OrderIs, LenProperties DEF IsInjective
  <2>2. \A k \in 1 .. n - 1 : k \in 1 .. Len(order) /\ k # n
    BY <1>2
  <2> QED
    BY <1>1, <2>1, <2>2
<1>4. \A t \in Records : (\E k \in 1 .. n : order[k] = t) <=> t = r \/ \E k \in 1 .. n - 1 : order[k] = t
  <2>1. \A k \in 1 .. n : k = n \/ k \in 1 .. n - 1
    BY <1>2
  <2>2. n \in 1 .. n /\ \A k \in 1 .. n - 1 : k \in 1 .. n
    BY <1>2
  <2> QED
    BY <1>1, <2>1, <2>2
<1>5. CASE InitScan[r] = None
  <2>1. Added(b, r) = b
    BY <1>5 DEF Added
  <2>2. \A l \in Lists : InitScan[r] # l
    BY <1>5, ScanAssumption
  <2> QED
    BY <1>1, <1>4, <2>1, <2>2 DEF Built
<1>6. CASE InitScan[r] # None
  <2>1. PICK l \in Lists : InitScan[r] = l
    BY <1>2, <1>6, ScanAssumption
  <2>2. PICK c : c = Added(b, r)
    OBVIOUS
  <2>3. c = [b EXCEPT ![l] = Placed(b[l], r)]
    BY <1>6, <2>1, <2>2 DEF Added
  <2>4. b \in [Lists -> Seq(Records)] /\ b[l] \in Seq(Records) /\ IsInjective(b[l]) /\ ~Contains(b[l], r)
    BY <1>2, <1>3 DEF Built
  <2>5. /\ Placed(b[l], r) \in Seq(Records) /\ IsInjective(Placed(b[l], r))
        /\ \A e : Contains(Placed(b[l], r), e) <=> Contains(b[l], e) \/ e = r
    BY <1>2, <2>4, AddKeeps
  <2>6. c \in [Lists -> Seq(Records)]
    BY <2>3, <2>4, <2>5
  <2>7. \A m \in Lists : c[m] = IF m = l THEN Placed(b[l], r) ELSE b[m]
    BY <2>3, <2>4
  <2>8. ASSUME NEW m \in Lists
        PROVE  /\ IsInjective(c[m])
               /\ \A t \in Records : Contains(c[m], t) <=> InitScan[t] = m /\ \E k \in 1 .. n : order[k] = t
    <3>1. /\ IsInjective(b[m])
          /\ \A t \in Records :
               Contains(b[m], t) <=> InitScan[t] = m /\ \E k \in 1 .. n - 1 : order[k] = t
      BY DEF Built
    <3>2. CASE m = l
      <4>1. c[m] = Placed(b[l], r)
        BY <2>7, <3>2
      <4> QED
        BY <1>4, <2>1, <2>5, <3>1, <3>2, <4>1
    <3>3. CASE m # l
      <4>1. c[m] = b[m]
        BY <2>7, <3>3
      <4> QED
        BY <1>4, <2>1, <3>1, <3>3, <4>1
    <3> QED
      BY <3>2, <3>3
  <2>9. Built(c, n)
    BY <2>6, <2>8 DEF Built
  <2> QED
    BY <1>1, <2>2, <2>9
<1> QED
  BY <1>5, <1>6

\* In the end all are.
LEMMA BuiltAll == Built(buildScanLists[Len(order)], Len(order))
<1>0. PICK N : N = Len(order)
  OBVIOUS
<1>1. N \in Nat
  BY <1>0, OrderIs
<1>2. \A n \in 0 .. N :
        buildScanLists[n] = IF n = 0 THEN [l \in Lists |-> <<>>] ELSE Added(buildScanLists[n - 1], order[n])
  BY <1>0, BuildIs DEF Builds
<1>3. PICK T : T = {n \in 0 .. N : ~Built(buildScanLists[n], n)}
  OBVIOUS
<1>4. SUFFICES ASSUME T # {} PROVE FALSE
  BY <1>0, <1>1, <1>3
<1>5. T \in SUBSET Nat
  BY <1>1, <1>3
<1>6. PICK m \in T : \A k \in T : m <= k
  BY <1>4, <1>5, LeastNat
<1>7. m \in 0 .. N /\ ~Built(buildScanLists[m], m)
  BY <1>3, <1>6
<1>8. CASE m = 0
  <2>1. buildScanLists[0] = [l \in Lists |-> <<>>]
    BY <1>2, <1>7, <1>8
  <2>2. \A t : ~\E k \in 1 .. 0 : order[k] = t
    OBVIOUS
  <2>3. <<>> \in Seq(Records) /\ IsInjective(<<>>) /\ \A t : ~Contains(<<>>, t)
    BY DEF IsInjective, Contains
  <2>4. Built(buildScanLists[0], 0)
    BY <2>1, <2>2, <2>3 DEF Built
  <2> QED
    BY <1>7, <1>8, <2>4
<1>9. CASE m # 0
  <2>1. m - 1 \in 0 .. N /\ m \in 1 .. N /\ ~(m <= m - 1)
    BY <1>1, <1>7, <1>9
  <2>2. Built(buildScanLists[m - 1], m - 1)
    BY <1>3, <1>6, <2>1
  <2>3. buildScanLists[m] = Added(buildScanLists[m - 1], order[m])
    BY <1>2, <1>7, <1>9
  <2>4. Built(buildScanLists[m], m)
    BY <1>0, <2>1, <2>2, <2>3, BuiltNext
  <2> QED
    BY <1>7, <2>4
<1> QED
  BY <1>8, <1>9

-----------------------------------------------------------------------------
(* Theorems *)

\* The initial states.
LEMMA ScanInvInit == ScanInit => ScanInv
<1> SUFFICES ASSUME ScanInit PROVE ScanInv
  OBVIOUS
<1>1. /\ list \in [Lists -> Seq(Records)]
      /\ \A l \in Lists : IsInjective(list[l]) /\ \A r \in Records : Contains(list[l], r) <=> InitScan[r] = l
  <2>1. Built(list, Len(order))
    BY BuiltAll DEF ScanInit
  <2>2. \A r \in Records : \E k \in 1 .. Len(order) : order[k] = r
    BY OrderIs DEF Contains
  <2> QED
    BY <2>1, <2>2 DEF Built
<1>2. nPeriodic \in Nat
  BY ScanAssumption, LenProperties DEF nPeriodic
<1>3. ListType
  <2>1. /\ modified \in [Lists -> BOOLEAN] /\ gaveUp \in SUBSET Records /\ tangled \in BOOLEAN
        /\ changing \in SUBSET Records
    BY DEF ScanInit
  <2>2. /\ puts \in 0 .. MaxPuts
        /\ scan \in [Records -> Lists \cup {None}] /\ pscan_list \in [Records -> Lists \cup {None}]
    BY ScanAssumption DEF ScanInit
  <2> QED
    BY <1>1, <2>1, <2>2 DEF ListType
<1>4. WalkType
  BY DEF ScanInit, WalkType
<1>5. CtlType
  <2>1. onceQ \in Seq({"record", "exitOnce"}) /\ Len(onceQ) <= onceQueueSize
    BY ScanAssumption, EmptySeq DEF ScanInit
  <2>2. requests \in [EventLists -> 0 .. MaxRequests]
    BY ScanAssumption DEF ScanInit
  <2>3. runAt \in 0 .. nPeriodic /\ pauseAt \in 0 .. nPeriodic /\ stopAt \in 0 .. nPeriodic + 2
    BY <1>2 DEF ScanInit
  <2> QED
    BY <2>1, <2>2, <2>3 DEF ScanInit, CtlType, Ctl
<1>6. ScanTypeOK
  BY <1>3, <1>4, <1>5, TypeParts
<1>7. Agreement
  <2>1. \A l \in Lists, r \in Records : r \in Range(list[l]) <=> Contains(list[l], r)
    BY <1>1, InRange
  <2> QED
    BY <1>1, <2>1 DEF Agreement, ScanInit
<1>8. Walks /\ Dues /\ Tangle
  BY DEF Walks, OnItsList, Dues, Walking, Tangle, ScanInit
<1> QED
  BY <1>6, <1>7, <1>8 DEF ScanInv

\* A step of a walk leaves the lists alone.
LEMMA WalkAgree ==
  ASSUME Agreement, NEW l, scanList(l) \/ dbProcess(l) \/ scanNext(l) PROVE Agreement'
BY SameAgree DEF scanList, dbProcess, scanNext, lvars

\* A walk on which nothing happens, of a task that ends too.
LEMMA TaskEnds ==
  ASSUME ScanInv, NEW l \in Lists, ~Walking(l), ~Walking(l)', UNCHANGED <<lvars, pse, prev, next, gvars>>,
         \A m \in Lists : m # l => spc'[m] = spc[m]
  PROVE  (Walks /\ Dues)'
<1>1. \A m \in Lists : OnIt(m) /\ DuesAt(m)
  BY WalkInvIs DEF ScanInv
<1>2. OnIt(l)' /\ DuesAt(l)'
  BY <1>1 DEF OnIt, DuesAt, gvars
<1>3. \A m \in Lists : m # l => /\ SameWalk(m) /\ modified'[m] = modified[m]
                                /\ due'[m] = due[m] /\ was'[m] = was[m]
  BY DEF SameWalk, lvars, gvars
<1> QED
  BY <1>1, <1>2, <1>3, OtherWalks DEF ScanInv, lvars

\* A record scanDelete gave up on is the only one that is on a list when it is added.
LEMMA TangleNext == ScanInv /\ [ScanNext]_scanVars => Tangle'
<1> SUFFICES ASSUME ScanInv, [ScanNext]_scanVars PROVE Tangle'
  OBVIOUS
<1>1. ASSUME UNCHANGED <<gaveUp, tangled>> PROVE Tangle'
  BY <1>1 DEF ScanInv, Tangle
<1>2. ASSUME NEW r \in Records, scanDelete(r) PROVE Tangle'
  <2>1. ~tangled /\ tangled' = tangled
    BY <1>2 DEF scanDelete
  <2> QED
    BY <2>1 DEF Tangle
<1>3. ASSUME NEW r \in Records, NEW l \in Lists \cup {None}, scanAdd(r, l) PROVE Tangle'
  <2>1. gaveUp' = gaveUp /\ r \in changing /\ (r \notin gaveUp => pscan_list[r] = None)
    BY <1>3 DEF scanAdd, ScanInv, Agreement
  <2>2. tangled' = tangled \/ pscan_list[r] # None
    BY <1>3, scanAdd_Cases
  <2> QED
    BY <2>1, <2>2 DEF ScanInv, Tangle
<1>4. ASSUME NEW l, scanList(l) \/ dbProcess(l) \/ scanNext(l) PROVE UNCHANGED <<gaveUp, tangled>>
  BY <1>4 DEF scanList, dbProcess, scanNext, lvars
<1>5. ASSUME NEW l \in Lists, Walk(l) \/ periodicTask(l) \/ eventCallback(l)
      PROVE  UNCHANGED <<gaveUp, tangled>>
  BY <1>4, <1>5 DEF Walk, periodicTask, TaskExits, eventCallback, lvars
<1>6. CASE \/ \E l \in EventLists : postEvent(l)
           \/ scanOnce \/ onceTask \/ scanRun \/ scanPause \/ scanStop
  BY <1>1, <1>6 DEF postEvent, scanOnce, onceTask, scanRun, scanPause, scanStop, lvars
<1>7. CASE UNCHANGED scanVars
  BY <1>1, <1>7 DEF scanVars, lvars
<1> QED
  BY <1>1, <1>2, <1>3, <1>5, <1>6, <1>7 DEF ScanNext, Lists

\* Every step keeps the invariant.
LEMMA ScanInvNext == ScanInv /\ [ScanNext]_scanVars => ScanInv'
<1> SUFFICES ASSUME ScanInv, [ScanNext]_scanVars PROVE ScanInv'
  OBVIOUS
<1>0. ScanTypeOK /\ Agreement /\ Walks /\ Dues /\ Tangle'
  BY TangleNext DEF ScanInv
<1>1. ASSUME UNCHANGED <<lvars, wvars, gvars>>, ScanTypeOK' PROVE ScanInv'
  <2>1. Agreement'
    BY <1>0, <1>1, SameAgree DEF lvars
  <2>2. \A m \in Lists : SameWalk(m)
    BY <1>1 DEF wvars, SameWalk
  <2>3. (Walks /\ Dues)'
    BY <1>0, <1>1, <2>2, WalkKept, WalkInvIs DEF lvars, gvars
  <2> QED
    BY <1>0, <1>1, <2>1, <2>3 DEF ScanInv
<1>2. CASE UNCHANGED scanVars
  <2>1. UNCHANGED <<lvars, wvars, gvars>> /\ UNCHANGED <<cvars, requests, ovars, scanStartStopEvent, stopAt>>
    BY <1>2 DEF scanVars
  <2>2. ScanTypeOK'
    BY <1>0, <2>1, TypeFrames, TypePartsNext
  <2> QED
    BY <1>1, <2>1, <2>2
<1>3. ASSUME NEW r \in Records, scanDelete(r) PROVE ScanInv'
  <2>1. ScanTypeOK'
    BY <1>0, <1>3, scanDelete_Type
  <2> QED
    BY <1>0, <1>3, <2>1, scanDelete_Agree, scanDelete_Walk DEF ScanInv
<1>4. ASSUME NEW r \in Records, NEW l \in Lists \cup {None}, scanAdd(r, l) PROVE ScanInv'
  <2>1. ScanTypeOK'
    BY <1>0, <1>4, scanAdd_Type
  <2> QED
    BY <1>0, <1>4, <2>1, scanAdd_Agree, scanAdd_Walk DEF ScanInv
<1>5. ASSUME NEW l \in Lists, dbProcess(l) PROVE ScanInv'
  <2>1. ScanTypeOK'
    BY <1>0, <1>5, dbProcess_Type
  <2> QED
    BY <1>0, <1>5, <2>1, WalkAgree, dbProcess_Walk DEF ScanInv
<1>6. ASSUME NEW l \in Lists, scanNext(l) PROVE ScanInv'
  <2>1. ScanTypeOK'
    BY <1>6, scanNext_Type
  <2> QED
    BY <1>0, <1>6, <2>1, WalkAgree, scanNext_Walk DEF ScanInv
<1>7. ASSUME NEW l \in Range(Periodic), periodicTask(l) PROVE ScanInv'
  <2>1. ScanTypeOK' /\ l \in Lists
    BY <1>0, <1>7, periodicTask_Type DEF Lists
  <2>2. CASE scanList(l)
    BY <1>0, <2>1, <2>2, WalkAgree, scanList_Walk DEF ScanInv
  <2>3. CASE ~scanList(l)
    <3>1. /\ spc[l] = "idle" /\ spc' = [spc EXCEPT ![l] = "exit"]
          /\ UNCHANGED <<lvars, pse, prev, next, gvars>>
      BY <1>7, <2>3 DEF periodicTask, TaskExits
    <3>2. ~Walking(l) /\ ~Walking(l)' /\ \A m \in Lists : m # l => spc'[m] = spc[m]
      BY <1>0, <2>1, <3>1, TypeParts DEF Walking, WalkType
    <3>3. Agreement'
      BY <1>0, <3>1, SameAgree DEF lvars
    <3> QED
      BY <1>0, <2>1, <3>1, <3>2, <3>3, TaskEnds DEF ScanInv
  <2> QED
    BY <2>2, <2>3
<1>8. ASSUME NEW l \in EventLists, eventCallback(l) PROVE ScanInv'
  <2>1. ScanTypeOK' /\ l \in Lists /\ scanList(l)
    BY <1>0, <1>8, eventCallback_Type DEF Lists, eventCallback
  <2> QED
    BY <1>0, <2>1, WalkAgree, scanList_Walk DEF ScanInv
<1>9. CASE \/ \E l \in EventLists : postEvent(l)
           \/ scanOnce \/ onceTask \/ scanRun \/ scanPause \/ scanStop
  BY <1>0, <1>1, <1>9, Control_Type
<1> QED
  BY <1>2, <1>3, <1>4, <1>5, <1>6, <1>7, <1>8, <1>9 DEF ScanNext, Walk

\* The invariant holds of every state.
THEOREM ScanInvariant == ScanSpec => []ScanInv
BY ScanInvInit, ScanInvNext, PTL DEF ScanSpec

\* Every variable of dbScan keeps its type, whatever happens to lists and walks.
THEOREM ScanTyped == ScanSpec => []ScanTypeOK
<1>1. ScanInv => ScanTypeOK
  BY DEF ScanInv
<1> QED
  BY <1>1, ScanInvariant, PTL

\* Any number of records and lists: after buildScanLists, and however SCAN fields change
\* while lists are walked, a record is on the list its scan element names, once, and on
\* no other, and that is the list of its SCAN field unless that is being changed or
\* scanDelete gave up on it; and addToList meets a record that is on a list only if
\* scanDelete gave up on one, since get_ioint_info failed or named another list.
THEOREM ScanListsAgree == ScanSpec => []ListsAgree
<1>1. ScanInv => ListsAgree
  BY DEF ScanInv, Tangle, ListsAgree
<1> QED
  BY <1>1, ScanInvariant, PTL

\* A walk never follows the pointers of an element that is in no list or in another one,
\* whatever the records it processes, and other threads, do to the lists, until a record
\* that scanDelete gave up on is added to a second list.
THEOREM ScanStaysOnList == ScanSpec => []WalkIsOnList
<1>1. ScanInv => WalkIsOnList
  BY DEF ScanInv, Walks, WalkIsOnList
<1> QED
  BY <1>1, ScanInvariant, PTL

\* A walk that comes to its end has processed every record that was on the list all the
\* time, unless some record left the list and was put back on it, or the lists are
\* tangled.
THEOREM ScanComplete == ScanSpec => []WalkIsComplete
<1>1. ScanInv => WalkIsComplete
  BY DEF ScanInv, Dues, Walking, WalkIsComplete
<1> QED
  BY <1>1, ScanInvariant, PTL

-----------------------------------------------------------------------------
(* The callback tasks *)

(* Types *)

AskRec == [pc : {"idle", "test", "push", "full", "signal"}, cb : AllCbs \cup {NoCb}, p : Prios]

\* the states in which main works on priority mp
Looping == {"phase4", "create", "await", "shut", "join", "joinwait"}

\* the types of the variables the proofs look at
CbType ==
  /\ threadsConfigured \in [Prios -> 0 .. MaxThreads] /\ threadsRunning \in [Prios -> Int]
  /\ wpc \in [Workers -> WorkerPC]
  /\ mpc \in MainPC /\ mp \in 0 .. NUM_CALLBACK_PRIORITIES /\ mj \in 1 .. MaxThreads
  /\ mpc \in Looping => mp \in Prios
  /\ semWakeUp \in [Prios -> BOOLEAN] /\ queue = [p \in Prios |-> queue[p]]
  /\ ask \in [Threads -> AskRec] /\ timer \in [Cbs -> Prios \cup {-1}]

\* Facts about the constants.
LEMMA CbFacts ==
  /\ NUM_CALLBACK_PRIORITIES \in Nat /\ NUM_CALLBACK_PRIORITIES > 0 /\ MaxThreads \in Nat
  /\ callbackThreadsDefault \in 1 .. MaxThreads /\ 1 \in 1 .. MaxThreads /\ 0 \in Prios
  /\ \A p \in Prios : p \in 0 .. NUM_CALLBACK_PRIORITIES /\ p + 1 \in 0 .. NUM_CALLBACK_PRIORITIES
BY CbAssumption DEF Prios

\* A worker belongs to a priority.
LEMMA WorkerPrio == \A w \in Workers : w[1] \in Prios /\ w[2] \in 1 .. MaxThreads /\ w = <<w[1], w[2]>>
BY DEF Workers

\* The initial state is typed.
LEMMA TypeInit == Init => CbType
BY CbFacts DEF Init, CbType, WorkerPC, MainPC, Looping, AskRec, NoAsk, AllCbs

\* Threads that make requests.
LEMMA Ask_Type ==
  ASSUME CbType,
         \/ \E t \in Askers, c \in Cbs, p \in Prios : Request(t, c, p)
         \/ \E t \in Threads : AskStep(t)
         \/ \E c \in Cbs : \/ notify(c) \/ callbackCancelDelayed(c)
                           \/ \E p \in Prios : callbackRequestDelayed(c, p)
  PROVE  CbType'
<1>1. UNCHANGED <<threadsConfigured, threadsRunning, wpc, mpc, mp, mj>>
  BY DEF Request, AskStep, TestOverflow, Push, SetOverflow, Signal, notify, callbackCancelDelayed,
     callbackRequestDelayed, askRest, confVars, workVars, mainVars
<1>2. semWakeUp' \in [Prios -> BOOLEAN]
  BY DEF Request, AskStep, TestOverflow, Push, SetOverflow, Signal, notify, callbackCancelDelayed,
     callbackRequestDelayed, ringVars, CbType
<1>3. queue' = [p \in Prios |-> queue'[p]]
  <2>1. CASE UNCHANGED queue
    BY <2>1 DEF CbType
  <2>2. ASSUME NEW t \in Threads, Push(t) PROVE queue' = [p \in Prios |-> queue'[p]]
    BY <2>2 DEF Push, CbType
  <2> QED
    BY <2>1, <2>2 DEF Request, AskStep, TestOverflow, SetOverflow, Signal, notify,
       callbackCancelDelayed, callbackRequestDelayed, ringVars
<1>4. ask' \in [Threads -> AskRec] /\ timer' \in [Cbs -> Prios \cup {-1}]
  <2>1. NoAsk \in AskRec
    BY CbFacts DEF NoAsk, AskRec, AllCbs
  <2>2. ASSUME NEW t, NEW c \in AllCbs, NEW p \in Prios, callbackRequest(t, c, p)
        PROVE  ask' \in [Threads -> AskRec]
    BY <2>2 DEF callbackRequest, CbType, AskRec
  <2>3. ASSUME NEW t \in Threads, AskStep(t) PROVE ask' \in [Threads -> AskRec] /\ UNCHANGED timer
    <3>1. UNCHANGED timer
      BY <2>3 DEF AskStep, TestOverflow, Push, SetOverflow, Signal, askRest
    <3>2. CASE ask' = [ask EXCEPT ![t] = NoAsk]
      BY <2>1, <3>1, <3>2 DEF CbType
    <3>3. ASSUME NEW pc \in {"push", "full", "signal"}, ask' = [ask EXCEPT ![t].pc = pc]
          PROVE  ask' \in [Threads -> AskRec]
      BY <3>3 DEF CbType, AskRec
    <3> QED
      BY <2>3, <3>1, <3>2, <3>3 DEF AskStep, TestOverflow, Push, SetOverflow, Signal
  <2>4. ASSUME NEW c \in Cbs, notify(c) PROVE ask' \in [Threads -> AskRec]
    BY <2>2, <2>4 DEF notify, CbType, AllCbs
  <2>5. ASSUME NEW c \in Cbs, notify(c) \/ callbackCancelDelayed(c)
                              \/ \E p \in Prios : callbackRequestDelayed(c, p)
        PROVE  timer' \in [Cbs -> Prios \cup {-1}]
    BY <2>5 DEF notify, callbackCancelDelayed, callbackRequestDelayed, CbType
  <2>6. ASSUME NEW t \in Askers, NEW c \in Cbs, NEW p \in Prios, Request(t, c, p)
        PROVE  ask' \in [Threads -> AskRec] /\ UNCHANGED timer
    BY <2>2, <2>6 DEF Request, AllCbs
  <2>7. ASSUME NEW c \in Cbs,
               callbackCancelDelayed(c) \/ \E p \in Prios : callbackRequestDelayed(c, p)
        PROVE  UNCHANGED ask
    BY <2>7 DEF callbackCancelDelayed, callbackRequestDelayed
  <2> QED
    BY <2>3, <2>4, <2>5, <2>6, <2>7 DEF CbType
<1> QED
  BY <1>1, <1>2, <1>3, <1>4 DEF CbType

\* Workers.
LEMMA Task_Type == ASSUME CbType, NEW w \in Workers, callbackTask(w) PROVE CbType'
<1>1. UNCHANGED <<threadsConfigured, mpc, mp, mj, ask, timer>>
  BY DEF callbackTask, Start, Test, Check, Wait, Pop, More, Trigger, Clear, Run, sync_callback, Exit,
     workRest, confVars, mainVars
<1>2. w[1] \in Prios
  BY WorkerPrio
<1>3. wpc' \in [Workers -> WorkerPC]
  BY ZenonT(60) DEF callbackTask, Start, Test, Check, Wait, Pop, More, Trigger, Clear, Run, sync_callback, Exit,
     Goto, CbType, WorkerPC
<1>4. threadsRunning' \in [Prios -> Int]
  BY <1>2 DEF callbackTask, Start, Test, Check, Wait, Pop, More, Trigger, Clear, Run, sync_callback,
     Exit, CbType
<1>5. semWakeUp' \in [Prios -> BOOLEAN]
  BY DEF callbackTask, Start, Test, Check, Wait, Pop, More, Trigger, Clear, Run, sync_callback, Exit,
     CbType, ringVars
<1>6. queue' = [p \in Prios |-> queue'[p]]
  <2>1. CASE Pop(w)
    BY <2>1 DEF Pop, CbType
  <2>2. CASE ~Pop(w)
    BY <2>2 DEF callbackTask, Start, Test, Check, Wait, More, Trigger, Clear, Run, sync_callback,
       Exit, CbType, ringVars
  <2> QED
    BY <2>1, <2>2
<1> QED
  BY <1>1, <1>3, <1>4, <1>5, <1>6 DEF CbType

\* The main thread.
LEMMA Main_Type ==
  ASSUME CbType,
         \/ \E n \in QueueSizes : callbackSetQueueSize(n)
         \/ \E n \in 1 .. MaxThreads, ps \in {Prios} \cup {{p} : p \in Prios} :
              callbackParallelThreads(n, ps)
         \/ callbackInit \/ testSyncCallback \/ callbackStop \/ callbackCleanup \/ MainStep
         \/ LateSignal
  PROVE  CbType'
<1>1. CASE \/ \E n \in QueueSizes : callbackSetQueueSize(n)
           \/ \E n \in 1 .. MaxThreads, ps \in {Prios} \cup {{p} : p \in Prios} :
                callbackParallelThreads(n, ps)
           \/ callbackInit \/ LateSignal
  <2>1. threadsConfigured' \in [Prios -> 0 .. MaxThreads]
    BY <1>1, CbFacts DEF callbackSetQueueSize, callbackParallelThreads, callbackInit, LateSignal,
       workRest, confVars, CbType
  <2>2. UNCHANGED <<threadsRunning, wpc, semWakeUp, queue, ask, timer>>
    BY <1>1 DEF callbackSetQueueSize, callbackParallelThreads, callbackInit, LateSignal, workRest,
       workVars, ringVars
  <2>3. (mpc' = "create" /\ mp' = 0 /\ mj' = 1) \/ UNCHANGED <<mpc, mp, mj>>
    BY <1>1 DEF callbackSetQueueSize, callbackParallelThreads, callbackInit, LateSignal, workRest,
       mainVars
  <2> QED
    BY <2>1, <2>2, <2>3, CbFacts DEF CbType, MainPC
<1>2. CASE testSyncCallback \/ callbackStop \/ SyncRequested \/ SyncWait \/ StopShut \/ StopJoin \/ StopWait
  <2>1. UNCHANGED <<threadsConfigured, threadsRunning, wpc, queue, ask, timer, mj>>
    BY <1>2 DEF testSyncCallback, callbackStop, SyncRequested, SyncWait, StopShut, StopJoin, NextJoin,
       StopWait, syncRest, stopRest, confVars, workVars, ringVars
  <2>2. semWakeUp' \in [Prios -> BOOLEAN]
    BY <1>2 DEF testSyncCallback, callbackStop, SyncRequested, SyncWait, StopShut, StopJoin, NextJoin,
       StopWait, syncRest, ringVars, CbType
  <2>3. mpc' \in MainPC /\ mp' \in 0 .. NUM_CALLBACK_PRIORITIES /\ (mpc' \in Looping => mp' \in Prios)
    <3>1. CASE testSyncCallback \/ callbackStop \/ SyncRequested
      BY <3>1, CbFacts DEF testSyncCallback, callbackStop, SyncRequested, MainPC, Looping
    <3>2. CASE SyncWait
      <4>1. mp' = mp + 1 /\ mpc' = IF mp' \in Prios THEN "phase4" ELSE "up"
        BY <3>2 DEF SyncWait
      <4> QED
        BY <3>2, <4>1, CbFacts DEF SyncWait, MainPC, Looping, CbType
    <3>3. CASE StopShut
      BY <3>3, CbFacts DEF StopShut, MainPC, Looping, CbType, Prios
    <3>4. CASE StopJoin
      <4>1. mp \in Prios
        BY <3>4 DEF StopJoin, CbType, Looping
      <4>2. \/ mp' = mp + 1 /\ mpc' = IF mp' \in Prios THEN "join" ELSE "stopped"
            \/ mp' = mp /\ mpc' = "joinwait"
        BY <3>4 DEF StopJoin, NextJoin
      <4> QED
        BY <4>1, <4>2, CbFacts DEF MainPC, Looping
    <3>5. CASE StopWait
      BY <3>5 DEF StopWait, MainPC, Looping, CbType
    <3> QED
      BY <1>2, <3>1, <3>2, <3>3, <3>4, <3>5
  <2> QED
    BY <2>1, <2>2, <2>3 DEF CbType
<1>3. CASE callbackCleanup
  <2>1. /\ threadsConfigured' = [p \in Prios |-> 0] /\ threadsRunning' = [p \in Prios |-> 0]
        /\ semWakeUp' = [p \in Prios |-> FALSE] /\ queue' = [p \in Prios |-> <<>>]
        /\ mpc' = "down" /\ mp' = 0 /\ UNCHANGED <<wpc, ask, timer, mj>>
    BY <1>3 DEF callbackCleanup, workVars
  <2> QED
    BY <2>1, CbFacts DEF CbType, MainPC, Looping
<1>4. CASE InitCreate
  <2>1. /\ wpc' = [wpc EXCEPT ![<<mp, mj>>] = "start"] /\ mpc = "create" /\ mpc' = "await"
        /\ UNCHANGED <<threadsConfigured, threadsRunning, semWakeUp, queue, ask, timer, mp, mj>>
    BY <1>4 DEF InitCreate, confVars, ringVars
  <2> QED
    BY <2>1 DEF CbType, MainPC, Looping, WorkerPC
<1>5. CASE InitAwait
  <2>1. /\ mpc = "await" /\ threadsRunning' = [threadsRunning EXCEPT ![mp] = threadsRunning[mp] + 1]
        /\ UNCHANGED <<threadsConfigured, wpc, semWakeUp, queue, ask, timer>>
    BY <1>5 DEF InitAwait, confVars, ringVars, workVars
  <2>2. mp \in Prios /\ threadsConfigured[mp] \in 0 .. MaxThreads
    BY <2>1 DEF CbType, Looping
  <2>3. \/ mj < threadsConfigured[mp] /\ mj' = mj + 1 /\ mp' = mp /\ mpc' = "create"
        \/ mj' = 1 /\ mp' = mp + 1 /\ mpc' = IF mp' \in Prios THEN "create" ELSE "up"
    BY <1>5 DEF InitAwait
  <2>4. mj' \in 1 .. MaxThreads /\ mp' \in 0 .. NUM_CALLBACK_PRIORITIES
    BY <2>2, <2>3, CbFacts DEF CbType
  <2>5. mpc' \in MainPC /\ (mpc' \in Looping => mp' \in Prios)
    BY <2>2, <2>3 DEF MainPC, Looping
  <2>6. threadsRunning' \in [Prios -> Int]
    BY <2>1, <2>2 DEF CbType
  <2> QED
    BY <2>1, <2>4, <2>5, <2>6 DEF CbType
<1>6. CASE SyncRequest
  <2>1. /\ mpc = "request" /\ mp \in Prios /\ mp' = mp + 1 /\ callbackRequest("main", SyncCb, mp)
        /\ UNCHANGED <<mpc, threadsConfigured, threadsRunning, wpc, semWakeUp, queue, timer, mj>>
    BY <1>6 DEF SyncRequest, syncRest, confVars, workVars, ringVars
  <2>2. ask' \in [Threads -> AskRec]
    BY <2>1 DEF callbackRequest, CbType, AskRec, AllCbs, Threads
  <2> QED
    BY <2>1, <2>2, CbFacts DEF CbType, Looping
<1> QED
  BY <1>1, <1>2, <1>3, <1>4, <1>5, <1>6 DEF MainStep

\* Every step keeps the types.
LEMMA TypeNext == CbType /\ [Next]_vars => CbType'
<1> SUFFICES ASSUME CbType, [Next]_vars PROVE CbType'
  OBVIOUS
<1>1. CASE UNCHANGED vars
  BY <1>1 DEF vars, CbType, ringVars, confVars, workVars, mainVars
<1>2. CASE Next
  BY <1>2, Ask_Type, Task_Type, Main_Type DEF Next
<1> QED
  BY <1>1, <1>2

-----------------------------------------------------------------------------
(* callbackStop waits for every worker *)

Out == {"none", "done"}

\* the workers of priority p inside callbackTask
InLoop(p) == {w \in Workers : w[1] = p /\ wpc[w] \notin Out}

\* the worker callbackInit waits for is not counted yet
Awaited(p) == IF mpc = "await" /\ mp = p THEN 1 ELSE 0

Counted == \A p \in Prios : Cardinality(InLoop(p)) = threadsRunning[p] + Awaited(p)

\* callbackInit has not created the workers ahead of its loop
CountedAhead ==
  mpc \in {"create", "await"} =>
    \A w \in Workers : \/ w[1] > mp
                       \/ w[1] = mp /\ (IF mpc = "create" THEN w[2] >= mj ELSE w[2] > mj)
      => wpc[w] \in Out

\* callbackStop has waited for the priorities behind its loop
Joined ==
  /\ mpc \in {"join", "joinwait"} => \A p \in Prios : p < mp => threadsRunning[p] = 0
  /\ mpc \in {"stopped", "down"} => \A p \in Prios : threadsRunning[p] = 0

StartStop == Counted /\ CountedAhead /\ Joined

\* The sets of workers are finite.
LEMMA LoopFinite ==
  \A p \in Prios : IsFiniteSet(InLoop(p)) /\ Cardinality(InLoop(p)) \in Nat
<1>1. IsFiniteSet(Workers)
  <2>1. IsFiniteSet(Prios) /\ IsFiniteSet(1 .. MaxThreads)
    BY FS_Interval, CbFacts DEF Prios
  <2> QED
    BY <2>1, FS_Product DEF Workers
<1>2. \A p \in Prios : InLoop(p) \in SUBSET Workers
  BY DEF InLoop
<1> QED
  BY <1>1, <1>2, FS_Subset, FS_CardinalityType

\* When the count is zero the workers have left.
LEMMA NoneLeft ==
  ASSUME Counted, NEW p \in Prios, threadsRunning[p] = 0, mpc # "await", NEW w \in Workers, w[1] = p
  PROVE  wpc[w] \in Out
<1>1. Cardinality(InLoop(p)) = 0
  BY DEF Counted, Awaited
<1>2. InLoop(p) = {}
  BY <1>1, LoopFinite, FS_EmptySet
<1> QED
  BY <1>2 DEF InLoop

\* It implies what the run checks.
LEMMA StartStopSuffices == ASSUME CbType, StartStop PROVE CleanupSafe
<1>1. WorkersCounted
  BY DEF StartStop, Counted, WorkersCounted, InLoop, Awaited, Out
<1>2. ASSUME mpc \in {"stopped", "down"}, NEW w \in Workers PROVE wpc[w] \in Out
  <2>1. threadsRunning[w[1]] = 0 /\ w[1] \in Prios
    BY <1>2, WorkerPrio DEF StartStop, Joined
  <2> QED
    BY <1>2, <2>1, NoneLeft DEF StartStop
<1> QED
  BY <1>1, <1>2 DEF CleanupSafe, Out

\* Steps that neither create nor end a worker nor move main.
LEMMA StartStopFrame ==
  ASSUME CbType, StartStop, UNCHANGED <<threadsRunning, mpc, mp, mj>>,
         \A w \in Workers : wpc'[w] \in Out <=> wpc[w] \in Out
  PROVE  StartStop'
<1>1. \A p \in Prios : InLoop(p)' = InLoop(p)
  BY DEF InLoop
<1>2. \A p \in Prios : Awaited(p)' = Awaited(p)
  BY DEF Awaited
<1>3. Counted' /\ Joined'
  BY <1>1, <1>2 DEF StartStop, Counted, Joined
<1>4. CountedAhead'
  BY DEF StartStop, CountedAhead
<1> QED
  BY <1>3, <1>4 DEF StartStop

\* A worker that leaves counts down.
LEMMA Exit_StartStop ==
  ASSUME CbType, StartStop, NEW w \in Workers, Exit(w) PROVE StartStop'
<1>1. PICK p \in Prios : p = w[1]
  BY WorkerPrio
<1>2. /\ wpc[w] = "exit" /\ UNCHANGED <<mpc, mp, mj>>
      /\ threadsRunning' = [threadsRunning EXCEPT ![p] = threadsRunning[p] - 1]
      /\ wpc' = [wpc EXCEPT ![w] = "done"]
  BY <1>1 DEF Exit, Goto, workRest, mainVars
<1>3. \A v \in Workers : wpc'[v] = IF v = w THEN "done" ELSE wpc[v]
  BY <1>2 DEF CbType
<1>4. w \in InLoop(p) /\ InLoop(p)' = InLoop(p) \ {w}
  BY <1>1, <1>2, <1>3 DEF InLoop, Out
<1>5. \A q \in Prios : q # p => InLoop(q)' = InLoop(q)
  BY <1>1, <1>3 DEF InLoop
<1>6. Cardinality(InLoop(p)') = Cardinality(InLoop(p)) - 1 /\ Cardinality(InLoop(p)) \in Nat
  BY <1>4, LoopFinite, FS_RemoveElement
<1>7. \A q \in Prios : threadsRunning'[q] = IF q = p THEN threadsRunning[p] - 1 ELSE threadsRunning[q]
  BY <1>2 DEF CbType
<1>8. \A q \in Prios : Awaited(q)' = Awaited(q) /\ Awaited(q) \in Int /\ threadsRunning[q] \in Int
  BY <1>2 DEF Awaited, CbType
<1>9. Counted'
  <2>1. ASSUME NEW q \in Prios PROVE Cardinality(InLoop(q)') = threadsRunning'[q] + Awaited(q)'
    <3>1. Cardinality(InLoop(q)) = threadsRunning[q] + Awaited(q)
      BY DEF StartStop, Counted
    <3>2. CASE q = p
      BY <1>6, <1>7, <1>8, <3>1, <3>2
    <3>3. CASE q # p
      BY <1>5, <1>7, <1>8, <3>1, <3>3
    <3> QED
      BY <3>2, <3>3
  <2> QED
    BY <2>1 DEF Counted
<1>10. CountedAhead'
  BY <1>2, <1>3 DEF StartStop, CountedAhead, Out
<1>11. threadsRunning[p] # 0 \/ mpc = "await"
  BY <1>1, <1>2, NoneLeft DEF StartStop, Out
<1>12. Joined'
  BY <1>2, <1>7, <1>11 DEF StartStop, Joined
<1> QED
  BY <1>9, <1>10, <1>12 DEF StartStop

\* callbackInit creates a worker, which is outside its loop.
LEMMA Create_StartStop ==
  ASSUME CbType, StartStop, InitCreate
  PROVE  /\ StartStop'
         /\ \E w \in Workers : wpc[w] \in Out /\ wpc' = [wpc EXCEPT ![w] = "start"]
<1>1. /\ wpc' = [wpc EXCEPT ![<<mp, mj>>] = "start"] /\ mpc = "create" /\ mpc' = "await"
      /\ UNCHANGED <<threadsRunning, mp, mj>>
  BY DEF InitCreate
<1>2. mp \in Prios /\ mj \in 1 .. MaxThreads
  BY <1>1 DEF CbType, Looping
<1>3. PICK w \in Workers : w = <<mp, mj>> /\ w[1] = mp /\ w[2] = mj
  <2>1. <<mp, mj>> \in Workers
    BY <1>2 DEF Workers
  <2> QED
    BY <2>1
<1>4. wpc[w] \in Out
  BY <1>1, <1>2, <1>3 DEF StartStop, CountedAhead
<1>5. \A v \in Workers : wpc'[v] = IF v = w THEN "start" ELSE wpc[v]
  BY <1>1, <1>3 DEF CbType
<1>6. InLoop(mp)' = InLoop(mp) \cup {w} /\ w \notin InLoop(mp)
  BY <1>1, <1>3, <1>4, <1>5 DEF InLoop, Out
<1>7. \A q \in Prios : q # mp => InLoop(q)' = InLoop(q)
  BY <1>1, <1>3, <1>5 DEF InLoop
<1>8. Cardinality(InLoop(mp)') = Cardinality(InLoop(mp)) + 1
  BY <1>2, <1>6, LoopFinite, FS_AddElement
<1>9. Counted'
  <2>1. ASSUME NEW q \in Prios PROVE Cardinality(InLoop(q)') = threadsRunning'[q] + Awaited(q)'
    <3>1. Cardinality(InLoop(q)) = threadsRunning[q] + Awaited(q) /\ threadsRunning[q] \in Int
      BY DEF StartStop, Counted, CbType
    <3>2. Awaited(q) = 0 /\ Awaited(q)' = IF q = mp THEN 1 ELSE 0
      BY <1>1 DEF Awaited
    <3>3. CASE q = mp
      <4>1. InLoop(q)' = InLoop(mp)'
        BY <1>1, <3>3 DEF InLoop
      <4> QED
        BY <1>1, <1>8, <3>1, <3>2, <3>3, <4>1
    <3>4. CASE q # mp
      BY <1>1, <1>7, <3>1, <3>2, <3>4
    <3> QED
      BY <3>3, <3>4
  <2> QED
    BY <2>1 DEF Counted
<1>10. CountedAhead'
  <2>1. ASSUME NEW v \in Workers, v[1] > mp \/ (v[1] = mp /\ v[2] > mj) PROVE wpc'[v] \in Out
    <3>1. v[1] \in Int /\ v[2] \in Int /\ mp \in Int /\ mj \in Int
      BY <1>2, WorkerPrio DEF Prios
    <3>2. v # w
      BY <1>3, <2>1, <3>1
    <3>3. wpc[v] \in Out
      BY <1>1, <2>1, <3>1 DEF StartStop, CountedAhead
    <3> QED
      BY <1>5, <3>2, <3>3
  <2> QED
    BY <1>1, <2>1 DEF CountedAhead
<1>11. Joined'
  BY <1>1 DEF Joined
<1> QED
  BY <1>1, <1>3, <1>4, <1>9, <1>10, <1>11 DEF StartStop

\* ... and counts it, whoever signalled.
LEMMA Await_StartStop == ASSUME CbType, StartStop, InitAwait PROVE StartStop'
<1>1. /\ mpc = "await" /\ threadsRunning' = [threadsRunning EXCEPT ![mp] = threadsRunning[mp] + 1]
      /\ UNCHANGED wpc /\ mpc' \in {"create", "up"}
      /\ \/ mj' = mj + 1 /\ mp' = mp
         \/ mj' = 1 /\ mp' = mp + 1
  BY DEF InitAwait, workVars
<1>2. mp \in Prios /\ mp \in Int /\ mj \in Int
  BY <1>1 DEF CbType, Looping
<1>3. \A q \in Prios : InLoop(q)' = InLoop(q) /\ Awaited(q)' = 0
  BY <1>1 DEF InLoop, Awaited
<1>4. \A q \in Prios : threadsRunning'[q] = (IF q = mp THEN threadsRunning[q] + 1 ELSE threadsRunning[q])
                       /\ threadsRunning[q] \in Int /\ Awaited(q) = IF q = mp THEN 1 ELSE 0
  BY <1>1, <1>2 DEF CbType, Awaited
<1>5. Counted'
  BY <1>3, <1>4 DEF StartStop, Counted
<1>6. CountedAhead'
  <2>1. ASSUME NEW v \in Workers, v[1] > mp' \/ (v[1] = mp' /\ v[2] >= mj') PROVE wpc[v] \in Out
    <3>1. v[1] \in Int /\ v[2] \in Int
      BY WorkerPrio DEF Prios
    <3>2. v[1] > mp \/ (v[1] = mp /\ v[2] > mj)
      BY <1>1, <1>2, <2>1, <3>1
    <3> QED
      BY <1>1, <3>2 DEF StartStop, CountedAhead
  <2> QED
    BY <1>1, <2>1 DEF CountedAhead
<1>7. Joined'
  BY <1>1 DEF Joined
<1> QED
  BY <1>5, <1>6, <1>7 DEF StartStop

\* Other steps of main leave the workers and their number alone.
LEMMA Main_StartStop ==
  ASSUME CbType, StartStop, UNCHANGED wpc, mpc # "await", mpc' # "await",
         \A p \in Prios : threadsRunning'[p] = threadsRunning[p], CountedAhead', Joined'
  PROVE  StartStop'
<1>1. \A q \in Prios : InLoop(q)' = InLoop(q) /\ Awaited(q)' = Awaited(q)
  BY DEF InLoop, Awaited
<1> QED
  BY <1>1 DEF StartStop, Counted

\* Every step keeps the workers counted.
LEMMA StartStopNext == CbType /\ CbType' /\ StartStop /\ [Next]_vars => StartStop'
<1> SUFFICES ASSUME CbType, CbType', StartStop, [Next]_vars PROVE StartStop'
  OBVIOUS
<1>1. CASE \/ UNCHANGED vars \/ LateSignal
           \/ \E t \in Askers, c \in Cbs, p \in Prios : Request(t, c, p)
           \/ \E t \in Threads : AskStep(t)
           \/ \E c \in Cbs : \/ notify(c) \/ callbackCancelDelayed(c)
                             \/ \E p \in Prios : callbackRequestDelayed(c, p)
           \/ \E n \in QueueSizes : callbackSetQueueSize(n)
           \/ \E n \in 1 .. MaxThreads, ps \in {Prios} \cup {{p} : p \in Prios} :
                callbackParallelThreads(n, ps)
  <2>1. UNCHANGED <<threadsRunning, mpc, mp, mj, wpc>>
    BY <1>1 DEF vars, LateSignal, Request, AskStep, TestOverflow, Push, SetOverflow, Signal, notify,
       callbackCancelDelayed, callbackRequestDelayed, callbackSetQueueSize, callbackParallelThreads,
       askRest, workRest, workVars, mainVars
  <2> QED
    BY <2>1, StartStopFrame
<1>2. ASSUME NEW w \in Workers, callbackTask(w) PROVE StartStop'
  <2>1. CASE Exit(w)
    BY <2>1, Exit_StartStop
  <2>2. CASE ~Exit(w)
    <3>1. UNCHANGED <<threadsRunning, mpc, mp, mj>>
      BY <1>2, <2>2 DEF callbackTask, Start, Test, Check, Wait, Pop, More, Trigger, Clear, Run,
         sync_callback, workRest, mainVars
    <3>2. PICK pc : wpc[w] \notin Out /\ pc \notin Out /\ wpc' = [wpc EXCEPT ![w] = pc]
      BY <1>2, <2>2 DEF callbackTask, Start, Test, Check, Wait, Pop, More, Trigger, Clear, Run,
         sync_callback, Goto, Out
    <3>3. \A v \in Workers : wpc'[v] \in Out <=> wpc[v] \in Out
      BY <3>2 DEF CbType
    <3> QED
      BY <3>1, <3>3, StartStopFrame
  <2> QED
    BY <2>1, <2>2
<1>3. CASE testSyncCallback \/ callbackStop \/ SyncRequest \/ SyncRequested \/ SyncWait \/ StopShut
           \/ StopWait
  <2>1. UNCHANGED <<threadsRunning, wpc>> /\ mpc # "await"
    BY <1>3 DEF testSyncCallback, callbackStop, SyncRequest, SyncRequested, SyncWait, StopShut,
       StopWait, syncRest, stopRest, workVars
  <2>2. \/ mpc' \in {"up", "request", "phase4", "shut"}
        \/ mpc' = "join" /\ mp' = 0
        \/ mpc = "joinwait" /\ mpc' = "join" /\ mp' = mp
    <3>1. CASE testSyncCallback \/ callbackStop \/ SyncRequest \/ SyncRequested \/ SyncWait
      BY <3>1 DEF testSyncCallback, callbackStop, SyncRequest, SyncRequested, SyncWait
    <3>2. CASE StopShut
      BY <3>2 DEF StopShut
    <3>3. CASE StopWait
      BY <3>3 DEF StopWait
    <3> QED
      BY <1>3, <3>1, <3>2, <3>3
  <2>3. CountedAhead' /\ Joined'
    BY <2>1, <2>2 DEF CountedAhead, Joined, StartStop, Prios
  <2> QED
    BY <2>1, <2>2, <2>3, Main_StartStop
<1>4. CASE StopJoin
  <2>1. UNCHANGED <<threadsRunning, wpc>> /\ mpc = "join" /\ mp \in Prios
    BY <1>4 DEF StopJoin, NextJoin, stopRest, workVars, CbType, Looping
  <2>2. \/ mpc' = "joinwait" /\ mp' = mp
        \/ threadsRunning[mp] = 0 /\ mp' = mp + 1 /\ mpc' = IF mp' \in Prios THEN "join" ELSE "stopped"
    BY <1>4 DEF StopJoin, NextJoin
  <2>3. Joined'
    <3>1. CASE mpc' = "joinwait" /\ mp' = mp
      BY <2>1, <3>1 DEF StartStop, Joined
    <3>2. CASE threadsRunning[mp] = 0 /\ mp' = mp + 1 /\ mpc' = "join"
      BY <2>1, <3>2 DEF StartStop, Joined, Prios
    <3>3. CASE threadsRunning[mp] = 0 /\ mp' = mp + 1 /\ mp' \notin Prios /\ mpc' = "stopped"
      <4>1. \A p \in Prios : p < mp \/ p = mp
        BY <2>1, <3>3, CbFacts DEF Prios
      <4> QED
        BY <2>1, <3>3, <4>1 DEF StartStop, Joined
    <3> QED
      BY <2>2, <3>1, <3>2, <3>3
  <2>4. CountedAhead' /\ mpc' # "await"
    BY <2>2 DEF CountedAhead
  <2> QED
    BY <2>1, <2>3, <2>4, Main_StartStop
<1>5. CASE callbackCleanup
  <2>1. /\ mpc = "stopped" /\ mpc' = "down" /\ threadsRunning' = [p \in Prios |-> 0]
        /\ UNCHANGED wpc
    BY <1>5 DEF callbackCleanup, workVars
  <2>2. \A p \in Prios : threadsRunning'[p] = threadsRunning[p]
    BY <2>1 DEF StartStop, Joined
  <2>3. CountedAhead' /\ Joined'
    BY <2>1 DEF CountedAhead, Joined
  <2> QED
    BY <2>1, <2>2, <2>3, Main_StartStop
<1>6. CASE callbackInit
  <2>1. mpc = "down" /\ mpc' = "create" /\ UNCHANGED <<threadsRunning, wpc>>
    BY <1>6 DEF callbackInit, workVars
  <2>2. \A w \in Workers : wpc[w] \in Out
    BY <2>1, StartStopSuffices DEF CleanupSafe, Out
  <2>3. CountedAhead' /\ Joined'
    BY <2>1, <2>2 DEF CountedAhead, Joined
  <2> QED
    BY <2>1, <2>3, Main_StartStop
<1> QED
  BY <1>1, <1>2, <1>3, <1>4, <1>5, <1>6, Create_StartStop, Await_StartStop DEF Next, MainStep

\* No worker runs at first.
LEMMA StartStopInit == Init => StartStop
<1> SUFFICES ASSUME Init PROVE StartStop
  OBVIOUS
<1>1. \A p \in Prios : InLoop(p) = {} /\ threadsRunning[p] = 0 /\ Awaited(p) = 0
  BY DEF Init, InLoop, Out, Awaited
<1> QED
  <2>1. Counted
    BY <1>1, FS_EmptySet DEF Counted
  <2>2. CountedAhead /\ Joined
    BY <1>1 DEF Init, CountedAhead, Joined
  <2> QED
    BY <2>1, <2>2 DEF StartStop

\* When callbackStop has returned every worker of every priority has left its loop, so
\* callbackCleanup deletes nothing a worker still uses; callbackInit and the workers keep
\* threadsRunning equal to the number of workers in their loop, whatever signals of an
\* earlier start are still to come.
THEOREM CleanupIsSafe == Spec => []CleanupSafe
<1>1. CbType /\ StartStop => CleanupSafe
  BY StartStopSuffices
<1> QED
  BY <1>1, TypeInit, TypeNext, StartStopInit, StartStopNext, PTL DEF Spec

-----------------------------------------------------------------------------
(* No worker sleeps over a callback *)

\* a worker that will look at the ring of p again before it runs a callback
Looking(p) == \E v \in Workers : v[1] = p /\ wpc[v] \in {"pop", "more", "trigger"}

\* a thread about to signal the semaphore of p
Signalling(p) == \E t \in Threads : ask[t].pc = "signal" /\ ask[t].p = p

\* somebody waits for the semaphore of p
Sleeping(p) == \E w \in Workers : w[1] = p /\ wpc[w] = "wait"

NoIdle ==
  \A p \in Prios : Sleeping(p) /\ queue[p] # <<>> => semWakeUp[p] \/ Signalling(p) \/ Looking(p)

\* This is what the run checks.
LEMMA NoIdleSuffices == NoIdle => NoIdleWorker
BY WorkerPrio DEF NoIdle, NoIdleWorker, Sleeping, Signalling, Looking

\* Steps of threads that make requests.
LEMMA Ask_NoIdle ==
  ASSUME CbType, NoIdle, UNCHANGED wpc, NEW t \in Threads,
         \A u \in Threads : u # t => ask'[u] = ask[u],
         NEW p \in Prios,
         \A q \in Prios : q # p => queue'[q] = queue[q] /\ semWakeUp'[q] = semWakeUp[q],
         semWakeUp[p] => semWakeUp'[p],
         \/ ask[t].pc # "signal" /\ queue'[p] = queue[p]
         \/ ask'[t].pc = "signal" /\ ask'[t].p = p /\ ask[t].pc # "signal"
         \/ ask[t].p = p /\ semWakeUp'[p]
  PROVE  NoIdle'
<1>1. \A q \in Prios : (Sleeping(q)' <=> Sleeping(q)) /\ (Looking(q)' <=> Looking(q))
  BY DEF Sleeping, Looking
<1>2. \A q \in Prios : q # p => (Signalling(q) => Signalling(q)')
  BY DEF Signalling
<1>3. semWakeUp'[p] \/ Signalling(p)' \/ (queue'[p] = queue[p] /\ (Signalling(p) => Signalling(p)'))
  BY DEF Signalling
<1> QED
  BY <1>1, <1>2, <1>3 DEF NoIdle

\* Threads that make requests.
LEMMA Requests_NoIdle ==
  ASSUME CbType, NoIdle,
         \/ \E t \in Askers, c \in Cbs, p \in Prios : Request(t, c, p)
         \/ \E t \in Threads : AskStep(t)
         \/ \E c \in Cbs : notify(c)
         \/ SyncRequest
  PROVE  NoIdle'
<1>1. ASSUME NEW t \in Threads, NEW c, NEW p, callbackRequest(t, c, p), UNCHANGED <<wpc, ringVars>>
      PROVE  NoIdle'
  <2>1. ask[t].pc # "signal" /\ \A u \in Threads : u # t => ask'[u] = ask[u]
    BY <1>1 DEF callbackRequest, CbType
  <2>2. 0 \in Prios /\ UNCHANGED <<queue, semWakeUp>>
    BY <1>1, CbFacts DEF ringVars
  <2> QED
    BY <1>1, <2>1, <2>2, Ask_NoIdle
<1>2. ASSUME NEW t \in Threads, AskStep(t) PROVE NoIdle'
  <2>1. PICK p \in Prios : p = ask[t].p
    BY DEF CbType, AskRec
  <2>2. UNCHANGED wpc /\ \A u \in Threads : u # t => ask'[u] = ask[u]
    BY <1>2 DEF AskStep, TestOverflow, Push, SetOverflow, Signal, askRest, workVars, CbType
  <2>3. \A q \in Prios : q # p => queue'[q] = queue[q] /\ semWakeUp'[q] = semWakeUp[q]
    <3>1. CASE Push(t)
      BY <2>1, <3>1 DEF Push, CbType
    <3>2. CASE Signal(t)
      BY <2>1, <3>2 DEF Signal, CbType
    <3> QED
      BY <1>2, <3>1, <3>2 DEF AskStep, TestOverflow, SetOverflow
  <2>4. semWakeUp[p] => semWakeUp'[p]
    BY <1>2, <2>1 DEF AskStep, TestOverflow, Push, SetOverflow, Signal, CbType
  <2>5. \/ ask[t].pc # "signal" /\ queue'[p] = queue[p]
        \/ ask'[t].pc = "signal" /\ ask'[t].p = p /\ ask[t].pc # "signal"
        \/ ask[t].p = p /\ semWakeUp'[p]
    <3>1. CASE Push(t) /\ UNCHANGED queue
      BY <3>1 DEF Push
    <3>2. CASE Push(t) /\ ask' = [ask EXCEPT ![t].pc = "signal"]
      BY <2>1, <3>2 DEF Push, CbType, AskRec
    <3>3. CASE Signal(t)
      BY <2>1, <3>3 DEF Signal, CbType
    <3> QED
      BY <1>2, <3>1, <3>2, <3>3 DEF AskStep, TestOverflow, SetOverflow, Push
  <2> QED
    BY <2>2, <2>3, <2>4, <2>5, Ask_NoIdle
<1> QED
  BY <1>1, <1>2 DEF Request, notify, SyncRequest, Threads, syncRest, workVars

\* Steps of a worker.
LEMMA Task_NoIdle ==
  ASSUME CbType, NoIdle, NEW w \in Workers, callbackTask(w) PROVE NoIdle'
<1>1. PICK p \in Prios : p = w[1]
  BY WorkerPrio
<1>2. \A q \in Prios : Signalling(q)' <=> Signalling(q)
  BY DEF callbackTask, Start, Test, Check, Wait, Pop, More, Trigger, Clear, Run, sync_callback, Exit,
     workRest, Signalling
<1>3. PICK pc : wpc' = [wpc EXCEPT ![w] = pc]
  BY DEF callbackTask, Start, Test, Check, Wait, Pop, More, Trigger, Clear, Run, sync_callback, Exit,
     Goto
<1>4. \A v \in Workers : wpc'[v] = IF v = w THEN pc ELSE wpc[v]
  BY <1>3 DEF CbType
<1>5. \A q \in Prios : q # p => (Sleeping(q)' <=> Sleeping(q)) /\ (Looking(q)' <=> Looking(q))
  BY <1>1, <1>4 DEF Sleeping, Looking
<1>6. \A q \in Prios : q # p => queue'[q] = queue[q] /\ semWakeUp'[q] = semWakeUp[q]
  <2>1. CASE Pop(w)
    BY <1>1, <2>1 DEF Pop, CbType
  <2>2. CASE Wait(w) \/ Trigger(w)
    BY <1>1, <2>2 DEF Wait, Trigger, CbType
  <2> QED
    BY <2>1, <2>2 DEF callbackTask, Start, Test, Check, More, Clear, Run, sync_callback, Exit, ringVars
<1>7. ASSUME Sleeping(p)', queue'[p] # <<>> PROVE semWakeUp'[p] \/ Signalling(p)' \/ Looking(p)'
  <2>1. CASE pc \in {"pop", "more", "trigger"}
    BY <1>1, <1>4, <2>1 DEF Looking
  <2>2. CASE Trigger(w)
    BY <1>1, <2>2 DEF Trigger, CbType
  <2>3. CASE UNCHANGED <<queue, semWakeUp>> /\ wpc[w] \notin {"pop", "more", "trigger"} /\ pc # "wait"
    <3>1. Sleeping(p) /\ (Looking(p) => Looking(p)')
      BY <1>1, <1>4, <1>7, <2>3 DEF Sleeping, Looking
    <3> QED
      BY <1>2, <1>7, <2>3, <3>1 DEF NoIdle
  <2>4. CASE queue[p] = <<>> /\ UNCHANGED queue
    BY <1>7, <2>4
  <2>5. wpc'[w] = pc
    BY <1>4
  <2> QED
    <3>1. CASE Pop(w) \/ More(w) \/ Check(w) \/ Wait(w)
      BY <1>1, <2>1, <2>4, <2>5, <3>1 DEF Pop, More, Check, Wait, Goto, ringVars, CbType
    <3>2. CASE Start(w) \/ Test(w) \/ Clear(w) \/ Run(w) \/ sync_callback(w) \/ Exit(w)
      <4>1. UNCHANGED <<queue, semWakeUp>> /\ wpc[w] \notin {"pop", "more", "trigger"}
        BY <3>2 DEF Start, Test, Clear, Run, sync_callback, Exit, ringVars
      <4>2. wpc'[w] # "wait"
        BY <3>2 DEF Start, Test, Clear, Run, sync_callback, Exit, Goto, CbType
      <4> QED
        BY <2>3, <2>5, <4>1, <4>2
    <3> QED
      BY <2>2, <3>1, <3>2 DEF callbackTask
<1> QED
  BY <1>2, <1>5, <1>6, <1>7 DEF NoIdle

\* Steps of main: a worker it creates was not in its loop.
LEMMA Main_NoIdle ==
  ASSUME CbType, StartStop, NoIdle,
         \/ callbackInit \/ testSyncCallback \/ callbackStop \/ callbackCleanup \/ LateSignal
         \/ InitCreate \/ InitAwait \/ SyncRequested \/ SyncWait \/ StopShut \/ StopJoin \/ StopWait
         \/ \E c \in Cbs : \/ callbackCancelDelayed(c)
                           \/ \E p \in Prios : callbackRequestDelayed(c, p)
         \/ \E n \in QueueSizes : callbackSetQueueSize(n)
         \/ \E n \in 1 .. MaxThreads, ps \in {Prios} \cup {{p} : p \in Prios} :
              callbackParallelThreads(n, ps)
         \/ UNCHANGED vars
  PROVE  NoIdle'
<1>1. CASE callbackCleanup
  BY <1>1 DEF callbackCleanup, NoIdle
<1>2. CASE InitCreate
  <2>1. PICK w \in Workers : wpc[w] \in Out /\ wpc' = [wpc EXCEPT ![w] = "start"]
    BY <1>2, Create_StartStop
  <2>2. UNCHANGED <<queue, semWakeUp, ask>>
    BY <1>2 DEF InitCreate, ringVars
  <2>3. \A v \in Workers : wpc'[v] = IF v = w THEN "start" ELSE wpc[v]
    BY <2>1 DEF CbType
  <2>4. \A p \in Prios : /\ Sleeping(p)' => Sleeping(p)
                         /\ Looking(p) => Looking(p)'
                         /\ Signalling(p)' <=> Signalling(p)
    BY <2>1, <2>2, <2>3 DEF Sleeping, Looking, Signalling, Out
  <2> QED
    BY <2>2, <2>4 DEF NoIdle
<1>3. CASE ~callbackCleanup /\ ~InitCreate
  <2>1. UNCHANGED <<wpc, ask, queue>>
    BY <1>3 DEF callbackInit, testSyncCallback, callbackStop, LateSignal, InitAwait, SyncRequested,
       SyncWait, StopShut, StopJoin, NextJoin, StopWait, callbackCancelDelayed,
       callbackRequestDelayed, callbackSetQueueSize, callbackParallelThreads, vars, syncRest,
       stopRest, workRest, ringVars, workVars
  <2>2. \A p \in Prios : semWakeUp[p] => semWakeUp'[p]
    <3>1. CASE StopShut \/ StopJoin
      BY <3>1 DEF StopShut, StopJoin, NextJoin, CbType
    <3>2. CASE ~StopShut /\ ~StopJoin
      BY <1>3, <3>2 DEF callbackInit, testSyncCallback, callbackStop, LateSignal, InitAwait,
         SyncRequested, SyncWait, StopWait, callbackCancelDelayed, callbackRequestDelayed,
         callbackSetQueueSize, callbackParallelThreads, vars, syncRest, ringVars
    <3> QED
      BY <3>1, <3>2
  <2>3. \A p \in Prios : /\ Sleeping(p)' <=> Sleeping(p)
                         /\ Looking(p)' <=> Looking(p)
                         /\ Signalling(p)' <=> Signalling(p)
    BY <2>1 DEF Sleeping, Looking, Signalling
  <2> QED
    BY <2>1, <2>2, <2>3 DEF NoIdle
<1> QED
  BY <1>1, <1>2, <1>3

\* Nobody sleeps at first.
LEMMA NoIdleInit == Init => NoIdle
BY DEF Init, NoIdle

\* A worker of callbackTask never sleeps while its ring holds a callback unless the
\* semaphore is signalled, a requester is about to signal it, or another worker of the
\* priority will look at the ring before it runs anything, for any number of workers
\* that share one binary semaphore.
THEOREM WorkersNotIdle == Spec => []NoIdleWorker
<1>1. CbType /\ CbType' /\ StartStop /\ NoIdle /\ [Next]_vars => NoIdle'
  BY Requests_NoIdle, Task_NoIdle, Main_NoIdle DEF Next, MainStep
<1> QED
  BY <1>1, NoIdleSuffices, TypeInit, TypeNext, StartStopInit, StartStopNext, NoIdleInit, PTL DEF Spec

-----------------------------------------------------------------------------
(* The types of the callback tasks *)

Starting == {"create", "await"}
Serving  == {"up", "request", "phase4"}
Ending   == {"shut", "join", "joinwait", "stopped"}

\* requests are for callbacks
Asks == \A t \in Threads : ask[t].pc # "idle" => ask[t].cb \in AllCbs

\* what CbType leaves out and a step preserves by itself
RunType ==
  /\ callbackQueueSize \in QueueSizes /\ late \in Nat /\ startStopEvent \in BOOLEAN
  /\ queueOverflow \in [Prios -> BOOLEAN] /\ shutdown \in [Prios -> BOOLEAN]
  /\ queue \in [Prios -> Seq(AllCbs)]
  /\ wcb \in [Workers -> AllCbs \cup {NoCb}]
  /\ Asks

\* callbackInit has counted the workers of the priorities behind its loop, and those
\* before mj of the priority it is at; they stay until callbackStop
Boots ==
  /\ \A p \in Prios : threadsRunning[p] \in 0 .. threadsConfigured[p]
  /\ mpc # "down" => \A p \in Prios : threadsConfigured[p] >= 1
  /\ mpc \in Starting =>
       /\ threadsRunning[mp] = mj - 1 /\ mj <= threadsConfigured[mp]
       /\ \A p \in Prios : /\ p < mp => threadsRunning[p] >= 1
                           /\ p > mp => threadsRunning[p] = 0
  /\ mpc \in Serving => \A p \in Prios : threadsRunning[p] >= 1

\* workers leave only when callbackStop has told them
Leaving ==
  /\ \A p \in Prios : shutdown[p] => mpc \in Ending
  /\ \A w \in Workers : wpc[w] = "exit" => shutdown[w[1]]

\* the priorities with workers that are counted
Up == {p \in Prios : threadsRunning[p] > 0}

\* a priority that has workers may yet signal once
LateBound ==
  /\ late + Cardinality(Up) <= MaxLate + NUM_CALLBACK_PRIORITIES
  /\ mpc \in Starting \cup Serving => late <= MaxLate

\* the size of the rings is changed only while they are empty
Filled ==
  /\ \A p \in Prios : Len(queue[p]) <= callbackQueueSize
  /\ mpc = "down" => /\ \A p \in Prios : queue[p] = <<>>
                     /\ \A t \in Threads : ask[t].pc = "idle"

\* testSyncCallback's callback of priority p: about to be pushed, on the ring, or in
\* the hands of a worker that has not run it
Asked(p) == /\ ask["main"].pc \in {"test", "push"}
            /\ ask["main"].cb = SyncCb /\ ask["main"].p = p
Queued(p, i) == i \in 1 .. Len(queue[p]) /\ queue[p][i] = SyncCb
Held(p, w) == w[1] = p /\ wcb[w] = SyncCb /\ wpc[w] # "phase2"

Token(p) == \/ Asked(p) \/ \E i \in Nat : Queued(p, i)
            \/ \E w \in Workers : Held(p, w)

One(p) ==
  /\ \A i, j \in Nat : Queued(p, i) /\ Queued(p, j) => i = j
  /\ \A v, w \in Workers : Held(p, v) /\ Held(p, w) => v = w
  /\ ~(Asked(p) /\ \E i \in Nat : Queued(p, i))
  /\ ~(Asked(p) /\ \E w \in Workers : Held(p, w))
  /\ ~((\E i \in Nat : Queued(p, i)) /\ \E w \in Workers : Held(p, w))

\* sync_helper
HelperRec == [nphase2 : 0 .. MaxThreads, nphase3 : 0 .. MaxThreads, phase4 : BOOLEAN]

\* where testSyncCallback waits for the callback of priority p
Place(p) == (mpc = "request" /\ p < mp) \/ (mpc = "phase4" /\ p >= mp)

\* there is at most one, its helper counts it, and testSyncCallback will wait for it
SyncAt(p) ==
  /\ One(p)
  /\ Token(p) => /\ helper[p].nphase2 >= 1 /\ helper[p].nphase3 >= 1 /\ ~helper[p].phase4
                 /\ Place(p)

\* the callback is requested by main only
MainOnly == \A t \in Threads : ask[t].cb = SyncCb => t = "main"

Synced == helper \in [Prios -> HelperRec] /\ MainOnly /\ \A p \in Prios : SyncAt(p)

\* all of it
CbRest == RunType /\ Boots /\ Leaving /\ LateBound /\ Filled /\ Synced

\* Steps of requesters and timers, of late workers and of workers that stay.
Calm ==
  \/ UNCHANGED vars \/ LateSignal
  \/ \E t \in Askers, c \in Cbs, p \in Prios : Request(t, c, p)
  \/ \E t \in Threads : AskStep(t)
  \/ \E c \in Cbs : \/ notify(c) \/ callbackCancelDelayed(c)
                    \/ \E p \in Prios : callbackRequestDelayed(c, p)
  \/ \E n \in QueueSizes : callbackSetQueueSize(n)
  \/ \E w \in Workers : callbackTask(w) /\ ~Exit(w)

\* Steps of main while it serves or stops.
Moves ==
  \/ testSyncCallback \/ SyncRequest \/ SyncRequested \/ SyncWait
  \/ callbackStop \/ StopShut \/ StopJoin \/ StopWait

\* Every step is one of these.
LEMMA Steps ==
  ASSUME [Next]_vars
  PROVE  \/ Calm \/ Moves \/ \E w \in Workers : Exit(w)
         \/ \E n \in 1 .. MaxThreads, ps \in {Prios} \cup {{p} : p \in Prios} :
              callbackParallelThreads(n, ps)
         \/ callbackInit \/ InitCreate \/ InitAwait \/ callbackCleanup
BY DEF Next, MainStep, Calm, Moves

\* What calm steps leave alone.
LEMMA CalmFrame ==
  ASSUME Calm
  PROVE  UNCHANGED <<threadsRunning, threadsConfigured, shutdown, mpc, mp, mj>>
BY DEF Calm, vars, LateSignal, Request, AskStep, TestOverflow, Push, SetOverflow, Signal, notify,
   callbackCancelDelayed, callbackRequestDelayed, callbackSetQueueSize, callbackTask, Start, Test,
   Check, Wait, Pop, More, Trigger, Clear, Run, sync_callback, askRest, workRest, confVars, mainVars

\* What the steps of main leave alone, and where they lead.
LEMMA MovesFrame ==
  ASSUME CbType, Moves
  PROVE  /\ UNCHANGED <<threadsRunning, threadsConfigured, callbackQueueSize, queue, queueOverflow,
                        wpc, wcb, late>>
         /\ \/ mpc \in Serving /\ mpc' \in Serving
            \/ mpc \in Serving \cup Ending /\ mpc' \in Ending
<1>1. UNCHANGED <<threadsRunning, threadsConfigured, callbackQueueSize, queue, queueOverflow, wpc, wcb, late>>
  BY DEF Moves, testSyncCallback, SyncRequest, SyncRequested, SyncWait, callbackStop, StopShut,
     StopJoin, NextJoin, StopWait, syncRest, stopRest, ringVars, confVars, workVars
<1>2. \/ mpc \in Serving /\ mpc' \in Serving
      \/ mpc \in Serving \cup Ending /\ mpc' \in Ending
  <2>1. CASE testSyncCallback \/ SyncRequest \/ SyncRequested
    BY <2>1 DEF testSyncCallback, SyncRequest, SyncRequested, Serving
  <2>2. CASE SyncWait
    BY <2>2 DEF SyncWait, Serving
  <2>3. CASE callbackStop \/ StopWait
    BY <2>3 DEF callbackStop, StopWait, Serving, Ending
  <2>4. CASE StopShut
    BY <2>4 DEF StopShut, Ending
  <2>5. CASE StopJoin
    BY <2>5 DEF StopJoin, NextJoin, Ending
  <2> QED
    BY <2>1, <2>2, <2>3, <2>4, <2>5 DEF Moves
<1> QED
  BY <1>1, <1>2

\* The states of main are disjoint.
LEMMA MainStates ==
  /\ "down" \notin Starting \cup Serving \cup Ending
  /\ \A pc \in Serving : pc \notin Starting /\ pc \notin Ending
  /\ \A pc \in Ending : pc \notin Starting /\ pc \notin Serving
  /\ \A pc \in Starting : pc \notin Serving /\ pc \notin Ending
  /\ "create" \in Starting /\ "await" \in Starting /\ "up" \in Serving
BY DEF Starting, Serving, Ending

\* When a worker leaves, callbackStop is under way and the worker is counted.
LEMMA ExitCounts ==
  ASSUME CbType, StartStop, Leaving, NEW w \in Workers, Exit(w)
  PROVE  /\ w[1] \in Prios /\ mpc \in Ending /\ threadsRunning[w[1]] \in Nat /\ threadsRunning[w[1]] >= 1
         /\ \A p \in Prios : threadsRunning'[p] = IF p = w[1] THEN threadsRunning[p] - 1 ELSE threadsRunning[p]
         /\ late' = IF threadsRunning'[w[1]] = 0 THEN late + 1 ELSE late
         /\ UNCHANGED <<threadsConfigured, shutdown, mpc, mp, mj>>
<1>1. w[1] \in Prios /\ wpc[w] = "exit"
  BY WorkerPrio DEF Exit
<1>2. mpc \in Ending
  BY <1>1 DEF Leaving
<1>3. w \in InLoop(w[1])
  BY <1>1 DEF InLoop, Out
<1>4. Cardinality(InLoop(w[1])) \in Nat /\ Cardinality(InLoop(w[1])) # 0
  BY <1>1, <1>3, LoopFinite, FS_EmptySet
<1>5. Awaited(w[1]) = 0
  BY <1>2 DEF Awaited, Ending
<1>6. Cardinality(InLoop(w[1])) = threadsRunning[w[1]] + Awaited(w[1]) /\ threadsRunning[w[1]] \in Int
  BY <1>1 DEF StartStop, Counted, CbType
<1>7. threadsRunning[w[1]] \in Nat /\ threadsRunning[w[1]] >= 1
  BY <1>4, <1>5, <1>6
<1>8. UNCHANGED <<threadsConfigured, shutdown, mpc, mp, mj>>
  BY DEF Exit, workRest, confVars, mainVars
<1>9. \A p \in Prios : threadsRunning'[p] = IF p = w[1] THEN threadsRunning[p] - 1 ELSE threadsRunning[p]
  BY DEF Exit, CbType
<1>10. late' = IF threadsRunning'[w[1]] = 0 THEN late + 1 ELSE late
  BY DEF Exit
<1> QED
  BY <1>1, <1>2, <1>7, <1>8, <1>9, <1>10

-----------------------------------------------------------------------------
(* What callbackInit has started *)

\* It depends on what the main thread counts.
LEMMA BootsFrame ==
  ASSUME Boots, UNCHANGED <<threadsRunning, threadsConfigured, mpc, mp, mj>> PROVE Boots'
BY DEF Boots

\* A worker leaves.
LEMMA Exit_Boots ==
  ASSUME CbType, StartStop, Leaving, Boots, NEW w \in Workers, Exit(w) PROVE Boots'
<1>1. /\ w[1] \in Prios /\ mpc \in Ending /\ threadsRunning[w[1]] \in Nat /\ threadsRunning[w[1]] >= 1
      /\ \A p \in Prios : threadsRunning'[p] = IF p = w[1] THEN threadsRunning[p] - 1 ELSE threadsRunning[p]
      /\ UNCHANGED <<threadsConfigured, mpc, mp, mj>>
  BY ExitCounts
<1>2. \A p \in Prios : threadsRunning'[p] \in 0 .. threadsConfigured'[p]
  <2> SUFFICES ASSUME NEW p \in Prios PROVE threadsRunning'[p] \in 0 .. threadsConfigured[p]
    BY <1>1
  <2>1. threadsRunning[p] \in 0 .. threadsConfigured[p] /\ threadsConfigured[p] \in Nat
    BY CbFacts DEF Boots, CbType
  <2> QED
    BY <1>1, <2>1
<1>3. mpc' \notin Starting /\ mpc' \notin Serving
  BY <1>1, MainStates
<1> QED
  BY <1>1, <1>2, <1>3 DEF Boots

\* callbackInit counts one more.
LEMMA Await_Boots == ASSUME CbType, CbType', Boots, InitAwait PROVE Boots'
<1>1. /\ mpc = "await" /\ threadsRunning' = [threadsRunning EXCEPT ![mp] = @ + 1]
      /\ UNCHANGED threadsConfigured
      /\ \/ mj < threadsConfigured[mp] /\ mj' = mj + 1 /\ mp' = mp /\ mpc' = "create"
         \/ /\ mj = threadsConfigured[mp] /\ mj' = 1 /\ mp' = mp + 1
            /\ mpc' = IF mp' \in Prios THEN "create" ELSE "up"
  BY DEF InitAwait, confVars
<1>2. mp \in Prios /\ mp \in Int /\ mj \in Int /\ mj >= 1 /\ mpc # "down" /\ mpc' # "down"
  BY <1>1, CbFacts DEF CbType, Looping, Prios
<1>3. \A p \in Prios : /\ threadsRunning'[p] = IF p = mp THEN threadsRunning[p] + 1 ELSE threadsRunning[p]
                       /\ threadsRunning[p] \in Int /\ threadsConfigured[p] \in Int /\ p \in Int
  BY <1>1 DEF CbType, Prios
<1>4. /\ threadsRunning[mp] = mj - 1 /\ mj <= threadsConfigured[mp]
      /\ \A p \in Prios : p < mp => threadsRunning[p] >= 1
      /\ \A p \in Prios : p > mp => threadsRunning[p] = 0
      /\ \A p \in Prios : threadsConfigured[p] >= 1 /\ threadsRunning[p] \in 0 .. threadsConfigured[p]
  BY <1>1, <1>2, MainStates DEF Boots
<1>5. \A p \in Prios : threadsRunning'[p] \in 0 .. threadsConfigured[p]
  BY <1>2, <1>3, <1>4
<1>6. CASE mj < threadsConfigured[mp] /\ mj' = mj + 1 /\ mp' = mp /\ mpc' = "create"
  <2>1. mpc' \in Starting /\ mpc' \notin Serving
    BY <1>6 DEF Starting, Serving
  <2>2. threadsRunning'[mp'] = mj' - 1 /\ mj' <= threadsConfigured[mp']
    BY <1>2, <1>3, <1>4, <1>6
  <2>3. \A p \in Prios : p < mp' => threadsRunning'[p] >= 1
    BY <1>2, <1>3, <1>4, <1>6
  <2>4. \A p \in Prios : p > mp' => threadsRunning'[p] = 0
    BY <1>2, <1>3, <1>4, <1>6
  <2> QED
    BY <1>1, <1>4, <1>5, <2>1, <2>2, <2>3, <2>4 DEF Boots
<1>7. CASE mj = threadsConfigured[mp] /\ mj' = 1 /\ mp' = mp + 1 /\ mp' \in Prios /\ mpc' = "create"
  <2>1. mpc' \in Starting /\ mpc' \notin Serving
    BY <1>7 DEF Starting, Serving
  <2>2. threadsRunning'[mp'] = mj' - 1 /\ mj' <= threadsConfigured[mp']
    BY <1>2, <1>3, <1>4, <1>7
  <2>3. \A p \in Prios : p < mp' => threadsRunning'[p] >= 1
    BY <1>2, <1>3, <1>4, <1>7
  <2>4. \A p \in Prios : p > mp' => threadsRunning'[p] = 0
    BY <1>2, <1>3, <1>4, <1>7
  <2> QED
    BY <1>1, <1>4, <1>5, <2>1, <2>2, <2>3, <2>4 DEF Boots
<1>8. CASE mj = threadsConfigured[mp] /\ mp' = mp + 1 /\ mp' \notin Prios /\ mpc' = "up"
  <2>1. mpc' \notin Starting
    BY <1>8 DEF Starting
  <2>2. \A p \in Prios : p < mp \/ p = mp
    BY <1>2, <1>8, CbFacts, SMTT(30) DEF Prios
  <2>3. \A p \in Prios : threadsRunning'[p] >= 1
    BY <1>2, <1>3, <1>4, <1>8, <2>2
  <2> QED
    BY <1>1, <1>2, <1>4, <1>5, <2>1, <2>3 DEF Boots
<1> QED
  BY <1>1, <1>6, <1>7, <1>8

\* Every step keeps it.
LEMMA BootsNext ==
  ASSUME CbType, CbType', StartStop, Leaving, Boots, [Next]_vars PROVE Boots'
<1>1. CASE Calm
  BY <1>1, CalmFrame, BootsFrame
<1>2. CASE Moves
  <2>1. /\ UNCHANGED <<threadsRunning, threadsConfigured>>
        /\ \/ mpc \in Serving /\ mpc' \in Serving
           \/ mpc \in Serving \cup Ending /\ mpc' \in Ending
    BY <1>2, MovesFrame
  <2>2. mpc # "down" /\ mpc' \notin Starting /\ (mpc' \in Serving => mpc \in Serving)
    BY <2>1, MainStates
  <2> QED
    BY <2>1, <2>2 DEF Boots
<1>3. ASSUME NEW w \in Workers, Exit(w) PROVE Boots'
  BY <1>3, Exit_Boots
<1>4. ASSUME NEW n \in 1 .. MaxThreads, NEW ps \in {Prios} \cup {{p} : p \in Prios},
             callbackParallelThreads(n, ps)
      PROVE  Boots'
  <2>1. /\ mpc = "down" /\ mpc' = "down" /\ UNCHANGED threadsRunning
        /\ \A p \in Prios : threadsConfigured'[p] \in Nat
    BY <1>4, CbFacts DEF callbackParallelThreads, mainVars, CbType
  <2>2. \A p \in Prios : threadsRunning'[p] = 0
    BY <2>1 DEF StartStop, Joined
  <2> QED
    BY <2>1, <2>2, MainStates DEF Boots
<1>5. CASE callbackInit
  <2>1. /\ mpc = "down" /\ mpc' = "create" /\ mp' = 0 /\ mj' = 1 /\ UNCHANGED threadsRunning
        /\ \A p \in Prios : threadsConfigured'[p] \in Nat /\ threadsConfigured'[p] >= 1
    BY <1>5, CbFacts DEF callbackInit, CbType
  <2>2. \A p \in Prios : threadsRunning'[p] = 0
    BY <2>1 DEF StartStop, Joined
  <2>3. mpc' \in Starting /\ mpc' \notin Serving /\ mp' \in Prios
    BY <2>1, MainStates, CbFacts
  <2>4. \A p \in Prios : ~(p < mp')
    BY <2>1, CbFacts DEF Prios
  <2> QED
    BY <2>1, <2>2, <2>3, <2>4 DEF Boots
<1>6. CASE InitCreate
  <2>1. mpc = "create" /\ mpc' = "await" /\ UNCHANGED <<threadsRunning, threadsConfigured, mp, mj>>
    BY <1>6 DEF InitCreate, confVars
  <2> QED
    BY <2>1, MainStates DEF Boots
<1>7. CASE callbackCleanup
  <2>1. /\ mpc' = "down" /\ threadsRunning' = [p \in Prios |-> 0]
        /\ threadsConfigured' = [p \in Prios |-> 0]
    BY <1>7 DEF callbackCleanup
  <2> QED
    BY <2>1, MainStates DEF Boots
<1> QED
  BY <1>1, <1>2, <1>3, <1>4, <1>5, <1>6, <1>7, Await_Boots, Steps

-----------------------------------------------------------------------------
(* Workers leave when they are told *)

\* Every step keeps it.
LEMMA LeavingNext == ASSUME CbType, StartStop, RunType, Leaving, [Next]_vars PROVE Leaving'
<1>1. ASSUME NEW w \in Workers, callbackTask(w) PROVE Leaving'
  <2>1. UNCHANGED <<shutdown, mpc>> /\ \A v \in Workers : v # w => wpc'[v] = wpc[v]
    BY <1>1 DEF callbackTask, Start, Test, Check, Wait, Pop, More, Trigger, Clear, Run,
       sync_callback, Exit, Goto, workRest, mainVars, CbType
  <2>2. wpc'[w] = "exit" => shutdown[w[1]]
    <3>1. CASE Test(w)
      BY <3>1 DEF Test, Goto, CbType
    <3>2. CASE ~Test(w)
      BY <1>1, <3>2 DEF callbackTask, Start, Check, Wait, Pop, More, Trigger, Clear, Run,
         sync_callback, Exit, Goto, CbType
    <3> QED
      BY <3>1, <3>2
  <2> QED
    BY <2>1, <2>2 DEF Leaving
<1>2. CASE Calm /\ ~\E w \in Workers : callbackTask(w)
  <2>1. UNCHANGED <<shutdown, mpc>>
    BY <1>2, CalmFrame
  <2>2. UNCHANGED wpc
    BY <1>2 DEF Calm, vars, LateSignal, Request, AskStep, TestOverflow, Push, SetOverflow, Signal,
       notify, callbackCancelDelayed, callbackRequestDelayed, callbackSetQueueSize, askRest, workVars
  <2> QED
    BY <2>1, <2>2 DEF Leaving
<1>3. CASE StopShut
  <2>1. /\ shutdown' = [shutdown EXCEPT ![mp] = TRUE] /\ UNCHANGED wpc /\ mpc' \in Ending
    BY <1>3 DEF StopShut, stopRest, workVars, Ending
  <2>2. \A p \in Prios : shutdown[p] => shutdown'[p]
    BY <2>1 DEF RunType
  <2> QED
    BY <2>1, <2>2, WorkerPrio DEF Leaving
<1>4. CASE Moves /\ ~StopShut
  <2>1. UNCHANGED shutdown
    BY <1>4 DEF Moves, testSyncCallback, SyncRequest, SyncRequested, SyncWait, callbackStop, StopJoin,
       NextJoin, StopWait, syncRest
  <2>2. UNCHANGED wpc /\ (mpc \in Ending => mpc' \in Ending)
    BY <1>4, MovesFrame, MainStates
  <2> QED
    BY <2>1, <2>2 DEF Leaving
<1>5. ASSUME NEW n \in 1 .. MaxThreads, NEW ps \in {Prios} \cup {{p} : p \in Prios},
             callbackParallelThreads(n, ps)
      PROVE  Leaving'
  BY <1>5 DEF callbackParallelThreads, workVars, mainVars, Leaving
<1>6. CASE callbackInit \/ InitAwait
  <2>1. mpc \notin Ending /\ UNCHANGED <<shutdown, wpc>>
    BY <1>6, MainStates DEF callbackInit, InitAwait, workVars
  <2> QED
    BY <2>1 DEF Leaving
<1>7. CASE InitCreate
  <2>1. mpc = "create" /\ UNCHANGED shutdown /\ wpc' = [wpc EXCEPT ![<<mp, mj>>] = "start"]
    BY <1>7 DEF InitCreate
  <2>2. mpc \notin Ending /\ \A v \in Workers : wpc'[v] = "exit" => wpc[v] = "exit"
    BY <2>1, MainStates DEF CbType
  <2> QED
    BY <2>1, <2>2 DEF Leaving
<1>8. CASE callbackCleanup
  <2>1. mpc = "stopped" /\ shutdown' = [p \in Prios |-> FALSE] /\ UNCHANGED wpc
    BY <1>8 DEF callbackCleanup, workVars
  <2>2. \A w \in Workers : wpc[w] # "exit"
    BY <2>1, StartStopSuffices DEF CleanupSafe
  <2> QED
    BY <2>1, <2>2 DEF Leaving
<1> QED
  BY <1>1, <1>2, <1>3, <1>4, <1>5, <1>6, <1>7, <1>8, Steps DEF callbackTask

-----------------------------------------------------------------------------
(* Late signals *)

\* The priorities are finitely many, and the bound on late workers is a number.
LEMMA UpFinite ==
  /\ IsFiniteSet(Prios) /\ Cardinality(Prios) = NUM_CALLBACK_PRIORITIES
  /\ \A S : S \in SUBSET Prios =>
       IsFiniteSet(S) /\ Cardinality(S) \in Nat /\ Cardinality(S) <= NUM_CALLBACK_PRIORITIES
  /\ MaxLate \in Nat /\ NUM_CALLBACK_PRIORITIES \in Nat
<1>1. /\ NUM_CALLBACK_PRIORITIES \in Nat /\ NUM_CALLBACK_PRIORITIES > 0 /\ MaxLate \in Nat
      /\ 0 \in Int /\ NUM_CALLBACK_PRIORITIES - 1 \in Int
  BY CbFacts, CbAssumption
<1>2. IsFiniteSet(Prios) /\ Cardinality(Prios) = NUM_CALLBACK_PRIORITIES
  <2>1. IsFiniteSet(0 .. NUM_CALLBACK_PRIORITIES - 1)
    BY <1>1, FS_Interval
  <2>2. Cardinality(0 .. NUM_CALLBACK_PRIORITIES - 1)
          = IF 0 > NUM_CALLBACK_PRIORITIES - 1 THEN 0 ELSE NUM_CALLBACK_PRIORITIES - 1 - 0 + 1
    BY <1>1, FS_Interval
  <2> QED
    BY <1>1, <2>1, <2>2 DEF Prios
<1>3. \A S : S \in SUBSET Prios => IsFiniteSet(S) /\ Cardinality(S) <= Cardinality(Prios)
  BY <1>2, FS_Subset
<1> QED
  BY <1>1, <1>2, <1>3, FS_CardinalityType

\* Every step keeps it.
LEMMA LateNext ==
  ASSUME CbType, StartStop, RunType, Leaving, LateBound, [Next]_vars PROVE LateBound'
<1>1. /\ Cardinality(Up) \in Nat /\ Cardinality(Up)' \in Nat
      /\ Cardinality(Up)' <= NUM_CALLBACK_PRIORITIES /\ IsFiniteSet(Up)
      /\ MaxLate \in Nat /\ NUM_CALLBACK_PRIORITIES \in Nat /\ late \in Nat
  BY UpFinite DEF Up, RunType
<1>2. ASSUME late' \in Nat, late' <= MaxLate PROVE LateBound'
  BY <1>1, <1>2 DEF LateBound
<1>3. ASSUME late' \in Nat, late' <= late, UNCHANGED threadsRunning,
             mpc' \in Starting \cup Serving => mpc \in Starting \cup Serving
      PROVE  LateBound'
  <2>1. Cardinality(Up)' = Cardinality(Up)
    BY <1>3 DEF Up
  <2> QED
    BY <1>1, <1>3, <2>1 DEF LateBound
<1>4. CASE Calm
  <2>1. UNCHANGED <<threadsRunning, mpc>>
    BY <1>4, CalmFrame
  <2>2. late' \in Nat /\ late' <= late
    <3>1. CASE LateSignal
      BY <1>1, <3>1 DEF LateSignal
    <3>2. CASE ~LateSignal
      <4>1. UNCHANGED late
        BY <1>4, <3>2 DEF Calm, vars, Request, AskStep, TestOverflow, Push, SetOverflow, Signal,
           notify, callbackCancelDelayed, callbackRequestDelayed, callbackSetQueueSize, callbackTask,
           Start, Test, Check, Wait, Pop, More, Trigger, Clear, Run, sync_callback, askRest
      <4> QED
        BY <1>1, <4>1
    <3> QED
      BY <3>1, <3>2
  <2> QED
    BY <1>3, <2>1, <2>2
<1>5. CASE Moves
  <2>1. UNCHANGED <<threadsRunning, late>> /\ (mpc' \in Serving => mpc \in Serving) /\ mpc' \notin Starting
    BY <1>5, MovesFrame, MainStates
  <2> QED
    BY <1>1, <1>3, <2>1
<1>6. ASSUME NEW w \in Workers, Exit(w) PROVE LateBound'
  <2>1. /\ w[1] \in Prios /\ mpc \in Ending /\ threadsRunning[w[1]] \in Nat /\ threadsRunning[w[1]] >= 1
        /\ \A p \in Prios : threadsRunning'[p] = IF p = w[1] THEN threadsRunning[p] - 1 ELSE threadsRunning[p]
        /\ late' = IF threadsRunning'[w[1]] = 0 THEN late + 1 ELSE late
        /\ UNCHANGED mpc
    BY <1>6, ExitCounts
  <2>2. mpc' \notin Starting \cup Serving
    BY <2>1, MainStates
  <2>3. CASE threadsRunning'[w[1]] = 0
    <3>1. w[1] \in Up /\ Up' = Up \ {w[1]}
      BY <2>1, <2>3 DEF Up
    <3>2. Cardinality(Up)' = Cardinality(Up) - 1
      BY <1>1, <3>1, FS_RemoveElement
    <3> QED
      BY <1>1, <2>1, <2>2, <2>3, <3>2 DEF LateBound
  <2>4. CASE threadsRunning'[w[1]] # 0
    <3>1. Up' = Up
      BY <2>1, <2>4 DEF Up
    <3> QED
      BY <1>1, <2>1, <2>2, <2>4, <3>1 DEF LateBound
  <2> QED
    BY <2>3, <2>4
<1>7. ASSUME NEW n \in 1 .. MaxThreads, NEW ps \in {Prios} \cup {{p} : p \in Prios},
             callbackParallelThreads(n, ps)
      PROVE  LateBound'
  BY <1>1, <1>3, <1>7 DEF callbackParallelThreads, mainVars
<1>8. CASE callbackInit
  BY <1>1, <1>2, <1>8 DEF callbackInit
<1>9. CASE InitCreate \/ InitAwait
  <2>1. UNCHANGED late /\ mpc \in Starting
    BY <1>9, MainStates DEF InitCreate, InitAwait
  <2> QED
    BY <1>1, <1>2, <2>1 DEF LateBound
<1>10. CASE callbackCleanup
  <2>1. mpc = "stopped" /\ mpc' = "down" /\ threadsRunning' = [p \in Prios |-> 0] /\ UNCHANGED late
    BY <1>10 DEF callbackCleanup
  <2>2. Up' = Up
    BY <2>1 DEF Up, StartStop, Joined
  <2> QED
    BY <1>1, <2>1, <2>2, MainStates DEF LateBound
<1> QED
  BY <1>4, <1>5, <1>6, <1>7, <1>8, <1>9, <1>10, Steps

-----------------------------------------------------------------------------
(* Rings and requests *)

\* What a request does to the thread that makes it, and to the ring.
LEMMA AskSteps ==
  ASSUME CbType, NEW t \in Threads, AskStep(t)
  PROVE  /\ ask[t].pc # "idle" /\ (\A u \in Threads : u # t => ask'[u] = ask[u])
         /\ \/ ask'[t] = NoAsk
            \/ ask'[t].pc # "idle" /\ ask'[t].cb = ask[t].cb /\ ask'[t].p = ask[t].p
         /\ UNCHANGED <<callbackQueueSize, wpc, wcb, mpc, mp, helper, shutdown, startStopEvent, late>>
<1>1. ask[t].pc # "idle"
  BY DEF AskStep, TestOverflow, Push, SetOverflow, Signal
<1>2. UNCHANGED <<callbackQueueSize, wpc, wcb, mpc, mp, helper, shutdown, startStopEvent, late>>
  BY DEF AskStep, TestOverflow, Push, SetOverflow, Signal, askRest, confVars, workVars, mainVars
<1>3. \/ ask' = [ask EXCEPT ![t] = NoAsk]
      \/ \E pc \in {"push", "full", "signal"} : ask' = [ask EXCEPT ![t].pc = pc]
  BY DEF AskStep, TestOverflow, Push, SetOverflow, Signal
<1>4. ask \in [Threads -> AskRec]
  BY DEF CbType
<1>5. CASE ask' = [ask EXCEPT ![t] = NoAsk]
  BY <1>1, <1>2, <1>4, <1>5
<1>6. ASSUME NEW pc \in {"push", "full", "signal"}, ask' = [ask EXCEPT ![t].pc = pc]
      PROVE  /\ \A u \in Threads : u # t => ask'[u] = ask[u]
             /\ ask'[t].pc # "idle" /\ ask'[t].cb = ask[t].cb /\ ask'[t].p = ask[t].p
  BY <1>4, <1>6 DEF AskRec
<1> QED
  BY <1>1, <1>2, <1>3, <1>5, <1>6

\* The types of requests.
LEMMA AsksNext == ASSUME CbType, Asks, [Next]_vars PROVE Asks'
<1>1. ask \in [Threads -> AskRec]
  BY DEF CbType
<1>2. ASSUME NEW t \in Threads, NEW c \in AllCbs, NEW p, callbackRequest(t, c, p) PROVE Asks'
  BY <1>1, <1>2 DEF callbackRequest, Asks
<1>3. ASSUME NEW t \in Threads, AskStep(t) PROVE Asks'
  <2>1. /\ ask[t].pc # "idle" /\ \A u \in Threads : u # t => ask'[u] = ask[u]
        /\ \/ ask'[t] = NoAsk
           \/ ask'[t].pc # "idle" /\ ask'[t].cb = ask[t].cb /\ ask'[t].p = ask[t].p
    BY <1>3, AskSteps
  <2> QED
    BY <2>1 DEF Asks, NoAsk
<1>4. CASE \/ \E t \in Askers, c \in Cbs, p \in Prios : Request(t, c, p)
           \/ \E c \in Cbs : notify(c)
  BY <1>2, <1>4 DEF Request, notify, SyncRequest, Threads, AllCbs
<1>5. CASE SyncRequest
  BY <1>2, <1>5 DEF SyncRequest, Threads, AllCbs
<1>6. CASE /\ ~(\E t \in Threads : AskStep(t)) /\ ~SyncRequest
           /\ ~(\E t \in Askers, c \in Cbs, p \in Prios : Request(t, c, p))
           /\ ~(\E c \in Cbs : notify(c))
  <2>1. UNCHANGED ask
    BY <1>6 DEF Next, vars, callbackCancelDelayed, callbackRequestDelayed, callbackTask, Start, Test,
       Check, Wait, Pop, More, Trigger, Clear, Run, sync_callback, Exit, LateSignal, workRest,
       callbackSetQueueSize, callbackParallelThreads, callbackInit, testSyncCallback, callbackStop,
       callbackCleanup, MainStep, InitCreate, InitAwait, SyncRequested, SyncWait, StopShut, StopJoin,
       NextJoin, StopWait, stopRest
  <2> QED
    BY <2>1 DEF Asks
<1> QED
  BY <1>3, <1>4, <1>5, <1>6

\* What changes a ring.
LEMMA RingSteps ==
  ASSUME [Next]_vars
  PROVE  \/ UNCHANGED queue \/ callbackCleanup
         \/ \E t \in Threads : Push(t) /\ Len(queue[ask[t].p]) < callbackQueueSize
         \/ \E w \in Workers : Pop(w) /\ queue[w[1]] # <<>>
<1>1. ASSUME NEW t \in Threads, AskStep(t), queue' # queue
      PROVE  Push(t) /\ Len(queue[ask[t].p]) < callbackQueueSize
  BY <1>1 DEF AskStep, TestOverflow, Push, SetOverflow, Signal
<1>2. ASSUME NEW w \in Workers, callbackTask(w), queue' # queue PROVE Pop(w) /\ queue[w[1]] # <<>>
  BY <1>2 DEF callbackTask, Start, Test, Check, Wait, Pop, More, Trigger, Clear, Run, sync_callback,
     Exit, ringVars
<1>3. CASE /\ ~(\E t \in Threads : AskStep(t)) /\ ~(\E w \in Workers : callbackTask(w))
           /\ ~callbackCleanup
  BY <1>3 DEF Next, vars, Request, notify, callbackCancelDelayed, callbackRequestDelayed, LateSignal,
     callbackSetQueueSize, callbackParallelThreads, callbackInit, testSyncCallback, callbackStop,
     MainStep, InitCreate, InitAwait, SyncRequest, SyncRequested, SyncWait, StopShut, StopJoin,
     NextJoin, StopWait, stopRest, syncRest, ringVars
<1> QED
  BY <1>1, <1>2, <1>3

\* What a push does.
LEMMA PushDoes ==
  ASSUME CbType, RunType, NEW t \in Threads, Push(t), Len(queue[ask[t].p]) < callbackQueueSize
  PROVE  /\ ask[t].pc = "push" /\ ask[t].p \in Prios /\ ask[t].cb \in AllCbs /\ ask'[t].pc = "signal"
         /\ \A q \in Prios : queue'[q] = IF q = ask[t].p THEN Append(queue[q], ask[t].cb) ELSE queue[q]
         /\ queue' \in [Prios -> Seq(AllCbs)]
<1>1. ask \in [Threads -> AskRec] /\ ask[t].pc = "push" /\ queue \in [Prios -> Seq(AllCbs)]
  BY DEF CbType, Push, RunType
<1>2. ask[t].p \in Prios /\ ask[t].cb \in AllCbs
  BY <1>1 DEF AskRec, RunType, Asks
<1>3. /\ queue' = [queue EXCEPT ![ask[t].p] = Append(@, ask[t].cb)]
      /\ ask' = [ask EXCEPT ![t].pc = "signal"]
  BY DEF Push
<1>4. ask'[t].pc = "signal"
  BY <1>1, <1>3 DEF AskRec
<1> QED
  BY <1>1, <1>2, <1>3, <1>4

\* What a pop does.
LEMMA PopDoes ==
  ASSUME CbType, RunType, NEW w \in Workers, Pop(w), queue[w[1]] # <<>>
  PROVE  /\ wpc[w] = "pop" /\ w[1] \in Prios /\ Head(queue[w[1]]) \in AllCbs
         /\ wcb' = [wcb EXCEPT ![w] = Head(queue[w[1]])] /\ wpc' = [wpc EXCEPT ![w] = "more"]
         /\ \A q \in Prios : queue'[q] = IF q = w[1] THEN Tail(queue[q]) ELSE queue[q]
         /\ queue' \in [Prios -> Seq(AllCbs)]
<1>1. w[1] \in Prios /\ queue \in [Prios -> Seq(AllCbs)]
  BY WorkerPrio DEF RunType
<1>2. /\ queue' = [queue EXCEPT ![w[1]] = Tail(@)] /\ wcb' = [wcb EXCEPT ![w] = Head(queue[w[1]])]
      /\ wpc' = [wpc EXCEPT ![w] = "more"] /\ wpc[w] = "pop"
  BY DEF Pop, Goto
<1>3. Head(queue[w[1]]) \in AllCbs /\ Tail(queue[w[1]]) \in Seq(AllCbs)
  BY <1>1, HeadTailProperties
<1> QED
  BY <1>1, <1>2, <1>3

\* Every step keeps the types.
LEMMA RunTypeNext == ASSUME CbType, RunType, [Next]_vars PROVE RunType'
<1>1. callbackQueueSize' \in QueueSizes
  BY DEF RunType, Next, vars, Request, notify, callbackCancelDelayed, callbackRequestDelayed,
     AskStep, TestOverflow, Push, SetOverflow, Signal, askRest, callbackTask, Start, Test, Check,
     Wait, Pop, More, Trigger, Clear, Run, sync_callback, Exit, LateSignal, workRest, confVars,
     callbackSetQueueSize, callbackParallelThreads, callbackInit, testSyncCallback, callbackStop,
     callbackCleanup, MainStep, InitCreate, InitAwait, SyncRequest, SyncRequested, SyncWait,
     StopShut, StopJoin, NextJoin, StopWait, stopRest, syncRest
<1>2. queue' \in [Prios -> Seq(AllCbs)]
  <2>1. CASE UNCHANGED queue
    BY <2>1 DEF RunType
  <2>2. CASE callbackCleanup
    <3>1. <<>> \in Seq(AllCbs)
      OBVIOUS
    <3> QED
      BY <2>2, <3>1 DEF callbackCleanup
  <2> QED
    BY <2>1, <2>2, RingSteps, PushDoes, PopDoes
<1>3. Asks'
  BY AsksNext DEF RunType
<1>4. wcb' \in [Workers -> AllCbs \cup {NoCb}]
  <2>1. CASE UNCHANGED wcb
    BY <2>1 DEF RunType
  <2>2. ASSUME NEW w \in Workers, callbackTask(w), wcb' # wcb PROVE wcb' \in [Workers -> AllCbs \cup {NoCb}]
    <3>1. \/ Pop(w) /\ queue[w[1]] # <<>>
          \/ wcb' = [wcb EXCEPT ![w] = NoCb]
      BY <2>2 DEF callbackTask, Start, Test, Check, Wait, Pop, More, Trigger, Clear, Run,
         sync_callback, Exit
    <3>2. PICK c \in AllCbs \cup {NoCb} : wcb' = [wcb EXCEPT ![w] = c]
      BY <3>1, PopDoes
    <3> QED
      BY <3>2 DEF RunType
  <2>3. CASE ~\E w \in Workers : callbackTask(w)
    <3>1. UNCHANGED wcb
      BY <2>3 DEF Next, vars, Request, notify, callbackCancelDelayed, callbackRequestDelayed,
         AskStep, TestOverflow, Push, SetOverflow, Signal, askRest, LateSignal, workVars,
         callbackSetQueueSize, callbackParallelThreads, callbackInit, testSyncCallback, callbackStop,
         callbackCleanup, MainStep, InitCreate, InitAwait, SyncRequest, SyncRequested, SyncWait,
         StopShut, StopJoin, NextJoin, StopWait, stopRest, syncRest
    <3> QED
      BY <2>1, <3>1
  <2> QED
    BY <2>1, <2>2, <2>3
<1>5. late' \in Nat
  <2>1. late \in Nat
    BY DEF RunType
  <2>2. CASE LateSignal
    BY <2>1, <2>2 DEF LateSignal
  <2>3. ASSUME NEW w \in Workers, Exit(w) PROVE late' \in Nat
    BY <2>1, <2>3 DEF Exit
  <2>4. CASE ~LateSignal /\ ~\E w \in Workers : Exit(w)
    <3>1. UNCHANGED late
      BY <2>4 DEF Next, vars, Request, notify, callbackCancelDelayed, callbackRequestDelayed,
         AskStep, TestOverflow, Push, SetOverflow, Signal, askRest, callbackTask, Start, Test, Check,
         Wait, Pop, More, Trigger, Clear, Run, sync_callback,
         callbackSetQueueSize, callbackParallelThreads, callbackInit, testSyncCallback, callbackStop,
         callbackCleanup, MainStep, InitCreate, InitAwait, SyncRequest, SyncRequested, SyncWait,
         StopShut, StopJoin, NextJoin, StopWait, stopRest, syncRest
    <3> QED
      BY <2>1, <3>1
  <2> QED
    BY <2>2, <2>3, <2>4
<1>6. startStopEvent' \in BOOLEAN
  BY DEF RunType, Next, vars, Request, notify, callbackCancelDelayed, callbackRequestDelayed,
     AskStep, TestOverflow, Push, SetOverflow, Signal, askRest, callbackTask, Start, Test, Check,
     Wait, Pop, More, Trigger, Clear, Run, sync_callback, Exit, LateSignal,
     callbackSetQueueSize, callbackParallelThreads, callbackInit, testSyncCallback, callbackStop,
     callbackCleanup, MainStep, InitCreate, InitAwait, SyncRequest, SyncRequested, SyncWait,
     StopShut, StopJoin, NextJoin, StopWait, syncRest
<1>7. shutdown' \in [Prios -> BOOLEAN]
  <2>1. CASE UNCHANGED shutdown
    BY <2>1 DEF RunType
  <2>2. CASE StopShut
    BY <2>2 DEF StopShut, RunType
  <2>3. CASE callbackCleanup
    BY <2>3 DEF callbackCleanup
  <2>4. CASE ~StopShut /\ ~callbackCleanup
    <3>1. UNCHANGED shutdown
      BY <2>4 DEF Next, vars, Request, notify, callbackCancelDelayed, callbackRequestDelayed,
         AskStep, TestOverflow, Push, SetOverflow, Signal, askRest, callbackTask, Start, Test, Check,
         Wait, Pop, More, Trigger, Clear, Run, sync_callback, Exit, LateSignal, workRest,
         callbackSetQueueSize, callbackParallelThreads, callbackInit, testSyncCallback, callbackStop,
         MainStep, InitCreate, InitAwait, SyncRequest, SyncRequested, SyncWait, StopJoin, NextJoin,
         StopWait, syncRest
    <3> QED
      BY <2>1, <3>1
  <2> QED
    BY <2>2, <2>3, <2>4
<1>8. queueOverflow' \in [Prios -> BOOLEAN]
  <2>1. CASE UNCHANGED queueOverflow
    BY <2>1 DEF RunType
  <2>2. ASSUME NEW t \in Threads, AskStep(t) PROVE queueOverflow' \in [Prios -> BOOLEAN]
    BY <2>2 DEF AskStep, TestOverflow, Push, SetOverflow, Signal, RunType
  <2>3. ASSUME NEW w \in Workers, callbackTask(w) PROVE queueOverflow' \in [Prios -> BOOLEAN]
    BY <2>3 DEF callbackTask, Start, Test, Check, Wait, Pop, More, Trigger, Clear, Run,
       sync_callback, Exit, ringVars, RunType
  <2>4. CASE callbackCleanup
    BY <2>4 DEF callbackCleanup
  <2>5. CASE /\ ~(\E t \in Threads : AskStep(t)) /\ ~(\E w \in Workers : callbackTask(w))
             /\ ~callbackCleanup
    <3>1. UNCHANGED queueOverflow
      BY <2>5 DEF Next, vars, Request, notify, callbackCancelDelayed, callbackRequestDelayed, LateSignal,
         callbackSetQueueSize, callbackParallelThreads, callbackInit, testSyncCallback, callbackStop,
         MainStep, InitCreate, InitAwait, SyncRequest, SyncRequested, SyncWait, StopShut, StopJoin,
         NextJoin, StopWait, stopRest, syncRest, ringVars
    <3> QED
      BY <2>1, <3>1
  <2> QED
    BY <2>2, <2>3, <2>4, <2>5
<1> QED
  BY <1>1, <1>2, <1>3, <1>4, <1>5, <1>6, <1>7, <1>8 DEF RunType

\* Rings hold no more than their size, which changes only while they are empty.
LEMMA FilledNext == ASSUME CbType, RunType, Filled, [Next]_vars PROVE Filled'
<1>1. /\ callbackQueueSize \in Nat /\ QueueSizes \in SUBSET Nat
      /\ queue \in [Prios -> Seq(AllCbs)]
  BY CbAssumption DEF RunType
<1>2. \A p \in Prios : Len(queue'[p]) <= callbackQueueSize'
  <2>1. CASE UNCHANGED <<queue, callbackQueueSize>>
    BY <2>1 DEF Filled
  <2>2. ASSUME NEW n \in QueueSizes, callbackSetQueueSize(n)
        PROVE  \A p \in Prios : Len(queue'[p]) <= callbackQueueSize'
    <3>1. mpc = "down" /\ UNCHANGED queue /\ callbackQueueSize' \in Nat
      BY <1>1, <2>2 DEF callbackSetQueueSize, ringVars
    <3>2. \A p \in Prios : queue[p] = <<>>
      BY <3>1 DEF Filled
    <3> QED
      BY <3>1, <3>2
  <2>3. CASE ~\E n \in QueueSizes : callbackSetQueueSize(n)
    <3>1. UNCHANGED callbackQueueSize
      BY <2>3 DEF Next, vars, Request, notify, callbackCancelDelayed, callbackRequestDelayed,
         AskStep, TestOverflow, Push, SetOverflow, Signal, askRest, callbackTask, Start, Test, Check,
         Wait, Pop, More, Trigger, Clear, Run, sync_callback, Exit, LateSignal, workRest, confVars,
         callbackParallelThreads, callbackInit, testSyncCallback, callbackStop,
         callbackCleanup, MainStep, InitCreate, InitAwait, SyncRequest, SyncRequested, SyncWait,
         StopShut, StopJoin, NextJoin, StopWait, stopRest, syncRest
    <3>2. CASE callbackCleanup
      <4>1. \A p \in Prios : queue'[p] = <<>>
        BY <3>2 DEF callbackCleanup
      <4> QED
        BY <1>1, <3>1, <4>1
    <3>3. ASSUME NEW t \in Threads, Push(t), Len(queue[ask[t].p]) < callbackQueueSize
          PROVE  \A p \in Prios : Len(queue'[p]) <= callbackQueueSize
      <4> SUFFICES ASSUME NEW p \in Prios PROVE Len(queue'[p]) <= callbackQueueSize
        OBVIOUS
      <4>1. /\ queue'[p] = IF p = ask[t].p THEN Append(queue[p], ask[t].cb) ELSE queue[p]
            /\ ask[t].cb \in AllCbs /\ queue[p] \in Seq(AllCbs)
        BY <1>1, <3>3, PushDoes
      <4>2. Len(Append(queue[p], ask[t].cb)) = Len(queue[p]) + 1 /\ Len(queue[p]) \in Nat
        BY <4>1, AppendProperties, LenProperties
      <4> QED
        BY <1>1, <3>3, <4>1, <4>2 DEF Filled
    <3>4. ASSUME NEW w \in Workers, Pop(w), queue[w[1]] # <<>>
          PROVE  \A p \in Prios : Len(queue'[p]) <= callbackQueueSize
      <4> SUFFICES ASSUME NEW p \in Prios PROVE Len(queue'[p]) <= callbackQueueSize
        OBVIOUS
      <4>1. /\ queue'[p] = IF p = w[1] THEN Tail(queue[p]) ELSE queue[p]
            /\ queue[p] \in Seq(AllCbs)
        BY <1>1, <3>4, PopDoes
      <4>2. Len(queue[p]) \in Nat /\ (p = w[1] => Len(Tail(queue[p])) = Len(queue[p]) - 1)
        BY <3>4, <4>1, HeadTailProperties, LenProperties
      <4> QED
        BY <1>1, <4>1, <4>2 DEF Filled
    <3> QED
      BY <2>1, <3>1, <3>2, <3>3, <3>4, RingSteps
  <2> QED
    BY <2>2, <2>3
<1>3. ASSUME mpc' = "down"
      PROVE  (\A p \in Prios : queue'[p] = <<>>) /\ \A t \in Threads : ask'[t].pc = "idle"
  <2>1. CASE callbackCleanup
    <3>1. UNCHANGED ask /\ (\A t \in Threads : ask[t].pc = "idle") /\ queue' = [p \in Prios |-> <<>>]
      BY <2>1 DEF callbackCleanup
    <3> QED
      BY <3>1
  <2>2. CASE ~callbackCleanup
    <3>1. mpc = "down"
      <4>1. CASE Moves
        BY <1>3, <4>1, MovesFrame, MainStates
      <4>2. CASE callbackInit \/ InitCreate
        BY <1>3, <4>2 DEF callbackInit, InitCreate
      <4>3. CASE InitAwait
        BY <1>3, <4>3 DEF InitAwait
      <4>4. ASSUME NEW w \in Workers, Exit(w) PROVE mpc' = mpc
        BY <4>4 DEF Exit, workRest, mainVars
      <4>5. ASSUME NEW n, NEW ps, callbackParallelThreads(n, ps) PROVE mpc' = mpc
        BY <4>5 DEF callbackParallelThreads, mainVars
      <4> QED
        BY <1>3, <2>2, <4>1, <4>2, <4>3, <4>4, <4>5, CalmFrame, Steps
    <3>2. /\ ~IsInit /\ (\A t \in Threads : ask[t].pc = "idle") /\ \A p \in Prios : queue[p] = <<>>
      BY <3>1 DEF IsInit, Filled
    <3>3. UNCHANGED queue
      BY <2>2, <3>2, RingSteps, WorkerPrio DEF Push
    <3>4. UNCHANGED ask
      BY <2>2, <3>1, <3>2 DEF Next, vars, Request, notify, callbackRequest, callbackCancelDelayed,
         callbackRequestDelayed,
         AskStep, TestOverflow, Push, SetOverflow, Signal, callbackTask, Start, Test, Check,
         Wait, Pop, More, Trigger, Clear, Run, sync_callback, Exit, LateSignal, workRest,
         callbackSetQueueSize, callbackParallelThreads, callbackInit, testSyncCallback, callbackStop,
         MainStep, InitCreate, InitAwait, SyncRequest, SyncRequested, SyncWait,
         StopShut, StopJoin, StopWait
    <3> QED
      BY <3>2, <3>3, <3>4
  <2> QED
    BY <2>1, <2>2
<1> QED
  BY <1>2, <1>3 DEF Filled

-----------------------------------------------------------------------------
(* testSyncCallback *)

\* Its callback is none of the others.
LEMMA SyncIs == /\ SyncCb \in AllCbs /\ NoCb # SyncCb /\ SyncCb \notin Cbs /\ NoAsk.cb # SyncCb
                /\ NoAsk.pc = "idle" /\ "main" \in Threads /\ "timer" \in Threads /\ Askers \subseteq Threads
BY CbAssumption DEF SyncCb, AllCbs, NoCb, NoAsk, Threads

\* A step after which there is no more of it than before.
LEMMA SyncLess ==
  ASSUME NEW p \in Prios, SyncAt(p), Asked(p)' => Asked(p),
         \A i \in Nat : Queued(p, i)' => Queued(p, i),
         \A w \in Workers : Held(p, w)' => Held(p, w),
         helper'[p] = helper[p], Token(p) /\ Place(p) => Place(p)'
  PROVE  SyncAt(p)'
<1>1. Token(p)' => Token(p)
  BY DEF Token
<1>2. One(p)'
  BY DEF SyncAt, One
<1> QED
  BY <1>1, <1>2 DEF SyncAt

\* A step after which there is none.
LEMMA SyncNone == ASSUME NEW p \in Prios, ~Token(p)' PROVE SyncAt(p)'
BY DEF SyncAt, One, Token

\* While main does something else there is none.
LEMMA NoToken ==
  ASSUME NEW p \in Prios, SyncAt(p), mpc \notin {"request", "phase4"} PROVE ~Token(p)
BY DEF SyncAt, Place

\* A step that leaves requests, rings and workers alone.
LEMMA SyncSame ==
  ASSUME NEW p \in Prios, UNCHANGED <<ask, queue, wcb, wpc>>
  PROVE  /\ Asked(p)' => Asked(p)
         /\ \A i \in Nat : Queued(p, i)' => Queued(p, i)
         /\ \A w \in Workers : Held(p, w)' => Held(p, w)
         /\ Token(p)' => Token(p)
BY DEF Asked, Queued, Held, Token

\* A thread starts a request for another callback.
LEMMA Request_Sync ==
  ASSUME CbType, MainOnly, NEW t \in Threads, NEW c \in Cbs, NEW q, callbackRequest(t, c, q)
  PROVE  MainOnly' /\ \A p \in Prios : Asked(p)' => Asked(p)
<1>1. /\ ask[t].pc = "idle" /\ ask \in [Threads -> AskRec]
      /\ ask' = [ask EXCEPT ![t] = [pc |-> "test", cb |-> c, p |-> q]]
  BY DEF callbackRequest, CbType
<1>2. \A u \in Threads : ask'[u] = IF u = t THEN [pc |-> "test", cb |-> c, p |-> q] ELSE ask[u]
  BY <1>1
<1>3. ask'[t].cb # SyncCb /\ \A u \in Threads : u # t => ask'[u] = ask[u]
  BY <1>2, SyncIs
<1> QED
  BY <1>3, SyncIs DEF MainOnly, Asked

\* A request goes on, but nothing is pushed.
LEMMA Ask_Sync ==
  ASSUME CbType, MainOnly, NEW t \in Threads, AskStep(t)
  PROVE  MainOnly' /\ \A p \in Prios : Asked(p)' => Asked(p)
<1>1. /\ \A u \in Threads : u # t => ask'[u] = ask[u]
      /\ \/ ask'[t] = NoAsk
         \/ ask'[t].pc # "idle" /\ ask'[t].cb = ask[t].cb /\ ask'[t].p = ask[t].p
  BY AskSteps
<1>2. MainOnly'
  BY <1>1, SyncIs DEF MainOnly
<1>3. ask'[t].pc \in {"test", "push"} => ask[t].pc \in {"test", "push"}
  <2>1. ask \in [Threads -> AskRec]
    BY DEF CbType
  <2>2. CASE TestOverflow(t)
    BY <2>2 DEF TestOverflow
  <2>3. CASE Push(t)
    BY <2>3 DEF Push
  <2>4. CASE SetOverflow(t) \/ Signal(t)
    BY <2>1, <2>4, SyncIs DEF SetOverflow, Signal
  <2> QED
    BY <2>2, <2>3, <2>4 DEF AskStep
<1>4. ASSUME NEW p \in Prios, Asked(p)' PROVE Asked(p)
  <2>1. CASE t = "main"
    BY <1>1, <1>3, <1>4, <2>1, SyncIs DEF Asked
  <2>2. CASE t # "main"
    BY <1>1, <1>4, <2>2, SyncIs DEF Asked
  <2> QED
    BY <2>1, <2>2
<1> QED
  BY <1>2, <1>4

\* The callback is pushed.
LEMMA Push_Sync ==
  ASSUME CbType, RunType, Synced, NEW t \in Threads, Push(t),
         Len(queue[ask[t].p]) < callbackQueueSize, NEW p \in Prios
  PROVE  SyncAt(p)'
<1>0. AskStep(t)
  BY DEF AskStep
<1>1. /\ ask[t].pc = "push" /\ ask[t].p \in Prios /\ ask[t].cb \in AllCbs /\ ask'[t].pc = "signal"
      /\ queue'[p] = IF p = ask[t].p THEN Append(queue[p], ask[t].cb) ELSE queue[p]
  BY PushDoes
<1>2. UNCHANGED <<wpc, wcb, mpc, mp, helper>>
  BY <1>0, AskSteps
<1>3. /\ SyncAt(p) /\ (Asked(p)' => Asked(p)) /\ MainOnly
  BY <1>0, Ask_Sync DEF Synced
<1>4. /\ \A w \in Workers : Held(p, w)' <=> Held(p, w)
      /\ Place(p)' <=> Place(p)
  BY <1>2 DEF Held, Place
<1>5. queue[p] \in Seq(AllCbs) /\ Len(queue[p]) \in Nat
  BY LenProperties DEF RunType
<1>6. CASE p # ask[t].p
  <2>1. \A i \in Nat : Queued(p, i)' => Queued(p, i)
    BY <1>1, <1>6 DEF Queued
  <2> QED
    BY <1>2, <1>3, <1>4, <2>1, SyncLess
<1>7. CASE p = ask[t].p
  <2>1. /\ Len(queue'[p]) = Len(queue[p]) + 1 /\ queue'[p][Len(queue[p]) + 1] = ask[t].cb
        /\ \A i \in 1 .. Len(queue[p]) : queue'[p][i] = queue[p][i]
    BY <1>1, <1>5, <1>7, AppendProperties
  <2>2. \A i \in Nat : Queued(p, i)' => Queued(p, i) \/ (i = Len(queue[p]) + 1 /\ ask[t].cb = SyncCb)
    BY <1>5, <2>1 DEF Queued
  <2>3. CASE ask[t].cb # SyncCb
    BY <1>2, <1>3, <1>4, <2>2, <2>3, SyncLess
  <2>4. CASE ask[t].cb = SyncCb
    <3>1. t = "main"
      BY <1>3, <2>4 DEF MainOnly
    <3>2. Asked(p) /\ ~Asked(p)'
      BY <1>1, <1>7, <2>4, <3>1 DEF Asked
    <3>3. Token(p) /\ One(p)
      BY <1>3, <3>2 DEF Token, SyncAt
    <3>4. /\ \A i \in Nat : Queued(p, i)' => i = Len(queue[p]) + 1
          /\ \A w \in Workers : ~Held(p, w)'
      BY <1>4, <2>2, <3>2, <3>3 DEF One
    <3>5. One(p)'
      BY <3>2, <3>4 DEF One
    <3> QED
      BY <1>2, <1>3, <1>4, <3>3, <3>5 DEF SyncAt
  <2> QED
    BY <2>3, <2>4
<1> QED
  BY <1>6, <1>7

\* A callback is popped.
LEMMA Pop_Sync ==
  ASSUME CbType, RunType, Synced, NEW w \in Workers, Pop(w), queue[w[1]] # <<>>, NEW p \in Prios
  PROVE  SyncAt(p)'
<1>1. /\ wpc[w] = "pop" /\ w[1] \in Prios /\ Head(queue[w[1]]) \in AllCbs
      /\ wcb' = [wcb EXCEPT ![w] = Head(queue[w[1]])] /\ wpc' = [wpc EXCEPT ![w] = "more"]
      /\ queue'[p] = IF p = w[1] THEN Tail(queue[p]) ELSE queue[p]
  BY PopDoes
<1>2. UNCHANGED <<ask, mpc, mp, helper>>
  BY DEF Pop, workRest, mainVars
<1>3. SyncAt(p) /\ (Asked(p)' <=> Asked(p)) /\ (Place(p)' <=> Place(p))
  BY <1>2 DEF Synced, Asked, Place
<1>4. \A v \in Workers : /\ wcb'[v] = IF v = w THEN Head(queue[w[1]]) ELSE wcb[v]
                         /\ wpc'[v] = IF v = w THEN "more" ELSE wpc[v]
  BY <1>1 DEF CbType, RunType
<1>5. queue[p] \in Seq(AllCbs) /\ Len(queue[p]) \in Nat
  BY LenProperties DEF RunType
<1>6. CASE p # w[1]
  <2>1. \A i \in Nat : Queued(p, i)' => Queued(p, i)
    BY <1>1, <1>6 DEF Queued
  <2>2. \A v \in Workers : Held(p, v)' => Held(p, v)
    BY <1>4, <1>6 DEF Held
  <2> QED
    BY <1>2, <1>3, <2>1, <2>2, SyncLess
<1>7. CASE p = w[1]
  <2>1. /\ Len(Tail(queue[p])) = Len(queue[p]) - 1 /\ Len(queue[p]) >= 1 /\ Head(queue[p]) = queue[p][1]
        /\ \A i \in 1 .. Len(Tail(queue[p])) : Tail(queue[p])[i] = queue[p][i + 1]
    BY <1>5, <1>7, HeadTailProperties, EmptySeq
  <2>2. \A i \in Nat : Queued(p, i)' => Queued(p, i + 1)
    BY <1>1, <1>5, <1>7, <2>1 DEF Queued
  <2>3. \A v \in Workers : v # w => (Held(p, v)' => Held(p, v))
    BY <1>4 DEF Held
  <2>4. Held(p, w)' => Queued(p, 1)
    BY <1>4, <1>5, <1>7, <2>1 DEF Held, Queued
  <2>5. One(p)
    BY <1>3 DEF SyncAt
  <2>6. One(p)'
    <3>1. \A i, j \in Nat : Queued(p, i)' /\ Queued(p, j)' => i = j
      <4> SUFFICES ASSUME NEW i \in Nat, NEW j \in Nat, Queued(p, i)', Queued(p, j)' PROVE i = j
        OBVIOUS
      <4>1. Queued(p, i + 1) /\ Queued(p, j + 1) /\ i + 1 \in Nat /\ j + 1 \in Nat
        BY <2>2
      <4>2. i + 1 = j + 1
        BY <2>5, <4>1 DEF One
      <4> QED
        BY <4>2
    <3>2. ~(Held(p, w)' /\ \E i \in Nat : Queued(p, i)')
      <4> SUFFICES ASSUME Held(p, w)', NEW i \in Nat, Queued(p, i)' PROVE FALSE
        OBVIOUS
      <4>1. Queued(p, 1) /\ Queued(p, i + 1) /\ 1 \in Nat /\ i + 1 \in Nat /\ i >= 1
        BY <2>2, <2>4 DEF Queued
      <4>2. 1 = i + 1
        BY <2>5, <4>1 DEF One
      <4> QED
        BY <4>1, <4>2
    <3>3. \A u, v \in Workers : Held(p, u)' /\ Held(p, v)' => u = v
      BY <2>3, <2>4, <2>5 DEF One
    <3>4. ~(Asked(p)' /\ \E i \in Nat : Queued(p, i)')
      BY <1>3, <2>2, <2>5 DEF One
    <3>5. ~(Asked(p)' /\ \E v \in Workers : Held(p, v)')
      BY <1>3, <2>3, <2>4, <2>5 DEF One
    <3>6. ~((\E i \in Nat : Queued(p, i)') /\ \E v \in Workers : Held(p, v)')
      BY <2>2, <2>3, <2>5, <3>2 DEF One
    <3> QED
      BY <3>1, <3>3, <3>4, <3>5, <3>6 DEF One
  <2>7. Token(p)' => Token(p)
    <3>1. ASSUME NEW i \in Nat, Queued(p, i)' PROVE Token(p)
      BY <2>2, <3>1 DEF Token
    <3>2. ASSUME NEW v \in Workers, Held(p, v)' PROVE Token(p)
      BY <2>3, <2>4, <3>2 DEF Token
    <3> QED
      BY <1>3, <3>1, <3>2 DEF Token
  <2> QED
    BY <1>2, <1>3, <2>6, <2>7 DEF SyncAt
<1> QED
  BY <1>6, <1>7

\* Workers that do not pop.
LEMMA Task_Sync ==
  ASSUME CbType, RunType, Synced, NEW w \in Workers, callbackTask(w), ~sync_callback(w),
         UNCHANGED queue, NEW p \in Prios
  PROVE  SyncAt(p)'
<1>1. UNCHANGED <<ask, mpc, mp, helper>>
  BY DEF callbackTask, Start, Test, Check, Wait, Pop, More, Trigger, Clear, Run, Exit, workRest,
     mainVars
<1>2. wpc[w] # "phase2" /\ \A v \in Workers : v # w => wpc'[v] = wpc[v]
  BY DEF callbackTask, Start, Test, Check, Wait, Pop, More, Trigger, Clear, Run, Exit, Goto, CbType
<1>3. wcb' = wcb \/ wcb' = [wcb EXCEPT ![w] = NoCb]
  <2>1. CASE Pop(w)
    <3>1. queue[w[1]] = <<>>
      <4> SUFFICES ASSUME queue[w[1]] # <<>> PROVE FALSE
        OBVIOUS
      <4>1. /\ queue'[w[1]] = Tail(queue[w[1]]) /\ w[1] \in Prios
        BY <2>1, PopDoes
      <4>2. queue[w[1]] \in Seq(AllCbs)
        BY <4>1 DEF RunType
      <4>3. Len(Tail(queue[w[1]])) = Len(queue[w[1]]) - 1 /\ Len(queue[w[1]]) \in Nat
        BY <4>2, HeadTailProperties, LenProperties
      <4>4. Tail(queue[w[1]]) = queue[w[1]]
        BY <4>1
      <4>5. Len(queue[w[1]]) = Len(queue[w[1]]) - 1
        BY <4>3, <4>4
      <4> QED
        BY <4>3, <4>5
    <3> QED
      BY <2>1, <3>1 DEF Pop
  <2>2. CASE ~Pop(w)
    BY <2>2 DEF callbackTask, Start, Test, Check, Wait, More, Trigger, Clear, Run, Exit
  <2> QED
    BY <2>1, <2>2
<1>4. \A v \in Workers : wcb'[v] = SyncCb => wcb[v] = SyncCb
  BY <1>3, SyncIs DEF RunType
<1>5. \A v \in Workers : Held(p, v)' => Held(p, v)
  BY <1>2, <1>4 DEF Held
<1>6. /\ Asked(p)' => Asked(p)
      /\ \A i \in Nat : Queued(p, i)' => Queued(p, i)
      /\ Token(p) /\ Place(p) => Place(p)'
  BY <1>1 DEF Asked, Queued, Place
<1> QED
  BY <1>1, <1>5, <1>6, SyncLess DEF Synced

\* The callback runs.
LEMMA sync_callback_Sync ==
  ASSUME CbType, RunType, Synced, NEW w \in Workers, sync_callback(w)
  PROVE  helper' \in [Prios -> HelperRec] /\ \A p \in Prios : SyncAt(p)'
<1>1. PICK h : h = [helper[w[1]] EXCEPT !.nphase2 = @ - 1]
  OBVIOUS
<1>2. /\ wpc[w] = "run" /\ wcb[w] = SyncCb /\ UNCHANGED <<ask, queue, mpc, mp>>
      /\ \/ /\ h.nphase2 # 0 /\ wpc' = [wpc EXCEPT ![w] = "phase2"]
            /\ helper' = [helper EXCEPT ![w[1]] = h] /\ UNCHANGED wcb
         \/ /\ h.nphase2 = 0 /\ wpc' = [wpc EXCEPT ![w] = "pop"] /\ wcb' = [wcb EXCEPT ![w] = NoCb]
            /\ helper' = [helper EXCEPT ![w[1]] = Awake(h)]
  BY <1>1 DEF sync_callback, Goto, workRest, mainVars, ringVars
<1>3. w[1] \in Prios /\ helper \in [Prios -> HelperRec] /\ SyncAt(w[1]) /\ MaxThreads \in Nat
  BY WorkerPrio, CbFacts DEF Synced
<1>4. Held(w[1], w)
  BY <1>2 DEF Held
<1>5. Token(w[1]) /\ One(w[1]) /\ helper[w[1]].nphase2 >= 1 /\ helper[w[1]].nphase3 >= 1
  BY <1>3, <1>4 DEF Token, SyncAt
<1>6. helper[w[1]] \in HelperRec
  BY <1>3
<1>7. h \in HelperRec /\ h.nphase3 = helper[w[1]].nphase3
  BY <1>1, <1>3, <1>5, <1>6 DEF HelperRec
<1>8. Awake(h) \in HelperRec
  <2>1. (h.nphase3 = 1) \in BOOLEAN /\ h.nphase3 - 1 \in 0 .. MaxThreads
    BY <1>3, <1>5, <1>7 DEF HelperRec
  <2>2. PICK b \in BOOLEAN : b = (h.nphase3 = 1)
    BY <2>1
  <2>3. Awake(h) = [h EXCEPT !.nphase3 = @ - 1, !.phase4 = b]
    BY <2>2, Zenon DEF Awake
  <2> QED
    BY <1>7, <2>1, <2>3 DEF HelperRec
<1>9. PICK g \in HelperRec : helper' = [helper EXCEPT ![w[1]] = g]
  BY <1>2, <1>7, <1>8
<1>10. helper' \in [Prios -> HelperRec]
  BY <1>3, <1>9
<1>11. /\ ~Held(w[1], w)'
       /\ \A v \in Workers : v # w => wpc'[v] = wpc[v] /\ wcb'[v] = wcb[v]
  BY <1>2, SyncIs DEF Held, CbType, RunType
<1>12. ASSUME NEW p \in Prios PROVE SyncAt(p)'
  <2>1. /\ Asked(p)' => Asked(p)
        /\ \A i \in Nat : Queued(p, i)' => Queued(p, i)
        /\ Token(p) /\ Place(p) => Place(p)'
    BY <1>2 DEF Asked, Queued, Place
  <2>2. \A v \in Workers : v # w => (Held(p, v)' => Held(p, v))
    BY <1>11 DEF Held
  <2>3. CASE p = w[1]
    <3>1. ~Token(p)'
      BY <1>4, <1>5, <1>11, <2>1, <2>2, <2>3 DEF Token, One
    <3> QED
      BY <3>1, SyncNone
  <2>4. CASE p # w[1]
    <3>1. ~Held(p, w)' /\ helper'[p] = helper[p]
      BY <1>3, <1>9, <2>4 DEF Held
    <3> QED
      BY <2>1, <2>2, <3>1, SyncLess DEF Synced
  <2> QED
    BY <2>3, <2>4
<1> QED
  BY <1>10, <1>12

\* testSyncCallback makes a request.
LEMMA SyncRequest_Sync ==
  ASSUME CbType, Boots, Synced, SyncRequest PROVE Synced'
<1>1. /\ mpc = "request" /\ mp \in Prios /\ mp' = mp + 1 /\ UNCHANGED <<mpc, queue, wcb, wpc>>
      /\ helper' = [helper EXCEPT ![mp] = [NoHelper EXCEPT !.nphase2 = threadsRunning[mp],
                                                           !.nphase3 = threadsRunning[mp]]]
      /\ ask["main"].pc = "idle"
      /\ ask' = [ask EXCEPT !["main"] = [pc |-> "test", cb |-> SyncCb, p |-> mp]]
  BY DEF SyncRequest, callbackRequest, syncRest, workVars, ringVars
<1>2. /\ threadsRunning[mp] \in 1 .. MaxThreads /\ MaxThreads \in Nat /\ mp \in Int
  <2>1. mpc \in Serving
    BY <1>1 DEF Serving
  <2>2. /\ threadsRunning[mp] \in 0 .. threadsConfigured[mp] /\ threadsRunning[mp] >= 1
        /\ threadsConfigured[mp] \in 0 .. MaxThreads /\ MaxThreads \in Nat
    BY <1>1, <2>1, CbFacts DEF Boots, CbType
  <2> QED
    BY <1>1, <2>2 DEF Prios
<1>3. PICK g \in HelperRec : /\ g.nphase2 = threadsRunning[mp] /\ g.nphase3 = threadsRunning[mp]
                             /\ g.phase4 = FALSE /\ helper' = [helper EXCEPT ![mp] = g]
  <2>1. PICK n : n = threadsRunning[mp]
    OBVIOUS
  <2>2. PICK g : g = [NoHelper EXCEPT !.nphase2 = n, !.nphase3 = n]
    OBVIOUS
  <2>3. NoHelper \in HelperRec /\ NoHelper.phase4 = FALSE /\ n \in 0 .. MaxThreads
    BY <1>2, <2>1 DEF NoHelper, HelperRec
  <2>4. g \in HelperRec /\ g.nphase2 = n /\ g.nphase3 = n /\ g.phase4 = NoHelper.phase4
    BY <2>2, <2>3 DEF HelperRec
  <2> QED
    BY <1>1, <2>1, <2>2, <2>3, <2>4
<1>4. helper \in [Prios -> HelperRec] /\ helper' \in [Prios -> HelperRec]
  BY <1>3 DEF Synced
<1>5. /\ ask'["main"].pc = "test" /\ ask'["main"].cb = SyncCb /\ ask'["main"].p = mp
      /\ \A u \in Threads : u # "main" => ask'[u] = ask[u]
  BY <1>1, SyncIs DEF CbType
<1>6. MainOnly'
  BY <1>5 DEF Synced, MainOnly
<1>7. ASSUME NEW p \in Prios PROVE SyncAt(p)'
  <2>1. /\ \A i \in Nat : Queued(p, i)' <=> Queued(p, i)
        /\ \A w \in Workers : Held(p, w)' <=> Held(p, w)
    BY <1>1 DEF Queued, Held
  <2>2. SyncAt(p) /\ p \in Int
    BY DEF Synced, Prios
  <2>3. CASE p = mp
    <3>1. ~Token(p)
      BY <1>1, <1>2, <2>2, <2>3 DEF SyncAt, Place
    <3>2. (\A i \in Nat : ~Queued(p, i)') /\ \A w \in Workers : ~Held(p, w)'
      BY <2>1, <3>1 DEF Token
    <3>3. One(p)'
      BY <3>2 DEF One
    <3>4. /\ helper'[p].nphase2 >= 1 /\ helper'[p].nphase3 >= 1 /\ ~helper'[p].phase4
      BY <1>2, <1>3, <1>4, <2>3
    <3>5. Place(p)'
      BY <1>1, <1>2, <2>3 DEF Place
    <3> QED
      BY <3>3, <3>4, <3>5 DEF SyncAt
  <2>4. CASE p # mp
    <3>1. ~Asked(p)' /\ helper'[p] = helper[p]
      BY <1>3, <1>4, <1>5, <2>4 DEF Asked
    <3>2. Place(p) => Place(p)'
      BY <1>1, <1>2, <2>2 DEF Place
    <3> QED
      BY <2>1, <2>2, <3>1, <3>2, SyncLess
  <2> QED
    BY <2>3, <2>4
<1> QED
  BY <1>4, <1>6, <1>7 DEF Synced

\* testSyncCallback has seen one.
LEMMA SyncWait_Sync == ASSUME CbType, Synced, SyncWait PROVE Synced'
<1>1. /\ mpc = "phase4" /\ helper[mp].phase4 /\ helper' = [helper EXCEPT ![mp].phase4 = FALSE]
      /\ mp' = mp + 1 /\ mpc' = IF mp' \in Prios THEN "phase4" ELSE "up"
      /\ UNCHANGED <<ask, queue, wcb, wpc>>
  BY DEF SyncWait, syncRest, ringVars, workVars
<1>2. mp \in Prios /\ mp \in Int /\ helper \in [Prios -> HelperRec]
  BY <1>1 DEF CbType, Looping, Prios, Synced
<1>3. helper' \in [Prios -> HelperRec] /\ \A p \in Prios : p # mp => helper'[p] = helper[p]
  BY <1>1, <1>2 DEF HelperRec
<1>4. MainOnly'
  BY <1>1 DEF Synced, MainOnly
<1>5. ASSUME NEW p \in Prios PROVE SyncAt(p)'
  <2>1. /\ Asked(p)' => Asked(p)
        /\ \A i \in Nat : Queued(p, i)' => Queued(p, i)
        /\ \A w \in Workers : Held(p, w)' => Held(p, w)
        /\ Token(p)' => Token(p)
    BY <1>1, SyncSame
  <2>2. SyncAt(p) /\ p \in Int
    BY DEF Synced, Prios
  <2>3. CASE p = mp
    <3>1. ~Token(p)
      BY <1>1, <2>2, <2>3 DEF SyncAt
    <3> QED
      BY <2>1, <3>1, SyncNone
  <2>4. CASE p # mp
    <3>1. Place(p) => Place(p)'
      <4> SUFFICES ASSUME Place(p) PROVE Place(p)'
        OBVIOUS
      <4>1. p >= mp + 1
        BY <1>1, <1>2, <2>2, <2>4 DEF Place
      <4>2. mp + 1 \in Prios
        BY <1>2, <2>2, <4>1, CbFacts DEF Prios
      <4> QED
        BY <1>1, <4>1, <4>2 DEF Place
    <3> QED
      BY <1>3, <2>1, <2>2, <2>4, <3>1, SyncLess
  <2> QED
    BY <2>3, <2>4
<1> QED
  BY <1>3, <1>4, <1>5 DEF Synced

\* Steps of main outside testSyncCallback, and its first and its middle one.
LEMMA Main_Sync ==
  ASSUME CbType, Synced, UNCHANGED <<ask, helper, wcb>>, UNCHANGED queue \/ callbackCleanup,
         \A w \in Workers : wpc'[w] = wpc[w] \/ wpc[w] # "phase2",
         \/ mpc \notin {"request", "phase4"}
         \/ SyncRequested
  PROVE  Synced'
<1>1. MainOnly' /\ helper' \in [Prios -> HelperRec]
  BY DEF Synced, MainOnly
<1>2. ASSUME NEW p \in Prios PROVE SyncAt(p)'
  <2>1. /\ Asked(p)' => Asked(p)
        /\ \A w \in Workers : Held(p, w)' => Held(p, w)
    BY DEF Asked, Held
  <2>2. \A i \in Nat : Queued(p, i)' => Queued(p, i)
    <3>1. CASE callbackCleanup
      <4>1. queue'[p] = <<>>
        BY <3>1 DEF callbackCleanup
      <4> QED
        BY <4>1 DEF Queued
    <3> QED
      BY <3>1 DEF Queued
  <2>3. SyncAt(p) /\ p \in Int /\ p >= 0
    BY DEF Synced, Prios
  <2>4. Token(p) /\ Place(p) => Place(p)'
    BY <2>3, NoToken DEF SyncRequested, Place
  <2> QED
    BY <2>1, <2>2, <2>3, <2>4, SyncLess
<1> QED
  BY <1>1, <1>2 DEF Synced

\* Every step keeps it.
LEMMA SyncedNext ==
  ASSUME CbType, StartStop, RunType, Boots, Synced, [Next]_vars PROVE Synced'
<1>1. ASSUME NEW t \in Threads, NEW c \in Cbs, NEW q, callbackRequest(t, c, q),
             UNCHANGED <<queue, wcb, wpc, helper, mpc, mp>>
      PROVE  Synced'
  <2>1. MainOnly' /\ \A p \in Prios : Asked(p)' => Asked(p)
    BY <1>1, Request_Sync DEF Synced
  <2>2. ASSUME NEW p \in Prios PROVE SyncAt(p)'
    <3>1. /\ \A i \in Nat : Queued(p, i)' => Queued(p, i)
          /\ \A w \in Workers : Held(p, w)' => Held(p, w)
          /\ Place(p) => Place(p)'
      BY <1>1 DEF Queued, Held, Place
    <3> QED
      BY <1>1, <2>1, <3>1, SyncLess DEF Synced
  <2> QED
    BY <1>1, <2>1, <2>2 DEF Synced
<1>2. ASSUME NEW t \in Threads, AskStep(t) PROVE Synced'
  <2>1. /\ MainOnly' /\ (\A p \in Prios : Asked(p)' => Asked(p)) /\ UNCHANGED <<wcb, wpc, helper, mpc, mp>>
    BY <1>2, Ask_Sync, AskSteps DEF Synced
  <2>2. CASE UNCHANGED queue
    <3>1. ASSUME NEW p \in Prios PROVE SyncAt(p)'
      <4>1. /\ \A i \in Nat : Queued(p, i)' => Queued(p, i)
            /\ \A w \in Workers : Held(p, w)' => Held(p, w)
            /\ Place(p) => Place(p)'
        BY <2>1, <2>2 DEF Queued, Held, Place
      <4> QED
        BY <2>1, <4>1, SyncLess DEF Synced
    <3> QED
      BY <2>1, <3>1 DEF Synced
  <2>3. CASE ~UNCHANGED queue
    <3>1. Push(t) /\ Len(queue[ask[t].p]) < callbackQueueSize
      BY <1>2, <2>3 DEF AskStep, TestOverflow, Push, SetOverflow, Signal
    <3> QED
      BY <2>1, <3>1, Push_Sync DEF Synced
  <2> QED
    BY <2>2, <2>3
<1>3. ASSUME NEW w \in Workers, callbackTask(w) PROVE Synced'
  <2>1. UNCHANGED ask /\ MainOnly'
    BY <1>3 DEF callbackTask, Start, Test, Check, Wait, Pop, More, Trigger, Clear, Run,
       sync_callback, Exit, workRest, Synced, MainOnly
  <2>2. CASE sync_callback(w)
    BY <2>1, <2>2, sync_callback_Sync DEF Synced
  <2>3. CASE ~sync_callback(w)
    <3>1. UNCHANGED helper
      BY <1>3, <2>3 DEF callbackTask, Start, Test, Check, Wait, Pop, More, Trigger, Clear, Run, Exit
    <3>2. \A p \in Prios : SyncAt(p)'
      <4>1. CASE UNCHANGED queue
        BY <1>3, <2>3, <4>1, Task_Sync
      <4>2. CASE ~UNCHANGED queue
        <5>1. Pop(w) /\ queue[w[1]] # <<>>
          BY <1>3, <4>2 DEF callbackTask, Start, Test, Check, Wait, Pop, More, Trigger, Clear, Run,
             sync_callback, Exit, ringVars
        <5> QED
          BY <5>1, Pop_Sync
      <4> QED
        BY <4>1, <4>2
    <3> QED
      BY <2>1, <3>1, <3>2 DEF Synced
  <2> QED
    BY <2>2, <2>3
<1>4. CASE \/ UNCHANGED vars \/ LateSignal
           \/ \E c \in Cbs : \/ callbackCancelDelayed(c)
                             \/ \E p \in Prios : callbackRequestDelayed(c, p)
           \/ \E n \in QueueSizes : callbackSetQueueSize(n)
           \/ \E n \in 1 .. MaxThreads, ps \in {Prios} \cup {{p} : p \in Prios} :
                callbackParallelThreads(n, ps)
  <2>1. UNCHANGED <<ask, queue, wcb, wpc, helper, mpc, mp>>
    BY <1>4 DEF vars, LateSignal, callbackCancelDelayed, callbackRequestDelayed, callbackSetQueueSize,
       callbackParallelThreads, ringVars, workVars, mainVars, workRest
  <2>2. ASSUME NEW p \in Prios PROVE SyncAt(p)'
    BY <2>1, SyncSame, SyncLess DEF Synced, Place
  <2> QED
    BY <2>1, <2>2 DEF Synced, MainOnly
<1>5. CASE \/ callbackInit \/ InitAwait \/ testSyncCallback \/ SyncRequested \/ callbackStop
           \/ StopShut \/ StopJoin \/ StopWait \/ callbackCleanup
  <2>1. /\ UNCHANGED <<ask, helper, wcb, wpc>> /\ (UNCHANGED queue \/ callbackCleanup)
    BY <1>5 DEF callbackInit, InitAwait, testSyncCallback, SyncRequested, callbackStop, StopShut,
       StopJoin, NextJoin, StopWait, callbackCleanup, syncRest, stopRest, ringVars, workVars
  <2>2. mpc \notin {"request", "phase4"} \/ SyncRequested
    BY <1>5 DEF callbackInit, InitAwait, testSyncCallback, callbackStop, StopShut,
       StopJoin, StopWait, callbackCleanup
  <2> QED
    BY <2>1, <2>2, Main_Sync
<1>6. CASE InitCreate
  <2>1. /\ UNCHANGED <<ask, helper, wcb, queue>> /\ mpc = "create"
    BY <1>6 DEF InitCreate, ringVars
  <2>2. PICK w \in Workers : wpc[w] \in Out /\ wpc' = [wpc EXCEPT ![w] = "start"]
    BY <1>6, Create_StartStop
  <2>3. \A v \in Workers : wpc'[v] = wpc[v] \/ wpc[v] # "phase2"
    BY <2>2 DEF CbType, Out
  <2> QED
    BY <2>1, <2>3, Main_Sync
<1>7. CASE \/ \E t \in Askers, c \in Cbs, p \in Prios : Request(t, c, p)
           \/ \E c \in Cbs : notify(c)
  BY <1>1, <1>7, SyncIs DEF Request, notify, ringVars, workVars, mainVars
<1> QED
  BY <1>2, <1>3, <1>4, <1>5, <1>6, <1>7, SyncRequest_Sync, SyncWait_Sync DEF Next, MainStep

-----------------------------------------------------------------------------
(* Type correctness *)

\* The initial state.
LEMMA CbRestInit == Init => CbRest
<1> SUFFICES ASSUME Init PROVE CbRest
  OBVIOUS
<1>1. RunType
  <2>1. <<>> \in Seq(AllCbs)
    OBVIOUS
  <2>2. queue \in [Prios -> Seq(AllCbs)]
    BY <2>1 DEF Init
  <2>3. Asks
    BY SyncIs DEF Init, Asks
  <2> QED
    BY <2>2, <2>3 DEF Init, RunType
<1>2. Boots /\ Leaving
  BY MainStates, CbFacts DEF Init, Boots, Leaving
<1>3. LateBound
  <2>1. Up = {} /\ late = 0 /\ mpc = "down"
    BY DEF Init, Up
  <2> QED
    BY <2>1, UpFinite, FS_EmptySet, MainStates DEF LateBound
<1>4. Filled
  <2>1. callbackQueueSize \in Nat /\ \A p \in Prios : queue[p] = <<>>
    BY CbAssumption DEF Init
  <2>2. \A t \in Threads : ask[t].pc = "idle"
    BY SyncIs DEF Init
  <2> QED
    BY <2>1, <2>2 DEF Filled
<1>5. Synced
  <2>1. helper \in [Prios -> HelperRec]
    BY CbFacts DEF Init, NoHelper, HelperRec
  <2>2. MainOnly /\ \A p \in Prios : ~Asked(p)
    BY SyncIs DEF Init, MainOnly, Asked
  <2>3. \A p \in Prios, i \in Nat : ~Queued(p, i)
    BY DEF Init, Queued
  <2>4. \A p \in Prios, w \in Workers : ~Held(p, w)
    BY SyncIs DEF Init, Held
  <2> QED
    BY <2>1, <2>2, <2>3, <2>4 DEF Synced, SyncAt, One, Token
<1> QED
  BY <1>1, <1>2, <1>3, <1>4, <1>5 DEF CbRest

\* The invariant gives the types.
LEMMA CbTyped == ASSUME CbType, CbRest PROVE TypeOK
<1>1. \A p \in Prios :
        /\ queue[p] \in Seq(AllCbs) /\ Len(queue[p]) <= callbackQueueSize
        /\ threadsConfigured[p] \in 0 .. MaxThreads /\ threadsRunning[p] \in 0 .. threadsConfigured[p]
  BY DEF CbRest, RunType, Filled, Boots, CbType
<1>2. \A p \in Prios : helper[p].nphase2 \in 0 .. MaxThreads /\ helper[p].nphase3 \in 0 .. MaxThreads
  BY DEF CbRest, Synced, HelperRec
<1>3. late \in 0 .. MaxLate + NUM_CALLBACK_PRIORITIES
  <2>1. /\ Cardinality(Up) \in Nat /\ late \in Nat /\ MaxLate \in Nat /\ NUM_CALLBACK_PRIORITIES \in Nat
        /\ late + Cardinality(Up) <= MaxLate + NUM_CALLBACK_PRIORITIES
    BY UpFinite DEF Up, CbRest, LateBound, RunType
  <2> QED
    BY <2>1
<1> QED
  BY <1>1, <1>2, <1>3 DEF TypeOK, CbType, CbRest, RunType, AskRec

\* Every variable of callback.c's tasks keeps its type and its bounds: a ring never
\* holds more than callbackQueueSize although that may be changed between starts,
\* threadsRunning stays between zero and the number configured, the counters of
\* testSyncCallback's helpers do not become negative, and no priority signals twice
\* after its workers have left.
THEOREM CallbackTyped == Spec => []TypeOK
<1>1. CbType /\ CbType' /\ StartStop /\ CbRest /\ [Next]_vars => CbRest'
  BY RunTypeNext, BootsNext, LeavingNext, LateNext, FilledNext, SyncedNext DEF CbRest
<1>2. CbType /\ CbRest => TypeOK
  BY CbTyped
<1> QED
  BY <1>1, <1>2, TypeInit, TypeNext, StartStopInit, StartStopNext, CbRestInit, PTL DEF Spec

=============================================================================
