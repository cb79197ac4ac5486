----------------------------- MODULE ListLemmas -----------------------------
(***************************************************************************)
(* What the proofs need to know of the operators the models are built      *)
(* from: an ELLLIST is a sequence in which an element occurs once, to      *)
(* which elements are appended or inserted and from which they are taken   *)
(* or deleted; a counter counts the threads at some positions.             *)
(***************************************************************************)
EXTENDS SequencesExt, FiniteSetTheorems, SequenceTheorems, FunctionTheorems, TLAPS

\* ellGet: the first element goes, the others stay.
LEMMA ListGet ==
  ASSUME NEW S, NEW q \in Seq(S), q # <<>>
  PROVE  /\ Head(q) \in S /\ Tail(q) \in Seq(S)
         /\ Contains(q, Head(q))
         /\ \A e : Contains(q, e) <=> e = Head(q) \/ Contains(Tail(q), e)
         /\ IsInjective(q) => IsInjective(Tail(q)) /\ ~Contains(Tail(q), Head(q))
<1>1. /\ Head(q) = q[1] /\ Len(q) \in Nat \ {0} /\ Tail(q) \in Seq(S)
      /\ DOMAIN q = 1 .. Len(q) /\ DOMAIN Tail(q) = 1 .. Len(Tail(q))
      /\ Len(Tail(q)) = Len(q) - 1 /\ \A i \in 1 .. Len(Tail(q)) : Tail(q)[i] = q[i + 1]
      /\ Head(q) \in S
  BY HeadTailProperties, LenProperties, EmptySeq
<1>2. Contains(q, Head(q))
  BY <1>1 DEF Contains
<1>3. ASSUME NEW e PROVE Contains(q, e) <=> e = Head(q) \/ Contains(Tail(q), e)
  <2>1. ASSUME Contains(q, e), e # Head(q) PROVE Contains(Tail(q), e)
    <3>1. PICK i \in 1 .. Len(q) : q[i] = e
      BY <2>1 DEF Contains
    <3>2. i - 1 \in 1 .. Len(Tail(q)) /\ (i - 1) + 1 = i
      BY <1>1, <2>1, <3>1
    <3>3. QED
      BY <1>1, <3>1, <3>2 DEF Contains
  <2>2. ASSUME Contains(Tail(q), e) PROVE Contains(q, e)
    <3>1. PICK i \in 1 .. Len(Tail(q)) : Tail(q)[i] = e
      BY <2>2 DEF Contains
    <3>2. i + 1 \in 1 .. Len(q)
      BY <1>1
    <3>3. QED
      BY <1>1, <3>1, <3>2 DEF Contains
  <2>3. QED
    BY <2>1, <2>2, <1>2
<1>4. ASSUME IsInjective(q) PROVE IsInjective(Tail(q)) /\ ~Contains(Tail(q), Head(q))
  <2>1. \A i \in 1 .. Len(Tail(q)) : i + 1 \in 1 .. Len(q) /\ i + 1 # 1
    BY <1>1
  <2>2. QED
    BY <1>1, <1>4, <2>1 DEF IsInjective, Contains
<1>5. QED
  BY <1>1, <1>2, <1>3, <1>4

\* ellAdd: a new element becomes the last.
LEMMA ListAdd ==
  ASSUME NEW S, NEW q \in Seq(S), NEW x \in S
  PROVE  /\ Append(q, x) \in Seq(S) /\ Append(q, x) # <<>>
         /\ \A e : Contains(Append(q, x), e) <=> Contains(q, e) \/ e = x
         /\ IsInjective(q) /\ ~Contains(q, x) => IsInjective(Append(q, x))
<1>1. /\ Len(q) \in Nat /\ DOMAIN q = 1 .. Len(q)
      /\ Append(q, x) \in Seq(S) /\ Append(q, x) # <<>> /\ Len(Append(q, x)) = Len(q) + 1
      /\ DOMAIN Append(q, x) = 1 .. Len(q) + 1
      /\ \A i \in 1 .. Len(q) : Append(q, x)[i] = q[i]
      /\ Append(q, x)[Len(q) + 1] = x
  BY AppendProperties, LenProperties
<1>2. \A i \in 1 .. Len(q) + 1 : i \in 1 .. Len(q) \/ i = Len(q) + 1
  BY <1>1
<1>3. 1 .. Len(q) \subseteq 1 .. Len(q) + 1 /\ Len(q) + 1 \in 1 .. Len(q) + 1
  BY <1>1
<1>4. ASSUME NEW e PROVE Contains(Append(q, x), e) <=> Contains(q, e) \/ e = x
  BY <1>1, <1>2, <1>3, Zenon DEF Contains
<1>5. ASSUME IsInjective(q), ~Contains(q, x) PROVE IsInjective(Append(q, x))
  BY <1>1, <1>2, <1>3, <1>5, Zenon DEF Contains, IsInjective
<1>6. QED
  BY <1>1, <1>4, <1>5

\* Two lists joined have the elements of both.
LEMMA ListConcat ==
  ASSUME NEW S, NEW q \in Seq(S), NEW r \in Seq(S)
  PROVE  /\ q \o r \in Seq(S)
         /\ \A e : Contains(q \o r, e) <=> Contains(q, e) \/ Contains(r, e)
<1>1. /\ Len(q) \in Nat /\ Len(r) \in Nat
      /\ q \o r \in Seq(S) /\ Len(q \o r) = Len(q) + Len(r)
      /\ \A i \in 1 .. Len(q) + Len(r) :
           (q \o r)[i] = IF i <= Len(q) THEN q[i] ELSE r[i - Len(q)]
  BY ConcatProperties, LenProperties
<1>2. ASSUME NEW e PROVE Contains(q \o r, e) <=> Contains(q, e) \/ Contains(r, e)
  <2>1. ASSUME NEW i \in 1 .. Len(q) + Len(r), (q \o r)[i] = e
        PROVE  Contains(q, e) \/ Contains(r, e)
    <3>1. CASE i <= Len(q)
      BY <1>1, <2>1, <3>1 DEF Contains
    <3>2. CASE ~(i <= Len(q))
      <4>1. i - Len(q) \in 1 .. Len(r)
        BY <1>1, <3>2
      <4>2. QED
        BY <1>1, <2>1, <3>2, <4>1 DEF Contains
    <3>3. QED
      BY <3>1, <3>2
  <2>2. ASSUME NEW i \in 1 .. Len(q) PROVE \E k \in 1 .. Len(q) + Len(r) : (q \o r)[k] = q[i]
    <3>1. i \in 1 .. Len(q) + Len(r) /\ i <= Len(q)
      BY <1>1
    <3>2. QED
      BY <1>1, <3>1
  <2>3. ASSUME NEW i \in 1 .. Len(r) PROVE \E k \in 1 .. Len(q) + Len(r) : (q \o r)[k] = r[i]
    <3>1. /\ i + Len(q) \in 1 .. Len(q) + Len(r) /\ ~(i + Len(q) <= Len(q))
          /\ (i + Len(q)) - Len(q) = i
      BY <1>1
    <3>2. QED
      BY <1>1, <3>1
  <2>4. Contains(q \o r, e) => Contains(q, e) \/ Contains(r, e)
    BY <2>1, <1>1 DEF Contains
  <2>5. Contains(q, e) => Contains(q \o r, e)
    BY <2>2, <1>1 DEF Contains
  <2>6. Contains(r, e) => Contains(q \o r, e)
    BY <2>3, <1>1 DEF Contains
  <2>7. QED
    BY <2>4, <2>5, <2>6
<1>3. QED
  BY <1>1, <1>2

\* A non-empty set of naturals has a least element.
LEMMA LeastNat ==
  ASSUME NEW T \in SUBSET Nat, T # {}
  PROVE  \E x \in T : \A y \in T : x <= y
<1> DEFINE R == OpToRel(<, Nat)
<1>1. IsWellFoundedOn(R, Nat)
  BY NatLessThanWellFounded
<1>2. \A x, y \in Nat : x < y => <<x, y>> \in R
  BY DEF OpToRel
<1> HIDE DEF R
<1>3. PICK x \in T : \A y \in T : ~(<<y, x>> \in R)
  BY <1>1, WFMin
<1>4. \A y \in T : ~(y < x)
  BY <1>2, <1>3
<1>5. QED
  BY <1>4

\* So Min is an element that no other one precedes, and Max of a set that is
\* bounded one that precedes no other.
LEMMA MinIs ==
  ASSUME NEW I \in SUBSET Nat, I # {}
  PROVE  Min(I) \in I /\ \A k \in I : Min(I) <= k
BY LeastNat DEF Min

LEMMA MaxIs ==
  ASSUME NEW n \in Nat, NEW I \in SUBSET (0 .. n), I # {}
  PROVE  Max(I) \in I /\ \A k \in I : k <= Max(I)
<1> DEFINE T == {n - k : k \in I}
<1>1. T \in SUBSET Nat /\ T # {}
  <2>1. \A k \in I : n - k \in Nat
    OBVIOUS
  <2>2. QED
    BY <2>1
<1>2. PICK m \in T : \A y \in T : m <= y
  BY <1>1, LeastNat
<1>3. PICK k \in I : m = n - k
  OBVIOUS
<1>4. \A j \in I : n - j \in T
  OBVIOUS
<1>5. \A j \in I : k >= j
  BY <1>2, <1>3, <1>4
<1>6. QED
  BY <1>5 DEF Max

\* ellDelete: where the one occurrence of x was, the elements behind it close
\* up; nothing happens to a list x is not in.
LEMMA ListDelete ==
  ASSUME NEW S, NEW q \in Seq(S), NEW x, IsInjective(q)
  PROVE  /\ ~Contains(q, x) => RemoveFirst(q, x) = q
         /\ Contains(q, x) =>
              \E p \in 1 .. Len(q) :
                /\ q[p] = x
                /\ RemoveFirst(q, x) \in Seq(S) /\ Len(RemoveFirst(q, x)) = Len(q) - 1
                /\ \A i \in 1 .. Len(q) - 1 :
                     RemoveFirst(q, x)[i] = IF i < p THEN q[i] ELSE q[i + 1]
<1>1. ~Contains(q, x) => RemoveFirst(q, x) = q
  BY DEF RemoveFirst, Contains
<1>2. ASSUME Contains(q, x)
      PROVE  \E p \in 1 .. Len(q) :
                /\ q[p] = x
                /\ RemoveFirst(q, x) \in Seq(S) /\ Len(RemoveFirst(q, x)) = Len(q) - 1
                /\ \A i \in 1 .. Len(q) - 1 :
                     RemoveFirst(q, x)[i] = IF i < p THEN q[i] ELSE q[i + 1]
  <2> DEFINE I == {i \in 1 .. Len(q) : q[i] = x}
             p == Min(I)
  <2>0. Len(q) \in Nat /\ DOMAIN q = 1 .. Len(q)
    BY LenProperties
  <2>1. I # {} /\ I \in SUBSET Nat
    BY <1>2, <2>0 DEF Contains
  <2>2. p \in I
    BY <2>1, MinIs
  <2>3. p \in 1 .. Len(q) /\ q[p] = x
    BY <2>2
  <2>4. RemoveFirst(q, x) = RemoveAt(q, p)
    BY <2>1, <2>3 DEF RemoveFirst, SelectInSeq
  <2> HIDE DEF p, I
  <2> DEFINE a == SubSeq(q, 1, p - 1)
             b == SubSeq(q, p + 1, Len(q))
  <2>5. a \in Seq(S) /\ Len(a) = p - 1 /\ \A i \in 1 .. p - 1 : a[i] = q[i]
    BY <2>0, <2>3, SubSeqProperties
  <2>6. b \in Seq(S) /\ Len(b) = Len(q) - p /\ \A i \in 1 .. Len(q) - p : b[i] = q[p + i]
    <3>1. p + 1 \in Int /\ Len(q) \in Int /\ \A i \in p + 1 .. Len(q) : q[i] \in S
      BY <2>0, <2>3
    <3>2. /\ b \in Seq(S) /\ Len(b) = IF p + 1 <= Len(q) THEN Len(q) - (p + 1) + 1 ELSE 0
          /\ \A i \in 1 .. Len(q) - (p + 1) + 1 : b[i] = q[p + 1 + i - 1]
      BY <3>1, SubSeqProperties
    <3> HIDE DEF b
    <3>3. Len(b) = Len(q) - p
      <4>1. \A n \in Nat : \A k \in 1 .. n : (IF k + 1 <= n THEN n - (k + 1) + 1 ELSE 0) = n - k
        OBVIOUS
      <4>2. QED
        BY <2>0, <2>3, <3>2, <4>1
    <3>4. ASSUME NEW i \in 1 .. Len(q) - p PROVE b[i] = q[p + i]
      <4>1. i \in 1 .. Len(q) - (p + 1) + 1 /\ p + 1 + i - 1 = p + i
        BY <2>0, <2>3
      <4>2. QED
        BY <3>2, <4>1
    <3>5. QED
      BY <3>2, <3>3, <3>4
  <2>7. RemoveAt(q, p) = a \o b
    BY DEF RemoveAt
  <2> HIDE DEF a, b
  <2>8. /\ a \o b \in Seq(S) /\ Len(a \o b) = Len(q) - 1
        /\ \A i \in 1 .. Len(q) - 1 : (a \o b)[i] = IF i <= p - 1 THEN a[i] ELSE b[i - (p - 1)]
    <3>1. Len(a) + Len(b) = Len(q) - 1
      BY <2>0, <2>3, <2>5, <2>6
    <3>2. QED
      BY <3>1, <2>5, <2>6, ConcatProperties
  <2>9. ASSUME NEW i \in 1 .. Len(q) - 1
        PROVE  (a \o b)[i] = IF i < p THEN q[i] ELSE q[i + 1]
    <3>1. CASE i < p
      <4>1. i <= p - 1 /\ i \in 1 .. p - 1
        BY <3>1, <2>3, <2>0
      <4>2. QED
        BY <3>1, <4>1, <2>8, <2>5
    <3>2. CASE ~(i < p)
      <4>1. ~(i <= p - 1) /\ i - (p - 1) \in 1 .. Len(q) - p /\ p + (i - (p - 1)) = i + 1
        BY <3>2, <2>3, <2>0
      <4>2. (a \o b)[i] = b[i - (p - 1)]
        BY <4>1, <2>8
      <4>3. b[i - (p - 1)] = q[i + 1]
        BY <4>1, <2>6
      <4>4. QED
        BY <3>2, <4>2, <4>3
    <3>3. QED
      BY <3>1, <3>2
  <2>10. QED
    BY <2>3, <2>4, <2>7, <2>8, <2>9
<1>3. QED
  BY <1>1, <1>2

LEMMA ListDeleted ==
  ASSUME NEW S, NEW q \in Seq(S), NEW x, IsInjective(q)
  PROVE  /\ RemoveFirst(q, x) \in Seq(S) /\ IsInjective(RemoveFirst(q, x))
         /\ \A e : Contains(RemoveFirst(q, x), e) <=> Contains(q, e) /\ e # x
<1>1. CASE ~Contains(q, x)
  BY <1>1, ListDelete DEF Contains
<1>2. CASE Contains(q, x)
  <2> DEFINE r == RemoveFirst(q, x)
  <2>1. PICK p \in 1 .. Len(q) :
                /\ q[p] = x
                /\ r \in Seq(S) /\ Len(r) = Len(q) - 1
                /\ \A i \in 1 .. Len(q) - 1 : r[i] = IF i < p THEN q[i] ELSE q[i + 1]
    BY <1>2, ListDelete
  <2> HIDE DEF r
  <2>2. /\ Len(q) \in Nat /\ DOMAIN q = 1 .. Len(q) /\ DOMAIN r = 1 .. Len(q) - 1
    BY <2>1, LenProperties
  <2>3. \A i, k \in 1 .. Len(q) : q[i] = q[k] => i = k
    BY <2>2 DEF IsInjective
  <2>4. \A i \in 1 .. Len(q) - 1 : i \in 1 .. Len(q) /\ i + 1 \in 1 .. Len(q) /\ i # i + 1
    BY <2>2
  <2>5. IsInjective(r)
    <3>1. SUFFICES ASSUME NEW i \in 1 .. Len(q) - 1, NEW k \in 1 .. Len(q) - 1, r[i] = r[k]
                   PROVE  i = k
      BY <2>2 DEF IsInjective
    <3>2. CASE i < p /\ k < p
      BY <3>1, <3>2, <2>1, <2>3, <2>4
    <3>3. CASE ~(i < p) /\ ~(k < p)
      BY <3>1, <3>3, <2>1, <2>3, <2>4
    <3>4. CASE i < p /\ ~(k < p)
      <4>1. q[i] = q[k + 1]
        BY <3>1, <3>4, <2>1
      <4>2. i = k + 1
        BY <4>1, <2>3, <2>4
      <4>3. QED
        BY <4>2, <3>4
    <3>5. CASE ~(i < p) /\ k < p
      <4>1. q[i + 1] = q[k]
        BY <3>1, <3>5, <2>1
      <4>2. i + 1 = k
        BY <4>1, <2>3, <2>4
      <4>3. QED
        BY <4>2, <3>5
    <3>6. QED
      BY <3>2, <3>3, <3>4, <3>5
  <2>6. ASSUME NEW e PROVE Contains(r, e) <=> Contains(q, e) /\ e # x
    <3>1. ASSUME NEW i \in 1 .. Len(q) - 1 PROVE Contains(q, r[i]) /\ r[i] # x
      <4>1. CASE i < p
        <5>1. r[i] = q[i] /\ i # p
          BY <4>1, <2>1
        <5>2. QED
          BY <5>1, <2>1, <2>3, <2>4 DEF Contains
      <4>2. CASE ~(i < p)
        <5>1. r[i] = q[i + 1] /\ i + 1 # p
          BY <4>2, <2>1
        <5>2. QED
          BY <5>1, <2>1, <2>3, <2>4 DEF Contains
      <4>3. QED
        BY <4>1, <4>2
    <3>2. ASSUME NEW i \in 1 .. Len(q), q[i] # x PROVE Contains(r, q[i])
      <4>1. CASE i < p
        <5>1. i \in 1 .. Len(q) - 1
          BY <4>1, <2>2
        <5>2. QED
          BY <5>1, <4>1, <2>1 DEF Contains
      <4>2. CASE ~(i < p)
        <5>1. i # p
          BY <2>1, <3>2
        <5>2. i - 1 \in 1 .. Len(q) - 1 /\ ~(i - 1 < p) /\ (i - 1) + 1 = i
          BY <4>2, <5>1, <2>2
        <5>3. r[i - 1] = q[i]
          BY <5>2, <2>1
        <5>4. QED
          BY <5>2, <5>3, <2>1 DEF Contains
      <4>3. QED
        BY <4>1, <4>2
    <3>3. Contains(r, e) => Contains(q, e) /\ e # x
      BY <3>1, <2>1 DEF Contains
    <3>4. Contains(q, e) /\ e # x => Contains(r, e)
      BY <3>2 DEF Contains
    <3>5. QED
      BY <3>3, <3>4
  <2>7. QED
    BY <2>1, <2>5, <2>6 DEF r
<1>3. QED
  BY <1>1, <1>2

\* r is q with x behind its first p elements.
Insertion(r, q, p, x) ==
  /\ Len(r) = Len(q) + 1
  /\ \A i \in 1 .. Len(q) + 1 :
       /\ i <= p => r[i] = q[i]
       /\ i = p + 1 => r[i] = x
       /\ i > p + 1 => r[i] = q[i - 1]

\* ellInsert: x comes behind the first p elements.
LEMMA ListInsert ==
  ASSUME NEW S, NEW q \in Seq(S), NEW x \in S, NEW p \in 0 .. Len(q)
  PROVE  InsertAt(q, p + 1, x) \in Seq(S) /\ Insertion(InsertAt(q, p + 1, x), q, p, x)
<1>A. PICK r : r = InsertAt(q, p + 1, x)
  OBVIOUS
<1> DEFINE a == SubSeq(q, 1, p)
           b == SubSeq(q, p + 1, Len(q))
           m == <<x>>
<1>0. Len(q) \in Nat /\ p \in Nat /\ p <= Len(q) /\ \A i \in 1 .. Len(q) : q[i] \in S
  BY LenProperties
<1>1. a \in Seq(S) /\ Len(a) = p /\ \A i \in 1 .. p : a[i] = q[i]
  <2>1. \A i \in 1 .. p : q[i] \in S
    BY <1>0
  <2>2. /\ a \in Seq(S) /\ Len(a) = IF 1 <= p THEN p - 1 + 1 ELSE 0
        /\ \A i \in 1 .. p - 1 + 1 : a[i] = q[1 + i - 1]
    BY <1>0, <2>1, SubSeqProperties
  <2> HIDE DEF a
  <2>3. \A i \in 1 .. p : i \in 1 .. p - 1 + 1 /\ 1 + i - 1 = i
    BY <1>0
  <2>4. Len(a) = p
    BY <1>0, <2>2
  <2>5. QED
    BY <2>2, <2>3, <2>4
<1>2. b \in Seq(S) /\ Len(b) = Len(q) - p /\ \A i \in 1 .. Len(q) - p : b[i] = q[p + i]
  <2>1. \A i \in p + 1 .. Len(q) : q[i] \in S
    BY <1>0
  <2>2. /\ b \in Seq(S) /\ Len(b) = IF p + 1 <= Len(q) THEN Len(q) - (p + 1) + 1 ELSE 0
        /\ \A i \in 1 .. Len(q) - (p + 1) + 1 : b[i] = q[p + 1 + i - 1]
    BY <1>0, <2>1, SubSeqProperties
  <2> HIDE DEF b
  <2>3. \A i \in 1 .. Len(q) - p : i \in 1 .. Len(q) - (p + 1) + 1 /\ p + 1 + i - 1 = p + i
    BY <1>0
  <2>4. Len(b) = Len(q) - p
    BY <1>0, <2>2
  <2>5. QED
    BY <2>2, <2>3, <2>4
<1>3. m \in Seq(S) /\ Len(m) = 1 /\ m[1] = x
  OBVIOUS
<1>4. InsertAt(q, p + 1, x) = (a \o m) \o b
  <2>1. (p + 1) - 1 = p
    BY <1>0
  <2>2. QED
    BY <2>1 DEF InsertAt
<1> HIDE DEF a, b, m
<1> DEFINE am == a \o m
<1>5. /\ am \in Seq(S) /\ Len(am) = p + 1
      /\ \A i \in 1 .. p + 1 : am[i] = IF i <= p THEN a[i] ELSE m[i - p]
  <2>1. Len(a) + Len(m) = p + 1
    BY <1>0, <1>1, <1>3
  <2>2. /\ am \in Seq(S) /\ Len(am) = Len(a) + Len(m)
        /\ \A i \in 1 .. Len(a) + Len(m) :
             am[i] = IF i <= Len(a) THEN a[i] ELSE m[i - Len(a)]
    <3>1. a \in Seq(S) /\ m \in Seq(S)
      BY <1>1, <1>3
    <3>2. QED
      BY <3>1, ConcatProperties
  <2> HIDE DEF am
  <2>3. Len(a) = p
    BY <1>1
  <2>4. QED
    BY <2>1, <2>2, <2>3
<1> HIDE DEF am
<1>6. /\ am \o b \in Seq(S) /\ Len(am \o b) = Len(q) + 1
      /\ \A i \in 1 .. Len(q) + 1 :
           (am \o b)[i] = IF i <= p + 1 THEN am[i] ELSE b[i - (p + 1)]
  <2>1. Len(am) + Len(b) = Len(q) + 1
    BY <1>0, <1>2, <1>5
  <2>A. PICK s : s = am \o b
    OBVIOUS
  <2>2. /\ s \in Seq(S) /\ Len(s) = Len(am) + Len(b)
        /\ \A i \in 1 .. Len(am) + Len(b) :
             s[i] = IF i <= Len(am) THEN am[i] ELSE b[i - Len(am)]
    <3>1. am \in Seq(S) /\ b \in Seq(S)
      BY <1>2, <1>5
    <3>2. QED
      BY <2>A, <3>1, ConcatProperties
  <2>3. Len(am) = p + 1
    BY <1>5
  <2>4. /\ s \in Seq(S) /\ Len(s) = Len(q) + 1
        /\ \A i \in 1 .. Len(q) + 1 : s[i] = IF i <= p + 1 THEN am[i] ELSE b[i - (p + 1)]
    BY <2>1, <2>2, <2>3
  <2>5. QED
    BY <2>4, <2>A
<1>7. ASSUME NEW i \in 1 .. Len(q) + 1
      PROVE  /\ i <= p => (am \o b)[i] = q[i]
             /\ i = p + 1 => (am \o b)[i] = x
             /\ i > p + 1 => (am \o b)[i] = q[i - 1]
  <2>1. CASE i <= p
    <3>1. i \in 1 .. p /\ i \in 1 .. p + 1 /\ i <= p + 1
      BY <1>0, <2>1
    <3>2. QED
      BY <1>1, <1>5, <1>6, <2>1, <3>1
  <2>2. CASE i = p + 1
    <3>1. i \in 1 .. p + 1 /\ i <= p + 1 /\ ~(i <= p) /\ i - p = 1
      BY <1>0, <2>2
    <3>2. QED
      BY <1>3, <1>5, <1>6, <2>2, <3>1
  <2>3. CASE i > p + 1
    <3>1. ~(i <= p + 1) /\ ~(i <= p) /\ i # p + 1 /\ i - (p + 1) \in 1 .. Len(q) - p
          /\ p + (i - (p + 1)) = i - 1
      BY <1>0, <2>3
    <3>2. (am \o b)[i] = b[i - (p + 1)]
      BY <1>6, <3>1
    <3>3. b[i - (p + 1)] = q[i - 1]
      BY <1>2, <3>1
    <3>4. QED
      BY <3>1, <3>2, <3>3
  <2>4. QED
    BY <1>0, <2>1, <2>2, <2>3
<1>8. r = am \o b
  BY <1>A, <1>4 DEF am
<1>9. r \in Seq(S) /\ Insertion(r, q, p, x)
  BY <1>6, <1>7, <1>8 DEF Insertion
<1>10. QED
  BY <1>9, <1>A

LEMMA ListInserted ==
  ASSUME NEW S, NEW q \in Seq(S), NEW x \in S, NEW p \in 0 .. Len(q)
  PROVE  /\ InsertAt(q, p + 1, x) \in Seq(S)
         /\ \A e : Contains(InsertAt(q, p + 1, x), e) <=> Contains(q, e) \/ e = x
<1>A. PICK r : r = InsertAt(q, p + 1, x)
  OBVIOUS
<1>0. Len(q) \in Nat /\ p \in Nat /\ p <= Len(q)
  BY LenProperties
<1>1. /\ r \in Seq(S) /\ Len(r) = Len(q) + 1
      /\ \A i \in 1 .. Len(q) + 1 :
           /\ i <= p => r[i] = q[i]
           /\ i = p + 1 => r[i] = x
           /\ i > p + 1 => r[i] = q[i - 1]
  <2>1. r \in Seq(S) /\ Insertion(r, q, p, x)
    BY <1>A, ListInsert
  <2>2. QED
    BY <2>1 DEF Insertion
<1>2. ASSUME NEW i \in 1 .. Len(q) + 1 PROVE Contains(q, r[i]) \/ r[i] = x
  <2>1. CASE i <= p
    <3>1. i \in 1 .. Len(q) /\ r[i] = q[i]
      BY <1>0, <1>1, <2>1
    <3>2. QED
      BY <3>1 DEF Contains
  <2>2. CASE i = p + 1
    BY <1>0, <1>1, <2>2
  <2>3. CASE i > p + 1
    <3>1. i - 1 \in 1 .. Len(q) /\ r[i] = q[i - 1]
      BY <1>0, <1>1, <2>3
    <3>2. QED
      BY <3>1 DEF Contains
  <2>4. QED
    BY <1>0, <2>1, <2>2, <2>3
<1>3. ASSUME NEW i \in 1 .. Len(q) PROVE Contains(r, q[i])
  <2>1. CASE i <= p
    <3>1. i \in 1 .. Len(q) + 1 /\ r[i] = q[i]
      BY <1>0, <1>1, <2>1
    <3>2. QED
      BY <1>1, <3>1 DEF Contains
  <2>2. CASE i > p
    <3>1. i + 1 \in 1 .. Len(q) + 1 /\ ~(i + 1 <= p) /\ i + 1 # p + 1 /\ (i + 1) - 1 = i
      BY <1>0, <2>2
    <3>2. r[i + 1] = q[i]
      BY <1>1, <3>1
    <3>3. QED
      BY <1>1, <3>1, <3>2 DEF Contains
  <2>3. QED
    BY <1>0, <2>1, <2>2
<1>4. Contains(r, x)
  <2>1. p + 1 \in 1 .. Len(q) + 1 /\ ~(p + 1 <= p)
    BY <1>0
  <2>2. QED
    BY <1>1, <2>1 DEF Contains
<1>5. ASSUME NEW e PROVE Contains(r, e) <=> Contains(q, e) \/ e = x
  <2>1. Contains(r, e) => Contains(q, e) \/ e = x
    BY <1>1, <1>2 DEF Contains
  <2>2. Contains(q, e) => Contains(r, e)
    BY <1>3 DEF Contains
  <2>3. QED
    BY <2>1, <2>2, <1>4
<1>6. QED
  BY <1>A, <1>1, <1>5

-----------------------------------------------------------------------------
(* Ordered lists *)

\* The elements of q differ and are in the order of their keys.
Ordered(q, key) ==
  \A i, j \in 1 .. Len(q) : i < j => q[i] # q[j] /\ key[q[i]] <= key[q[j]]

LEMMA OrderedInjective ==
  ASSUME NEW S, NEW q \in Seq(S), NEW key, Ordered(q, key)
  PROVE  IsInjective(q)
<1>1. DOMAIN q = 1 .. Len(q) /\ Len(q) \in Nat
  BY LenProperties
<1>2. \A i, j \in 1 .. Len(q) : i = j \/ i < j \/ j < i
  BY <1>1
<1>3. QED
  BY <1>1, <1>2 DEF Ordered, IsInjective

\* The order depends on the keys of the elements only.
LEMMA OrderedKeys ==
  ASSUME NEW S, NEW q \in Seq(S), NEW key, NEW k2, Ordered(q, key),
         \A e \in S : Contains(q, e) => k2[e] = key[e]
  PROVE  Ordered(q, k2)
<1>1. \A i \in 1 .. Len(q) : q[i] \in S /\ Contains(q, q[i])
  BY ElementOfSeq DEF Contains
<1>2. QED
  BY <1>1 DEF Ordered

LEMMA OrderedGet ==
  ASSUME NEW S, NEW q \in Seq(S), q # <<>>, NEW key \in [S -> Int], Ordered(q, key)
  PROVE  /\ Ordered(Tail(q), key)
         /\ \A e : Contains(q, e) => key[Head(q)] <= key[e]
<1>1. /\ Head(q) = q[1] /\ Len(q) \in Nat \ {0} /\ Tail(q) \in Seq(S)
      /\ Len(Tail(q)) = Len(q) - 1 /\ \A i \in 1 .. Len(Tail(q)) : Tail(q)[i] = q[i + 1]
      /\ \A i \in 1 .. Len(q) : q[i] \in S
  BY HeadTailProperties, LenProperties, EmptySeq, ElementOfSeq
<1>2. \A i \in 1 .. Len(Tail(q)) : i + 1 \in 1 .. Len(q)
  BY <1>1
<1>3. \A i, j \in 1 .. Len(Tail(q)) : i < j => i + 1 < j + 1
  BY <1>1
<1>4. Ordered(Tail(q), key)
  BY <1>1, <1>2, <1>3 DEF Ordered
<1>5. ASSUME NEW i \in 1 .. Len(q) PROVE key[Head(q)] <= key[q[i]]
  <2>1. CASE i = 1
    BY <1>1, <2>1
  <2>2. CASE i > 1
    <3>1. 1 \in 1 .. Len(q)
      BY <1>1
    <3>2. QED
      BY <1>1, <2>2, <3>1 DEF Ordered
  <2>3. QED
    BY <1>1, <2>1, <2>2
<1>6. QED
  BY <1>4, <1>5 DEF Contains

LEMMA OrderedDelete ==
  ASSUME NEW S, NEW q \in Seq(S), NEW x, NEW key, Ordered(q, key)
  PROVE  Ordered(RemoveFirst(q, x), key)
<1> DEFINE r == RemoveFirst(q, x)
<1>0. IsInjective(q) /\ Len(q) \in Nat
  BY OrderedInjective, LenProperties
<1>1. CASE ~Contains(q, x)
  BY <1>0, <1>1, ListDelete
<1>2. CASE Contains(q, x)
  <2>1. PICK p \in 1 .. Len(q) :
          /\ Len(r) = Len(q) - 1
          /\ \A i \in 1 .. Len(q) - 1 : r[i] = IF i < p THEN q[i] ELSE q[i + 1]
    BY <1>0, <1>2, ListDelete
  <2> HIDE DEF r
  <2> DEFINE old(i) == IF i < p THEN i ELSE i + 1
  <2>2. \A i \in 1 .. Len(r) : old(i) \in 1 .. Len(q)
    BY <1>0, <2>1
  <2>3. \A i, j \in 1 .. Len(r) : i < j => old(i) < old(j)
    BY <1>0, <2>1
  <2>4. \A i \in 1 .. Len(r) : r[i] = q[old(i)]
    BY <1>0, <2>1
  <2> HIDE DEF old
  <2>5. Ordered(r, key)
    BY <2>2, <2>3, <2>4 DEF Ordered
  <2>6. QED
    BY <2>5 DEF r
<1>3. QED
  BY <1>1, <1>2

\* A new element goes behind those with a lower or the same key.
LEMMA OrderedInsert ==
  ASSUME NEW S, NEW q \in Seq(S), NEW x \in S, NEW key \in [S -> Int], NEW p \in 0 .. Len(q),
         Ordered(q, key), ~Contains(q, x),
         \A i \in 1 .. Len(q) : (i <= p => key[q[i]] <= key[x]) /\ (i > p => key[x] <= key[q[i]])
  PROVE  Ordered(InsertAt(q, p + 1, x), key)
<1>A. PICK r : r = InsertAt(q, p + 1, x)
  OBVIOUS
<1>0. Len(q) \in Nat /\ p \in Nat /\ p <= Len(q) /\ \A i \in 1 .. Len(q) : q[i] # x
  BY LenProperties DEF Contains
<1>1. /\ Len(r) = Len(q) + 1
      /\ \A i \in 1 .. Len(q) + 1 :
           /\ i <= p => r[i] = q[i]
           /\ i = p + 1 => r[i] = x
           /\ i > p + 1 => r[i] = q[i - 1]
  <2>1. r \in Seq(S) /\ Insertion(r, q, p, x)
    BY <1>A, ListInsert
  <2>2. QED
    BY <2>1 DEF Insertion
<1>2. SUFFICES ASSUME NEW i \in 1 .. Len(q) + 1, NEW j \in 1 .. Len(q) + 1, i < j
               PROVE  r[i] # r[j] /\ key[r[i]] <= key[r[j]]
  BY <1>A, <1>1, ZenonT(60) DEF Ordered
<1>3. CASE j <= p
  <2>1. i \in 1 .. Len(q) /\ j \in 1 .. Len(q) /\ r[i] = q[i] /\ r[j] = q[j]
    BY <1>0, <1>1, <1>2, <1>3
  <2>2. QED
    BY <1>2, <2>1 DEF Ordered
<1>4. CASE i <= p /\ j = p + 1
  <2>1. i \in 1 .. Len(q) /\ r[i] = q[i] /\ r[j] = x
    BY <1>0, <1>1, <1>4
  <2>2. QED
    BY <1>0, <1>4, <2>1
<1>5. CASE i <= p /\ j > p + 1
  <2>1. i \in 1 .. Len(q) /\ j - 1 \in 1 .. Len(q) /\ i < j - 1 /\ r[i] = q[i] /\ r[j] = q[j - 1]
    BY <1>0, <1>1, <1>5
  <2>2. QED
    BY <2>1 DEF Ordered
<1>6. CASE i = p + 1
  <2>1. j - 1 \in 1 .. Len(q) /\ j - 1 > p /\ r[i] = x /\ r[j] = q[j - 1]
    BY <1>0, <1>1, <1>2, <1>6
  <2>2. QED
    BY <1>0, <2>1
<1>7. CASE i > p + 1
  <2>1. /\ i - 1 \in 1 .. Len(q) /\ j - 1 \in 1 .. Len(q) /\ i - 1 < j - 1
        /\ r[i] = q[i - 1] /\ r[j] = q[j - 1]
    BY <1>0, <1>1, <1>2, <1>7
  <2>2. QED
    BY <2>1 DEF Ordered
<1>8. QED
  BY <1>0, <1>2, <1>3, <1>4, <1>5, <1>6, <1>7

\* SetToSeq lists exactly the elements of a finite set, each once.
LEMMA ListOfSet ==
  ASSUME NEW S, IsFiniteSet(S)
  PROVE  /\ SetToSeq(S) \in Seq(S) /\ IsInjective(SetToSeq(S))
         /\ \A e : Contains(SetToSeq(S), e) <=> e \in S
<1> DEFINE n == Cardinality(S)
           f == SetToSeq(S)
<1>1. n \in Nat /\ ExistsBijection(1 .. n, S)
  BY FS_CardinalityType
<1>2. \E g \in [1 .. n -> S] : IsInjective(g)
  BY <1>1 DEF ExistsBijection, Bijection, Injection
<1>3. f \in [1 .. n -> S] /\ IsInjective(f)
  BY <1>2 DEF SetToSeq
<1> HIDE DEF f
<1>4. f \in Injection(1 .. n, S)
  BY <1>3 DEF Injection
<1>5. IsFiniteSet(1 .. n) /\ Cardinality(1 .. n) = n
  BY <1>1, FS_Interval
<1>6. f \in Surjection(1 .. n, S)
  BY <1>4, <1>5, FS_Injection
<1>7. f \in Seq(S) /\ Len(f) = n
  BY <1>3, <1>1, LenProperties, SeqDef
<1>8. ASSUME NEW e PROVE Contains(f, e) <=> e \in S
  <2>1. Contains(f, e) => e \in S
    BY <1>3, <1>7 DEF Contains
  <2>2. e \in S => Contains(f, e)
    BY <1>6, <1>7 DEF Contains, Surjection
  <2>3. QED
    BY <2>1, <2>2
<1>9. QED
  BY <1>3, <1>7, <1>8 DEF f

-----------------------------------------------------------------------------
(* Counters *)

\* How many elements of S are at one of the positions P.
LEMMA CountType ==
  ASSUME NEW S, IsFiniteSet(S), NEW f, NEW P
  PROVE  /\ IsFiniteSet({x \in S : f[x] \in P})
         /\ Cardinality({x \in S : f[x] \in P}) \in Nat
         /\ Cardinality({x \in S : f[x] \in P}) = 0 <=> {x \in S : f[x] \in P} = {}
<1> DEFINE A == {x \in S : f[x] \in P}
<1>1. A \in SUBSET S
  OBVIOUS
<1> HIDE DEF A
<1>2. IsFiniteSet(A)
  BY <1>1, FS_Subset
<1>3. Cardinality(A) \in Nat /\ (Cardinality(A) = 0 <=> A = {})
  BY <1>2, FS_CardinalityType, FS_EmptySet
<1>4. QED
  BY <1>2, <1>3 DEF A

LEMMA CountEnter ==
  ASSUME NEW S, IsFiniteSet(S), NEW f, DOMAIN f = S, NEW w \in S, NEW p, NEW P,
         f[w] \notin P, p \in P
  PROVE  Cardinality({x \in S : [f EXCEPT ![w] = p][x] \in P}) =
           Cardinality({x \in S : f[x] \in P}) + 1
<1> DEFINE A == {x \in S : f[x] \in P}
           B == {x \in S : [f EXCEPT ![w] = p][x] \in P}
<1>1. B = A \cup {w} /\ w \notin A
  OBVIOUS
<1>2. IsFiniteSet(A)
  BY CountType
<1> HIDE DEF A, B
<1>3. Cardinality(B) = Cardinality(A) + 1
  BY <1>1, <1>2, FS_AddElement
<1>4. QED
  BY <1>3 DEF A, B

LEMMA CountExit ==
  ASSUME NEW S, IsFiniteSet(S), NEW f, DOMAIN f = S, NEW w \in S, NEW p, NEW P,
         f[w] \in P, p \notin P
  PROVE  /\ Cardinality({x \in S : [f EXCEPT ![w] = p][x] \in P}) =
              Cardinality({x \in S : f[x] \in P}) - 1
         /\ Cardinality({x \in S : f[x] \in P}) > 0
<1> DEFINE A == {x \in S : f[x] \in P}
           B == {x \in S : [f EXCEPT ![w] = p][x] \in P}
<1>1. B = A \ {w} /\ w \in A
  OBVIOUS
<1>2. IsFiniteSet(A) /\ Cardinality(A) \in Nat /\ (Cardinality(A) = 0 <=> A = {})
  BY CountType
<1> HIDE DEF A, B
<1>3. Cardinality(B) = Cardinality(A) - 1
  BY <1>1, <1>2, FS_RemoveElement
<1>4. Cardinality(A) > 0
  BY <1>1, <1>2
<1>5. QED
  BY <1>3, <1>4 DEF A, B

LEMMA CountSame ==
  ASSUME NEW S, NEW f, DOMAIN f = S, NEW w \in S, NEW p, NEW P,
         f[w] \in P <=> p \in P
  PROVE  {x \in S : [f EXCEPT ![w] = p][x] \in P} = {x \in S : f[x] \in P}
OBVIOUS
=============================================================================
