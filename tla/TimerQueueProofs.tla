-------------------------- MODULE TimerQueueProofs --------------------------
(***************************************************************************)
(* For any number of timers and of threads that cancel them: the list is  *)
(* what process takes it to be; the thread never oversleeps; and the first *)
(* thread that cancels a timer whose callback runs waits for its end.      *)
(*                                                                         *)
(* ListAgrees and NoOversleep are not inductive.  Inv adds that a callback *)
(* runs when there is a timer that expires, that a timer which a thread is *)
(* about to free is in limbo like those that are freed, and that the sleep *)
(* ends in time for every timer in the list and not only the first: one    *)
(* that is cancelled leaves another in its place.                          *)
(*                                                                         *)
(* Nor is CancelBlocks.  cancel goes by curState, and a thread that waits  *)
(* by cancelPending and pExpireTmr, which other cancels, callbacks that    *)
(* cancel and the queue's thread change.  With Inv a timer is active       *)
(* exactly while its callback runs uncancelled, so the first canceller     *)
(* finds it active, and Debts says that cancelPending is set from the      *)
(* first cancel to the callback's return and that whoever is owed that     *)
(* return waits for this timer.                                            *)
(***************************************************************************)
EXTENDS TimerQueue, ListLemmas

-----------------------------------------------------------------------------
(* The list and the sleep *)

\* The list holds the pending timers in order; one timer is active, while its
\* callback runs and nobody has cancelled it.
Agreed ==
  /\ Ordered(timerList, exp)
  /\ \A t \in Timers :
       /\ curState[t] = "pending" <=> Contains(timerList, t)
       /\ curState[t] = "pending" => t \in pNotify
       /\ curState[t] = "active" <=> t = pExpireTmr /\ ~cancelPending

Callback ==
  /\ pExpireTmr # None <=> qpc = "expire"
  /\ cancelPending => qpc = "expire"

\* Nobody starts a timer that is destroyed or that a thread is destroying.
Destroyed ==
  /\ \A t \in freed : curState[t] = "limbo"
  /\ \A c \in cdel : ctmr[c] \in Timers /\ curState[ctmr[c]] = "limbo"

\* The sleep ends in time for every timer, or somebody has asked for an end.
Awake ==
  qpc = "sleep" /\ ~rescheduleEvent =>
    \A t \in Timers : Contains(timerList, t) => wakeAt <= exp[t] + lag

Inv == TypeOK /\ Agreed /\ Callback /\ Destroyed /\ Awake

-----------------------------------------------------------------------------
\* privateStart goes behind the timers that expire no later.
LEMMA PlaceIs ==
  ASSUME NEW list \in Seq(Timers), NEW e \in [Timers -> 0 .. MaxTime], NEW t \in Timers
  PROVE  /\ Place(list, e, t) \in 0 .. Len(list)
         /\ \A i \in 1 .. Len(list) : i > Place(list, e, t) => e[t] <= e[list[i]]
         /\ Place(list, e, t) # 0 =>
              Place(list, e, t) \in 1 .. Len(list) /\ e[list[Place(list, e, t)]] <= e[t]
<1> DEFINE I == {0} \cup {i \in 1 .. Len(list) : e[list[i]] <= e[t]}
<1>1. Len(list) \in Nat /\ e[t] \in Nat /\ \A i \in 1 .. Len(list) : e[list[i]] \in Nat
  BY LenProperties, TimerAssumption
<1>2. I \in SUBSET (0 .. Len(list)) /\ I # {}
  BY <1>1
<1>3. Max(I) \in I /\ \A k \in I : k <= Max(I)
  BY <1>1, <1>2, MaxIs
<1>4. Place(list, e, t) = Max(I)
  BY DEF Place
<1>5. ASSUME NEW i \in 1 .. Len(list), i > Max(I) PROVE e[t] <= e[list[i]]
  <2>1. i \notin I
    BY <1>1, <1>2, <1>3, <1>5
  <2>2. ~(e[list[i]] <= e[t])
    BY <2>1
  <2>3. QED
    BY <1>1, <2>2
<1>6. Max(I) # 0 => Max(I) \in 1 .. Len(list) /\ e[list[Max(I)]] <= e[t]
  BY <1>3
<1>7. QED
  BY <1>2, <1>3, <1>4, <1>5, <1>6

\* A timer that is not in the list is put where it belongs, and when it is not
\* the first one, one that expires no later is.
LEMMA InsertedIs ==
  ASSUME NEW list \in Seq(Timers), NEW e \in [Timers -> 0 .. MaxTime], NEW t \in Timers,
         Ordered(list, e), ~Contains(list, t)
  PROVE  /\ Inserted(list, e, t) \in Seq(Timers)
         /\ Ordered(Inserted(list, e, t), e)
         /\ \A u : Contains(Inserted(list, e, t), u) <=> Contains(list, u) \/ u = t
         /\ ~Preempts(list, e, t) => \E u \in Timers : Contains(list, u) /\ e[u] <= e[t]
<1>A. PICK p : p = Place(list, e, t)
  OBVIOUS
<1>0. /\ Len(list) \in Nat /\ e \in [Timers -> Int] /\ e[t] \in Int
      /\ \A i \in 1 .. Len(list) : list[i] \in Timers /\ e[list[i]] \in Int
  BY LenProperties, TimerAssumption
<1>1. /\ p \in 0 .. Len(list)
      /\ \A i \in 1 .. Len(list) : i > p => e[t] <= e[list[i]]
      /\ p # 0 => p \in 1 .. Len(list) /\ e[list[p]] <= e[t]
  BY <1>A, PlaceIs
<1>2. ASSUME NEW i \in 1 .. Len(list), i <= p PROVE e[list[i]] <= e[t]
  <2>1. p \in 1 .. Len(list) /\ e[list[p]] <= e[t]
    BY <1>0, <1>1, <1>2
  <2>2. CASE i = p
    BY <2>1, <2>2
  <2>3. CASE i < p
    <3>1. e[list[i]] <= e[list[p]]
      BY <2>1, <2>3 DEF Ordered
    <3>2. QED
      BY <1>0, <2>1, <3>1
  <2>4. QED
    BY <1>0, <1>1, <1>2, <2>2, <2>3
<1>3. Inserted(list, e, t) = InsertAt(list, p + 1, t)
  BY <1>A DEF Inserted
<1>4. Ordered(InsertAt(list, p + 1, t), e)
  BY <1>0, <1>1, <1>2, OrderedInsert
<1>5. /\ InsertAt(list, p + 1, t) \in Seq(Timers)
      /\ \A u : Contains(InsertAt(list, p + 1, t), u) <=> Contains(list, u) \/ u = t
  BY <1>1, ListInserted
<1>6. ASSUME ~Preempts(list, e, t) PROVE \E u \in Timers : Contains(list, u) /\ e[u] <= e[t]
  <2>1. p \in 1 .. Len(list) /\ e[list[p]] <= e[t]
    BY <1>A, <1>1, <1>6 DEF Preempts
  <2>2. QED
    BY <1>0, <2>1 DEF Contains
<1>7. QED
  BY <1>3, <1>4, <1>5, <1>6

\* The variables process sets, once list, st, notify and e are what it finds.
LEMMA NextTimerKeeps ==
  ASSUME NEW list \in Seq(Timers), NEW st \in [Timers -> {"pending", "active", "limbo"}],
         NEW notify \in SUBSET Timers, NEW e \in [Timers -> 0 .. MaxTime],
         now \in 0 .. Horizon, currentTime \in 0 .. now, wakeAt \in 0 .. DBL_MAX,
         lag \in 0 .. Horizon,
         Ordered(list, e),
         \A t \in Timers : /\ st[t] = "pending" <=> Contains(list, t)
                           /\ st[t] = "pending" => t \in notify
                           /\ st[t] # "active",
         NextTimer(list, st, notify, e), exp' = e, now' = now, cancelPending' = FALSE
  PROVE  /\ timerList' \in Seq(Timers)
         /\ curState' \in [Timers -> {"pending", "active", "limbo"}]
         /\ pNotify' \in SUBSET Timers /\ pExpireTmr' \in Timers \cup {None}
         /\ qpc' \in {"expire", "sleep"}
         /\ currentTime' \in 0 .. now' /\ wakeAt' \in 0 .. DBL_MAX /\ lag' \in 0 .. Horizon
         /\ Agreed' /\ Callback' /\ Awake'
         /\ \A t \in Timers : st[t] = "limbo" => curState'[t] = "limbo"
<1> DEFINE h == Head(list)
<1>0. MaxTime \in Nat /\ None \notin Timers
  BY TimerAssumption
<1>1. CASE /\ list # <<>> /\ currentTime >= e[h]
           /\ qpc' = "expire" /\ pExpireTmr' = h
           /\ timerList' = Tail(list)
           /\ curState' = [st EXCEPT ![h] = "active"]
           /\ pNotify' = notify \ {h}
           /\ UNCHANGED <<wakeAt, lag, currentTime>>
  <2>1. e \in [Timers -> Int]
    BY <1>0
  <2>2. /\ h \in Timers /\ Tail(list) \in Seq(Timers) /\ Contains(list, h)
        /\ \A u : Contains(list, u) <=> u = h \/ Contains(Tail(list), u)
        /\ IsInjective(list) => IsInjective(Tail(list)) /\ ~Contains(Tail(list), h)
    BY <1>1, ListGet
  <2>3. ~Contains(Tail(list), h)
    BY <2>2, OrderedInjective
  <2>4. Ordered(Tail(list), e)
    BY <1>1, <2>1, OrderedGet
  <2>5. Agreed'
    BY <1>1, <2>2, <2>3, <2>4 DEF Agreed
  <2>6. Callback' /\ Awake'
    BY <1>0, <1>1, <2>2 DEF Callback, Awake
  <2>7. \A t \in Timers : st[t] = "limbo" => curState'[t] = "limbo"
    BY <1>1, <2>2
  <2>8. QED
    BY <1>1, <2>2, <2>5, <2>6, <2>7
<1>2. CASE /\ list # <<>> => currentTime < e[h]
           /\ qpc' = "sleep" /\ pExpireTmr' = None
           /\ timerList' = list /\ curState' = st /\ pNotify' = notify
           /\ lag' = now - currentTime /\ currentTime' = 0
           /\ wakeAt' = IF list = <<>> THEN DBL_MAX
                        ELSE Min({Horizon, now + e[h] - currentTime})
  <2>1. Agreed' /\ Callback'
    BY <1>0, <1>2 DEF Agreed, Callback
  <2>2. /\ currentTime' \in 0 .. now' /\ lag' \in 0 .. Horizon /\ lag' = now - currentTime
        /\ Horizon \in Nat /\ DBL_MAX \in Nat /\ Horizon <= DBL_MAX
    BY <1>0, <1>2 DEF Horizon, DBL_MAX
  <2>3. CASE list = <<>>
    <3>1. wakeAt' \in 0 .. DBL_MAX
      BY <1>2, <2>2, <2>3
    <3>2. \A t : ~Contains(list, t)
      BY <2>3 DEF Contains
    <3>3. Awake'
      BY <1>2, <3>2 DEF Awake
    <3>4. QED
      BY <1>2, <2>1, <2>2, <3>1, <3>3
  <2>4. CASE list # <<>>
    <3>1. h \in Timers /\ e[h] \in Nat /\ e \in [Timers -> Int]
      BY <1>0, <2>4, ListGet
    <3>2. \A u : Contains(list, u) => e[h] <= e[u]
      BY <2>4, <3>1, OrderedGet
    <3> DEFINE d == now + e[h] - currentTime
    <3>3. d \in Nat /\ d = e[h] + lag'
      BY <2>2, <3>1
    <3>4. wakeAt' = Min({Horizon, d})
      BY <1>2, <2>4
    <3> HIDE DEF d
    <3>5. wakeAt' \in {Horizon, d} /\ wakeAt' <= Horizon /\ wakeAt' <= d
      <4>1. {Horizon, d} \in SUBSET Nat /\ {Horizon, d} # {}
        BY <2>2, <3>3
      <4>2. QED
        BY <4>1, <3>4, MinIs
    <3>6. wakeAt' \in 0 .. DBL_MAX
      BY <2>2, <3>3, <3>5
    <3>7. ASSUME NEW t \in Timers, Contains(list, t) PROVE wakeAt' <= e[t] + lag'
      <4>1. e[t] \in Int /\ e[h] <= e[t]
        BY <3>1, <3>2, <3>7
      <4>2. QED
        BY <2>2, <3>1, <3>3, <3>5, <3>6, <4>1
    <3>8. Awake'
      BY <1>2, <3>7 DEF Awake
    <3>9. QED
      BY <1>2, <2>1, <2>2, <3>6, <3>8
  <2>5. QED
    BY <2>3, <2>4
<1>3. QED
  BY <1>1, <1>2 DEF NextTimer

-----------------------------------------------------------------------------
LEMMA InitInv == Init => Inv
<1> SUFFICES ASSUME Init PROVE Inv
  OBVIOUS
<1>1. TypeOK
  <2>1. MaxTime \in Nat /\ 0 \in 0 .. MaxTime /\ 0 \in 0 .. Horizon /\ 0 \in 0 .. DBL_MAX
        /\ 0 \in 0 .. 0
    BY TimerAssumption DEF Horizon, DBL_MAX
  <2>2. timerList \in Seq(Timers) /\ exp \in [Timers -> 0 .. MaxTime]
    BY <2>1 DEF Init
  <2>3. QED
    BY <2>1, <2>2 DEF Init, TypeOK
<1>2. Agreed
  BY TimerAssumption DEF Init, Agreed, Ordered, Contains
<1>3. Callback /\ Destroyed /\ Awake
  BY DEF Init, Callback, Destroyed, Awake
<1>4. QED
  BY <1>1, <1>2, <1>3 DEF Inv

LEMMA TickInv == ASSUME Inv, Tick PROVE Inv'
<1>1. TypeOK'
  <2>1. now \in 0 .. Horizon /\ currentTime \in 0 .. now /\ now < Horizon /\ now' = now + 1
        /\ Horizon \in Nat /\ currentTime' = currentTime
    BY TimerAssumption DEF Inv, TypeOK, Tick, Horizon, qvars
  <2>2. now' \in 0 .. Horizon /\ currentTime' \in 0 .. now'
    BY <2>1
  <2>3. QED
    BY <2>2 DEF Inv, TypeOK, Tick, timers, qvars, cvars, Horizon, DBL_MAX
<1>2. QED
  BY <1>1 DEF Inv, Agreed, Callback, Destroyed, Awake, Tick, timers, qvars, cvars

LEMMA StartInv ==
  ASSUME Inv, NEW t \in Timers, NEW e \in 0 .. MaxTime, start(t, e)
  PROVE  Inv'
<1> DEFINE exp_ == [exp EXCEPT ![t] = e]
           list == RemoveFirst(timerList, t)
<1>0. /\ timerList \in Seq(Timers) /\ exp \in [Timers -> 0 .. MaxTime] /\ MaxTime \in Nat
      /\ Ordered(timerList, exp)
  BY TimerAssumption DEF Inv, TypeOK, Agreed
<1>1. exp_ \in [Timers -> 0 .. MaxTime] /\ exp_[t] = e
      /\ \A u \in Timers : u # t => exp_[u] = exp[u]
  BY <1>0
<1>2. /\ exp' = exp_ /\ pNotify' = pNotify \cup {t} /\ t \notin freed
      /\ \A c \in cdel : ctmr[c] # t
      /\ UNCHANGED <<now, freed, pExpireTmr, cancelPending, cancelBlockingEvent, terminateFlag,
                     qpc, currentTime, wakeAt, lag, cpc, ctmr, cdel, met, owed>>
  BY DEF start, qvars, cvars
<1>3. CASE curState[t] = "active" /\ UNCHANGED <<timerList, curState, rescheduleEvent>>
  <2>1. ~Contains(timerList, t)
    BY <1>3 DEF Inv, Agreed
  <2>2. Ordered(timerList, exp_)
    BY <1>0, <1>1, <2>1, OrderedKeys
  <2> HIDE DEF exp_
  <2>3. TypeOK'
    BY <1>1, <1>2, <1>3 DEF Inv, TypeOK, Horizon, DBL_MAX
  <2>4. Agreed'
    BY <1>2, <1>3, <2>2 DEF Inv, Agreed
  <2>5. Callback' /\ Destroyed'
    BY <1>2, <1>3 DEF Inv, Callback, Destroyed
  <2>6. Awake'
    <3>1. \A u \in Timers : Contains(timerList, u) => exp_[u] = exp[u]
      BY <1>1, <2>1
    <3>2. QED
      BY <1>2, <1>3, <3>1 DEF Inv, Awake
  <2>7. QED
    BY <2>3, <2>4, <2>5, <2>6 DEF Inv
<1>4. CASE /\ curState[t] # "active"
           /\ timerList' = Inserted(list, exp_, t)
           /\ curState' = [curState EXCEPT ![t] = "pending"]
           /\ rescheduleEvent' = (rescheduleEvent \/ Preempts(list, exp_, t))
  <2>1. /\ list \in Seq(Timers)
        /\ \A u : Contains(list, u) <=> Contains(timerList, u) /\ u # t
    BY <1>0, OrderedInjective, ListDeleted
  <2>2. Ordered(list, exp)
    BY <1>0, OrderedDelete
  <2>3. ~Contains(list, t)
    BY <2>1
  <2> HIDE DEF list, exp_
  <2>4. Ordered(list, exp_)
    <3>1. \A u \in Timers : Contains(list, u) => exp_[u] = exp[u]
      BY <1>1, <2>1
    <3>2. QED
      BY <2>1, <2>2, <3>1, OrderedKeys
  <2>5. /\ timerList' \in Seq(Timers) /\ Ordered(timerList', exp_)
        /\ \A u : Contains(timerList', u) <=> Contains(list, u) \/ u = t
        /\ ~Preempts(list, exp_, t) =>
             \E u \in Timers : Contains(list, u) /\ exp_[u] <= exp_[t]
    BY <1>1, <1>4, <2>1, <2>3, <2>4, InsertedIs
  <2>6. curState \in [Timers -> {"pending", "active", "limbo"}]
    BY DEF Inv, TypeOK
  <2>7. TypeOK'
    <3>1. rescheduleEvent' \in BOOLEAN
      BY <1>4
    <3>2. curState' \in [Timers -> {"pending", "active", "limbo"}]
      BY <1>4, <2>6
    <3>3. QED
      BY <1>1, <1>2, <2>5, <3>1, <3>2 DEF Inv, TypeOK, Horizon, DBL_MAX
  <2>8. Agreed'
    <3>1. ASSUME NEW u \in Timers
          PROVE  /\ curState'[u] = "pending" <=> Contains(timerList', u)
                 /\ curState'[u] = "pending" => u \in pNotify'
                 /\ curState'[u] = "active" <=> u = pExpireTmr' /\ ~cancelPending'
      <4>1. CASE u = t
        BY <1>2, <1>4, <2>5, <2>6, <4>1 DEF Inv, Agreed
      <4>2. CASE u # t
        BY <1>2, <1>4, <2>1, <2>5, <2>6, <4>2 DEF Inv, Agreed
      <4>3. QED
        BY <4>1, <4>2
    <3>2. QED
      BY <1>2, <2>5, <3>1 DEF Agreed
  <2>9. Callback' /\ Destroyed'
    <3>1. ASSUME NEW c \in cdel PROVE ctmr[c] \in Timers /\ curState'[ctmr[c]] = "limbo"
      BY <1>2, <1>4, <2>6, <3>1 DEF Inv, Destroyed
    <3>2. ASSUME NEW u \in freed PROVE curState'[u] = "limbo"
      <4>1. u \in Timers /\ curState[u] = "limbo" /\ u # t
        BY <1>2, <3>2 DEF Inv, Destroyed, TypeOK
      <4>2. QED
        BY <1>4, <2>6, <4>1
    <3>3. QED
      BY <1>2, <3>1, <3>2 DEF Inv, Callback, Destroyed
  <2>10. Awake'
    <3>1. SUFFICES ASSUME qpc = "sleep", ~rescheduleEvent', NEW u \in Timers,
                          Contains(timerList', u)
                   PROVE  wakeAt <= exp_[u] + lag
      BY <1>2 DEF Awake
    <3>2. ~rescheduleEvent /\ ~Preempts(list, exp_, t)
      BY <1>4, <3>1
    <3>3. wakeAt \in Int /\ lag \in Int /\ \A v \in Timers : exp_[v] \in Int
      BY <1>0, <1>1 DEF Inv, TypeOK, Horizon, DBL_MAX
    <3>4. \A v \in Timers : Contains(list, v) => wakeAt <= exp_[v] + lag
      <4>1. ASSUME NEW v \in Timers, Contains(list, v) PROVE wakeAt <= exp_[v] + lag
        <5>1. exp_[v] = exp[v] /\ Contains(timerList, v)
          BY <1>1, <2>1, <4>1
        <5>2. QED
          BY <3>1, <3>2, <5>1 DEF Inv, Awake
      <4>2. QED
        BY <4>1
    <3>5. CASE u # t
      BY <2>5, <3>1, <3>4, <3>5
    <3>6. CASE u = t
      <4>1. PICK v \in Timers : Contains(list, v) /\ exp_[v] <= exp_[t]
        BY <2>5, <3>2
      <4>2. wakeAt <= exp_[v] + lag
        BY <3>4, <4>1
      <4>3. exp_[v] \in Int /\ exp_[t] \in Int
        BY <3>3
      <4>4. QED
        BY <3>3, <3>6, <4>1, <4>2, <4>3
    <3>7. QED
      BY <3>5, <3>6
  <2>11. QED
    BY <2>7, <2>8, <2>9, <2>10 DEF Inv
<1>5. QED
  BY <1>3, <1>4 DEF start

\* What a cancel does to the list and the states, in a thread or in the callback.
LEMMA CancelledKeeps ==
  ASSUME Inv, NEW t \in Timers, Cancelled(t),
         UNCHANGED <<now, exp, pExpireTmr, cancelBlockingEvent, rescheduleEvent, terminateFlag,
                     qpc, currentTime, wakeAt, lag>>
  PROVE  /\ timerList' \in Seq(Timers)
         /\ curState' \in [Timers -> {"pending", "active", "limbo"}]
         /\ pNotify' \in SUBSET Timers /\ cancelPending' \in BOOLEAN
         /\ Agreed' /\ Callback' /\ Awake' /\ curState'[t] = "limbo"
         /\ \A u \in Timers : curState[u] = "limbo" => curState'[u] = "limbo"
<1>0. /\ timerList \in Seq(Timers) /\ Ordered(timerList, exp)
      /\ curState \in [Timers -> {"pending", "active", "limbo"}] /\ pNotify \in SUBSET Timers
      /\ cancelPending \in BOOLEAN
  BY DEF Inv, TypeOK, Agreed
<1>1. /\ timerList' \in Seq(Timers)
      /\ \A u : Contains(timerList', u) <=> Contains(timerList, u) /\ u # t
      /\ Ordered(timerList', exp')
  BY <1>0, OrderedInjective, ListDeleted, OrderedDelete DEF Cancelled
<1>2. /\ pNotify' = pNotify \ {t} /\ curState' = [curState EXCEPT ![t] = "limbo"]
      /\ cancelPending' = (cancelPending \/ curState[t] = "active")
  BY DEF Cancelled
<1>3. ASSUME NEW u \in Timers
      PROVE  /\ curState'[u] = "pending" <=> Contains(timerList', u)
             /\ curState'[u] = "pending" => u \in pNotify'
             /\ curState'[u] = "active" <=> u = pExpireTmr' /\ ~cancelPending'
  <2>1. /\ curState[u] = "pending" <=> Contains(timerList, u)
        /\ curState[u] = "pending" => u \in pNotify
        /\ curState[u] = "active" <=> u = pExpireTmr /\ ~cancelPending
        /\ curState[t] = "active" <=> t = pExpireTmr /\ ~cancelPending
    BY DEF Inv, Agreed
  <2>2. CASE u = t
    BY <1>0, <1>1, <1>2, <2>1, <2>2
  <2>3. CASE u # t
    <3>1. curState'[u] = curState[u]
      BY <1>0, <1>2, <2>3
    <3>2. curState[t] = "active" => curState[u] # "active" /\ u # pExpireTmr
      BY <2>1, <2>3
    <3>3. QED
      BY <1>1, <1>2, <2>1, <2>3, <3>1, <3>2
  <2>4. QED
    BY <2>2, <2>3
<1>4. Agreed'
  BY <1>1, <1>3 DEF Agreed
<1>5. Callback'
  <2>1. curState[t] = "active" => qpc = "expire"
    BY TimerAssumption DEF Inv, Agreed, Callback
  <2>2. QED
    BY <1>2, <2>1 DEF Inv, Callback
<1>6. Awake'
  BY <1>1 DEF Inv, Awake
<1>7. QED
  BY <1>0, <1>1, <1>2, <1>4, <1>5, <1>6

LEMMA CancelInv ==
  ASSUME Inv, NEW t \in Timers, NEW del, NEW c \in Threads, cancel(c, t, del)
  PROVE  Inv'
<1>1. /\ Cancelled(t)
      /\ UNCHANGED <<now, exp, pExpireTmr, cancelBlockingEvent, rescheduleEvent, terminateFlag,
                     qpc, currentTime, wakeAt, lag>>
  BY DEF cancel, qvars
<1>2. /\ timerList' \in Seq(Timers)
      /\ curState' \in [Timers -> {"pending", "active", "limbo"}]
      /\ pNotify' \in SUBSET Timers /\ cancelPending' \in BOOLEAN
      /\ Agreed' /\ Callback' /\ Awake' /\ curState'[t] = "limbo"
      /\ \A u \in Timers : curState[u] = "limbo" => curState'[u] = "limbo"
  BY <1>1, CancelledKeeps
<1>3. /\ cpc \in [Threads -> {"idle", "wait", "woken", "signal"}]
      /\ ctmr \in [Threads -> Timers \cup {None}]
      /\ cdel \in SUBSET Threads /\ met \in BOOLEAN /\ owed \in SUBSET Threads /\ freed \in SUBSET Timers
  BY DEF Inv, TypeOK
<1>4. /\ cpc' \in [Threads -> {"idle", "wait", "woken", "signal"}]
      /\ ctmr' \in [Threads -> Timers \cup {None}]
      /\ cdel' \in SUBSET Threads /\ met' \in BOOLEAN /\ owed' \in SUBSET Threads /\ freed' \in SUBSET Timers
  BY <1>3 DEF cancel, cvars
<1>5. TypeOK'
  BY <1>1, <1>2, <1>4 DEF Inv, TypeOK, Horizon, DBL_MAX
<1>6. Destroyed'
  <2>1. ASSUME NEW u \in freed' PROVE curState'[u] = "limbo"
    <3>1. u \in freed \/ u = t
      BY <2>1 DEF cancel
    <3>2. QED
      BY <1>2, <1>3, <3>1 DEF Inv, Destroyed
  <2>2. ASSUME NEW d \in cdel' PROVE ctmr'[d] \in Timers /\ curState'[ctmr'[d]] = "limbo"
    <3>1. d \in Threads
      BY <1>4, <2>2
    <3>2. ctmr'[d] = t \/ (d \in cdel /\ ctmr'[d] = ctmr[d])
      BY <1>3, <2>2, <3>1 DEF cancel, cvars
    <3>3. QED
      BY <1>2, <3>2 DEF Inv, Destroyed
  <2>3. QED
    BY <2>1, <2>2 DEF Destroyed
<1>7. QED
  BY <1>2, <1>5, <1>6 DEF Inv

LEMMA CancelInCallbackInv ==
  ASSUME Inv, NEW t \in Timers, NEW del, cancelInCallback(t, del)
  PROVE  Inv'
<1>1. /\ Cancelled(t)
      /\ UNCHANGED <<now, exp, pExpireTmr, cancelBlockingEvent, rescheduleEvent, terminateFlag,
                     qpc, currentTime, wakeAt, lag, cpc, ctmr, cdel, owed>>
      /\ met' = (met \/ pExpireTmr = t)
      /\ freed' = IF del THEN freed \cup {t} ELSE freed
  BY DEF cancelInCallback, qvars, cvars
<1>2. /\ timerList' \in Seq(Timers)
      /\ curState' \in [Timers -> {"pending", "active", "limbo"}]
      /\ pNotify' \in SUBSET Timers /\ cancelPending' \in BOOLEAN
      /\ Agreed' /\ Callback' /\ Awake' /\ curState'[t] = "limbo"
      /\ \A u \in Timers : curState[u] = "limbo" => curState'[u] = "limbo"
  BY <1>1, CancelledKeeps
<1>3. freed \in SUBSET Timers /\ freed' \in SUBSET Timers
  BY <1>1 DEF Inv, TypeOK
<1>4. TypeOK'
  BY <1>1, <1>2, <1>3 DEF Inv, TypeOK, Horizon, DBL_MAX
<1>5. Destroyed'
  BY <1>1, <1>2, <1>3 DEF Inv, Destroyed
<1>6. QED
  BY <1>2, <1>4, <1>5 DEF Inv

LEMMA CancellerInv ==
  ASSUME Inv, NEW c \in Threads, Canceller(c)
  PROVE  Inv'
<1>1. /\ UNCHANGED <<now, timerList, curState, exp, pNotify, pExpireTmr, cancelPending,
                     rescheduleEvent, terminateFlag, qpc, currentTime, wakeAt, lag, met, owed>>
  BY DEF Canceller, cancelWakes, cancelLooks, cancelReturns, timers, qvars
<1>2. /\ cpc \in [Threads -> {"idle", "wait", "woken", "signal"}]
      /\ ctmr \in [Threads -> Timers \cup {None}]
      /\ cdel \in SUBSET Threads /\ freed \in SUBSET Timers /\ cancelBlockingEvent \in BOOLEAN
  BY DEF Inv, TypeOK
<1>3. \/ UNCHANGED <<ctmr, cdel, freed>>
      \/ /\ ctmr' = [ctmr EXCEPT ![c] = None] /\ cdel' = cdel \ {c}
         /\ freed' = IF c \in cdel THEN freed \cup {ctmr[c]} ELSE freed
  BY DEF Canceller, cancelWakes, cancelLooks, cancelReturns, timers
<1>4. c \in cdel => ctmr[c] \in Timers /\ curState[ctmr[c]] = "limbo"
  BY DEF Inv, Destroyed
<1>5. /\ cpc' \in [Threads -> {"idle", "wait", "woken", "signal"}]
      /\ cancelBlockingEvent' \in BOOLEAN
  BY <1>2 DEF Canceller, cancelWakes, cancelLooks, cancelReturns, timers
<1>6. /\ ctmr' \in [Threads -> Timers \cup {None}]
      /\ cdel' \in SUBSET Threads /\ freed' \in SUBSET Timers
  BY <1>2, <1>3, <1>4
<1>7. TypeOK'
  BY <1>1, <1>5, <1>6 DEF Inv, TypeOK, Horizon, DBL_MAX
<1>8. Destroyed'
  BY <1>1, <1>2, <1>3, <1>4 DEF Inv, Destroyed
<1>9. QED
  BY <1>1, <1>7, <1>8 DEF Inv, Agreed, Callback, Awake

LEMMA ProcessInv == ASSUME Inv, process PROVE Inv'
<1>1. /\ NextTimer(timerList, curState, pNotify, exp) /\ qpc = "process"
      /\ UNCHANGED <<now, exp, freed, cancelPending, cancelBlockingEvent, rescheduleEvent,
                     terminateFlag, cpc, ctmr, cdel, met, owed>>
  BY DEF process, cvars
<1>2. cancelPending' = FALSE /\ cancelPending = FALSE /\ pExpireTmr = None
  BY <1>1 DEF Inv, Callback, TypeOK
<1>3. /\ timerList \in Seq(Timers) /\ curState \in [Timers -> {"pending", "active", "limbo"}]
      /\ pNotify \in SUBSET Timers /\ exp \in [Timers -> 0 .. MaxTime]
      /\ now \in 0 .. Horizon /\ currentTime \in 0 .. now /\ wakeAt \in 0 .. DBL_MAX
      /\ lag \in 0 .. Horizon
  BY DEF Inv, TypeOK
<1>4. /\ Ordered(timerList, exp)
      /\ \A t \in Timers : /\ curState[t] = "pending" <=> Contains(timerList, t)
                           /\ curState[t] = "pending" => t \in pNotify
                           /\ curState[t] # "active"
  BY <1>2, TimerAssumption DEF Inv, Agreed
<1>5. /\ timerList' \in Seq(Timers)
      /\ curState' \in [Timers -> {"pending", "active", "limbo"}]
      /\ pNotify' \in SUBSET Timers /\ pExpireTmr' \in Timers \cup {None}
      /\ qpc' \in {"expire", "sleep"}
      /\ currentTime' \in 0 .. now' /\ wakeAt' \in 0 .. DBL_MAX /\ lag' \in 0 .. Horizon
      /\ Agreed' /\ Callback' /\ Awake'
      /\ \A t \in Timers : curState[t] = "limbo" => curState'[t] = "limbo"
  BY <1>1, <1>2, <1>3, <1>4, NextTimerKeeps
<1>6. TypeOK'
  BY <1>1, <1>5 DEF Inv, TypeOK, Horizon, DBL_MAX
<1>7. Destroyed'
  BY <1>1, <1>5 DEF Inv, TypeOK, Destroyed
<1>8. QED
  BY <1>5, <1>6, <1>7 DEF Inv

LEMMA QueueWakesInv == ASSUME Inv, queueWakes PROVE Inv'
<1>1. /\ qpc = "sleep" /\ qpc' \in {"exit", "process"}
      /\ rescheduleEvent' \in {FALSE, rescheduleEvent}
      /\ currentTime' = now /\ wakeAt' = 0 /\ lag' = 0
      /\ UNCHANGED <<now, timerList, curState, exp, pNotify, freed, pExpireTmr, cancelPending,
                     cancelBlockingEvent, terminateFlag, cpc, ctmr, cdel, met, owed>>
  BY DEF queueWakes, timers, cvars
<1>2. now \in 0 .. Horizon /\ Horizon \in Nat /\ DBL_MAX \in Nat
  BY TimerAssumption DEF Inv, TypeOK, Horizon, DBL_MAX
<1>3. currentTime' \in 0 .. now' /\ wakeAt' \in 0 .. DBL_MAX /\ lag' \in 0 .. Horizon
  BY <1>1, <1>2
<1>4. rescheduleEvent' \in BOOLEAN
  BY <1>1 DEF Inv, TypeOK
<1>5. TypeOK'
  BY <1>1, <1>3, <1>4 DEF Inv, TypeOK, Horizon, DBL_MAX
<1>6. QED
  BY <1>1, <1>5 DEF Inv, Agreed, Callback, Destroyed, Awake

LEMMA ReleaseInv == ASSUME Inv, release PROVE Inv'
BY DEF Inv, TypeOK, Horizon, DBL_MAX, Agreed, Callback, Destroyed, Awake, release, timers, qvars,
       cvars

LEMMA ReleaseReturnsInv == ASSUME Inv, releaseReturns PROVE Inv'
<1>1. /\ qpc = "exit" /\ qpc' = "gone"
      /\ timerList' = <<>> /\ curState' = [t \in Timers |-> "limbo"]
      /\ UNCHANGED <<now, exp, pNotify, freed, pExpireTmr, cancelPending, cancelBlockingEvent,
                     rescheduleEvent, terminateFlag, currentTime, wakeAt, lag, cpc, ctmr, cdel,
                     met, owed>>
  BY DEF releaseReturns, cvars
<1>2. timerList' \in Seq(Timers) /\ \A t : ~Contains(timerList', t)
  BY <1>1 DEF Contains
<1>3. Ordered(timerList', exp')
  BY <1>1 DEF Ordered
<1>4. TypeOK'
  BY <1>1, <1>2 DEF Inv, TypeOK, Horizon, DBL_MAX
<1>5. pExpireTmr = None
  BY <1>1 DEF Inv, Callback
<1>6. Agreed'
  BY <1>1, <1>2, <1>3, <1>5, TimerAssumption DEF Agreed
<1>7. Callback' /\ Destroyed' /\ Awake'
  BY <1>1, <1>4 DEF Inv, TypeOK, Callback, Destroyed, Awake
<1>8. QED
  BY <1>4, <1>6, <1>7 DEF Inv

\* The three ways a callback's end can go: the timer was cancelled, it is left
\* in limbo, or it is restarted.
LEMMA ExpireInv ==
  ASSUME Inv, NEW delays \in Delays, expireReturns(delays)
  PROVE  Inv'
<1> DEFINE t == pExpireTmr
           limbo == [curState EXCEPT ![t] = "limbo"]
           State == {"pending", "active", "limbo"}
<1>1. /\ qpc = "expire" /\ cancelPending' = FALSE
      /\ cancelBlockingEvent' = (cancelBlockingEvent \/ cancelPending)
      /\ met' = FALSE /\ owed' = {}
      /\ UNCHANGED <<now, freed, terminateFlag, cpc, ctmr, cdel>>
  BY DEF expireReturns, cvars
<1>2. /\ timerList \in Seq(Timers) /\ curState \in [Timers -> State]
      /\ pNotify \in SUBSET Timers /\ exp \in [Timers -> 0 .. MaxTime]
      /\ now \in 0 .. Horizon /\ currentTime \in 0 .. now /\ wakeAt \in 0 .. DBL_MAX
      /\ lag \in 0 .. Horizon /\ freed \in SUBSET Timers
      /\ t \in Timers /\ Ordered(timerList, exp)
  <2>1. t # None
    BY <1>1 DEF Inv, Callback
  <2>2. QED
    BY <2>1 DEF Inv, TypeOK, Agreed
<1>3. \A u \in Timers : /\ curState[u] = "pending" <=> Contains(timerList, u)
                        /\ curState[u] = "pending" => u \in pNotify
                        /\ curState[u] = "active" <=> u = t /\ ~cancelPending
  BY DEF Inv, Agreed
<1>4. SUFFICES
        /\ timerList' \in Seq(Timers) /\ curState' \in [Timers -> State]
        /\ pNotify' \in SUBSET Timers /\ pExpireTmr' \in Timers \cup {None}
        /\ qpc' \in {"expire", "sleep"} /\ exp' \in [Timers -> 0 .. MaxTime]
        /\ currentTime' \in 0 .. now' /\ wakeAt' \in 0 .. DBL_MAX /\ lag' \in 0 .. Horizon
        /\ rescheduleEvent' \in BOOLEAN
        /\ Agreed' /\ Callback' /\ Awake'
        /\ \A u \in Timers : curState[u] = "limbo" => curState'[u] = "limbo"
  <2>1. cancelBlockingEvent' \in BOOLEAN
    BY <1>1
  <2>2. TypeOK'
    BY <1>1, <1>4, <2>1 DEF Inv, TypeOK, Horizon, DBL_MAX
  <2>3. Destroyed'
    BY <1>1, <1>2, <1>4 DEF Inv, Destroyed
  <2>4. QED
    BY <1>4, <2>2, <2>3 DEF Inv
<1>5. CASE /\ cancelPending
           /\ NextTimer(timerList, curState, pNotify, exp)
           /\ UNCHANGED <<exp, rescheduleEvent>>
  <2>1. \A u \in Timers : /\ curState[u] = "pending" <=> Contains(timerList, u)
                          /\ curState[u] = "pending" => u \in pNotify
                          /\ curState[u] # "active"
    BY <1>3, <1>5
  <2>2. rescheduleEvent' \in BOOLEAN /\ exp' = exp /\ now' = now
    BY <1>1, <1>5 DEF Inv, TypeOK
  <2>3. QED
    BY <1>1, <1>2, <1>5, <2>1, <2>2, NextTimerKeeps
<1>6. CASE /\ ~cancelPending
           /\ NextTimer(timerList, limbo, pNotify, exp)
           /\ UNCHANGED <<exp, rescheduleEvent>>
  <2>1. limbo \in [Timers -> State] /\ limbo[t] = "limbo"
        /\ \A u \in Timers : u # t => limbo[u] = curState[u]
    BY <1>2
  <2>2. ~Contains(timerList, t)
    BY <1>2, <1>3, <1>6
  <2> HIDE DEF limbo
  <2>3. \A u \in Timers : /\ limbo[u] = "pending" <=> Contains(timerList, u)
                          /\ limbo[u] = "pending" => u \in pNotify
                          /\ limbo[u] # "active"
    BY <1>3, <2>1, <2>2
  <2>4. rescheduleEvent' \in BOOLEAN /\ exp' = exp /\ now' = now
    BY <1>1, <1>6 DEF Inv, TypeOK
  <2>5. \A u \in Timers : curState[u] = "limbo" => limbo[u] = "limbo"
    BY <2>1
  <2>6. /\ timerList' \in Seq(Timers) /\ curState' \in [Timers -> State]
        /\ pNotify' \in SUBSET Timers /\ pExpireTmr' \in Timers \cup {None}
        /\ qpc' \in {"expire", "sleep"}
        /\ currentTime' \in 0 .. now' /\ wakeAt' \in 0 .. DBL_MAX /\ lag' \in 0 .. Horizon
        /\ Agreed' /\ Callback' /\ Awake'
        /\ \A u \in Timers : limbo[u] = "limbo" => curState'[u] = "limbo"
    BY ZenonT(60), <1>1, <1>2, <1>6, <2>1, <2>3, <2>4, NextTimerKeeps
  <2>7. QED
    BY <1>2, <2>4, <2>5, <2>6
<1>7. ASSUME ~cancelPending, NEW e \in RestartAt(t, delays), e <= MaxTime,
             exp' = [exp EXCEPT ![t] = e],
             rescheduleEvent' = (rescheduleEvent \/ Preempts(timerList, [exp EXCEPT ![t] = e], t)),
             NextTimer(Inserted(timerList, [exp EXCEPT ![t] = e], t),
                       [limbo EXCEPT ![t] = "pending"], pNotify \cup {t},
                       [exp EXCEPT ![t] = e])
      PROVE  /\ timerList' \in Seq(Timers) /\ curState' \in [Timers -> State]
             /\ pNotify' \in SUBSET Timers /\ pExpireTmr' \in Timers \cup {None}
             /\ qpc' \in {"expire", "sleep"} /\ exp' \in [Timers -> 0 .. MaxTime]
             /\ currentTime' \in 0 .. now' /\ wakeAt' \in 0 .. DBL_MAX /\ lag' \in 0 .. Horizon
             /\ rescheduleEvent' \in BOOLEAN
             /\ Agreed' /\ Callback' /\ Awake'
             /\ \A u \in Timers : curState[u] = "limbo" => curState'[u] = "limbo"
  <2> DEFINE exp_ == [exp EXCEPT ![t] = e]
             list == Inserted(timerList, exp_, t)
             st == [limbo EXCEPT ![t] = "pending"]
             notify == pNotify \cup {t}
  <2>1. e \in 0 .. MaxTime
    <3>1. MaxTime \in Nat /\ Horizon \in Nat
      BY TimerAssumption DEF Horizon
    <3>2. e = exp[t] \/ e = currentTime + 0 \/ e = currentTime + 1
      BY <1>7 DEF RestartAt, Delays
    <3>3. CASE e = exp[t]
      BY <1>2, <3>3
    <3>4. CASE e = currentTime + 0 \/ e = currentTime + 1
      BY <1>2, <1>7, <3>1, <3>4
    <3>5. QED
      BY <3>2, <3>3, <3>4
  <2>2. exp_ \in [Timers -> 0 .. MaxTime] /\ \A u \in Timers : u # t => exp_[u] = exp[u]
    BY <1>2, <2>1
  <2>3. curState[t] = "active" /\ ~Contains(timerList, t)
    BY <1>2, <1>3, <1>7
  <2>4. st \in [Timers -> State] /\ st[t] = "pending"
        /\ \A u \in Timers : u # t => st[u] = curState[u]
    BY <1>2
  <2>5. /\ exp' = exp_ /\ NextTimer(list, st, notify, exp_) /\ rescheduleEvent' \in BOOLEAN
        /\ now' = now
    BY <1>1, <1>7
  <2>6. notify \in SUBSET Timers /\ t \in notify /\ pNotify \subseteq notify
    BY <1>2
  <2> HIDE DEF exp_, st, notify, limbo
  <2>7. Ordered(timerList, exp_)
    <3>1. \A u \in Timers : Contains(timerList, u) => exp_[u] = exp[u]
      BY <2>2, <2>3
    <3>2. QED
      BY <1>2, <3>1, OrderedKeys
  <2>8. /\ list \in Seq(Timers) /\ Ordered(list, exp_)
        /\ \A u : Contains(list, u) <=> Contains(timerList, u) \/ u = t
    BY <1>2, <2>2, <2>3, <2>7, InsertedIs
  <2> HIDE DEF list
  <2>9. \A u \in Timers : /\ st[u] = "pending" <=> Contains(list, u)
                          /\ st[u] = "pending" => u \in notify
                          /\ st[u] # "active"
    BY <1>3, <2>4, <2>6, <2>8
  <2>10. /\ timerList' \in Seq(Timers) /\ curState' \in [Timers -> State]
         /\ pNotify' \in SUBSET Timers /\ pExpireTmr' \in Timers \cup {None}
         /\ qpc' \in {"expire", "sleep"}
         /\ currentTime' \in 0 .. now' /\ wakeAt' \in 0 .. DBL_MAX /\ lag' \in 0 .. Horizon
         /\ Agreed' /\ Callback' /\ Awake'
         /\ \A u \in Timers : st[u] = "limbo" => curState'[u] = "limbo"
    <3>1. /\ list \in Seq(Timers) /\ st \in [Timers -> {"pending", "active", "limbo"}]
          /\ notify \in SUBSET Timers /\ exp_ \in [Timers -> 0 .. MaxTime]
          /\ now \in 0 .. Horizon /\ currentTime \in 0 .. now /\ wakeAt \in 0 .. DBL_MAX
          /\ lag \in 0 .. Horizon /\ Ordered(list, exp_)
      BY <1>2, <2>2, <2>4, <2>6, <2>8
    <3>2. NextTimer(list, st, notify, exp_) /\ exp' = exp_ /\ now' = now /\ cancelPending' = FALSE
      BY <1>1, <2>5
    <3>3. QED
      BY ZenonT(60), <2>9, <3>1, <3>2, NextTimerKeeps
  <2>11. \A u \in Timers : curState[u] = "limbo" => st[u] = "limbo"
    BY <2>3, <2>4
  <2>12. QED
    BY <2>2, <2>5, <2>10, <2>11
<1>8. QED
  <2>1. \/ /\ cancelPending
           /\ NextTimer(timerList, curState, pNotify, exp)
           /\ UNCHANGED <<exp, rescheduleEvent>>
        \/ /\ ~cancelPending
           /\ NextTimer(timerList, limbo, pNotify, exp)
           /\ UNCHANGED <<exp, rescheduleEvent>>
        \/ /\ ~cancelPending
           /\ \E e \in RestartAt(t, delays) :
                /\ e <= MaxTime
                /\ exp' = [exp EXCEPT ![t] = e]
                /\ rescheduleEvent' =
                     (rescheduleEvent \/ Preempts(timerList, [exp EXCEPT ![t] = e], t))
                /\ NextTimer(Inserted(timerList, [exp EXCEPT ![t] = e], t),
                             [limbo EXCEPT ![t] = "pending"], pNotify \cup {t},
                             [exp EXCEPT ![t] = e])
    BY Zenon DEF expireReturns
  <2>2. QED
    BY <1>2, <1>5, <1>6, <1>7, <2>1

LEMMA StepInv == Inv /\ [Next]_vars => Inv'
<1> SUFFICES ASSUME Inv, [Next]_vars PROVE Inv'
  OBVIOUS
<1>1. CASE UNCHANGED vars
  BY <1>1 DEF Inv, TypeOK, Horizon, DBL_MAX, Agreed, Callback, Destroyed, Awake, vars, timers,
              qvars, cvars
<1>2. CASE Next
  BY <1>2, TickInv, ProcessInv, QueueWakesInv, ExpireInv, StartInv, CancelInCallbackInv, CancelInv,
     CancellerInv, ReleaseInv, ReleaseReturnsInv DEF Next, Queue
<1>3. QED
  BY <1>1, <1>2

\* The variables of timer.cpp and timerQueue.cpp keep their types.
THEOREM TimersTyped == Spec => []TypeOK
<1>1. Inv => TypeOK
  BY DEF Inv
<1>2. QED
  BY <1>1, InitInv, StepInv, PTL DEF Spec

\* Whatever threads and callbacks start, cancel, restart or destroy, the list
\* that process walks holds each pending timer once and in the order they
\* expire, the active timer is the one called back, and a destroyed timer is
\* neither in the list nor touched when its callback returns.
THEOREM ListRight == Spec => []ListAgrees
<1>1. Inv => ListAgrees
  <2> SUFFICES ASSUME Inv PROVE ListAgrees
    OBVIOUS
  <2>1. \A i, j \in 1 .. Len(timerList) : i < j =>
          timerList[i] # timerList[j] /\ exp[timerList[i]] <= exp[timerList[j]]
    BY DEF Inv, Agreed, Ordered
  <2>2. \A t \in Timers :
          /\ curState[t] = "pending" <=> Contains(timerList, t)
          /\ curState[t] = "pending" => t \in pNotify
          /\ curState[t] = "active" <=> t = pExpireTmr /\ ~cancelPending
    BY DEF Inv, Agreed
  <2>3. \A t \in freed : t \in Timers /\ curState[t] = "limbo"
    BY DEF Inv, TypeOK, Destroyed
  <2>4. \A t \in freed : ~Contains(timerList, t) /\ (pExpireTmr = t => cancelPending)
    BY <2>2, <2>3
  <2>5. QED
    BY <2>1, <2>2, <2>4 DEF ListAgrees
<1>2. QED
  BY <1>1, InitInv, StepInv, PTL DEF Spec

\* timerQueueActive::run never sleeps past the first timer, but for the age of
\* the time process worked with: privateStart signals rescheduleEvent whenever
\* it puts a timer in front of those the delay was computed from.
THEOREM SleepsNoLonger == Spec => []NoOversleep
<1>1. Inv => NoOversleep
  <2> SUFFICES ASSUME Inv, qpc = "sleep", ~rescheduleEvent, timerList # <<>>
               PROVE  wakeAt <= exp[Head(timerList)] + lag
    BY DEF NoOversleep
  <2>1. Head(timerList) \in Timers /\ Contains(timerList, Head(timerList))
    BY ListGet DEF Inv, TypeOK
  <2>2. QED
    BY <2>1 DEF Inv, Awake
<1>2. QED
  BY <1>1, InitInv, StepInv, PTL DEF Spec

-----------------------------------------------------------------------------
(* The cancels that wait *)

Met == met <=> cancelPending

Owed ==
  \A c \in owed :
    /\ cpc[c] \in {"wait", "woken"}
    /\ cancelPending /\ pExpireTmr = ctmr[c]

Debts == Met /\ Owed

LEMMA InitDebts == Init => Debts
BY DEF Init, Debts, Met, Owed

LEMMA SameDebts ==
  ASSUME Debts, UNCHANGED <<cancelPending, pExpireTmr, cpc, ctmr, met, owed>>
  PROVE  Debts'
BY DEF Debts, Met, Owed

\* Only the timer whose callback runs can be active, and it is until somebody
\* cancels it.
LEMMA CancelledMet ==
  ASSUME Inv, Debts, NEW t \in Timers, Cancelled(t), met' = (met \/ pExpireTmr = t)
  PROVE  Met' /\ (cancelPending => cancelPending')
<1>1. curState[t] = "active" <=> t = pExpireTmr /\ ~cancelPending
  BY DEF Inv, Agreed
<1>2. cancelPending' = (cancelPending \/ curState[t] = "active")
  BY DEF Cancelled
<1>3. met \in BOOLEAN /\ cancelPending \in BOOLEAN /\ (met <=> cancelPending)
  BY DEF Inv, TypeOK, Debts, Met
<1>4. QED
  BY <1>1, <1>2, <1>3 DEF Met

LEMMA StepDebts == Inv /\ Debts /\ [Next]_vars => Debts'
<1> SUFFICES ASSUME Inv, Debts, [Next]_vars PROVE Debts'
  OBVIOUS
<1>1. CASE Tick
  BY <1>1, SameDebts DEF Tick, cvars
<1>2. CASE process
  <2>1. UNCHANGED <<cancelPending, met, owed, cpc, ctmr>> /\ qpc = "process"
    BY <1>2 DEF process, cvars
  <2>2. ~cancelPending
    BY <2>1 DEF Inv, Callback
  <2>3. owed = {}
    BY <2>2 DEF Debts, Owed
  <2>4. QED
    BY <2>1, <2>3 DEF Debts, Met, Owed
<1>3. CASE queueWakes
  BY <1>3, SameDebts DEF queueWakes, cvars
<1>4. ASSUME NEW d, expireReturns(d) PROVE Debts'
  <2>1. cancelPending' = FALSE /\ met' = FALSE /\ owed' = {}
    BY <1>4 DEF expireReturns
  <2>2. QED
    BY <2>1 DEF Debts, Met, Owed
<1>5. ASSUME NEW t \in Timers, NEW e \in 0 .. MaxTime, start(t, e) PROVE Debts'
  BY <1>5, SameDebts DEF start, cvars
<1>6. ASSUME NEW t \in Timers, NEW del, cancelInCallback(t, del) PROVE Debts'
  <2>1. /\ Cancelled(t) /\ met' = (met \/ pExpireTmr = t)
        /\ UNCHANGED <<pExpireTmr, cpc, ctmr, owed>>
    BY <1>6 DEF cancelInCallback, cvars
  <2>2. Met' /\ (cancelPending => cancelPending')
    BY <2>1, CancelledMet
  <2>3. QED
    BY <2>1, <2>2 DEF Debts, Owed
<1>7. ASSUME NEW t \in Timers, NEW del, NEW c \in Threads, cancel(c, t, del) PROVE Debts'
  <2>1. /\ Cancelled(t) /\ met' = (met \/ pExpireTmr = t) /\ cpc[c] = "idle"
        /\ UNCHANGED pExpireTmr
    BY <1>7 DEF cancel
  <2>2. Met' /\ (cancelPending => cancelPending')
    BY <2>1, CancelledMet
  <2>3. c \notin owed /\ owed \subseteq Threads
    BY <2>1 DEF Debts, Owed, Inv, TypeOK
  <2>4. \A d \in owed : cpc'[d] = cpc[d] /\ ctmr'[d] = ctmr[d]
    BY <1>7, <2>3 DEF cancel, cvars, Inv, TypeOK
  <2>5. CASE pExpireTmr = t /\ ~met
    <3>1. curState[t] = "active"
      BY <2>5 DEF Inv, Agreed, Debts, Met
    <3>2. cancelPending'
      BY <2>1, <3>1 DEF Cancelled
    <3>3. cpc'[c] = "wait" /\ ctmr'[c] = t
      BY <1>7, <3>1 DEF cancel, Inv, TypeOK
    <3>4. owed' = owed \cup {c}
      BY <1>7, <2>5 DEF cancel
    <3>5. Owed'
      BY <2>1, <2>2, <2>4, <2>5, <3>2, <3>3, <3>4 DEF Debts, Owed
    <3>6. QED
      BY <2>2, <3>5 DEF Debts
  <2>6. CASE ~(pExpireTmr = t /\ ~met)
    <3>1. owed' = owed
      BY <1>7, <2>6 DEF cancel
    <3>2. QED
      BY <2>1, <2>2, <2>4, <3>1 DEF Debts, Owed
  <2>7. QED
    BY <2>5, <2>6
<1>8. ASSUME NEW c \in Threads, Canceller(c) PROVE Debts'
  <2>1. UNCHANGED <<cancelPending, pExpireTmr, met, owed>>
    BY <1>8 DEF Canceller, cancelWakes, cancelLooks, cancelReturns
  <2>2. owed \subseteq Threads /\ cpc \in [Threads -> {"idle", "wait", "woken", "signal"}]
        /\ ctmr \in [Threads -> Timers \cup {None}]
    BY DEF Inv, TypeOK
  <2>3. ASSUME NEW d \in owed PROVE cpc'[d] \in {"wait", "woken"} /\ ctmr'[d] = ctmr[d]
    <3>1. cpc[d] \in {"wait", "woken"} /\ StillExpiring(ctmr[d])
      BY DEF Debts, Owed, StillExpiring
    <3>2. QED
      BY <1>8, <2>2, <3>1 DEF Canceller, cancelWakes, cancelLooks, cancelReturns
  <2>4. QED
    BY <2>1, <2>3 DEF Debts, Met, Owed
<1>9. CASE release
  BY <1>9, SameDebts DEF release, cvars
<1>10. CASE releaseReturns
  BY <1>10, SameDebts DEF releaseReturns, cvars
<1>11. CASE UNCHANGED vars
  BY <1>11, SameDebts DEF vars, cvars
<1>12. QED
  BY <1>1, <1>2, <1>3, <1>4, <1>5, <1>6, <1>7, <1>8, <1>9, <1>10, <1>11 DEF Next, Queue

\* The first thread that cancels a timer since its callback began finds it
\* active, unless the callback has cancelled it itself, and stays in
\* timer::cancel's loop until the callback has returned, whatever other threads
\* and callbacks start, cancel, destroy or restart meanwhile.  Cancels after the
\* first do not wait, in the code as in the model.
THEOREM CancelWaits == Spec => []CancelBlocks
<1>1. Inv /\ Debts => CancelBlocks
  BY DEF Debts, Owed, CancelBlocks
<1>2. QED
  BY <1>1, InitInv, StepInv, InitDebts, StepDebts, PTL DEF Spec

=============================================================================
