---------------------------- MODULE DbLockProofs ----------------------------
(***************************************************************************)
(* Lock sets, for any number of records and threads and any puts of links. *)
(*                                                                         *)
(* ThreadInv says what a thread knows at its position: the sets it has     *)
(* locked and those its locker refers to, that a record it has locked      *)
(* cannot change its set, and that the cache is right while recomputeCnt   *)
(* stands.  Linked says that sets are components of the links, half way    *)
(* through a split or a merge too.  Counted says that the references are   *)
(* counted, and Recycled that a set to which nothing refers is free or     *)
(* about to be.  None of them is inductive alone: a split takes a set from *)
(* the free list, and only the counts say that no record is in it.         *)
(***************************************************************************)
EXTENDS DbLock, ListLemmas

\* where a thread is, or will be when dbLockDecRef returns
Calls == {"decref", "free"}
At(t) == IF pc[t] \in Calls THEN ret[t] ELSE pc[t]

Scanning == {"lock", "check", "locked"}
Passing  == {"pass", "slot1", "slot2"}
Many     == Passing \cup {"acquire", "unlockmany"} \cup Mutated

\* the thread is between dbScanLockMany's last mutex and the end of its check
Verifying(t) == At(t) \in Passing /\ mode[t] = "verify"

Positions(t) ==
  /\ pc[t] \in Calls =>
       /\ drop[t] \in LockSet
       /\ ret[t] \in {"lock", "idle", "slot2", "pass", "acquire", "unlockmany", "finalize"}
  /\ pc[t] \notin Calls => ret[t] = "idle"
  /\ At(t) \in Scanning => rec[t] \in Record /\ ls[t] \in LockSet
  /\ At(t) \in Many => rec[t] \in Record
  /\ At(t) \in Passing => mode[t] \in {"prepare", "many", "verify"}
  /\ At(t) = "acquire" => mode[t] = "many"
  /\ At(t) = "unlockmany" => mode[t] \in {"many", "final"}

\* locker->refs
Cached(t) ==
  /\ At(t) \in Scanning \cup {"idle"} => \A i \in Slot : refs[t][i] = None
  /\ tgt[t] = None => refs[t][2] = None
  /\ At(t) = "slot2" /\ (t \in seen \/ mode[t] = "verify") => refs[t][1] = plockSet[rec[t]]
  /\ At(t) \in Many /\ t \in fresh =>
       \A i \in Slot : Plr(t, i) # None => refs[t][i] = plockSet[Plr(t, i)]

\* locker->locked
Owning(t) ==
  /\ \A s \in LockSet : ownerlocker[s] = t =>
       At(t) \in {"acquire", "unlockmany"} \cup Mutated \/ Verifying(t)
  /\ At(t) = "acquire" \/ Verifying(t) =>
       \A s \in LockSet : ownerlocker[s] = t => \E i \in Slot : refs[t][i] = s
  /\ At(t) = "acquire" =>
       \A s \in LockSet : ownerlocker[s] = t =>
         \A i \in Slot : refs[t][i] \in LockSet /\ ownerlocker[refs[t][i]] # t => s < refs[t][i]
  /\ Verifying(t) => \A i \in Slot : refs[t][i] \in LockSet => ownerlocker[refs[t][i]] = t
  /\ At(t) \in Mutated =>
       /\ ownerlocker[plockSet[rec[t]]] = t
       /\ tgt[t] # None => ownerlocker[plockSet[tgt[t]]] = t

\* a set's mutex is held for the locked list or by dbScanLock
Mutexes(t) ==
  \A s \in LockSet :
    mutex[s] = t <=> \/ ownerlocker[s] = t
                     \/ pc[t] = "check" /\ ls[t] = s
                     \/ pc[t] = "locked" /\ plockSet[rec[t]] = s

\* the records and the sets of a split or a merge
Moves(t) ==
  /\ pc[t] \in {"split", "move"} => /\ moving[t] \subseteq Records(plockSet[rec[t]])
                                    /\ rec[t] \notin moving[t]
  /\ pc[t] \in {"move", "merge"} => /\ ls[t] \in LockSet /\ ls[t] # plockSet[rec[t]]
                                    /\ ownerlocker[ls[t]] = t

ThreadInv(t) == Positions(t) /\ Cached(t) /\ Owning(t) /\ Mutexes(t) /\ Moves(t)
Threads == \A t \in Thread : ThreadInv(t)

\* R is a component of the links l
IsComponent(l, R) ==
  /\ R # {} /\ R \subseteq Record /\ Tied(l, R)
  /\ \A X \in SUBSET Record : Tied(l, X) /\ X \cap R # {} => R \subseteq X

\* t is splitting s, or merging it with another
Splits(t) == pc[t] \in {"split", "move"}
BusyWith(t, s) == \/ pc[t] \in {"split", "move", "merge"} /\ s = plockSet[rec[t]]
                  \/ pc[t] \in {"move", "merge"} /\ s = ls[t]
Busy(s) == \E t \in Thread : BusyWith(t, s)

\* the records that leave in a split
Leaving(t) == moving[t] \cup (IF pc[t] = "move" THEN Records(ls[t]) ELSE {})

SetLinked(s) == Records(s) # {} /\ ~Busy(s) => IsComponent(link, Records(s))
ThreadLinked(t) ==
  /\ Splits(t) => /\ IsComponent(link, Leaving(t))
                  /\ IsComponent(link, Records(plockSet[rec[t]]) \ moving[t])
  /\ pc[t] = "merge" => IsComponent(link, Records(plockSet[rec[t]]) \cup Records(ls[t]))
  /\ pc[t] \in {"split", "move", "relink"} => link[rec[t]] = None
Linked == (\A s \in LockSet : SetLinked(s)) /\ (\A t \in Thread : ThreadLinked(t))

\* the count behind records on their way to another set
Weight(s) == Cardinality(Records(s)) + Owed(s)

Counted ==
  /\ \A s \in LockSet : refcount[s] = Weight(s) + Cardinality(References(s))
  /\ \A t \in Thread : pc[t] = "merge" =>
       Cardinality(Records(plockSet[rec[t]])) + Cardinality(Records(ls[t])) > num[t]

Freeing(s) == {t \in Thread : pc[t] = "free" /\ drop[t] = s}

SetRecycled(s) ==
  /\ refcount[s] = 0 <=> s \notin made \/ Contains(lockSetsFree, s) \/ Freeing(s) # {}
  /\ Contains(lockSetsFree, s) \/ Freeing(s) # {} => s \in made
  /\ Contains(lockSetsFree, s) => Freeing(s) = {}
  /\ \A t, u \in Freeing(s) : t = u
Recycled == IsInjective(lockSetsFree) /\ \A s \in LockSet : SetRecycled(s)

\* TypeOK but for the counts, which Counted bounds
Typed ==
  /\ link \in [Record -> Record \cup {None}]
  /\ plockSet \in [Record -> LockSet]
  /\ refcount \in [LockSet -> Int]
  /\ mutex \in [LockSet -> Thread \cup {None}]
  /\ ownerlocker \in [LockSet -> Thread \cup {None}]
  /\ lockSetsFree \in Seq(LockSet) /\ made \subseteq LockSet
  /\ fresh \subseteq Thread /\ seen \subseteq Thread
  /\ refs \in [Thread -> [Slot -> LockSet \cup {None}]]
  /\ pc \in [Thread -> PC] /\ mode \in [Thread -> Mode]
  /\ rec \in [Thread -> Record \cup {None}] /\ tgt \in [Thread -> Record \cup {None}]
  /\ ls \in [Thread -> LockSet \cup {None}] /\ drop \in [Thread -> LockSet \cup {None}]
  /\ ret \in [Thread -> PC]
  /\ moving \in [Thread -> SUBSET Record] /\ num \in [Thread -> Nat]
  /\ puts \in 0 .. MaxPuts

Inv == Typed /\ Threads /\ Linked /\ Counted /\ Recycled

-----------------------------------------------------------------------------
(* What a step of one thread leaves to the others *)

\* the locals of t stay
SameLocals(t) ==
  /\ pc'[t] = pc[t] /\ ret'[t] = ret[t] /\ drop'[t] = drop[t] /\ mode'[t] = mode[t]
  /\ rec'[t] = rec[t] /\ tgt'[t] = tgt[t] /\ ls'[t] = ls[t] /\ refs'[t] = refs[t]
  /\ moving'[t] = moving[t] /\ num'[t] = num[t]
  /\ t \in fresh' => t \in fresh
  /\ t \in seen' => t \in seen

\* u takes and releases mutexes, and moves records out of sets it has locked
Frame(u) ==
  /\ \A t \in Thread \ {u} : SameLocals(t)
  /\ \A s \in LockSet : \/ ownerlocker'[s] = ownerlocker[s]
                        \/ ownerlocker[s] \in {None, u} /\ ownerlocker'[s] \in {None, u}
  /\ \A s \in LockSet : \/ mutex'[s] = mutex[s]
                        \/ mutex[s] \in {None, u} /\ mutex'[s] \in {None, u}
  /\ \A r \in Record : plockSet'[r] = plockSet[r] \/ ownerlocker[plockSet[r]] = u
  /\ plockSet' = plockSet \/ (fresh' = {} /\ seen' = {})

\* The marker is no thread, record or set.
LEMMA NoneFacts == /\ None \notin Thread /\ None \notin Record /\ None \notin LockSet
BY LockAssumption

\* What another thread knows stays true.
LEMMA OthersKeep ==
  ASSUME Typed, Typed', Threads, NEW u \in Thread, Frame(u), NEW t \in Thread, t # u
  PROVE  ThreadInv(t)'
<1>1. SameLocals(t)
  BY DEF Frame
<1>2. \A s \in LockSet : /\ ownerlocker'[s] = t <=> ownerlocker[s] = t
                         /\ mutex'[s] = t <=> mutex[s] = t
  BY NoneFacts DEF Frame
<1>3. /\ At(t)' = At(t) /\ \A i \in Slot : Plr(t, i)' = Plr(t, i)
      /\ Verifying(t)' <=> Verifying(t)
  BY <1>1 DEF SameLocals, At, Plr, Verifying
<1>4. ThreadInv(t) /\ Mutexes(u)
  BY DEF Threads, ThreadInv
<1>5. \A r \in Record : mutex[plockSet[r]] = t \/ ownerlocker[plockSet[r]] = t => plockSet'[r] = plockSet[r]
  <2>1. \A r \in Record : plockSet[r] \in LockSet
    BY DEF Typed
  <2> QED
    BY <1>4, <2>1 DEF Frame, Mutexes, ThreadInv
<1>6. Positions(t)'
  BY <1>1, <1>3, <1>4 DEF Positions, SameLocals, ThreadInv
<1>7. Cached(t)'
  <2>1. t \in fresh' \/ t \in seen' => plockSet' = plockSet
    BY DEF Frame
  <2>2. Verifying(t) /\ refs[t][1] \in LockSet => ownerlocker[refs[t][1]] = t
    BY <1>4 DEF ThreadInv, Owning, Slot
  <2>3. At(t) = "slot2" => rec[t] \in Record /\ plockSet[rec[t]] \in LockSet
    BY <1>4 DEF ThreadInv, Positions, Many, Passing, Typed
  <2>4. At(t) = "slot2" /\ mode[t] = "verify" => plockSet'[rec[t]] = plockSet[rec[t]]
    BY <1>4, <1>5, <2>2, <2>3 DEF ThreadInv, Cached, Verifying, Passing
  <2> QED
    BY <1>1, <1>3, <1>4, <2>1, <2>4 DEF Cached, SameLocals, ThreadInv
<1>8. Owning(t)'
  <2>1. At(t) \in Mutated => rec[t] \in Record /\ (tgt[t] # None => tgt[t] \in Record)
    BY <1>4 DEF ThreadInv, Positions, Many, Typed
  <2>a. \A r \in Record : ownerlocker[plockSet[r]] = t => ownerlocker'[plockSet'[r]] = t
    <3>1. \A r \in Record : plockSet[r] \in LockSet
      BY DEF Typed
    <3> QED
      BY <1>2, <1>5, <3>1
  <2>2. At(t) \in Mutated => /\ ownerlocker'[plockSet'[rec[t]]] = t
                             /\ tgt[t] # None => ownerlocker'[plockSet'[tgt[t]]] = t
    BY <1>4, <2>1, <2>a DEF ThreadInv, Owning
  <2> QED
    BY <1>1, <1>2, <1>3, <1>4, <2>2 DEF Owning, SameLocals, ThreadInv
<1>9. Mutexes(t)'
  <2>1. pc[t] = "locked" => rec[t] \in Record /\ plockSet[rec[t]] \in LockSet
    BY <1>4 DEF ThreadInv, Positions, At, Scanning, Calls, Typed
  <2>2. pc[t] = "locked" => plockSet'[rec[t]] = plockSet[rec[t]]
    BY <1>4, <1>5, <2>1 DEF ThreadInv, Mutexes
  <2> QED
    BY <1>1, <1>2, <1>4, <2>2 DEF Mutexes, SameLocals, ThreadInv
<1>10. Moves(t)'
  <2>1. pc[t] \in {"split", "move", "merge"} => /\ rec[t] \in Record /\ plockSet[rec[t]] \in LockSet
                                                /\ ownerlocker[plockSet[rec[t]]] = t
    BY <1>4 DEF ThreadInv, Positions, Owning, At, Calls, Many, Mutated, Typed
  <2>2. pc[t] \in {"split", "move", "merge"} =>
          /\ plockSet'[rec[t]] = plockSet[rec[t]]
          /\ Records(plockSet[rec[t]]) \subseteq {r \in Record : plockSet'[r] = plockSet[rec[t]]}
    BY <1>5, <2>1 DEF Records
  <2> QED
    BY <1>1, <1>2, <1>4, <2>1, <2>2 DEF Moves, SameLocals, ThreadInv, Records
<1> QED
  BY <1>6, <1>7, <1>8, <1>9, <1>10 DEF ThreadInv
-----------------------------------------------------------------------------
(* What the thread that takes the step knows afterwards *)

\* what is to be shown of a step of t
Own(t) == Typed' /\ Frame(t) /\ ThreadInv(t)'

\* A step that changes nothing but counts and the locals of t keeps the frame.
LEMMA LocalFrame ==
  ASSUME Typed, NEW t \in Thread, UNCHANGED <<plockSet, ownerlocker, mutex>>,
         \A u \in Thread \ {t} : SameLocals(u)
  PROVE  Frame(t)
BY DEF Frame

\* dbLockDecRef
LEMMA DecRef_Own == ASSUME Typed, NEW t \in Thread, ThreadInv(t), DecRef(t), UNCHANGED puts PROVE Own(t)
<1>1. /\ pc[t] = "decref" /\ drop[t] \in LockSet
      /\ UNCHANGED <<link, plockSet, mutex, ownerlocker, lockSetsFree, made, fresh, seen, refs, rec, tgt,
                     mode, ls, moving, num, puts>>
  BY DEF DecRef, ThreadInv, Positions, Calls, passVars, argVars, moveVars
<1>2. \/ pc' = [pc EXCEPT ![t] = "free"] /\ UNCHANGED <<drop, ret>>
      \/ /\ pc' = [pc EXCEPT ![t] = ret[t]]
         /\ drop' = [drop EXCEPT ![t] = None] /\ ret' = [ret EXCEPT ![t] = "idle"]
  BY DEF DecRef, Return, Goto, callVars
<1>3. At(t)' = At(t)
  BY <1>1, <1>2 DEF At, Calls, ThreadInv, Positions, Typed
<1>4. Typed'
  <2>1. refcount' \in [LockSet -> Int]
    BY <1>1 DEF DecRef, Typed
  <2>2. pc' \in [Thread -> PC] /\ drop' \in [Thread -> LockSet \cup {None}] /\ ret' \in [Thread -> PC]
    BY <1>2, ZenonT(60) DEF Typed, PC
  <2> QED
    BY <1>1, <2>1, <2>2 DEF Typed
<1>5. Frame(t)
  <2>1. \A u \in Thread \ {t} : SameLocals(u)
    BY <1>1, <1>2 DEF SameLocals, Typed
  <2> QED
    BY <1>1, <2>1, LocalFrame
<1>6. Positions(t)'
  BY <1>1, <1>2, <1>3 DEF Positions, ThreadInv, Calls, Typed
<1>7. Cached(t)' /\ Owning(t)'
  BY <1>1, <1>3 DEF Cached, Owning, ThreadInv, Verifying, Plr
<1>8. Mutexes(t)'
  BY <1>1, <1>2 DEF Mutexes, ThreadInv, Positions, Calls, Typed
<1>9. Moves(t)'
  BY <1>1, <1>2 DEF Moves, ThreadInv, Positions, Calls, Typed
<1> QED
  BY <1>4, <1>5, <1>6, <1>7, <1>8, <1>9 DEF Own, ThreadInv

LEMMA FreeSet_Own == ASSUME Typed, NEW t \in Thread, ThreadInv(t), FreeSet(t), UNCHANGED puts PROVE Own(t)
<1>1. /\ pc[t] = "free" /\ drop[t] \in LockSet
      /\ UNCHANGED <<link, plockSet, refcount, mutex, ownerlocker, made, fresh, seen, refs, rec, tgt,
                     mode, ls, moving, num, puts>>
  BY DEF FreeSet, ThreadInv, Positions, Calls, passVars, argVars, moveVars
<1>2. /\ pc' = [pc EXCEPT ![t] = ret[t]]
      /\ drop' = [drop EXCEPT ![t] = None] /\ ret' = [ret EXCEPT ![t] = "idle"]
  BY DEF FreeSet, Return, Goto
<1>3. At(t)' = At(t)
  BY <1>1, <1>2 DEF At, Calls, ThreadInv, Positions, Typed
<1>4. Typed'
  <2>1. lockSetsFree' \in Seq(LockSet)
    BY <1>1 DEF FreeSet, Typed
  <2>2. pc' \in [Thread -> PC] /\ drop' \in [Thread -> LockSet \cup {None}] /\ ret' \in [Thread -> PC]
    BY <1>2 DEF Typed, PC
  <2> QED
    BY <1>1, <2>1, <2>2 DEF Typed
<1>5. Frame(t)
  <2>1. \A u \in Thread \ {t} : SameLocals(u)
    BY <1>1, <1>2 DEF SameLocals, Typed
  <2> QED
    BY <1>1, <2>1, LocalFrame
<1>6. Positions(t)'
  BY <1>1, <1>2, <1>3 DEF Positions, ThreadInv, Calls, Typed
<1>7. Cached(t)' /\ Owning(t)'
  BY <1>1, <1>3 DEF Cached, Owning, ThreadInv, Verifying, Plr
<1>8. Mutexes(t)'
  BY <1>1, <1>2 DEF Mutexes, ThreadInv, Positions, Calls, Typed
<1>9. Moves(t)'
  BY <1>1, <1>2 DEF Moves, ThreadInv, Positions, Calls, Typed
<1> QED
  BY <1>4, <1>5, <1>6, <1>7, <1>8, <1>9 DEF Own, ThreadInv

\* dbScanLock and dbScanUnlock: the thread has no locker's sets.
LEMMA dbScanLock_Own ==
  ASSUME Typed, NEW t \in Thread, ThreadInv(t), NEW r \in Record, dbScanLock(t, r), UNCHANGED puts
  PROVE  Own(t)
<1>1. /\ pc[t] = "idle" /\ pc' = [pc EXCEPT ![t] = "lock"]
      /\ rec' = [rec EXCEPT ![t] = r] /\ ls' = [ls EXCEPT ![t] = plockSet[r]]
      /\ UNCHANGED <<link, plockSet, mutex, ownerlocker, lockSetsFree, made, fresh, seen, refs, tgt,
                     mode, drop, ret, moving, num, puts>>
  BY DEF dbScanLock, passVars, callVars, moveVars, Goto
<1>2. /\ pc'[t] = "lock" /\ rec'[t] = r /\ ls'[t] = plockSet[r] /\ plockSet[r] \in LockSet
      /\ At(t) = "idle" /\ At(t)' = "lock"
  BY <1>1 DEF At, Calls, Typed
<1>3. Typed'
  <2>1. refcount' \in [LockSet -> Int]
    BY <1>2 DEF dbScanLock, Typed
  <2> QED
    BY <1>1, <1>2, <2>1 DEF Typed, PC
<1>4. Frame(t)
  <2>1. \A u \in Thread \ {t} : SameLocals(u)
    BY <1>1 DEF SameLocals, Typed
  <2> QED
    BY <1>1, <2>1, LocalFrame
<1>5. Positions(t)'
  BY <1>1, <1>2 DEF Positions, ThreadInv, Calls, Scanning, Many, Passing, Mutated
<1>6. Cached(t)' /\ Owning(t)'
  BY <1>1, <1>2 DEF Cached, Owning, ThreadInv, Scanning, Many, Passing, Mutated, Verifying
<1>7. Mutexes(t)' /\ Moves(t)'
  BY <1>1, <1>2 DEF Mutexes, Moves, ThreadInv
<1> QED
  BY <1>3, <1>4, <1>5, <1>6, <1>7 DEF Own, ThreadInv

LEMMA LockMutex_Own == ASSUME Typed, NEW t \in Thread, ThreadInv(t), LockMutex(t), UNCHANGED puts PROVE Own(t)
<1>1. /\ pc[t] = "lock" /\ pc' = [pc EXCEPT ![t] = "check"] /\ mutex[ls[t]] = None
      /\ mutex' = [mutex EXCEPT ![ls[t]] = t]
      /\ UNCHANGED <<link, plockSet, refcount, ownerlocker, lockSetsFree, made, fresh, seen, refs, rec, tgt,
                     mode, ls, drop, ret, moving, num, puts>>
  BY DEF LockMutex, passVars, argVars, callVars, moveVars, Goto
<1>2. /\ pc'[t] = "check" /\ At(t) = "lock" /\ At(t)' = "check" /\ ls[t] \in LockSet
  BY <1>1 DEF At, Calls, Typed, ThreadInv, Positions, Scanning
<1>3. Typed'
  BY <1>1, <1>2 DEF Typed, PC
<1>4. Frame(t)
  BY <1>1, <1>2 DEF SameLocals, Frame, Typed
<1>5. Positions(t)'
  BY <1>1, <1>2 DEF Positions, ThreadInv, Calls, Scanning, Many, Passing, Mutated
<1>6. Cached(t)' /\ Owning(t)'
  BY <1>1, <1>2 DEF Cached, Owning, ThreadInv, Scanning, Many, Passing, Mutated, Verifying
<1>7. Mutexes(t)' /\ Moves(t)'
  BY <1>1, <1>2 DEF Mutexes, Moves, ThreadInv, Typed
<1> QED
  BY <1>3, <1>4, <1>5, <1>6, <1>7 DEF Own, ThreadInv

LEMMA CheckOK_Own == ASSUME Typed, NEW t \in Thread, ThreadInv(t), CheckOK(t), UNCHANGED puts PROVE Own(t)
<1>1. /\ pc[t] = "check" /\ pc' = [pc EXCEPT ![t] = "locked"] /\ ls[t] = plockSet[rec[t]]
      /\ UNCHANGED <<link, plockSet, mutex, ownerlocker, lockSetsFree, made, fresh, seen, refs, rec, tgt,
                     mode, ls, drop, ret, moving, num, puts>>
  BY DEF CheckOK, passVars, argVars, callVars, moveVars, Goto
<1>2. /\ pc'[t] = "locked" /\ At(t) = "check" /\ At(t)' = "locked" /\ ls[t] \in LockSet
  BY <1>1 DEF At, Calls, Typed, ThreadInv, Positions, Scanning
<1>3. Typed'
  <2>1. refcount' \in [LockSet -> Int]
    BY <1>2 DEF CheckOK, Typed
  <2> QED
    BY <1>1, <1>2, <2>1 DEF Typed, PC
<1>4. Frame(t)
  BY <1>1, <1>2 DEF SameLocals, Frame, Typed
<1>5. Positions(t)'
  BY <1>1, <1>2 DEF Positions, ThreadInv, Calls, Scanning, Many, Passing, Mutated
<1>6. Cached(t)' /\ Owning(t)'
  BY <1>1, <1>2 DEF Cached, Owning, ThreadInv, Scanning, Many, Passing, Mutated, Verifying
<1>7. Mutexes(t)' /\ Moves(t)'
  BY <1>1, <1>2 DEF Mutexes, Moves, ThreadInv, Typed
<1> QED
  BY <1>3, <1>4, <1>5, <1>6, <1>7 DEF Own, ThreadInv

LEMMA CheckRetry_Own == ASSUME Typed, NEW t \in Thread, ThreadInv(t), CheckRetry(t), UNCHANGED puts PROVE Own(t)
<1>1. /\ pc[t] = "check" /\ pc' = [pc EXCEPT ![t] = "decref"]
      /\ drop' = [drop EXCEPT ![t] = ls[t]] /\ ret' = [ret EXCEPT ![t] = "lock"]
      /\ mutex' = [mutex EXCEPT ![ls[t]] = None] /\ ls' = [ls EXCEPT ![t] = plockSet[rec[t]]]
      /\ UNCHANGED <<link, plockSet, ownerlocker, lockSetsFree, made, fresh, seen, refs, rec, tgt,
                     mode, moving, num, puts>>
  BY DEF CheckRetry, CallDecRef, passVars, argVars, moveVars, Goto
<1>2. /\ pc'[t] = "decref" /\ ret'[t] = "lock" /\ drop'[t] = ls[t] /\ ls'[t] = plockSet[rec[t]]
      /\ At(t) = "check" /\ At(t)' = "lock"
      /\ ls[t] \in LockSet /\ rec[t] \in Record /\ plockSet[rec[t]] \in LockSet
  BY <1>1 DEF At, Calls, Typed, ThreadInv, Positions, Scanning
<1>3. Typed'
  <2>1. refcount' \in [LockSet -> Int]
    BY <1>2 DEF CheckRetry, Typed
  <2> QED
    BY <1>1, <1>2, <2>1 DEF Typed, PC
<1>4. Frame(t)
  BY <1>1, <1>2 DEF SameLocals, Frame, Typed, ThreadInv, Mutexes
<1>5. Positions(t)'
  BY <1>1, <1>2 DEF Positions, ThreadInv, Calls, Scanning, Many, Passing, Mutated
<1>6. Cached(t)' /\ Owning(t)'
  BY <1>1, <1>2 DEF Cached, Owning, ThreadInv, Scanning, Many, Passing, Mutated, Verifying
<1>7. Mutexes(t)' /\ Moves(t)'
  BY <1>1, <1>2, <1>6, NoneFacts DEF Mutexes, Moves, ThreadInv, Typed, Owning, Verifying, Mutated, Passing
<1> QED
  BY <1>3, <1>4, <1>5, <1>6, <1>7 DEF Own, ThreadInv

LEMMA dbScanUnlock_Own ==
  ASSUME Typed, NEW t \in Thread, ThreadInv(t), dbScanUnlock(t), UNCHANGED puts PROVE Own(t)
<1>1. /\ pc[t] = "locked" /\ pc' = [pc EXCEPT ![t] = "decref"]
      /\ drop' = [drop EXCEPT ![t] = plockSet[rec[t]]] /\ ret' = [ret EXCEPT ![t] = "idle"]
      /\ mutex' = [mutex EXCEPT ![plockSet[rec[t]]] = None] /\ ls' = [ls EXCEPT ![t] = None]
      /\ rec' = [rec EXCEPT ![t] = None] /\ tgt' = [tgt EXCEPT ![t] = None] /\ num' = [num EXCEPT ![t] = 0]
      /\ UNCHANGED <<link, plockSet, ownerlocker, lockSetsFree, made, fresh, seen, refs, mode, moving, puts>>
  BY DEF dbScanUnlock, CallDecRef, Forget, passVars, Goto
<1>2. /\ pc'[t] = "decref" /\ ret'[t] = "idle" /\ drop'[t] = plockSet[rec[t]]
      /\ At(t) = "locked" /\ At(t)' = "idle" /\ plockSet[rec[t]] \in LockSet
  BY <1>1 DEF At, Calls, Typed, ThreadInv, Positions, Scanning
<1>3. Typed'
  <2>1. refcount' \in [LockSet -> Int]
    BY <1>2 DEF dbScanUnlock, Typed
  <2> QED
    BY <1>1, <1>2, <2>1 DEF Typed, PC
<1>4. Frame(t)
  BY <1>1, <1>2 DEF SameLocals, Frame, Typed, ThreadInv, Mutexes
<1>5. Positions(t)'
  BY <1>1, <1>2 DEF Positions, ThreadInv, Calls, Scanning, Many, Passing, Mutated
<1>6. Cached(t)' /\ Owning(t)'
  BY <1>1, <1>2 DEF Cached, Owning, ThreadInv, Scanning, Many, Passing, Mutated, Verifying, Slot
<1>7. Mutexes(t)' /\ Moves(t)'
  BY <1>1, <1>2, <1>6, NoneFacts DEF Mutexes, Moves, ThreadInv, Typed, Owning, Verifying, Mutated, Passing
<1> QED
  BY <1>3, <1>4, <1>5, <1>6, <1>7 DEF Own, ThreadInv

\* The passes of dbLockUpdateRefs.
LEMMA dbLockerPrepare_Own ==
  ASSUME Typed, NEW t \in Thread, ThreadInv(t), NEW r \in Record, NEW q \in Record \cup {None},
         dbLockerPrepare(t, r, q), puts' \in 0 .. MaxPuts
  PROVE  Own(t)
<1>1. /\ pc[t] = "idle" /\ pc' = [pc EXCEPT ![t] = "pass"] /\ mode' = [mode EXCEPT ![t] = "prepare"]
      /\ rec' = [rec EXCEPT ![t] = r] /\ tgt' = [tgt EXCEPT ![t] = q] /\ fresh' = fresh \ {t}
      /\ UNCHANGED <<link, plockSet, refcount, mutex, ownerlocker, lockSetsFree, made, seen, refs,
                     ls, drop, ret, moving, num>>
  BY DEF dbLockerPrepare, setVars, callVars, moveVars, Goto
<1>2. /\ pc'[t] = "pass" /\ rec'[t] = r /\ tgt'[t] = q /\ mode'[t] = "prepare" /\ t \notin fresh'
      /\ At(t) = "idle" /\ At(t)' = "pass"
  BY <1>1 DEF At, Calls, Typed
<1>3. Typed'
  BY <1>1, <1>2 DEF Typed, PC, Mode
<1>4. Frame(t)
  BY <1>1 DEF SameLocals, Frame, Typed
<1>5. Positions(t)'
  BY <1>1, <1>2 DEF Positions, ThreadInv, Calls, Scanning, Many, Passing, Mutated
<1>6. Cached(t)' /\ Owning(t)'
  BY <1>1, <1>2 DEF Cached, Owning, ThreadInv, Scanning, Many, Passing, Mutated, Verifying, Slot
<1>7. Mutexes(t)' /\ Moves(t)'
  BY <1>1, <1>2 DEF Mutexes, Moves, ThreadInv
<1> QED
  BY <1>3, <1>4, <1>5, <1>6, <1>7 DEF Own, ThreadInv

\* A pass that ends in dbScanLockMany's check has found the sets of both records locked.
LEMMA Verified ==
  ASSUME Typed, NEW t \in Thread, ThreadInv(t), Verifying(t),
         \A i \in Slot : Plr(t, i) # None => refs[t][i] = plockSet[Plr(t, i)]
  PROVE  /\ ownerlocker[plockSet[rec[t]]] = t
         /\ tgt[t] # None => ownerlocker[plockSet[tgt[t]]] = t
<1>1. rec[t] \in Record /\ rec[t] # None /\ (tgt[t] # None => tgt[t] \in Record)
  BY NoneFacts DEF ThreadInv, Positions, Verifying, Many, Typed
<1>2. 1 \in Slot /\ 2 \in Slot /\ Plr(t, 1) = rec[t] /\ Plr(t, 2) = tgt[t]
  BY DEF Slot, Plr
<1>3. refs[t][1] = plockSet[rec[t]] /\ (tgt[t] # None => refs[t][2] = plockSet[tgt[t]])
  BY <1>1, <1>2
<1>4. plockSet[rec[t]] \in LockSet /\ (tgt[t] # None => plockSet[tgt[t]] \in LockSet)
  BY <1>1 DEF Typed
<1>5. \A i \in Slot : refs[t][i] \in LockSet => ownerlocker[refs[t][i]] = t
  BY DEF ThreadInv, Owning
<1> QED
  BY <1>2, <1>3, <1>4, <1>5

LEMMA PassSkip_Own == ASSUME Typed, NEW t \in Thread, ThreadInv(t), PassSkip(t), UNCHANGED puts PROVE Own(t)
<1>1. /\ pc[t] = "pass" /\ t \in fresh /\ pc' = [pc EXCEPT ![t] = PassEnd(t)]
      /\ mode' = [mode EXCEPT ![t] = NextMode(t)]
      /\ UNCHANGED <<link, plockSet, refcount, mutex, ownerlocker, lockSetsFree, made, fresh, seen, refs,
                     rec, tgt, ls, drop, ret, moving, num, puts>>
  BY DEF PassSkip, setVars, passVars, argVars, callVars, moveVars, Goto
<1>2. /\ At(t) = "pass" /\ mode[t] \in {"prepare", "many", "verify"} /\ rec[t] \in Record
      /\ pc'[t] = PassEnd(t) /\ mode'[t] = NextMode(t)
  BY <1>1 DEF At, Calls, Typed, ThreadInv, Positions, Passing, Many
<1>3. /\ PassEnd(t) = (IF mode[t] = "prepare" THEN "pass" ELSE IF mode[t] = "many" THEN "acquire" ELSE "held")
      /\ NextMode(t) = IF mode[t] = "prepare" THEN "many" ELSE mode[t]
      /\ At(t)' = PassEnd(t)
  BY <1>1, <1>2 DEF PassEnd, NextMode, At, Calls
<1>4. Typed'
  BY <1>1, <1>2, <1>3 DEF Typed, PC, Mode, Mutated
<1>5. Frame(t)
  BY <1>1 DEF SameLocals, Frame, Typed
<1>6. Positions(t)'
  BY <1>1, <1>2, <1>3 DEF Positions, ThreadInv, Calls, Scanning, Many, Passing, Mutated
<1>7. Cached(t)'
  BY <1>1, <1>2, <1>3 DEF Cached, ThreadInv, Scanning, Many, Passing, Mutated, Plr
<1>8. Owning(t)'
  <2>1. Verifying(t) <=> mode[t] = "verify"
    BY <1>2 DEF Verifying, Passing
  <2>2. \A i \in Slot : Plr(t, i) # None => refs[t][i] = plockSet[Plr(t, i)]
    BY <1>1, <1>2 DEF ThreadInv, Cached, Many, Passing
  <2>3. mode[t] = "verify" => /\ ownerlocker[plockSet[rec[t]]] = t
                              /\ tgt[t] # None => ownerlocker[plockSet[tgt[t]]] = t
    BY <2>1, <2>2, Verified
  <2>4. mode[t] # "verify" => \A s \in LockSet : ownerlocker[s] # t
    BY <1>2, <2>1 DEF ThreadInv, Owning, Mutated
  <2> QED
    BY <1>1, <1>2, <1>3, <2>1, <2>3, <2>4 DEF Owning, ThreadInv, Mutated, Verifying, Passing
<1>9. Mutexes(t)' /\ Moves(t)'
  BY <1>1, <1>2, <1>3 DEF Mutexes, Moves, ThreadInv
<1> QED
  BY <1>4, <1>5, <1>6, <1>7, <1>8, <1>9 DEF Own, ThreadInv

LEMMA PassStart_Own == ASSUME Typed, NEW t \in Thread, ThreadInv(t), PassStart(t), UNCHANGED puts PROVE Own(t)
<1>1. /\ pc[t] = "pass" /\ t \notin fresh /\ pc' = [pc EXCEPT ![t] = "slot1"] /\ seen' = seen \cup {t}
      /\ UNCHANGED <<link, plockSet, refcount, mutex, ownerlocker, lockSetsFree, made, fresh, refs,
                     rec, tgt, mode, ls, drop, ret, moving, num, puts>>
  BY DEF PassStart, setVars, argVars, callVars, moveVars, Goto
<1>2. pc'[t] = "slot1" /\ At(t) = "pass" /\ At(t)' = "slot1"
  BY <1>1 DEF At, Calls, Typed
<1>3. Typed'
  BY <1>1, <1>2 DEF Typed, PC
<1>4. Frame(t)
  BY <1>1 DEF SameLocals, Frame, Typed
<1>5. Positions(t)'
  BY <1>1, <1>2 DEF Positions, ThreadInv, Calls, Scanning, Many, Passing, Mutated
<1>6. Cached(t)' /\ Owning(t)'
  BY <1>1, <1>2 DEF Cached, Owning, ThreadInv, Scanning, Many, Passing, Mutated, Verifying, Plr
<1>7. Mutexes(t)' /\ Moves(t)'
  BY <1>1, <1>2 DEF Mutexes, Moves, ThreadInv
<1> QED
  BY <1>3, <1>4, <1>5, <1>6, <1>7 DEF Own, ThreadInv

LEMMA SlotCollide_Own ==
  ASSUME Typed, NEW t \in Thread, ThreadInv(t), NEW i \in Slot, SlotCollide(t, i), UNCHANGED puts
  PROVE  Own(t)
<1>1. /\ pc[t] \in {"slot1", "slot2"} /\ pc' = [pc EXCEPT ![t] = "unlockmany"]
      /\ mode' = [mode EXCEPT ![t] = "many"] /\ seen' = seen \ {t}
      /\ UNCHANGED <<link, plockSet, refcount, mutex, ownerlocker, lockSetsFree, made, fresh, refs,
                     rec, tgt, ls, drop, ret, moving, num, puts>>
  BY DEF SlotCollide, AtSlot, setVars, argVars, callVars, moveVars, Goto
<1>2. /\ pc'[t] = "unlockmany" /\ At(t) = pc[t] /\ At(t)' = "unlockmany" /\ mode'[t] = "many"
      /\ rec[t] \in Record
  BY <1>1 DEF At, Calls, Typed, ThreadInv, Positions, Many, Passing
<1>3. Typed'
  BY <1>1, <1>2 DEF Typed, PC, Mode
<1>4. Frame(t)
  BY <1>1 DEF SameLocals, Frame, Typed
<1>5. Positions(t)'
  BY <1>1, <1>2 DEF Positions, ThreadInv, Calls, Scanning, Many, Passing, Mutated
<1>6. Cached(t)' /\ Owning(t)'
  BY <1>1, <1>2 DEF Cached, Owning, ThreadInv, Scanning, Many, Passing, Mutated, Verifying, Plr
<1>7. Mutexes(t)' /\ Moves(t)'
  BY <1>1, <1>2 DEF Mutexes, Moves, ThreadInv
<1> QED
  BY <1>3, <1>4, <1>5, <1>6, <1>7 DEF Own, ThreadInv

\* The steps of a pass, common to entries that change and those that do not.
LEMMA SlotFacts ==
  ASSUME Typed, NEW t \in Thread, ThreadInv(t), NEW i \in Slot, AtSlot(t, i), SlotDone(t, i)
  PROVE  /\ i \in {1, 2} /\ At(t) = (IF i = 1 THEN "slot1" ELSE "slot2") /\ pc[t] = At(t)
         /\ rec[t] \in Record /\ mode[t] \in {"prepare", "many", "verify"} /\ ret[t] = "idle"
         /\ mode' \in [Thread -> Mode] /\ fresh' \subseteq Thread /\ seen' \subseteq Thread
         /\ mode'[t] = (IF i = 1 THEN mode[t] ELSE NextMode(t))
         /\ AfterSlot(t, i) = IF i = 1 THEN "slot2" ELSE IF mode[t] = "prepare" THEN "pass"
                              ELSE IF mode[t] = "many" THEN "acquire" ELSE "held"
         /\ t \in fresh' => t \in fresh \/ (i = 2 /\ t \in seen)
         /\ t \in seen' => i = 1 /\ t \in seen
         /\ \A u \in Thread \ {t} : /\ mode'[u] = mode[u]
                                    /\ u \in fresh' => u \in fresh
                                    /\ u \in seen' => u \in seen
<1>1. /\ i \in {1, 2} /\ At(t) = (IF i = 1 THEN "slot1" ELSE "slot2") /\ pc[t] = At(t)
  BY DEF Slot, AtSlot, At, Calls
<1>2. rec[t] \in Record /\ mode[t] \in {"prepare", "many", "verify"} /\ ret[t] = "idle"
  BY <1>1 DEF ThreadInv, Positions, Many, Passing, Calls
<1>3. NextMode(t) \in Mode
  BY <1>2 DEF NextMode, Mode
<1>4. /\ mode' \in [Thread -> Mode]
      /\ mode'[t] = (IF i = 1 THEN mode[t] ELSE NextMode(t))
      /\ \A u \in Thread \ {t} : mode'[u] = mode[u]
  BY <1>1, <1>3 DEF SlotDone, Typed
<1>5. /\ fresh' \subseteq Thread /\ seen' \subseteq Thread
      /\ t \in fresh' => t \in fresh \/ (i = 2 /\ t \in seen)
      /\ t \in seen' => i = 1 /\ t \in seen
      /\ \A u \in Thread \ {t} : (u \in fresh' => u \in fresh) /\ (u \in seen' => u \in seen)
  BY <1>1 DEF SlotDone, Typed
<1>6. AfterSlot(t, i) = IF i = 1 THEN "slot2" ELSE IF mode[t] = "prepare" THEN "pass"
                        ELSE IF mode[t] = "many" THEN "acquire" ELSE "held"
  BY <1>1 DEF AfterSlot, PassEnd
<1> QED
  BY <1>1, <1>2, <1>4, <1>5, <1>6

\* An entry agrees with its record after its step, and the first one still after the
\* second step, unless a record has moved.
LEMMA SlotsAgree ==
  ASSUME Typed, NEW t \in Thread, ThreadInv(t), NEW i \in Slot, AtSlot(t, i), SlotDone(t, i),
         UNCHANGED <<plockSet, rec, tgt>>, NEW f, f \in [Slot -> LockSet \cup {None}],
         Plr(t, i) # None => f[i] = plockSet[Plr(t, i)],
         \A j \in Slot : j # i => f[j] = refs[t][j]
  PROVE  /\ t \in fresh' \/ (i = 2 /\ (t \in seen \/ mode[t] = "verify")) =>
              \A j \in Slot : Plr(t, j) # None => f[j] = plockSet[Plr(t, j)]
         /\ i = 1 => f[1] = plockSet[rec[t]]
<1>1. /\ i \in {1, 2} /\ At(t) = (IF i = 1 THEN "slot1" ELSE "slot2") /\ rec[t] \in Record
      /\ t \in fresh' => t \in fresh \/ (i = 2 /\ t \in seen)
  BY SlotFacts
<1>2. /\ 1 \in Slot /\ 2 \in Slot /\ \A j \in Slot : j \in {1, 2}
      /\ Plr(t, 1) = rec[t] /\ Plr(t, 2) = tgt[t] /\ rec[t] # None
  BY <1>1, NoneFacts DEF Slot, Plr
<1>3. i = 1 => f[1] = plockSet[rec[t]]
  BY <1>2
<1>4. ASSUME t \in fresh
      PROVE  \A j \in Slot : Plr(t, j) # None => refs[t][j] = plockSet[Plr(t, j)]
  BY <1>1, <1>4 DEF ThreadInv, Cached, Many, Passing
<1>5. ASSUME i = 2, t \in seen \/ mode[t] = "verify" PROVE refs[t][1] = plockSet[rec[t]]
  BY <1>1, <1>5 DEF ThreadInv, Cached
<1>6. CASE t \in fresh
  BY <1>3, <1>4, <1>6
<1>7. CASE t \notin fresh
  BY <1>1, <1>2, <1>3, <1>5, <1>7
<1> QED
  BY <1>6, <1>7

LEMMA SlotSame_Own ==
  ASSUME Typed, NEW t \in Thread, ThreadInv(t), NEW i \in Slot, SlotSame(t, i), UNCHANGED puts
  PROVE  Own(t)
<1>1. /\ AtSlot(t, i) /\ SlotDone(t, i) /\ pc' = [pc EXCEPT ![t] = AfterSlot(t, i)]
      /\ Plr(t, i) # None => refs[t][i] = plockSet[Plr(t, i)]
      /\ UNCHANGED <<link, plockSet, refcount, mutex, ownerlocker, lockSetsFree, made, refs,
                     rec, tgt, ls, drop, ret, moving, num, puts>>
  BY DEF SlotSame, setVars, argVars, callVars, moveVars, Goto
<1>2. /\ i \in {1, 2} /\ At(t) = (IF i = 1 THEN "slot1" ELSE "slot2") /\ pc[t] = At(t)
      /\ rec[t] \in Record /\ mode[t] \in {"prepare", "many", "verify"} /\ ret[t] = "idle"
      /\ mode' \in [Thread -> Mode] /\ fresh' \subseteq Thread /\ seen' \subseteq Thread
      /\ mode'[t] = (IF i = 1 THEN mode[t] ELSE NextMode(t))
      /\ AfterSlot(t, i) = IF i = 1 THEN "slot2" ELSE IF mode[t] = "prepare" THEN "pass"
                           ELSE IF mode[t] = "many" THEN "acquire" ELSE "held"
      /\ t \in seen' => i = 1 /\ t \in seen
      /\ \A u \in Thread \ {t} : /\ mode'[u] = mode[u]
                                 /\ u \in fresh' => u \in fresh
                                 /\ u \in seen' => u \in seen
  BY <1>1, SlotFacts
<1>3. refs[t] \in [Slot -> LockSet \cup {None}]
  BY DEF Typed
<1>4. /\ t \in fresh' \/ (i = 2 /\ (t \in seen \/ mode[t] = "verify")) =>
           \A j \in Slot : Plr(t, j) # None => refs[t][j] = plockSet[Plr(t, j)]
      /\ i = 1 => refs[t][1] = plockSet[rec[t]]
  BY <1>1, <1>3, SlotsAgree
<1>5. NextMode(t) = (IF mode[t] = "prepare" THEN "many" ELSE mode[t])
  BY DEF NextMode
<1>6. pc'[t] = AfterSlot(t, i) /\ At(t)' = AfterSlot(t, i)
  BY <1>1, <1>2 DEF At, Calls, Typed
<1>7. Typed'
  BY <1>1, <1>2 DEF Typed, PC, Mutated
<1>8. Frame(t)
  BY <1>1, <1>2 DEF SameLocals, Frame, Typed
<1>9. Positions(t)'
  BY <1>1, <1>2, <1>5, <1>6 DEF Positions, ThreadInv, Calls, Scanning, Many, Passing, Mutated
<1>10. Cached(t)'
  BY <1>1, <1>2, <1>4, <1>6 DEF Cached, ThreadInv, Scanning, Many, Passing, Mutated, Plr
<1>11. Owning(t)'
  <2>1. Verifying(t) <=> mode[t] = "verify"
    BY <1>2 DEF Verifying, Passing
  <2>2. i = 2 /\ mode[t] = "verify" => /\ ownerlocker[plockSet[rec[t]]] = t
                                       /\ tgt[t] # None => ownerlocker[plockSet[tgt[t]]] = t
    BY <1>4, <2>1, Verified
  <2>3. mode[t] # "verify" => \A s \in LockSet : ownerlocker[s] # t
    BY <1>2, <2>1 DEF ThreadInv, Owning, Mutated
  <2> QED
    BY <1>1, <1>2, <1>5, <1>6, <2>1, <2>2, <2>3 DEF Owning, ThreadInv, Mutated, Verifying, Passing
<1>12. Mutexes(t)' /\ Moves(t)'
  BY <1>1, <1>2, <1>6 DEF Mutexes, Moves, ThreadInv
<1> QED
  BY <1>7, <1>8, <1>9, <1>10, <1>11, <1>12 DEF Own, ThreadInv

LEMMA SlotExchange_Own ==
  ASSUME Typed, NEW t \in Thread, ThreadInv(t), NEW i \in Slot, SlotExchange(t, i), UNCHANGED puts
  PROVE  Own(t)
<1>0. PICK new, old : new = plockSet[Plr(t, i)] /\ old = refs[t][i]
  OBVIOUS
<1>1. /\ AtSlot(t, i) /\ SlotDone(t, i) /\ Plr(t, i) # None /\ mode[t] # "verify"
      /\ refs' = [refs EXCEPT ![t][i] = new] /\ refcount' = [refcount EXCEPT ![new] = @ + 1]
      /\ UNCHANGED <<link, plockSet, mutex, ownerlocker, lockSetsFree, made,
                     rec, tgt, ls, moving, num, puts>>
  BY <1>0 DEF SlotExchange, argVars, moveVars
<1>2. /\ i \in {1, 2} /\ At(t) = (IF i = 1 THEN "slot1" ELSE "slot2") /\ pc[t] = At(t)
      /\ rec[t] \in Record /\ mode[t] \in {"prepare", "many", "verify"} /\ ret[t] = "idle"
      /\ mode' \in [Thread -> Mode] /\ fresh' \subseteq Thread /\ seen' \subseteq Thread
      /\ mode'[t] = (IF i = 1 THEN mode[t] ELSE NextMode(t))
      /\ AfterSlot(t, i) = IF i = 1 THEN "slot2" ELSE IF mode[t] = "prepare" THEN "pass"
                           ELSE IF mode[t] = "many" THEN "acquire" ELSE "held"
      /\ t \in seen' => i = 1 /\ t \in seen
      /\ \A u \in Thread \ {t} : /\ mode'[u] = mode[u]
                                 /\ u \in fresh' => u \in fresh
                                 /\ u \in seen' => u \in seen
  BY <1>1, SlotFacts
<1>3. \/ old = None /\ pc' = [pc EXCEPT ![t] = AfterSlot(t, i)] /\ UNCHANGED <<drop, ret>>
      \/ /\ old # None /\ pc' = [pc EXCEPT ![t] = "decref"]
         /\ drop' = [drop EXCEPT ![t] = old] /\ ret' = [ret EXCEPT ![t] = AfterSlot(t, i)]
  BY <1>0 DEF SlotExchange, CallDecRef, Goto, callVars
<1>4. /\ Plr(t, i) \in Record /\ new \in LockSet /\ old \in LockSet \cup {None}
      /\ AfterSlot(t, i) \in {"slot2", "pass", "acquire"}
  BY <1>0, <1>1, <1>2 DEF Typed, Plr
<1>5. refs'[t] \in [Slot -> LockSet \cup {None}] /\ refs' \in [Thread -> [Slot -> LockSet \cup {None}]]
      /\ refs'[t][i] = new /\ \A j \in Slot : j # i => refs'[t][j] = refs[t][j]
  BY <1>1, <1>4 DEF Typed
<1>6. /\ t \in fresh' \/ (i = 2 /\ (t \in seen \/ mode[t] = "verify")) =>
           \A j \in Slot : Plr(t, j) # None => refs'[t][j] = plockSet[Plr(t, j)]
      /\ i = 1 => refs'[t][1] = plockSet[rec[t]]
  <2>1. PICK f : f = refs'[t]
    OBVIOUS
  <2>2. /\ f \in [Slot -> LockSet \cup {None}] /\ f[i] = plockSet[Plr(t, i)]
        /\ \A j \in Slot : j # i => f[j] = refs[t][j]
    BY <1>0, <1>5, <2>1
  <2>3. /\ t \in fresh' \/ (i = 2 /\ (t \in seen \/ mode[t] = "verify")) =>
             \A j \in Slot : Plr(t, j) # None => f[j] = plockSet[Plr(t, j)]
        /\ i = 1 => f[1] = plockSet[rec[t]]
    BY <1>1, <2>2, SlotsAgree
  <2> QED
    BY <2>1, <2>3
<1>7. NextMode(t) = (IF mode[t] = "prepare" THEN "many" ELSE mode[t])
  BY DEF NextMode
<1>8. /\ At(t)' = AfterSlot(t, i)
      /\ \/ pc'[t] = AfterSlot(t, i) /\ ret'[t] = "idle"
         \/ pc'[t] = "decref" /\ drop'[t] = old /\ old # None
      /\ pc'[t] \notin Mutated \cup {"check", "locked"}
  <2>1. pc'[t] = AfterSlot(t, i) \/ (pc'[t] = "decref" /\ drop'[t] = old /\ old # None /\ ret'[t] = AfterSlot(t, i))
    BY <1>3 DEF Typed
  <2>2. pc'[t] # "decref" => ret'[t] = "idle"
    BY <1>2, <1>3 DEF Typed
  <2> QED
    BY <1>4, <2>1, <2>2 DEF At, Calls, Mutated
<1>9. Typed'
  <2>1. refcount' \in [LockSet -> Int]
    BY <1>1, <1>4 DEF Typed
  <2>2. pc' \in [Thread -> PC] /\ drop' \in [Thread -> LockSet \cup {None}] /\ ret' \in [Thread -> PC]
    <3>1. AfterSlot(t, i) \in PC /\ "decref" \in PC
      BY <1>4 DEF PC
    <3>2. /\ pc \in [Thread -> PC] /\ drop \in [Thread -> LockSet \cup {None}] /\ ret \in [Thread -> PC]
          /\ old \in LockSet \cup {None}
      BY <1>4 DEF Typed
    <3>3. pc' \in [Thread -> PC]
      BY <1>3, <3>1, <3>2
    <3>4. drop' \in [Thread -> LockSet \cup {None}]
      BY <1>3, <3>2
    <3>5. ret' \in [Thread -> PC]
      BY <1>3, <3>1, <3>2
    <3> QED
      BY <3>3, <3>4, <3>5
  <2> QED
    BY <1>1, <1>2, <1>5, <2>1, <2>2 DEF Typed
<1>10. Frame(t)
  <2>1. \A u \in Thread \ {t} : SameLocals(u)
    BY <1>1, <1>2, <1>3 DEF SameLocals, Typed
  <2> QED
    BY <1>1, <2>1, LocalFrame
<1>11. Positions(t)'
  BY <1>1, <1>2, <1>3, <1>4, <1>7, <1>8 DEF Positions, ThreadInv, Calls, Scanning, Many, Passing, Mutated, Typed
<1>12. Cached(t)'
  <2>1. \A j \in Slot : Plr(t, j)' = Plr(t, j)
    BY <1>1 DEF Plr
  <2>2. tgt[t] = None => refs'[t][2] = None
    BY <1>1, <1>2, <1>5 DEF ThreadInv, Cached, Plr, Slot
  <2> QED
    BY <1>1, <1>2, <1>4, <1>6, <1>8, <2>1, <2>2 DEF Cached, Scanning, Many, Passing, Mutated
<1>13. Owning(t)'
  <2>1. \A s \in LockSet : ownerlocker[s] # t
    BY <1>1, <1>2 DEF ThreadInv, Owning, Mutated, Verifying
  <2> QED
    BY <1>1, <1>2, <1>4, <1>7, <1>8, <2>1 DEF Owning, Mutated, Verifying, Passing
<1>14. Mutexes(t)' /\ Moves(t)'
  BY <1>1, <1>2, <1>8 DEF Mutexes, Moves, ThreadInv, Mutated
<1> QED
  BY <1>9, <1>10, <1>11, <1>12, <1>13, <1>14 DEF Own, ThreadInv

\* dbScanLockMany and dbScanUnlockMany.  The set that is locked next is the lowest one.
LEMMA LowestTodo ==
  ASSUME Typed, NEW t \in Thread, Todo(t) # {}
  PROVE  /\ Min(Todo(t)) \in LockSet /\ ownerlocker[Min(Todo(t))] # t
         /\ \E i \in Slot : refs[t][i] = Min(Todo(t))
         /\ \A i \in Slot : refs[t][i] \in LockSet /\ ownerlocker[refs[t][i]] # t => Min(Todo(t)) <= refs[t][i]
<1>1. \A s : s \in Todo(t) <=> s \in LockSet /\ ownerlocker[s] # t /\ \E i \in Slot : refs[t][i] = s
  <2>1. \A i \in Slot : refs[t][i] \in LockSet \cup {None}
    BY DEF Typed
  <2> QED
    BY <2>1, NoneFacts DEF Todo, Locked
<1>2. Todo(t) \in SUBSET Nat
  BY <1>1 DEF LockSet
<1>3. Min(Todo(t)) \in Todo(t) /\ \A s \in Todo(t) : Min(Todo(t)) <= s
  BY <1>2, MinIs
<1>4. PICK m : m = Min(Todo(t))
  OBVIOUS
<1> QED
  BY <1>1, <1>3, <1>4

LEMMA Acquire_Own == ASSUME Typed, NEW t \in Thread, Threads, Acquire(t), UNCHANGED puts PROVE Own(t)
<1>a. ThreadInv(t)
  BY DEF Threads
<1>0. PICK s : s = Min(Todo(t))
  OBVIOUS
<1>1. /\ pc[t] = "acquire" /\ Todo(t) # {} /\ mutex[s] = None /\ mutex' = [mutex EXCEPT ![s] = t]
      /\ ownerlocker' = [ownerlocker EXCEPT ![s] = t] /\ refcount' = [refcount EXCEPT ![s] = @ + 1]
      /\ UNCHANGED <<link, plockSet, lockSetsFree, made, fresh, seen, refs, pc,
                     rec, tgt, mode, ls, drop, ret, moving, num, puts>>
  BY <1>0 DEF Acquire, passVars, argVars, callVars, moveVars
<1>2. /\ s \in LockSet /\ ownerlocker[s] # t /\ \E i \in Slot : refs[t][i] = s
      /\ \A i \in Slot : refs[t][i] \in LockSet /\ ownerlocker[refs[t][i]] # t => s <= refs[t][i]
  BY <1>0, <1>1, LowestTodo
<1>3. At(t) = "acquire" /\ At(t)' = "acquire"
  BY <1>1 DEF At, Calls
<1>4. \A x \in LockSet : ownerlocker'[x] = t <=> ownerlocker[x] = t \/ x = s
  BY <1>1, <1>2 DEF Typed
<1>5. Typed'
  BY <1>1, <1>2 DEF Typed
<1>6. Frame(t)
  <2>1. ownerlocker[s] \in {None, t}
    <3>1. \A u \in Thread : ownerlocker[s] = u => mutex[s] = u
      BY <1>2 DEF Threads, ThreadInv, Mutexes
    <3> QED
      BY <1>1, <1>2, <3>1, NoneFacts DEF Typed
  <2> QED
    BY <1>1, <1>2, <2>1 DEF SameLocals, Frame, Typed
<1>7. Positions(t)' /\ Cached(t)'
  BY <1>a, <1>1 DEF Positions, Cached, ThreadInv, At, Plr
<1>8. Owning(t)'
  <2>1. \A x \in LockSet : x \in Int
    BY DEF LockSet
  <2>2. \A x \in LockSet : ownerlocker[x] = t =>
          \A i \in Slot : refs[t][i] \in LockSet /\ ownerlocker[refs[t][i]] # t => x < refs[t][i]
    BY <1>a, <1>3 DEF ThreadInv, Owning
  <2>3. \A x \in LockSet : ownerlocker'[x] = t =>
          \A i \in Slot : refs[t][i] \in LockSet /\ ownerlocker'[refs[t][i]] # t => x < refs[t][i]
    BY <1>2, <1>4, <2>1, <2>2
  <2>4. \A x \in LockSet : ownerlocker'[x] = t => \E i \in Slot : refs[t][i] = x
    BY <1>a, <1>2, <1>3, <1>4 DEF ThreadInv, Owning
  <2> QED
    BY <1>1, <1>3, <2>3, <2>4 DEF Owning, Verifying, Passing, Mutated
<1>9. Mutexes(t)' /\ Moves(t)'
  BY <1>a, <1>1, <1>2 DEF Mutexes, Moves, ThreadInv, Typed
<1> QED
  BY <1>5, <1>6, <1>7, <1>8, <1>9 DEF Own, ThreadInv

LEMMA Acquired_Own == ASSUME Typed, NEW t \in Thread, ThreadInv(t), Acquired(t), UNCHANGED puts PROVE Own(t)
<1>1. /\ pc[t] = "acquire" /\ Todo(t) = {} /\ pc' = [pc EXCEPT ![t] = "pass"]
      /\ mode' = [mode EXCEPT ![t] = "verify"]
      /\ UNCHANGED <<link, plockSet, refcount, mutex, ownerlocker, lockSetsFree, made, fresh, seen, refs,
                     rec, tgt, ls, drop, ret, moving, num, puts>>
  BY DEF Acquired, setVars, passVars, argVars, callVars, moveVars, Goto
<1>2. /\ pc'[t] = "pass" /\ mode'[t] = "verify" /\ At(t) = "acquire" /\ At(t)' = "pass" /\ rec[t] \in Record
  BY <1>1 DEF At, Calls, Typed, ThreadInv, Positions, Many
<1>3. Typed'
  BY <1>1 DEF Typed, PC, Mode
<1>4. Frame(t)
  BY <1>1 DEF SameLocals, Frame, Typed
<1>5. Positions(t)'
  BY <1>1, <1>2 DEF Positions, ThreadInv, Calls, Scanning, Many, Passing, Mutated
<1>6. Cached(t)'
  BY <1>1, <1>2 DEF Cached, ThreadInv, Scanning, Many, Passing, Mutated, Plr
<1>7. Owning(t)'
  <2>1. \A i \in Slot : refs[t][i] \in LockSet => ownerlocker[refs[t][i]] = t
    BY <1>1, NoneFacts DEF Todo, Locked
  <2> QED
    BY <1>1, <1>2, <2>1 DEF Owning, ThreadInv, Mutated, Verifying, Passing
<1>8. Mutexes(t)' /\ Moves(t)'
  BY <1>1, <1>2 DEF Mutexes, Moves, ThreadInv
<1> QED
  BY <1>3, <1>4, <1>5, <1>6, <1>7, <1>8 DEF Own, ThreadInv

LEMMA UnlockOne_Own == ASSUME Typed, NEW t \in Thread, ThreadInv(t), UnlockOne(t), UNCHANGED puts PROVE Own(t)
<1>0. PICK s \in LockSet :
        /\ ownerlocker[s] = t /\ ownerlocker' = [ownerlocker EXCEPT ![s] = None]
        /\ mutex' = [mutex EXCEPT ![s] = None] /\ pc' = [pc EXCEPT ![t] = "decref"]
        /\ drop' = [drop EXCEPT ![t] = s] /\ ret' = [ret EXCEPT ![t] = "unlockmany"]
  BY DEF UnlockOne, Locked, CallDecRef, Goto
<1>1. /\ pc[t] = "unlockmany"
      /\ UNCHANGED <<link, plockSet, refcount, lockSetsFree, made, fresh, seen, refs,
                     rec, tgt, mode, ls, moving, num, puts>>
  BY DEF UnlockOne, passVars, argVars, moveVars
<1>2. /\ pc'[t] = "decref" /\ drop'[t] = s /\ ret'[t] = "unlockmany"
      /\ At(t) = "unlockmany" /\ At(t)' = "unlockmany" /\ mutex[s] = t
  BY <1>0, <1>1 DEF At, Calls, Typed, ThreadInv, Mutexes
<1>3. Typed'
  BY <1>0, <1>1 DEF Typed, PC
<1>4. Frame(t)
  BY <1>0, <1>1, <1>2 DEF SameLocals, Frame, Typed
<1>5. Positions(t)' /\ Cached(t)'
  BY <1>1, <1>2 DEF Positions, Cached, ThreadInv, Calls, Scanning, Many, Passing, Mutated, Plr
<1>6. Owning(t)'
  BY <1>0, <1>1, <1>2 DEF Owning, ThreadInv, Mutated, Verifying, Passing
<1>7. Mutexes(t)' /\ Moves(t)'
  BY <1>0, <1>1, <1>2, NoneFacts DEF Mutexes, Moves, ThreadInv, Typed
<1> QED
  BY <1>3, <1>4, <1>5, <1>6, <1>7 DEF Own, ThreadInv

LEMMA UnlockEnd_Own == ASSUME Typed, NEW t \in Thread, ThreadInv(t), UnlockEnd(t), UNCHANGED puts PROVE Own(t)
<1>1. /\ pc[t] = "unlockmany" /\ \A s \in LockSet : ownerlocker[s] # t
      /\ pc' = [pc EXCEPT ![t] = IF mode[t] = "final" THEN "finalize" ELSE "pass"]
      /\ UNCHANGED <<link, plockSet, refcount, mutex, ownerlocker, lockSetsFree, made, fresh, seen, refs,
                     rec, tgt, mode, ls, drop, ret, moving, num, puts>>
  BY DEF UnlockEnd, Locked, setVars, passVars, argVars, callVars, moveVars, Goto
<1>2. /\ pc'[t] = (IF mode[t] = "final" THEN "finalize" ELSE "pass")
      /\ At(t) = "unlockmany" /\ At(t)' = pc'[t] /\ rec[t] \in Record /\ mode[t] \in {"many", "final"}
  BY <1>1 DEF At, Calls, Typed, ThreadInv, Positions, Many
<1>3. Typed'
  BY <1>1 DEF Typed, PC
<1>4. Frame(t)
  BY <1>1 DEF SameLocals, Frame, Typed
<1>5. Positions(t)' /\ Cached(t)'
  BY <1>1, <1>2 DEF Positions, Cached, ThreadInv, Calls, Scanning, Many, Passing, Mutated, Plr
<1>6. Owning(t)'
  BY <1>1, <1>2 DEF Owning, ThreadInv, Mutated, Verifying, Passing
<1>7. Mutexes(t)' /\ Moves(t)'
  BY <1>1, <1>2 DEF Mutexes, Moves, ThreadInv
<1> QED
  BY <1>3, <1>4, <1>5, <1>6, <1>7 DEF Own, ThreadInv

LEMMA Finalize_Own == ASSUME Typed, NEW t \in Thread, ThreadInv(t), Finalize(t), UNCHANGED puts PROVE Own(t)
<1>1. /\ pc[t] = "finalize" /\ At(t) = "finalize"
      /\ UNCHANGED <<link, plockSet, refcount, mutex, ownerlocker, lockSetsFree, made, seen, mode, moving, puts>>
  BY DEF Finalize, setVars, At, Calls
<1>2. \A s \in LockSet : ownerlocker[s] # t
  BY <1>1 DEF ThreadInv, Owning, Mutated, Verifying, Passing
<1>3. CASE /\ refs[t] = [i \in Slot |-> None] /\ Goto(t, "idle") /\ Forget(t) /\ fresh' = fresh \ {t}
           /\ UNCHANGED <<refs, callVars>>
  <2>1. /\ pc' = [pc EXCEPT ![t] = "idle"] /\ UNCHANGED <<drop, ret>>
        /\ rec' = [rec EXCEPT ![t] = None] /\ tgt' = [tgt EXCEPT ![t] = None]
        /\ ls' = [ls EXCEPT ![t] = None] /\ num' = [num EXCEPT ![t] = 0]
    BY <1>3 DEF Goto, Forget, callVars
  <2>2. pc'[t] = "idle" /\ At(t)' = "idle"
    BY <2>1 DEF At, Calls, Typed
  <2>3. Typed'
    BY <1>1, <1>3, <2>1 DEF Typed, PC
  <2>4. Frame(t)
    BY <1>1, <1>3, <2>1 DEF SameLocals, Frame, Typed
  <2>5. Positions(t)' /\ Cached(t)' /\ Owning(t)'
    BY <1>1, <1>2, <1>3, <2>1, <2>2
       DEF Positions, Cached, Owning, ThreadInv, Calls, Scanning, Many, Passing, Mutated, Verifying, Slot
  <2>6. Mutexes(t)' /\ Moves(t)'
    BY <1>1, <2>2 DEF Mutexes, Moves, ThreadInv
  <2> QED
    BY <2>3, <2>4, <2>5, <2>6 DEF Own, ThreadInv
<1>4. ASSUME NEW i \in Slot, refs[t][i] # None, refs' = [refs EXCEPT ![t][i] = None],
             CallDecRef(t, refs[t][i], "finalize"), UNCHANGED <<fresh, argVars, ls, num>>
      PROVE  Own(t)
  <2>1. /\ pc' = [pc EXCEPT ![t] = "decref"] /\ drop' = [drop EXCEPT ![t] = refs[t][i]]
        /\ ret' = [ret EXCEPT ![t] = "finalize"] /\ UNCHANGED <<rec, tgt>>
    BY <1>4 DEF CallDecRef, Goto, argVars
  <2>2. /\ pc'[t] = "decref" /\ drop'[t] = refs[t][i] /\ ret'[t] = "finalize" /\ At(t)' = "finalize"
        /\ refs[t][i] \in LockSet
    BY <1>4, <2>1 DEF At, Calls, Typed
  <2>3. refs' \in [Thread -> [Slot -> LockSet \cup {None}]] /\ (refs[t][2] = None => refs'[t][2] = None)
    BY <1>4 DEF Typed, Slot
  <2>4. Typed'
    BY <1>1, <1>4, <2>1, <2>3 DEF Typed, PC
  <2>5. Frame(t)
    BY <1>1, <1>4, <2>1 DEF SameLocals, Frame, Typed
  <2>6. Positions(t)' /\ Cached(t)' /\ Owning(t)'
    BY <1>1, <1>2, <2>1, <2>2, <2>3
       DEF Positions, Cached, Owning, ThreadInv, Calls, Scanning, Many, Passing, Mutated, Verifying
  <2>7. Mutexes(t)' /\ Moves(t)'
    BY <1>1, <2>2 DEF Mutexes, Moves, ThreadInv
  <2> QED
    BY <2>4, <2>5, <2>6, <2>7 DEF Own, ThreadInv
<1> QED
  BY <1>3, <1>4 DEF Finalize

LEMMA PutEnd_Own == ASSUME Typed, NEW t \in Thread, ThreadInv(t), PutEnd(t), UNCHANGED puts PROVE Own(t)
<1>1. /\ pc[t] \in {"held", "relink", "linked"} /\ pc' = [pc EXCEPT ![t] = "unlockmany"]
      /\ mode' = [mode EXCEPT ![t] = "final"]
      /\ UNCHANGED <<link, plockSet, refcount, mutex, ownerlocker, lockSetsFree, made, fresh, seen, refs,
                     rec, tgt, ls, drop, ret, moving, num, puts>>
  BY DEF PutEnd, setVars, passVars, argVars, callVars, moveVars, Goto
<1>2. /\ pc'[t] = "unlockmany" /\ mode'[t] = "final" /\ At(t) = pc[t] /\ At(t)' = "unlockmany" /\ rec[t] \in Record
  BY <1>1 DEF At, Calls, Typed, ThreadInv, Positions, Many, Mutated
<1>3. Typed'
  BY <1>1 DEF Typed, PC, Mode
<1>4. Frame(t)
  BY <1>1 DEF SameLocals, Frame, Typed
<1>5. Positions(t)' /\ Cached(t)'
  BY <1>1, <1>2 DEF Positions, Cached, ThreadInv, Calls, Scanning, Many, Passing, Mutated, Plr
<1>6. Owning(t)'
  BY <1>1, <1>2 DEF Owning, ThreadInv, Mutated, Verifying, Passing
<1>7. Mutexes(t)' /\ Moves(t)'
  BY <1>1, <1>2 DEF Mutexes, Moves, ThreadInv
<1> QED
  BY <1>3, <1>4, <1>5, <1>6, <1>7 DEF Own, ThreadInv

-----------------------------------------------------------------------------
(* Components of the links *)

Links == [Record -> Record \cup {None}]

\* Sets that no link leaves are closed under complement, intersection and union.
LEMMA TiedOps ==
  ASSUME NEW l \in Links, NEW X \in SUBSET Record, Tied(l, X)
  PROVE  /\ Tied(l, Record \ X)
         /\ \A Y \in SUBSET Record : Tied(l, Y) => Tied(l, X \cap Y) /\ Tied(l, X \cup Y)
<1>1. \A q \in Record : l[q] # None => l[q] \in Record
  BY DEF Links
<1> QED
  BY <1>1 DEF Tied

\* What the search of dbLockSetSplit visits is a component.
LEMMA ComponentIs ==
  ASSUME NEW l \in Links, NEW r \in Record
  PROVE  r \in Component(l, r) /\ IsComponent(l, Component(l, r))
<1>0. PICK C : C = Component(l, r)
  OBVIOUS
<1>1. C \subseteq Record /\ \A q \in Record : q \in C <=> \A R \in SUBSET Record : r \in R /\ Tied(l, R) => q \in R
  BY <1>0 DEF Component
<1>2. r \in C
  BY <1>1
<1>3. Tied(l, C)
  <2>1. \A q \in Record : l[q] # None => l[q] \in Record
    BY DEF Links
  <2>2. ASSUME NEW q \in Record, l[q] # None PROVE q \in C <=> l[q] \in C
    <3>1. \A R \in SUBSET Record : Tied(l, R) => (q \in R <=> l[q] \in R)
      BY <2>2 DEF Tied
    <3> QED
      BY <1>1, <2>1, <2>2, <3>1
  <2> QED
    BY <2>2 DEF Tied
<1>4. ASSUME NEW X \in SUBSET Record, Tied(l, X), X \cap C # {} PROVE C \subseteq X
  <2>1. CASE r \in X
    BY <1>1, <1>4, <2>1
  <2>2. CASE r \notin X
    <3>1. Tied(l, Record \ X) /\ r \in Record \ X
      BY <1>4, <2>2, TiedOps
    <3>2. C \subseteq Record \ X
      BY <1>1, <3>1
    <3> QED
      BY <1>4, <3>2
  <2> QED
    BY <2>1, <2>2
<1> QED
  BY <1>0, <1>1, <1>2, <1>3, <1>4 DEF IsComponent

\* A record's component is the one it is in.
LEMMA ComponentOf ==
  ASSUME NEW l \in Links, NEW R, IsComponent(l, R), NEW r \in R
  PROVE  Component(l, r) = R
<1>1. R \in SUBSET Record /\ Tied(l, R) /\ r \in Record
  BY DEF IsComponent
<1>2. Component(l, r) \subseteq R
  BY <1>1 DEF Component
<1>3. \A X \in SUBSET Record : r \in X /\ Tied(l, X) => R \subseteq X
  BY DEF IsComponent
<1> QED
  BY <1>1, <1>2, <1>3 DEF Component

\* A change of a link leaves the components it does not touch.
LEMMA LinkElsewhere ==
  ASSUME NEW l \in Links, NEW m \in Links, NEW r \in Record, \A q \in Record : q # r => m[q] = l[q],
         NEW R, IsComponent(l, R), r \notin R, m[r] \notin R
  PROVE  IsComponent(m, R)
<1>1. R \in SUBSET Record /\ Tied(l, R) /\ R # {}
  BY DEF IsComponent
<1>2. \A q \in Record : (l[q] # None => l[q] \in Record) /\ (m[q] # None => m[q] \in Record)
  BY DEF Links
<1>3. Tied(m, R)
  BY <1>1, <1>2 DEF Tied
<1>4. ASSUME NEW X \in SUBSET Record, Tied(m, X), X \cap R # {} PROVE R \subseteq X
  <2>1. Tied(l, X \cap R)
    <3>1. ASSUME NEW q \in Record, l[q] # None PROVE q \in X \cap R <=> l[q] \in X \cap R
      <4>1. q \in R <=> l[q] \in R
        BY <1>1, <3>1 DEF Tied
      <4>2. q \in R => m[q] = l[q]
        OBVIOUS
      <4>3. m[q] # None => (q \in X <=> m[q] \in X)
        BY <1>4 DEF Tied
      <4> QED
        BY <3>1, <4>1, <4>2, <4>3
    <3> QED
      BY <3>1 DEF Tied
  <2>2. (X \cap R) \cap R # {} /\ X \cap R \in SUBSET Record
    BY <1>4
  <2> QED
    BY <2>1, <2>2 DEF IsComponent
<1> QED
  BY <1>1, <1>3, <1>4 DEF IsComponent

\* A link is cut, and its ends are still tied together.
LEMMA CutKeeps ==
  ASSUME NEW l \in Links, NEW r \in Record, NEW q \in Record, l[r] = q,
         NEW m \in Links, m = [l EXCEPT ![r] = None],
         NEW R, IsComponent(l, R), r \in R, r \in Component(m, q)
  PROVE  IsComponent(m, R)
<1>1. R \in SUBSET Record /\ Tied(l, R) /\ R # {} /\ q # None
  BY NoneFacts DEF IsComponent
<1>2. m[r] = None /\ \A x \in Record : x # r => m[x] = l[x]
  BY DEF Links
<1>3. Tied(m, R)
  BY <1>1, <1>2 DEF Tied
<1>4. ASSUME NEW X \in SUBSET Record, Tied(m, X), X \cap R # {} PROVE R \subseteq X
  <2>1. r \in X <=> q \in X
    <3>1. q \in X => r \in X
      BY <1>4 DEF Component
    <3>2. q \notin X => r \notin X
      <4>1. Tied(m, Record \ X)
        BY <1>4, TiedOps
      <4> QED
        BY <4>1 DEF Component
    <3> QED
      BY <3>1, <3>2
  <2>2. Tied(l, X)
    BY <1>2, <1>4, <2>1 DEF Tied
  <2> QED
    BY <1>4, <2>2 DEF IsComponent
<1> QED
  BY <1>1, <1>3, <1>4 DEF IsComponent

\* A link is cut, and its component falls apart.
LEMMA CutSplits ==
  ASSUME NEW l \in Links, NEW r \in Record, NEW q \in Record, l[r] = q,
         NEW m \in Links, m = [l EXCEPT ![r] = None],
         NEW R, IsComponent(l, R), r \in R, NEW N, N = Component(m, q), r \notin N
  PROVE  N \subseteq R /\ IsComponent(m, N) /\ IsComponent(m, R \ N)
<1>1. R \in SUBSET Record /\ Tied(l, R) /\ R # {} /\ q # None /\ q \in R
  BY NoneFacts DEF IsComponent, Tied
<1>2. m[r] = None /\ \A x \in Record : x # r => m[x] = l[x]
  BY DEF Links
<1>3. Tied(m, R)
  BY <1>1, <1>2 DEF Tied
<1>4. N \in SUBSET Record /\ q \in N /\ IsComponent(m, N) /\ Tied(m, N)
  BY ComponentIs DEF IsComponent
<1>5. N \subseteq R
  BY <1>1, <1>3, <1>4 DEF IsComponent
<1>6. Tied(m, R \ N)
  <2>1. Tied(m, Record \ N) /\ Record \ N \in SUBSET Record
    BY <1>4, TiedOps
  <2>2. Tied(m, R \cap (Record \ N))
    BY <1>1, <1>3, <2>1, TiedOps
  <2>3. R \cap (Record \ N) = R \ N
    BY <1>1
  <2> QED
    BY <2>2, <2>3
<1>7. ASSUME NEW X \in SUBSET Record, Tied(m, X), X \cap (R \ N) # {} PROVE R \ N \subseteq X
  <2>1. CASE r \in X
    <3>1. X \cup N \in SUBSET Record /\ Tied(m, X \cup N)
      BY <1>4, <1>7, TiedOps
    <3>2. Tied(l, X \cup N)
      <4>1. r \in X \cup N /\ l[r] \in X \cup N
        BY <1>4, <2>1
      <4>2. PICK Z : Z = X \cup N
        OBVIOUS
      <4>a. Tied(m, Z)
        BY <3>1, <4>2
      <4>3. \A x \in Record : m[x] # None => (x \in Z <=> m[x] \in Z)
        BY <4>a DEF Tied
      <4>4. \A x \in Record : l[x] # None => (x \in Z <=> l[x] \in Z)
        BY ZenonT(60), <1>2, <4>1, <4>2, <4>3
      <4> QED
        BY <4>2, <4>4 DEF Tied
    <3>3. R \subseteq X \cup N
      BY <1>7, <3>1, <3>2 DEF IsComponent
    <3> QED
      BY <3>3
  <2>2. CASE r \notin X
    <3>1. PICK Y : Y = X \cap (R \ N)
      OBVIOUS
    <3>2. Y \in SUBSET Record /\ Tied(m, Y) /\ r \notin Y /\ q \notin Y /\ Y \cap R # {}
      BY <1>1, <1>4, <1>6, <1>7, <2>2, <3>1, TiedOps
    <3>3. Tied(l, Y)
      BY <1>2, <3>2 DEF Tied
    <3>4. R \subseteq Y
      BY <3>2, <3>3 DEF IsComponent
    <3> QED
      BY <3>2, <3>4
  <2> QED
    BY <2>1, <2>2
<1>8. R \ N # {} /\ R \ N \subseteq Record
  BY <1>1
<1> QED
  BY <1>4, <1>5, <1>6, <1>7, <1>8 DEF IsComponent

\* A link is added, between two components or inside one.
LEMMA JoinMerges ==
  ASSUME NEW l \in Links, NEW r \in Record, NEW q \in Record, l[r] = None,
         NEW m \in Links, m = [l EXCEPT ![r] = q],
         NEW R, IsComponent(l, R), r \in R, NEW S, IsComponent(l, S), q \in S
  PROVE  IsComponent(m, R \cup S)
<1>1. /\ R \in SUBSET Record /\ Tied(l, R) /\ R # {} /\ S \in SUBSET Record /\ Tied(l, S)
      /\ R \cup S \in SUBSET Record /\ Tied(l, R \cup S)
  BY TiedOps DEF IsComponent
<1>2. m[r] = q /\ \A x \in Record : x # r => m[x] = l[x]
  BY DEF Links
<1>3. Tied(m, R \cup S)
  BY <1>1, <1>2 DEF Tied
<1>4. ASSUME NEW X \in SUBSET Record, Tied(m, X), X \cap (R \cup S) # {} PROVE R \cup S \subseteq X
  <2>1. Tied(l, X) /\ (r \in X <=> q \in X)
    BY <1>2, <1>4, NoneFacts DEF Tied
  <2>2. (X \cap R # {} => R \subseteq X) /\ (X \cap S # {} => S \subseteq X)
    BY <2>1 DEF IsComponent
  <2> QED
    BY <1>4, <2>1, <2>2
<1> QED
  BY <1>1, <1>3, <1>4 DEF IsComponent

-----------------------------------------------------------------------------
(* Changing a link *)

\* what a thread that changes a link knows of its records and sets
LEMMA MutatedFacts ==
  ASSUME Typed, NEW t \in Thread, ThreadInv(t), pc[t] \in Mutated
  PROVE  /\ At(t) = pc[t] /\ rec[t] \in Record /\ rec[t] # None /\ ret[t] = "idle"
         /\ plockSet[rec[t]] \in LockSet /\ ownerlocker[plockSet[rec[t]]] = t
         /\ tgt[t] # None => /\ tgt[t] \in Record /\ plockSet[tgt[t]] \in LockSet
                             /\ ownerlocker[plockSet[tgt[t]]] = t
<1>1. At(t) = pc[t] /\ ret[t] = "idle" /\ pc[t] \notin Calls
  BY DEF At, Calls, Mutated, ThreadInv, Positions
<1>2. rec[t] \in Record
  BY <1>1 DEF ThreadInv, Positions, Many
<1> QED
  BY <1>1, <1>2, NoneFacts DEF ThreadInv, Owning, Typed

\* A step that keeps the thread between locking and unlocking.
LEMMA StaysMutated ==
  ASSUME Typed, NEW t \in Thread, ThreadInv(t), pc[t] \in Mutated, pc'[t] \in Mutated,
         rec'[t] = rec[t], tgt'[t] = tgt[t], ret'[t] = ret[t], mode'[t] = mode[t], refs'[t] = refs[t],
         t \in fresh' => t \in fresh /\ plockSet' = plockSet,
         ownerlocker'[plockSet'[rec[t]]] = t,
         tgt[t] # None => ownerlocker'[plockSet'[tgt[t]]] = t
  PROVE  Positions(t)' /\ Cached(t)' /\ Owning(t)' /\ At(t)' = pc'[t]
<1>1. At(t) = pc[t] /\ rec[t] \in Record /\ ret[t] = "idle"
  BY MutatedFacts
<1>2. At(t)' = pc'[t] /\ pc'[t] \notin Calls
  BY DEF At, Calls, Mutated
<1>3. Positions(t)'
  BY <1>1, <1>2 DEF Positions, Calls, Scanning, Many, Passing, Mutated
<1>4. Cached(t)'
  BY <1>1, <1>2 DEF Cached, ThreadInv, Scanning, Many, Passing, Mutated, Plr
<1>5. Owning(t)'
  BY <1>1, <1>2 DEF Owning, Verifying, Passing, Mutated
<1> QED
  BY <1>2, <1>3, <1>4, <1>5

\* The set of a record that a thread is about to relink is a component.
LEMMA HeldComponent ==
  ASSUME Typed, Threads, Linked, NEW t \in Thread, pc[t] \in {"held", "relink", "linked"},
         NEW r \in Record, ownerlocker[plockSet[r]] = t
  PROVE  IsComponent(link, Records(plockSet[r]))
<1>1. plockSet[r] \in LockSet /\ Records(plockSet[r]) # {}
  BY DEF Typed, Records
<1>2. ~Busy(plockSet[r])
  <2>1. ASSUME NEW u \in Thread, pc[u] \in {"split", "move", "merge"} PROVE plockSet[rec[u]] # plockSet[r]
    BY <2>1, MutatedFacts DEF Threads, Mutated
  <2>2. ASSUME NEW u \in Thread, pc[u] \in {"move", "merge"} PROVE ls[u] # plockSet[r]
    BY <2>2 DEF Threads, ThreadInv, Moves
  <2> QED
    BY <2>1, <2>2 DEF Busy, BusyWith
<1> QED
  BY <1>1, <1>2 DEF Linked, SetLinked

\* dbRemoveLink, with the set of the records that leave
RemoveCase(t, l, q) ==
  /\ pc[t] = "held" /\ q = link[rec[t]] /\ l = [link EXCEPT ![rec[t]] = None] /\ link' = l
  /\ \/ /\ q = None \/ rec[t] \in Component(l, q)
        /\ pc' = [pc EXCEPT ![t] = "relink"] /\ moving' = moving
     \/ /\ q # None /\ rec[t] \notin Component(l, q)
        /\ pc' = [pc EXCEPT ![t] = "split"] /\ moving' = [moving EXCEPT ![t] = Component(l, q)]
  /\ UNCHANGED <<plockSet, refcount, mutex, ownerlocker, lockSetsFree, made, fresh, seen, refs, rec, tgt,
                 mode, ls, drop, ret, num>>

LEMMA RemoveLinkIs ==
  ASSUME NEW t \in Thread, RemoveLink(t)
  PROVE  \E l, q : RemoveCase(t, l, q)
<1>1. PICK l, q : q = link[rec[t]] /\ l = [link EXCEPT ![rec[t]] = None]
  OBVIOUS
<1>2. RemoveCase(t, l, q)
  <2>1. /\ pc[t] = "held" /\ link' = l
        /\ UNCHANGED <<plockSet, refcount, mutex, ownerlocker, lockSetsFree, made, fresh, seen, refs, rec, tgt,
                       mode, ls, drop, ret, num>>
    BY <1>1 DEF RemoveLink, setVars, passVars, argVars, callVars
  <2>2. PICK N : N = IF q = None THEN {} ELSE Component(l, q)
    OBVIOUS
  <2>3. IF q = None \/ rec[t] \in N
        THEN pc' = [pc EXCEPT ![t] = "relink"] /\ moving' = moving
        ELSE pc' = [pc EXCEPT ![t] = "split"] /\ moving' = [moving EXCEPT ![t] = N]
    BY <1>1, <2>2 DEF RemoveLink, Goto
  <2> QED
    BY <1>1, <2>1, <2>2, <2>3 DEF RemoveCase
<1> QED
  BY <1>2

LEMMA RemoveLink_Own ==
  ASSUME Typed, Threads, Linked, NEW t \in Thread, RemoveLink(t), UNCHANGED puts PROVE Own(t)
<1>0. PICK l, q : RemoveCase(t, l, q)
  BY RemoveLinkIs
<1>1. /\ ThreadInv(t) /\ pc[t] = "held" /\ pc[t] \in Mutated
      /\ rec[t] \in Record /\ plockSet[rec[t]] \in LockSet /\ ownerlocker[plockSet[rec[t]]] = t
      /\ tgt[t] # None => ownerlocker[plockSet[tgt[t]]] = t
  BY <1>0, MutatedFacts DEF RemoveCase, Threads, Mutated
<1>2. l \in Links /\ link \in Links /\ q \in Record \cup {None}
  BY <1>0, <1>1 DEF Links, Typed, RemoveCase
<1>3. IsComponent(link, Records(plockSet[rec[t]])) /\ rec[t] \in Records(plockSet[rec[t]])
  BY <1>1, HeldComponent DEF Records
<1>4. q # None /\ rec[t] \notin Component(l, q) => Component(l, q) \subseteq Records(plockSet[rec[t]])
  <2>1. HAVE q # None /\ rec[t] \notin Component(l, q)
  <2>2. PICK r, R, N : r = rec[t] /\ R = Records(plockSet[rec[t]]) /\ N = Component(l, q)
    OBVIOUS
  <2>3. link[r] = q /\ l = [link EXCEPT ![r] = None] /\ r \in Record /\ q \in Record
    BY <1>0, <1>1, <1>2, <2>1, <2>2 DEF RemoveCase
  <2>4. IsComponent(link, R) /\ r \in R /\ r \notin N
    BY <1>3, <2>1, <2>2
  <2>5. N \subseteq R /\ IsComponent(l, N) /\ IsComponent(l, R \ N)
    <3>1. N = Component(l, q)
      BY <2>2
    <3> HIDE <2>1
    <3> QED
      BY ZenonT(60), <1>2, <2>3, <2>4, <3>1, CutSplits
  <2> QED
    BY <2>2, <2>5
<1>5. moving' \in [Thread -> SUBSET Record] /\ pc' \in [Thread -> PC] /\ pc'[t] \in {"relink", "split"}
  <2>1. "relink" \in PC /\ "split" \in PC /\ pc \in [Thread -> PC] /\ moving \in [Thread -> SUBSET Record]
    BY DEF PC, Mutated, Typed
  <2>2. PICK N : N = Component(l, q)
    OBVIOUS
  <2>3. q # None /\ rec[t] \notin N => N \in SUBSET Record
    BY <1>4, <2>2 DEF Records
  <2>4. \/ pc' = [pc EXCEPT ![t] = "relink"] /\ moving' = moving
        \/ /\ q # None /\ rec[t] \notin N
           /\ pc' = [pc EXCEPT ![t] = "split"] /\ moving' = [moving EXCEPT ![t] = N]
    BY <1>0, <2>2 DEF RemoveCase
  <2> QED
    BY <2>1, <2>3, <2>4
<1>6. Typed'
  BY <1>0, <1>2, <1>5 DEF RemoveCase, Typed, Links
<1>7. Frame(t)
  <2>1. \A u \in Thread \ {t} : SameLocals(u)
    BY <1>0 DEF SameLocals, Typed, RemoveCase
  <2> QED
    BY <1>0, <2>1, LocalFrame DEF RemoveCase
<1>8. Positions(t)' /\ Cached(t)' /\ Owning(t)'
  BY <1>0, <1>1, <1>5, StaysMutated DEF RemoveCase, Mutated
<1>9. Mutexes(t)'
  BY <1>0, <1>1, <1>5 DEF RemoveCase, Mutexes, ThreadInv
<1>10. Moves(t)'
  <2>1. pc'[t] = "split" => /\ moving'[t] \subseteq Records(plockSet[rec[t]])
                            /\ rec[t] \notin moving'[t]
    BY <1>0, <1>4, ZenonT(60) DEF RemoveCase, Typed
  <2>2. pc'[t] \notin {"move", "merge"}
    BY <1>5
  <2>3. rec' = rec /\ plockSet' = plockSet
    BY <1>0 DEF RemoveCase
  <2> QED
    BY <1>5, <2>1, <2>2, <2>3 DEF Moves, Records
<1> QED
  BY <1>6, <1>7, <1>8, <1>9, <1>10 DEF Own, ThreadInv

LEMMA MakeSet_Own ==
  ASSUME Typed, Threads, NEW t \in Thread, MakeSet(t), UNCHANGED puts PROVE Own(t)
<1>0. PICK s \in LockSet :
        /\ \/ /\ lockSetsFree # <<>> /\ s = Head(lockSetsFree)
              /\ lockSetsFree' = Tail(lockSetsFree) /\ UNCHANGED made
           \/ /\ lockSetsFree = <<>> /\ s \notin made
              /\ made' = made \cup {s} /\ UNCHANGED lockSetsFree
        /\ mutex[s] = None /\ mutex' = [mutex EXCEPT ![s] = t]
        /\ ownerlocker' = [ownerlocker EXCEPT ![s] = t] /\ refcount' = [refcount EXCEPT ![s] = @ + 1]
        /\ ls' = [ls EXCEPT ![t] = s]
  BY DEF MakeSet
<1>1. /\ pc[t] = "split" /\ pc[t] \in Mutated /\ pc' = [pc EXCEPT ![t] = "move"] /\ ThreadInv(t)
      /\ UNCHANGED <<link, plockSet, fresh, seen, refs, rec, tgt, mode, drop, ret, moving, num>>
  BY DEF MakeSet, Goto, passVars, argVars, callVars, moveVars, Mutated, Threads
<1>2. /\ rec[t] \in Record /\ plockSet[rec[t]] \in LockSet /\ ownerlocker[plockSet[rec[t]]] = t
      /\ tgt[t] # None => plockSet[tgt[t]] \in LockSet /\ ownerlocker[plockSet[tgt[t]]] = t
  BY <1>1, MutatedFacts
<1>3. ownerlocker[s] = None
  <2>1. \A u \in Thread : ownerlocker[s] = u => mutex[s] = u
    BY DEF Threads, ThreadInv, Mutexes
  <2> QED
    BY <1>0, <2>1, NoneFacts DEF Typed
<1>4. /\ pc'[t] = "move" /\ ls'[t] = s /\ ownerlocker'[s] = t
      /\ \A x \in LockSet : x # s => ownerlocker'[x] = ownerlocker[x] /\ mutex'[x] = mutex[x]
  BY <1>0, <1>1 DEF Typed
<1>5. Typed'
  <2>1. lockSetsFree' \in Seq(LockSet) /\ made' \subseteq LockSet
    <3>1. lockSetsFree \in Seq(LockSet) /\ made \subseteq LockSet
      BY DEF Typed
    <3>2. lockSetsFree # <<>> => Tail(lockSetsFree) \in Seq(LockSet)
      BY <3>1
    <3> QED
      BY <1>0, <3>1, <3>2
  <2>2. /\ refcount' \in [LockSet -> Int] /\ mutex' \in [LockSet -> Thread \cup {None}]
        /\ ownerlocker' \in [LockSet -> Thread \cup {None}] /\ ls' \in [Thread -> LockSet \cup {None}]
    BY <1>0 DEF Typed
  <2>3. pc' \in [Thread -> PC]
    BY <1>1 DEF Typed, PC, Mutated
  <2> QED
    BY <1>1, <2>1, <2>2, <2>3 DEF Typed
<1>6. Frame(t)
  BY <1>0, <1>1, <1>3 DEF SameLocals, Frame, Typed
<1>7. Positions(t)' /\ Cached(t)' /\ Owning(t)'
  BY <1>1, <1>2, <1>3, <1>4, NoneFacts, StaysMutated DEF Mutated
<1>8. Mutexes(t)'
  BY <1>0, <1>1, <1>4 DEF Mutexes, ThreadInv, Typed
<1>9. Moves(t)'
  BY <1>1, <1>2, <1>3, <1>4, NoneFacts DEF Moves, ThreadInv, Records
<1> QED
  BY <1>5, <1>6, <1>7, <1>8, <1>9 DEF Own, ThreadInv

LEMMA SplitMove_Own ==
  ASSUME Typed, NEW t \in Thread, ThreadInv(t), SplitMove(t), UNCHANGED puts PROVE Own(t)
<1>0. PICK r \in moving[t] : /\ plockSet' = [plockSet EXCEPT ![r] = ls[t]] /\ fresh' = {} /\ seen' = {}
                             /\ moving' = [moving EXCEPT ![t] = @ \ {r}]
  BY DEF SplitMove, MoveRecord
<1>1. /\ pc[t] = "move" /\ pc[t] \in Mutated
      /\ UNCHANGED <<link, refcount, mutex, ownerlocker, lockSetsFree, made, refs, pc, rec, tgt, mode, ls,
                     drop, ret, num>>
  BY DEF SplitMove, setVars, argVars, callVars, Mutated
<1>2. /\ rec[t] \in Record /\ plockSet[rec[t]] \in LockSet /\ ownerlocker[plockSet[rec[t]]] = t
      /\ tgt[t] # None => tgt[t] \in Record /\ plockSet[tgt[t]] \in LockSet /\ ownerlocker[plockSet[tgt[t]]] = t
  BY <1>1, MutatedFacts
<1>3. /\ r \in Record /\ plockSet[r] = plockSet[rec[t]] /\ r # rec[t] /\ rec[t] \notin moving[t]
      /\ ls[t] \in LockSet /\ ls[t] # plockSet[rec[t]] /\ ownerlocker[ls[t]] = t
      /\ moving[t] \subseteq Records(plockSet[rec[t]])
  BY <1>1 DEF ThreadInv, Moves, Records
<1>4. \A x \in Record : plockSet'[x] = IF x = r THEN ls[t] ELSE plockSet[x]
  BY <1>0, <1>3 DEF Typed
<1>5. Typed'
  BY <1>0, <1>1, <1>3 DEF Typed
<1>6. Frame(t)
  BY <1>0, <1>1, <1>2, <1>3, <1>4 DEF SameLocals, Frame, Typed
<1>7. Positions(t)' /\ Cached(t)' /\ Owning(t)'
  BY <1>0, <1>1, <1>2, <1>3, <1>4, StaysMutated
<1>8. Mutexes(t)'
  BY <1>1 DEF Mutexes, ThreadInv
<1>9. Moves(t)'
  <2>1. moving'[t] = moving[t] \ {r}
    BY <1>0 DEF Typed
  <2>2. plockSet'[rec[t]] = plockSet[rec[t]]
    BY <1>2, <1>3, <1>4
  <2>3. \A x \in moving'[t] : x \in Record /\ plockSet'[x] = plockSet[rec[t]]
    BY <1>3, <1>4, <2>1 DEF Records
  <2>4. moving'[t] \subseteq Records(plockSet[rec[t]])'
    BY <1>1, <2>2, <2>3 DEF Records
  <2> QED
    BY <1>1, <1>3, <2>1, <2>2, <2>4 DEF Moves
<1> QED
  BY <1>5, <1>6, <1>7, <1>8, <1>9 DEF Own, ThreadInv

LEMMA SplitEnd_Own ==
  ASSUME Typed, NEW t \in Thread, ThreadInv(t), SplitEnd(t), UNCHANGED puts PROVE Own(t)
<1>1. /\ pc[t] = "move" /\ pc[t] \in Mutated /\ pc' = [pc EXCEPT ![t] = "relink"]
      /\ UNCHANGED <<link, plockSet, mutex, ownerlocker, lockSetsFree, made, fresh, seen, refs, rec, tgt, mode,
                     ls, drop, ret, moving, num>>
  BY DEF SplitEnd, Goto, passVars, argVars, callVars, moveVars, Mutated
<1>2. /\ rec[t] \in Record /\ plockSet[rec[t]] \in LockSet /\ ownerlocker[plockSet[rec[t]]] = t
      /\ tgt[t] # None => tgt[t] \in Record /\ plockSet[tgt[t]] \in LockSet /\ ownerlocker[plockSet[tgt[t]]] = t
  BY <1>1, MutatedFacts
<1>3. ls[t] \in LockSet /\ pc'[t] = "relink"
  BY <1>1 DEF ThreadInv, Moves, Typed
<1>4. Typed'
  <2>1. IsFiniteSet(Records(ls[t]))
    BY LockAssumption, FS_Subset DEF Records
  <2>2. PICK n \in Nat : n = Cardinality(Records(ls[t]))
    BY <2>1, FS_CardinalityType
  <2>3. refcount' = [refcount EXCEPT ![plockSet[rec[t]]] = @ - n, ![ls[t]] = @ + n]
    BY <2>2 DEF SplitEnd
  <2>4. refcount' \in [LockSet -> Int]
    BY <1>2, <1>3, <2>3 DEF Typed
  <2> QED
    BY <1>1, <2>4 DEF Typed, PC, Mutated
<1>5. Frame(t)
  BY <1>1 DEF SameLocals, Frame, Typed
<1>6. Positions(t)' /\ Cached(t)' /\ Owning(t)'
  BY <1>1, <1>2, <1>3, StaysMutated DEF Mutated
<1>7. Mutexes(t)' /\ Moves(t)'
  BY <1>1, <1>3 DEF Mutexes, Moves, ThreadInv
<1> QED
  BY <1>4, <1>5, <1>6, <1>7 DEF Own, ThreadInv

LEMMA AddLink_Own ==
  ASSUME Typed, NEW t \in Thread, ThreadInv(t), AddLink(t), UNCHANGED puts PROVE Own(t)
<1>0. PICK B : B = plockSet[tgt[t]]
  OBVIOUS
<1>1. /\ pc[t] = "relink" /\ pc[t] \in Mutated /\ tgt[t] # None /\ link' = [link EXCEPT ![rec[t]] = tgt[t]]
      /\ UNCHANGED <<plockSet, refcount, mutex, ownerlocker, lockSetsFree, made, fresh, seen, refs, rec, tgt, mode,
                     drop, ret, moving>>
  BY DEF AddLink, setVars, passVars, argVars, callVars, Mutated
<1>2. /\ rec[t] \in Record /\ plockSet[rec[t]] \in LockSet /\ ownerlocker[plockSet[rec[t]]] = t
      /\ tgt[t] \in Record /\ B \in LockSet /\ ownerlocker[B] = t
  BY <1>0, <1>1, MutatedFacts
<1>3. \/ plockSet[rec[t]] = B /\ pc' = [pc EXCEPT ![t] = "linked"] /\ ls' = ls /\ num' = num
      \/ /\ plockSet[rec[t]] # B /\ pc' = [pc EXCEPT ![t] = "merge"] /\ ls' = [ls EXCEPT ![t] = B]
         /\ num' = [num EXCEPT ![t] = Cardinality(Records(B))]
  BY <1>0 DEF AddLink, Goto
<1>4. Typed'
  <2>1. IsFiniteSet(Records(B))
    BY LockAssumption, FS_Subset DEF Records
  <2>2. Cardinality(Records(B)) \in Nat
    BY <2>1, FS_CardinalityType
  <2>3. num' \in [Thread -> Nat] /\ ls' \in [Thread -> LockSet \cup {None}] /\ pc' \in [Thread -> PC]
    <3>1. num' \in [Thread -> Nat]
      BY <1>3, <2>2, ZenonT(60) DEF Typed
    <3>2. ls' \in [Thread -> LockSet \cup {None}]
      BY <1>2, <1>3, SMTT(30) DEF Typed
    <3>3. pc' \in [Thread -> PC]
      BY <1>3 DEF Typed, PC, Mutated
    <3> QED
      BY <3>1, <3>2, <3>3
  <2>4. link' \in [Record -> Record \cup {None}]
    BY <1>1, <1>2 DEF Typed
  <2> QED
    BY <1>1, <2>3, <2>4 DEF Typed
<1>5. Frame(t)
  <2>1. \A u \in Thread \ {t} : SameLocals(u)
    BY <1>1, <1>3 DEF SameLocals, Typed
  <2> QED
    BY <1>1, <2>1, LocalFrame
<1>6. pc'[t] \in Mutated /\ pc'[t] \in {"linked", "merge"} /\ (pc'[t] = "merge" => plockSet[rec[t]] # B /\ ls'[t] = B)
  BY <1>3 DEF Typed, Mutated
<1>7. Positions(t)' /\ Cached(t)' /\ Owning(t)'
  BY <1>0, <1>1, <1>2, <1>6, StaysMutated
<1>8. Mutexes(t)' /\ Moves(t)'
  BY <1>1, <1>2, <1>6 DEF Mutexes, Moves, ThreadInv
<1> QED
  BY <1>4, <1>5, <1>7, <1>8 DEF Own, ThreadInv

LEMMA MergeMove_Own ==
  ASSUME Typed, NEW t \in Thread, ThreadInv(t), MergeMove(t), UNCHANGED puts PROVE Own(t)
<1>0. PICK r \in Records(ls[t]) : plockSet' = [plockSet EXCEPT ![r] = plockSet[rec[t]]] /\ fresh' = {} /\ seen' = {}
  BY DEF MergeMove, MoveRecord
<1>1. /\ pc[t] = "merge" /\ pc[t] \in Mutated
      /\ UNCHANGED <<link, refcount, mutex, ownerlocker, lockSetsFree, made, refs, pc, rec, tgt, mode, ls,
                     drop, ret, moving, num>>
  BY DEF MergeMove, setVars, argVars, callVars, moveVars, Mutated
<1>2. /\ rec[t] \in Record /\ plockSet[rec[t]] \in LockSet /\ ownerlocker[plockSet[rec[t]]] = t
      /\ tgt[t] # None => tgt[t] \in Record /\ plockSet[tgt[t]] \in LockSet /\ ownerlocker[plockSet[tgt[t]]] = t
  BY <1>1, MutatedFacts
<1>3. /\ r \in Record /\ plockSet[r] = ls[t] /\ ls[t] \in LockSet /\ ls[t] # plockSet[rec[t]] /\ ownerlocker[ls[t]] = t
  BY <1>1 DEF ThreadInv, Moves, Records
<1>4. \A x \in Record : plockSet'[x] = IF x = r THEN plockSet[rec[t]] ELSE plockSet[x]
  BY <1>0, <1>3 DEF Typed
<1>5. Typed'
  BY <1>0, <1>1, <1>2, <1>3 DEF Typed
<1>6. Frame(t)
  BY <1>0, <1>1, <1>2, <1>3, <1>4 DEF SameLocals, Frame, Typed
<1>7. Positions(t)' /\ Cached(t)' /\ Owning(t)'
  BY <1>0, <1>1, <1>2, <1>3, <1>4, StaysMutated
<1>8. Mutexes(t)' /\ Moves(t)'
  BY <1>1, <1>2, <1>3, <1>4 DEF Mutexes, Moves, ThreadInv
<1> QED
  BY <1>5, <1>6, <1>7, <1>8 DEF Own, ThreadInv

LEMMA MergeEnd_Own ==
  ASSUME Typed, NEW t \in Thread, ThreadInv(t), MergeEnd(t), UNCHANGED puts PROVE Own(t)
<1>0. PICK A, B : A = plockSet[rec[t]] /\ B = ls[t]
  OBVIOUS
<1>1. /\ pc[t] = "merge" /\ pc[t] \in Mutated /\ pc' = [pc EXCEPT ![t] = "decref"]
      /\ refcount' = [refcount EXCEPT ![A] = @ + num[t], ![B] = @ - num[t]]
      /\ ownerlocker' = [ownerlocker EXCEPT ![B] = None] /\ mutex' = [mutex EXCEPT ![B] = None]
      /\ mode' = [mode EXCEPT ![t] = "final"] /\ drop' = [drop EXCEPT ![t] = B]
      /\ ret' = [ret EXCEPT ![t] = "unlockmany"]
      /\ UNCHANGED <<link, plockSet, lockSetsFree, made, fresh, seen, refs, rec, tgt, ls, moving, num>>
  BY <1>0 DEF MergeEnd, CallDecRef, Goto, passVars, argVars, moveVars, Mutated
<1>2. /\ rec[t] \in Record /\ A \in LockSet /\ B \in LockSet /\ ownerlocker[B] = t /\ A # B /\ At(t) = "merge"
  BY <1>0, <1>1, MutatedFacts DEF ThreadInv, Moves
<1>3. /\ pc'[t] = "decref" /\ ret'[t] = "unlockmany" /\ drop'[t] = B /\ mode'[t] = "final" /\ At(t)' = "unlockmany"
      /\ ownerlocker'[B] = None /\ mutex'[B] = None /\ mutex[B] = t
      /\ \A x \in LockSet : x # B => ownerlocker'[x] = ownerlocker[x] /\ mutex'[x] = mutex[x]
  BY <1>1, <1>2 DEF At, Calls, Typed, ThreadInv, Mutexes
<1>4. Typed'
  <2>1. num[t] \in Nat
    BY DEF Typed
  <2>2. refcount' \in [LockSet -> Int]
    BY <1>1, <1>2, <2>1 DEF Typed
  <2> QED
    BY <1>1, <1>2, <2>2 DEF Typed, PC, Mode
<1>5. Frame(t)
  BY <1>1, <1>2, <1>3 DEF SameLocals, Frame, Typed
<1>6. Positions(t)' /\ Cached(t)'
  BY <1>1, <1>2, <1>3 DEF Positions, Cached, ThreadInv, Calls, Scanning, Many, Passing, Mutated, Plr
<1>7. Owning(t)'
  BY <1>1, <1>3 DEF Owning, Mutated, Verifying, Passing
<1>8. Mutexes(t)' /\ Moves(t)'
  BY <1>1, <1>3, NoneFacts DEF Mutexes, Moves, ThreadInv
<1> QED
  BY <1>4, <1>5, <1>6, <1>7, <1>8 DEF Own, ThreadInv

\* Whatever a step does to its own thread, it leaves the others what they know.
LEMMA AllKeep ==
  ASSUME Typed, Threads, NEW t \in Thread, Own(t)
  PROVE  Typed' /\ Threads'
<1>1. Typed' /\ Frame(t) /\ ThreadInv(t)'
  BY DEF Own
<1>2. \A u \in Thread \ {t} : ThreadInv(u)'
  BY <1>1, OthersKeep
<1> QED
  BY <1>1, <1>2 DEF Threads

LEMMA Step_Own ==
  ASSUME Typed, Threads, Linked, NEW t \in Thread, Step(t), UNCHANGED puts
  PROVE  Own(t)
<1>1. ThreadInv(t)
  BY DEF Threads
<1>2. CASE DecRef(t) \/ FreeSet(t) \/ LockMutex(t) \/ CheckOK(t) \/ CheckRetry(t) \/ dbScanUnlock(t)
  BY <1>1, <1>2, DecRef_Own, FreeSet_Own, LockMutex_Own, CheckOK_Own, CheckRetry_Own, dbScanUnlock_Own
<1>3. CASE PassSkip(t) \/ PassStart(t)
  BY <1>1, <1>3, PassSkip_Own, PassStart_Own
<1>4. CASE \E i \in Slot : SlotSame(t, i) \/ SlotExchange(t, i) \/ SlotCollide(t, i)
  BY <1>1, <1>4, SlotSame_Own, SlotExchange_Own, SlotCollide_Own
<1>5. CASE Acquire(t) \/ Acquired(t) \/ UnlockOne(t) \/ UnlockEnd(t) \/ Finalize(t)
  BY <1>1, <1>5, Acquire_Own, Acquired_Own, UnlockOne_Own, UnlockEnd_Own, Finalize_Own
<1>6. CASE RemoveLink(t) \/ MakeSet(t) \/ SplitMove(t) \/ SplitEnd(t)
  BY <1>1, <1>6, RemoveLink_Own, MakeSet_Own, SplitMove_Own, SplitEnd_Own
<1>7. CASE AddLink(t) \/ MergeMove(t) \/ MergeEnd(t) \/ PutEnd(t)
  BY <1>1, <1>7, AddLink_Own, MergeMove_Own, MergeEnd_Own, PutEnd_Own
<1> QED
  BY <1>2, <1>3, <1>4, <1>5, <1>6, <1>7 DEF Step

LEMMA Call_Own == ASSUME Typed, Threads, NEW t \in Thread, Call(t) PROVE Own(t)
<1>1. ThreadInv(t)
  BY DEF Threads
<1>2. ASSUME NEW r \in Record, dbScanLock(t, r), UNCHANGED puts PROVE Own(t)
  BY <1>1, <1>2, dbScanLock_Own
<1>3. ASSUME puts < MaxPuts, puts' = puts + 1, NEW p \in Puts, dbLockerPrepare(t, p[1], p[2]) PROVE Own(t)
  <2>1. p[1] \in Record /\ p[2] \in Record \cup {None}
    BY LockAssumption
  <2>2. puts' \in 0 .. MaxPuts
    BY <1>3, LockAssumption DEF Typed
  <2> QED
    BY <1>1, <1>3, <2>1, <2>2, dbLockerPrepare_Own
<1> QED
  BY <1>2, <1>3 DEF Call

-----------------------------------------------------------------------------
(* Sets are components *)

\* Records move between sets that t has locked.
Moved(t) ==
  \A r \in Record : \/ plockSet'[r] = plockSet[r]
                    \/ ownerlocker[plockSet[r]] = t /\ ownerlocker[plockSet'[r]] = t

\* What a thread moves, and the sets it moves between, are its own.
LEMMA BusyIsOwned ==
  ASSUME Typed, Threads, NEW u \in Thread, NEW s, BusyWith(u, s)
  PROVE  s \in LockSet /\ ownerlocker[s] = u
<1>1. ThreadInv(u)
  BY DEF Threads
<1>2. pc[u] \in {"split", "move", "merge"} => plockSet[rec[u]] \in LockSet /\ ownerlocker[plockSet[rec[u]]] = u
  BY <1>1, MutatedFacts DEF Mutated
<1>3. pc[u] \in {"move", "merge"} => ls[u] \in LockSet /\ ownerlocker[ls[u]] = u
  BY <1>1 DEF ThreadInv, Moves
<1> QED
  BY <1>2, <1>3 DEF BusyWith

LEMMA OwnedStays ==
  ASSUME Typed, Typed', NEW t \in Thread, Moved(t), NEW s \in LockSet, ownerlocker[s] # t
  PROVE  {r \in Record : plockSet'[r] = s} = Records(s)
BY DEF Moved, Records

LEMMA OtherBusy ==
  ASSUME Typed, Typed', Threads, NEW t \in Thread, Frame(t), Moved(t), NEW u \in Thread, u # t
  PROVE  /\ \A s : BusyWith(u, s)' <=> BusyWith(u, s)
         /\ pc[u] \in {"split", "move", "merge"} => /\ plockSet'[rec'[u]] = plockSet[rec[u]]
                                                    /\ Records(plockSet[rec[u]])' = Records(plockSet[rec[u]])
         /\ pc[u] \in {"move", "merge"} => Records(ls[u])' = Records(ls[u])
<1>1. SameLocals(u)
  BY DEF Frame
<1>2. pc[u] \in {"split", "move", "merge"} =>
        /\ rec[u] \in Record /\ plockSet[rec[u]] \in LockSet /\ ownerlocker[plockSet[rec[u]]] = u
  BY MutatedFacts DEF Threads, Mutated
<1>3. pc[u] \in {"move", "merge"} => ls[u] \in LockSet /\ ownerlocker[ls[u]] = u
  BY DEF Threads, ThreadInv, Moves
<1>4. pc[u] \in {"split", "move", "merge"} => plockSet'[rec'[u]] = plockSet[rec[u]]
  BY <1>1, <1>2 DEF Moved, SameLocals
<1>5. pc[u] \in {"split", "move", "merge"} => Records(plockSet[rec[u]])' = Records(plockSet[rec[u]])
  BY <1>2, <1>4, OwnedStays DEF Records
<1>6. pc[u] \in {"move", "merge"} => Records(ls[u])' = Records(ls[u])
  <2>1. ls'[u] = ls[u]
    BY <1>1 DEF SameLocals
  <2> QED
    BY <1>3, <2>1, OwnedStays DEF Records
<1>7. \A s : BusyWith(u, s)' <=> BusyWith(u, s)
  BY <1>1, <1>4 DEF BusyWith, SameLocals
<1> QED
  BY <1>4, <1>5, <1>6, <1>7

\* Whether a set of records is a component survives the change of a link inside
\* other sets.
LinkChange(t) ==
  \/ link' = link
  \/ \E r \in Record : /\ ownerlocker[plockSet[r]] = t
                       /\ \A x \in Record : x # r => link'[x] = link[x]
                       /\ link'[r] = None \/ (link'[r] \in Record /\ ownerlocker[plockSet[link'[r]]] = t)

LEMMA ElsewhereIs ==
  ASSUME Typed, Typed', NEW t \in Thread, LinkChange(t), NEW R, IsComponent(link, R),
         \A r \in R : ownerlocker[plockSet[r]] # t
  PROVE  IsComponent(link', R)
<1>1. CASE link' = link
  BY <1>1
<1>2. CASE link' # link
  <2>1. PICK r \in Record : /\ ownerlocker[plockSet[r]] = t
                            /\ \A x \in Record : x # r => link'[x] = link[x]
                            /\ link'[r] = None \/ (link'[r] \in Record /\ ownerlocker[plockSet[link'[r]]] = t)
    BY <1>2 DEF LinkChange
  <2>2. PICK m : m = link'
    OBVIOUS
  <2>3. link \in Links /\ m \in Links
    BY <2>2 DEF Links, Typed
  <2>4. r \notin R /\ m[r] \notin R
    BY <2>1, <2>2, NoneFacts DEF IsComponent
  <2>5. IsComponent(m, R)
    BY <2>1, <2>2, <2>3, <2>4, LinkElsewhere
  <2> QED
    BY <2>2, <2>5
<1> QED
  BY <1>1, <1>2

\* A set with which t is not busy stays a component.
LEMMA SetStays ==
  ASSUME Typed, Typed', Threads, Linked, NEW t \in Thread, Frame(t), Moved(t),
         NEW s \in LockSet, ~BusyWith(t, s),
         {r \in Record : plockSet'[r] = s} = Records(s),
         IsComponent(link, Records(s)) => IsComponent(link', Records(s))
  PROVE  SetLinked(s)'
<1>1. ASSUME Busy(s) PROVE Busy(s)'
  <2>1. PICK u \in Thread : BusyWith(u, s)
    BY <1>1 DEF Busy
  <2>2. BusyWith(u, s)'
    BY <2>1, OtherBusy
  <2> QED
    BY <2>2 DEF Busy
<1>2. Records(s)' = Records(s)
  BY DEF Records
<1>3. SetLinked(s)
  BY DEF Linked
<1> QED
  BY <1>1, <1>2, <1>3 DEF SetLinked

\* A set that t has not locked stays a component.
LEMMA SetElsewhere ==
  ASSUME Typed, Typed', Threads, Linked, NEW t \in Thread, Frame(t), Moved(t), LinkChange(t),
         NEW s \in LockSet, ownerlocker[s] # t
  PROVE  SetLinked(s)'
<1>1. ~BusyWith(t, s)
  BY BusyIsOwned
<1>2. {r \in Record : plockSet'[r] = s} = Records(s)
  BY OwnedStays
<1>3. \A r \in Records(s) : ownerlocker[plockSet[r]] # t
  BY DEF Records
<1>4. IsComponent(link, Records(s)) => IsComponent(link', Records(s))
  BY <1>3, ElsewhereIs
<1> QED
  BY <1>1, <1>2, <1>4, SetStays

\* The splits and merges of other threads go on.
LEMMA OtherLinked ==
  ASSUME Typed, Typed', Threads, Linked, NEW t \in Thread, Frame(t), Moved(t), LinkChange(t),
         NEW u \in Thread, u # t
  PROVE  ThreadLinked(u)'
<1>1. SameLocals(u) /\ ThreadLinked(u) /\ ThreadInv(u)
  BY DEF Frame, Linked, Threads
<1>2. /\ pc[u] \in {"split", "move", "merge"} => /\ plockSet'[rec'[u]] = plockSet[rec[u]]
                                                 /\ Records(plockSet[rec[u]])' = Records(plockSet[rec[u]])
      /\ pc[u] \in {"move", "merge"} => Records(ls[u])' = Records(ls[u])
  BY OtherBusy
<1>3. /\ pc[u] \in {"split", "move", "merge"} =>
           plockSet[rec[u]] \in LockSet /\ ownerlocker[plockSet[rec[u]]] = u
      /\ pc[u] \in {"move", "merge"} => ls[u] \in LockSet /\ ownerlocker[ls[u]] = u
  BY BusyIsOwned DEF BusyWith
<1>4. Splits(u) => Leaving(u)' = Leaving(u) /\ \A r \in Leaving(u) : ownerlocker[plockSet[r]] # t
  <2>1. Splits(u) => moving[u] \subseteq Records(plockSet[rec[u]])
    BY <1>1 DEF Splits, ThreadInv, Moves
  <2> QED
    BY <1>1, <1>2, <1>3, <2>1 DEF Splits, Leaving, Records, SameLocals
<1>5. Splits(u)' <=> Splits(u)
  BY <1>1 DEF Splits, SameLocals
<1>6. Splits(u) => IsComponent(link', Leaving(u))
  BY <1>1, <1>4, ElsewhereIs DEF ThreadLinked
<1>7. Splits(u) => IsComponent(link', Records(plockSet[rec[u]]) \ moving[u])
  <2>1. Splits(u) => \A r \in Records(plockSet[rec[u]]) \ moving[u] : ownerlocker[plockSet[r]] # t
    BY <1>3 DEF Splits, Records
  <2> QED
    BY <1>1, <2>1, ElsewhereIs DEF ThreadLinked
<1>8. pc[u] = "merge" => IsComponent(link', Records(plockSet[rec[u]]) \cup Records(ls[u]))
  <2>1. pc[u] = "merge" => \A r \in Records(plockSet[rec[u]]) \cup Records(ls[u]) : ownerlocker[plockSet[r]] # t
    BY <1>3 DEF Records
  <2> QED
    BY <1>1, <2>1, ElsewhereIs DEF ThreadLinked
<1>9. pc[u] \in {"split", "move", "relink"} => link'[rec[u]] = None
  <2>1. pc[u] \in {"split", "move", "relink"} => rec[u] \in Record /\ ownerlocker[plockSet[rec[u]]] = u
    BY <1>1, MutatedFacts DEF Mutated
  <2> QED
    BY <1>1, <2>1 DEF ThreadLinked, LinkChange
<1>10. pc'[u] = pc[u] /\ moving'[u] = moving[u] /\ rec'[u] = rec[u] /\ ls'[u] = ls[u]
  BY <1>1 DEF SameLocals
<1>11. Splits(u)' => IsComponent(link, Records(plockSet[rec[u]]) \ moving[u])'
  <2>1. Splits(u) => Records(plockSet[rec[u]])' = Records(plockSet[rec[u]])
    BY <1>2 DEF Splits
  <2> QED
    BY <1>5, <1>7, <1>10, <2>1
<1> QED
  BY <1>2, <1>4, <1>5, <1>6, <1>8, <1>9, <1>10, <1>11 DEF ThreadLinked

\* Steps that leave links and records where they are.
LEMMA QuietLinked ==
  ASSUME Typed, Typed', Threads, Linked, NEW t \in Thread, Frame(t), UNCHANGED <<link, plockSet>>,
         pc[t] \notin {"split", "move", "merge"}, pc'[t] \notin {"split", "move", "merge", "relink"}
  PROVE  Linked'
<1>1. Moved(t) /\ LinkChange(t) /\ \A s : ~BusyWith(t, s)
  BY DEF Moved, LinkChange, BusyWith
<1>2. \A s \in LockSet : SetLinked(s)'
  <2>1. \A s \in LockSet : {r \in Record : plockSet'[r] = s} = Records(s)
    BY DEF Records
  <2> QED
    BY <1>1, <2>1, SetStays
<1>3. \A u \in Thread \ {t} : ThreadLinked(u)'
  BY <1>1, OtherLinked
<1>4. ThreadLinked(t)'
  BY DEF ThreadLinked, Splits
<1> QED
  BY <1>2, <1>3, <1>4 DEF Linked

\* The sets that a thread between locking and unlocking is not busy with.
LEMMA LinkedFrom ==
  ASSUME Typed, Typed', Threads, Linked, NEW t \in Thread, Frame(t), Moved(t), LinkChange(t),
         \A s \in LockSet : ownerlocker[s] = t => SetLinked(s)', ThreadLinked(t)'
  PROVE  Linked'
<1>1. \A s \in LockSet : SetLinked(s)'
  BY SetElsewhere
<1>2. \A u \in Thread \ {t} : ThreadLinked(u)'
  BY OtherLinked
<1> QED
  BY <1>1, <1>2 DEF Linked

LEMMA RemoveLink_Linked ==
  ASSUME Typed, Threads, Linked, NEW t \in Thread, RemoveLink(t), Typed', Frame(t)
  PROVE  Linked'
<1>0. PICK l, q : RemoveCase(t, l, q)
  BY RemoveLinkIs
<1>1. /\ pc[t] = "held" /\ rec[t] \in Record /\ plockSet[rec[t]] \in LockSet /\ ownerlocker[plockSet[rec[t]]] = t
  BY <1>0, MutatedFacts DEF RemoveCase, Threads, Mutated
<1>2. PICK r, R : r = rec[t] /\ R = Records(plockSet[rec[t]])
  OBVIOUS
<1>3. l \in Links /\ link \in Links /\ q \in Record \cup {None} /\ l[r] = None /\ \A x \in Record : x # r => l[x] = link[x]
  BY <1>0, <1>1, <1>2 DEF Links, Typed, RemoveCase
<1>4. IsComponent(link, R) /\ r \in R /\ r \in Record
  BY <1>1, <1>2, HeldComponent DEF Records
<1>5. link' = l /\ link[r] = q /\ l = [link EXCEPT ![r] = None] /\ UNCHANGED <<plockSet, rec, ls>>
  BY <1>0, <1>2 DEF RemoveCase
<1>6. Moved(t) /\ LinkChange(t) /\ \A s : ~BusyWith(t, s)
  BY <1>1, <1>2, <1>3, <1>5 DEF Moved, LinkChange, BusyWith
<1>7. \A s \in LockSet : {x \in Record : plockSet'[x] = s} = Records(s)
  BY <1>5 DEF Records
<1>8. \A s \in LockSet : s # plockSet[r] => SetLinked(s)'
  <2>1. ASSUME NEW s \in LockSet, s # plockSet[r], IsComponent(link, Records(s)) PROVE IsComponent(link', Records(s))
    <3>1. r \notin Records(s) /\ l[r] \notin Records(s)
      BY <1>3, <2>1, NoneFacts DEF Records
    <3>2. IsComponent(l, Records(s))
      BY <1>3, <1>4, <2>1, <3>1, LinkElsewhere
    <3> QED
      BY <1>5, <3>2
  <2> QED
    BY <1>6, <1>7, <2>1, SetStays
<1>9. CASE /\ q = None \/ r \in Component(l, q)
           /\ pc' = [pc EXCEPT ![t] = "relink"] /\ moving' = moving
  <2>1. pc'[t] = "relink"
    BY <1>9 DEF Typed
  <2>2. IsComponent(l, R)
    <3>1. CASE q = None
      BY <1>3, <1>4, <1>5, <3>1 DEF Links
    <3>2. CASE q # None /\ r \in Component(l, q)
      BY <1>3, <1>4, <1>5, <3>2, CutKeeps
    <3> QED
      BY <1>9, <3>1, <3>2
  <2>3. SetLinked(plockSet[r])'
    BY <1>5, <2>2, <1>2 DEF SetLinked, Records
  <2>4. ThreadLinked(t)'
    BY <1>2, <1>3, <1>5, <2>1 DEF ThreadLinked, Splits
  <2> QED
    BY <1>5, <1>6, <1>8, <2>3, <2>4, LinkedFrom
<1>10. CASE /\ q # None /\ r \notin Component(l, q)
            /\ pc' = [pc EXCEPT ![t] = "split"] /\ moving' = [moving EXCEPT ![t] = Component(l, q)]
  <2>1. PICK N : N = Component(l, q)
    OBVIOUS
  <2>2. pc'[t] = "split" /\ moving'[t] = N
    BY <1>10, <2>1 DEF Typed
  <2>3. IsComponent(l, N) /\ IsComponent(l, R \ N)
    <3>1. q \in Record /\ r \notin N
      BY <1>3, <1>10, <2>1
    <3>2. l \in Links /\ link \in Links /\ link[r] = q /\ l = [link EXCEPT ![r] = None]
      BY <1>3, <1>5
    <3> QED
      BY ZenonT(60), <1>4, <2>1, <3>1, <3>2, CutSplits
  <2>4. SetLinked(plockSet[r])'
    <3>1. BusyWith(t, plockSet[r])'
      BY <1>2, <1>5, <2>2 DEF BusyWith
    <3>2. Busy(plockSet[r])'
      BY <3>1 DEF Busy
    <3> QED
      BY <3>2 DEF SetLinked
  <2>5. ThreadLinked(t)'
    <3>1. Leaving(t)' = N
      BY <2>2 DEF Leaving
    <3>2. (Records(plockSet[rec[t]]) \ moving[t])' = R \ N
      BY <1>2, <1>5, <2>2 DEF Records
    <3>3. link'[rec'[t]] = None
      BY <1>2, <1>3, <1>5
    <3> QED
      BY <1>5, <2>2, <2>3, <3>1, <3>2, <3>3 DEF ThreadLinked, Splits
  <2> QED
    BY <1>5, <1>6, <1>8, <2>4, <2>5, LinkedFrom
<1> QED
  BY <1>0, <1>2, <1>9, <1>10 DEF RemoveCase

LEMMA MakeSet_Linked ==
  ASSUME Typed, Threads, Linked, NEW t \in Thread, MakeSet(t), Typed', Frame(t),
         \A s \in LockSet : s \notin made \/ Contains(lockSetsFree, s) => Records(s) = {}
  PROVE  Linked'
<1>1. /\ pc[t] = "split" /\ pc' = [pc EXCEPT ![t] = "move"]
      /\ UNCHANGED <<link, plockSet, rec, moving>>
  BY DEF MakeSet, Goto, passVars, argVars, callVars, moveVars
<1>2. PICK s \in LockSet : /\ s \notin made \/ (lockSetsFree # <<>> /\ s = Head(lockSetsFree))
                           /\ ls' = [ls EXCEPT ![t] = s]
  BY DEF MakeSet
<1>3. Records(s) = {}
  <2>1. lockSetsFree # <<>> /\ s = Head(lockSetsFree) => Contains(lockSetsFree, s)
    BY DEF Typed, Contains
  <2> QED
    BY <1>2, <2>1
<1>4. pc'[t] = "move" /\ ls'[t] = s
  BY <1>1, <1>2 DEF Typed
<1>5. Moved(t) /\ LinkChange(t)
  BY <1>1 DEF Moved, LinkChange
<1>6. /\ \A x \in LockSet : BusyWith(t, x) => x = plockSet[rec[t]]
      /\ BusyWith(t, plockSet[rec[t]])'
  BY <1>1, <1>4 DEF BusyWith
<1>7. \A x \in LockSet : x # plockSet[rec[t]] => SetLinked(x)'
  <2>1. \A x \in LockSet : {r \in Record : plockSet'[r] = x} = Records(x)
    BY <1>1 DEF Records
  <2> QED
    BY <1>1, <1>5, <1>6, <2>1, SetStays
<1>8. SetLinked(plockSet[rec[t]])'
  BY <1>6 DEF SetLinked, Busy
<1>9. ThreadLinked(t)'
  <2>1. Leaving(t)' = Leaving(t)
    BY <1>1, <1>3, <1>4 DEF Leaving, Records
  <2>2. (Records(plockSet[rec[t]]) \ moving[t])' = Records(plockSet[rec[t]]) \ moving[t]
    BY <1>1 DEF Records
  <2>3. ThreadLinked(t)
    BY DEF Linked
  <2> QED
    BY <1>1, <1>4, <2>1, <2>2, <2>3 DEF ThreadLinked, Splits
<1>10. \A x \in LockSet : ownerlocker[x] = t => SetLinked(x)'
  <2>1. plockSet'[rec'[t]] = plockSet[rec[t]]
    BY <1>1
  <2> QED
    BY <1>7, <1>8, <2>1
<1> QED
  BY <1>5, <1>9, <1>10, LinkedFrom

LEMMA SplitMove_Linked ==
  ASSUME Typed, Threads, Linked, NEW t \in Thread, SplitMove(t), Typed', Frame(t)
  PROVE  Linked'
<1>0. PICK r \in moving[t] : plockSet' = [plockSet EXCEPT ![r] = ls[t]] /\ moving' = [moving EXCEPT ![t] = @ \ {r}]
  BY DEF SplitMove, MoveRecord
<1>1. pc[t] = "move" /\ UNCHANGED <<link, pc, rec, ls, ownerlocker>>
  BY DEF SplitMove, setVars, argVars
<1>2. PICK A, B : A = plockSet[rec[t]] /\ B = ls[t]
  OBVIOUS
<1>3. /\ rec[t] \in Record /\ rec[t] \notin moving[t] /\ moving[t] \subseteq Records(A) /\ r \in Record /\ plockSet[r] = A
      /\ A # B /\ A \in LockSet /\ B \in LockSet /\ ownerlocker[A] = t /\ ownerlocker[B] = t
  <2>1. ThreadInv(t)
    BY DEF Threads
  <2>2. rec[t] \in Record /\ A \in LockSet /\ ownerlocker[A] = t
    BY <1>1, <1>2, <2>1, MutatedFacts DEF Mutated
  <2> QED
    BY <1>1, <1>2, <2>1, <2>2 DEF ThreadInv, Moves, Records
<1>4. \A x \in Record : plockSet'[x] = IF x = r THEN B ELSE plockSet[x]
  BY <1>0, <1>2, <1>3 DEF Typed
<1>5. moving'[t] = moving[t] \ {r} /\ plockSet'[rec[t]] = A
  BY <1>0, <1>2, <1>3, <1>4 DEF Typed
<1>6. /\ {x \in Record : plockSet'[x] = A} = Records(A) \ {r}
      /\ {x \in Record : plockSet'[x] = B} = Records(B) \cup {r}
      /\ \A s \in LockSet : s # A /\ s # B => {x \in Record : plockSet'[x] = s} = Records(s)
  BY <1>3, <1>4 DEF Records
<1>7. Moved(t) /\ LinkChange(t)
  BY <1>1, <1>3, <1>4 DEF Moved, LinkChange
<1>8. /\ \A x \in LockSet : BusyWith(t, x) => x = A \/ x = B
      /\ BusyWith(t, A)' /\ BusyWith(t, B)'
  BY <1>1, <1>2, <1>5 DEF BusyWith
<1>9. \A x \in LockSet : SetLinked(x)'
  <2>1. \A x \in LockSet : x # A /\ x # B => SetLinked(x)'
    BY <1>1, <1>6, <1>7, <1>8, SetStays
  <2>2. SetLinked(A)' /\ SetLinked(B)'
    BY <1>8 DEF SetLinked, Busy
  <2> QED
    BY <2>1, <2>2
<1>10. ThreadLinked(t)'
  <2>1. Leaving(t) = moving[t] \cup Records(B) /\ Leaving(t)' = moving'[t] \cup {x \in Record : plockSet'[x] = B}
    BY <1>1, <1>2 DEF Leaving, Records
  <2>2. Leaving(t)' = Leaving(t)
    BY <1>5, <1>6, <2>1
  <2>3. (Records(plockSet[rec[t]]) \ moving[t])' = Records(plockSet[rec[t]]) \ moving[t]
    <3>1. (Records(plockSet[rec[t]]) \ moving[t])' = {x \in Record : plockSet'[x] = A} \ moving'[t]
      BY <1>1, <1>5 DEF Records
    <3> QED
      BY <1>2, <1>5, <1>6, <3>1
  <2>4. ThreadLinked(t)
    BY DEF Linked
  <2> QED
    BY <1>1, <2>2, <2>3, <2>4 DEF ThreadLinked, Splits
<1> QED
  BY <1>7, <1>9, <1>10, LinkedFrom

LEMMA SplitEnd_Linked ==
  ASSUME Typed, Threads, Linked, NEW t \in Thread, SplitEnd(t), Typed', Frame(t)
  PROVE  Linked'
<1>1. /\ pc[t] = "move" /\ moving[t] = {} /\ pc' = [pc EXCEPT ![t] = "relink"]
      /\ UNCHANGED <<link, plockSet, rec, ls, moving>>
  BY DEF SplitEnd, Goto, argVars, moveVars
<1>2. PICK A, B : A = plockSet[rec[t]] /\ B = ls[t]
  OBVIOUS
<1>3. IsComponent(link, Records(A)) /\ IsComponent(link, Records(B)) /\ link[rec[t]] = None
  <2>1. ThreadLinked(t)
    BY DEF Linked
  <2>2. Leaving(t) = Records(B) /\ Records(plockSet[rec[t]]) \ moving[t] = Records(A)
    BY <1>1, <1>2 DEF Leaving
  <2> QED
    BY <1>1, <2>1, <2>2 DEF ThreadLinked, Splits
<1>4. Moved(t) /\ LinkChange(t) /\ pc'[t] = "relink"
  BY <1>1 DEF Moved, LinkChange, Typed
<1>5. \A x \in LockSet : {r \in Record : plockSet'[r] = x} = Records(x)
  BY <1>1 DEF Records
<1>6. \A x \in LockSet : SetLinked(x)'
  <2>1. \A x \in LockSet : BusyWith(t, x) => x = A \/ x = B
    BY <1>2 DEF BusyWith
  <2>2. \A x \in LockSet : x # A /\ x # B => SetLinked(x)'
    BY <1>1, <1>4, <1>5, <2>1, SetStays
  <2>3. \A x \in LockSet : x = A \/ x = B => SetLinked(x)'
    BY <1>1, <1>3 DEF SetLinked, Records
  <2> QED
    BY <2>2, <2>3
<1>7. ThreadLinked(t)'
  BY <1>1, <1>3, <1>4 DEF ThreadLinked, Splits
<1> QED
  BY <1>4, <1>6, <1>7, LinkedFrom

LEMMA AddLink_Linked ==
  ASSUME Typed, Threads, Linked, NEW t \in Thread, AddLink(t), Typed', Frame(t)
  PROVE  Linked'
<1>1. /\ pc[t] = "relink" /\ tgt[t] # None /\ link' = [link EXCEPT ![rec[t]] = tgt[t]]
      /\ UNCHANGED <<plockSet, rec, moving>>
  BY DEF AddLink, argVars
<1>2. PICK A, B, r, q : A = plockSet[rec[t]] /\ B = plockSet[tgt[t]] /\ r = rec[t] /\ q = tgt[t]
  OBVIOUS
<1>3. /\ r \in Record /\ q \in Record /\ A \in LockSet /\ B \in LockSet
      /\ ownerlocker[A] = t /\ ownerlocker[B] = t /\ A = plockSet[r] /\ B = plockSet[q]
  BY <1>1, <1>2, MutatedFacts DEF Mutated, Threads
<1>4. \/ A = B /\ pc' = [pc EXCEPT ![t] = "linked"]
      \/ A # B /\ pc' = [pc EXCEPT ![t] = "merge"] /\ ls' = [ls EXCEPT ![t] = B]
  BY <1>2 DEF AddLink, Goto
<1>5. PICK m : m = link'
  OBVIOUS
<1>6. /\ m \in Links /\ link \in Links /\ link[r] = None /\ m = [link EXCEPT ![r] = q]
      /\ m[r] = q /\ \A x \in Record : x # r => m[x] = link[x]
  BY <1>1, <1>2, <1>3, <1>5 DEF Linked, ThreadLinked, Typed, Links
<1>7. IsComponent(m, Records(A) \cup Records(B))
  <2>1. IsComponent(link, Records(A)) /\ IsComponent(link, Records(B))
    BY <1>1, <1>3, HeldComponent
  <2>2. r \in Records(A) /\ q \in Records(B)
    BY <1>3 DEF Records
  <2> QED
    BY <1>3, <1>6, <2>1, <2>2, JoinMerges
<1>8. Moved(t) /\ LinkChange(t) /\ \A s : ~BusyWith(t, s)
  BY <1>1, <1>3, <1>5, <1>6 DEF Moved, LinkChange, BusyWith
<1>9. \A s \in LockSet : s # A /\ s # B => SetLinked(s)'
  <2>1. ASSUME NEW s \in LockSet, s # A, s # B, IsComponent(link, Records(s)) PROVE IsComponent(link', Records(s))
    <3>1. r \notin Records(s) /\ m[r] \notin Records(s)
      BY <1>3, <1>6, <2>1 DEF Records
    <3>2. IsComponent(m, Records(s))
      BY <1>3, <1>6, <2>1, <3>1, LinkElsewhere
    <3> QED
      BY <1>5, <3>2
  <2>2. \A s \in LockSet : {x \in Record : plockSet'[x] = s} = Records(s)
    BY <1>1 DEF Records
  <2> QED
    BY <1>8, <2>1, <2>2, SetStays
<1>10. CASE A = B /\ pc' = [pc EXCEPT ![t] = "linked"]
  <2>1. pc'[t] = "linked" /\ Records(A) \cup Records(B) = Records(A)
    BY <1>10 DEF Typed
  <2>2. ThreadLinked(t)'
    BY <2>1 DEF ThreadLinked, Splits
  <2>3. {x \in Record : plockSet'[x] = A} = Records(A)
    BY <1>1 DEF Records
  <2>4. SetLinked(A)'
    BY <1>5, <1>7, <2>1, <2>3 DEF SetLinked, Records
  <2> QED
    BY <1>8, <1>9, <1>10, <2>2, <2>4, LinkedFrom
<1>11. CASE A # B /\ pc' = [pc EXCEPT ![t] = "merge"] /\ ls' = [ls EXCEPT ![t] = B]
  <2>1. pc'[t] = "merge" /\ ls'[t] = B /\ plockSet'[rec'[t]] = A
    BY <1>1, <1>2, <1>11 DEF Typed
  <2>2. (Records(plockSet[rec[t]]) \cup Records(ls[t]))' = Records(A) \cup Records(B)
    BY <1>1, <2>1 DEF Records
  <2>3. ThreadLinked(t)'
    BY <1>5, <1>7, <2>1, <2>2 DEF ThreadLinked, Splits
  <2>4. BusyWith(t, A)' /\ BusyWith(t, B)'
    BY <2>1 DEF BusyWith
  <2>5. SetLinked(A)' /\ SetLinked(B)'
    BY <2>4 DEF SetLinked, Busy
  <2> QED
    BY <1>8, <1>9, <2>3, <2>5, LinkedFrom
<1> QED
  BY <1>4, <1>10, <1>11

LEMMA MergeMove_Linked ==
  ASSUME Typed, Threads, Linked, NEW t \in Thread, MergeMove(t), Typed', Frame(t)
  PROVE  Linked'
<1>0. PICK r \in Records(ls[t]) : plockSet' = [plockSet EXCEPT ![r] = plockSet[rec[t]]]
  BY DEF MergeMove, MoveRecord
<1>1. pc[t] = "merge" /\ UNCHANGED <<link, pc, rec, ls, ownerlocker, moving>>
  BY DEF MergeMove, setVars, argVars, moveVars
<1>2. PICK A, B : A = plockSet[rec[t]] /\ B = ls[t]
  OBVIOUS
<1>3. /\ rec[t] \in Record /\ r \in Record /\ plockSet[r] = B
      /\ A # B /\ A \in LockSet /\ B \in LockSet /\ ownerlocker[A] = t /\ ownerlocker[B] = t
  <2>1. ThreadInv(t)
    BY DEF Threads
  <2>2. rec[t] \in Record /\ A \in LockSet /\ ownerlocker[A] = t
    BY <1>1, <1>2, <2>1, MutatedFacts DEF Mutated
  <2> QED
    BY <1>1, <1>2, <2>1, <2>2 DEF ThreadInv, Moves, Records
<1>4. \A x \in Record : plockSet'[x] = IF x = r THEN A ELSE plockSet[x]
  BY <1>0, <1>2, <1>3 DEF Typed
<1>5. plockSet'[rec[t]] = A
  BY <1>2, <1>3, <1>4
<1>6. /\ {x \in Record : plockSet'[x] = A} = Records(A) \cup {r}
      /\ {x \in Record : plockSet'[x] = B} = Records(B) \ {r}
      /\ \A s \in LockSet : s # A /\ s # B => {x \in Record : plockSet'[x] = s} = Records(s)
  BY <1>3, <1>4 DEF Records
<1>7. Moved(t) /\ LinkChange(t)
  BY <1>1, <1>3, <1>4 DEF Moved, LinkChange
<1>8. /\ \A x \in LockSet : BusyWith(t, x) => x = A \/ x = B
      /\ BusyWith(t, A)' /\ BusyWith(t, B)'
  BY <1>1, <1>2, <1>5 DEF BusyWith
<1>9. \A x \in LockSet : SetLinked(x)'
  <2>1. \A x \in LockSet : x # A /\ x # B => SetLinked(x)'
    BY <1>1, <1>6, <1>7, <1>8, SetStays
  <2>2. SetLinked(A)' /\ SetLinked(B)'
    BY <1>8 DEF SetLinked, Busy
  <2> QED
    BY <2>1, <2>2
<1>10. ThreadLinked(t)'
  <2>1. (Records(plockSet[rec[t]]) \cup Records(ls[t]))'
          = {x \in Record : plockSet'[x] = A} \cup {x \in Record : plockSet'[x] = B}
    BY <1>1, <1>2, <1>5 DEF Records
  <2>2. {x \in Record : plockSet'[x] = A} \cup {x \in Record : plockSet'[x] = B} = Records(A) \cup Records(B)
    BY <1>3, <1>6 DEF Records
  <2>3. ThreadLinked(t)
    BY DEF Linked
  <2> QED
    BY <1>1, <1>2, <2>1, <2>2, <2>3 DEF ThreadLinked, Splits
<1> QED
  BY <1>7, <1>9, <1>10, LinkedFrom

LEMMA MergeEnd_Linked ==
  ASSUME Typed, Threads, Linked, NEW t \in Thread, MergeEnd(t), Typed', Frame(t)
  PROVE  Linked'
<1>1. /\ pc[t] = "merge" /\ Records(ls[t]) = {} /\ pc' = [pc EXCEPT ![t] = "decref"]
      /\ UNCHANGED <<link, plockSet, rec, ls, moving>>
  BY DEF MergeEnd, CallDecRef, Goto, argVars, moveVars
<1>2. PICK A, B : A = plockSet[rec[t]] /\ B = ls[t]
  OBVIOUS
<1>3. IsComponent(link, Records(A))
  <2>1. ThreadLinked(t)
    BY DEF Linked
  <2>2. Records(plockSet[rec[t]]) \cup Records(ls[t]) = Records(A)
    BY <1>1, <1>2
  <2> QED
    BY <1>1, <2>1, <2>2 DEF ThreadLinked
<1>4. Moved(t) /\ LinkChange(t) /\ pc'[t] = "decref"
  BY <1>1 DEF Moved, LinkChange, Typed
<1>5. \A x \in LockSet : {r \in Record : plockSet'[r] = x} = Records(x)
  BY <1>1 DEF Records
<1>6. \A x \in LockSet : SetLinked(x)'
  <2>1. \A x \in LockSet : BusyWith(t, x) => x = A \/ x = B
    BY <1>2 DEF BusyWith
  <2>2. \A x \in LockSet : x # A /\ x # B => SetLinked(x)'
    BY <1>1, <1>4, <1>5, <2>1, SetStays
  <2>3. \A x \in LockSet : x = A \/ x = B => SetLinked(x)'
    BY <1>1, <1>2, <1>3 DEF SetLinked, Records
  <2> QED
    BY <2>2, <2>3
<1>7. ThreadLinked(t)'
  BY <1>4 DEF ThreadLinked, Splits
<1> QED
  BY <1>4, <1>6, <1>7, LinkedFrom

-----------------------------------------------------------------------------
(* References are counted *)

\* Counts are finite.
LEMMA FiniteCounts ==
  /\ \A P \in SUBSET Record : IsFiniteSet(P) /\ Cardinality(P) \in Nat /\ (Cardinality(P) = 0 <=> P = {})
  /\ \A P \in SUBSET (Thread \X Kind) : IsFiniteSet(P) /\ Cardinality(P) \in Nat /\ (Cardinality(P) = 0 <=> P = {})
<1>1. IsFiniteSet(Record) /\ IsFiniteSet(Thread)
  BY LockAssumption
<1>2. IsFiniteSet(Kind)
  <2>1. IsFiniteSet({}) /\ \A S, x : IsFiniteSet(S) => IsFiniteSet(S \cup {x})
    BY FS_EmptySet, FS_AddElement
  <2>2. Kind = ((((({} \cup {"wait"}) \cup {"drop"}) \cup {"slot1"}) \cup {"slot2"}) \cup {"list"})
    BY DEF Kind
  <2> QED
    BY <2>1, <2>2
<1>3. IsFiniteSet(Thread \X Kind)
  BY <1>1, <1>2, FS_Product
<1> QED
  BY <1>1, <1>3, FS_Subset, FS_CardinalityType, FS_EmptySet

\* the records on their way out of a set, for the thread that has locked it
OweOf(t) == IF pc[t] = "move" THEN Cardinality(Records(ls[t]))
            ELSE IF pc[t] = "merge" THEN Cardinality(Records(ls[t])) - num[t] ELSE 0
OwedBy(t, s) == IF s = plockSet[rec[t]] THEN OweOf(t) ELSE IF s = ls[t] THEN - OweOf(t) ELSE 0

LEMMA NoneOwed == -0 = 0
<1>1. \A n \in Int : -n = 0 - n
  OBVIOUS
<1>2. PICK z \in Int : z = 0
  OBVIOUS
<1>3. -z = 0 - z
  BY <1>1
<1>4. 0 - z = z
  BY <1>2
<1> QED
  BY <1>2, <1>3, <1>4

LEMMA OwedIs ==
  ASSUME Typed, NEW s \in LockSet
  PROVE  /\ ownerlocker[s] = None => Owed(s) = 0
         /\ ownerlocker[s] \in Thread => Owed(s) = OwedBy(ownerlocker[s], s)
         /\ \A t \in Thread : OweOf(t) \in Int
         /\ Owed(s) \in Int
<1>1. \A x : Cardinality(Records(x)) \in Nat
  BY FiniteCounts DEF Records
<1>2. \A t \in Thread : OweOf(t) \in Int
  BY <1>1 DEF OweOf, Typed
<1>3. ownerlocker[s] = None => Owed(s) = 0
  BY DEF Owed
<1>4. ownerlocker[s] \in Thread => Owed(s) = OwedBy(ownerlocker[s], s)
  <2>1. HAVE ownerlocker[s] \in Thread
  <2>2. PICK t \in Thread : t = ownerlocker[s]
    BY <2>1
  <2>3. Owed(s) = IF OweOf(t) = 0 THEN 0
                  ELSE IF s = plockSet[rec[t]] THEN OweOf(t) ELSE IF s = ls[t] THEN - OweOf(t) ELSE 0
    BY <2>2, NoneFacts DEF Owed, OweOf
  <2>4. OweOf(t) \in Int
    BY <1>2
  <2> HIDE DEF OweOf
  <2> QED
    BY <2>2, <2>3, <2>4 DEF OwedBy
<1>5. Owed(s) \in Int
  BY <1>2, <1>3, <1>4 DEF OwedBy, Typed
<1> QED
  BY <1>2, <1>3, <1>4, <1>5
LEMMA WeightIs ==
  ASSUME Typed, Threads, Counted, NEW s \in LockSet
  PROVE  /\ Weight(s) \in Nat /\ Cardinality(References(s)) \in Nat /\ refcount[s] \in Nat
         /\ refcount[s] = Weight(s) + Cardinality(References(s))
         /\ Weight(s) = 0 /\ Records(s) # {} => \E t \in Thread : ownerlocker[s] = t /\ pc[t] \in {"move", "merge"}
                                                                 /\ s = ls[t] /\ s # plockSet[rec[t]]
         /\ References(s) = {} => ownerlocker[s] = None
<1>1. \A x : Cardinality(Records(x)) \in Nat /\ (Cardinality(Records(x)) = 0 <=> Records(x) = {})
  BY FiniteCounts DEF Records
<1>2. Cardinality(References(s)) \in Nat /\ refcount[s] = Weight(s) + Cardinality(References(s))
  BY FiniteCounts DEF References, Counted
<1>3. /\ Weight(s) \in Nat
      /\ Weight(s) = 0 /\ Records(s) # {} => \E t \in Thread : ownerlocker[s] = t /\ pc[t] \in {"move", "merge"}
                                                             /\ s = ls[t] /\ s # plockSet[rec[t]]
  <2>1. CASE ownerlocker[s] = None
    <3>1. Owed(s) = 0
      BY <2>1, OwedIs
    <3> QED
      BY <1>1, <3>1 DEF Weight
  <2>2. CASE ownerlocker[s] # None
    <3>1. PICK t \in Thread : t = ownerlocker[s]
      BY <2>2 DEF Typed
    <3>2. Owed(s) = OwedBy(t, s)
      BY <3>1, OwedIs
    <3>3. num[t] \in Nat
      BY DEF Typed
    <3>4. pc[t] \in {"move", "merge"} => ls[t] # plockSet[rec[t]]
      BY DEF Threads, ThreadInv, Moves
    <3>5. pc[t] = "merge" => Cardinality(Records(plockSet[rec[t]])) + Cardinality(Records(ls[t])) > num[t]
      BY DEF Counted
    <3>6. PICK a, b, c : a = Cardinality(Records(s)) /\ b = Cardinality(Records(ls[t])) /\ c = num[t]
      OBVIOUS
    <3>7. a \in Nat /\ b \in Nat /\ c \in Nat /\ (a = 0 <=> Records(s) = {})
      BY <1>1, <3>3, <3>6
    <3>8. Weight(s) = a + Owed(s)
      BY <3>6 DEF Weight
    <3>9. CASE pc[t] = "move"
      <4>1. Owed(s) = IF s = plockSet[rec[t]] THEN b ELSE IF s = ls[t] THEN - b ELSE 0
        BY <3>2, <3>6, <3>9 DEF OwedBy, OweOf
      <4>2. s = ls[t] => a = b
        BY <3>6
      <4> QED
        BY <3>1, <3>4, <3>7, <3>8, <3>9, <4>1, <4>2
    <3>10. CASE pc[t] = "merge"
      <4>1. Owed(s) = IF s = plockSet[rec[t]] THEN b - c ELSE IF s = ls[t] THEN - (b - c) ELSE 0
        BY <3>2, <3>6, <3>10 DEF OwedBy, OweOf
      <4>2. s = ls[t] => a = b
        BY <3>6
      <4>3. s = plockSet[rec[t]] => a + b > c
        BY <3>5, <3>6, <3>10
      <4> QED
        BY <3>1, <3>4, <3>7, <3>8, <3>10, <4>1, <4>2, <4>3
    <3>11. CASE pc[t] \notin {"move", "merge"}
      <4>0. OweOf(t) = 0
        BY <3>11 DEF OweOf
      <4>1. Owed(s) = 0
        BY <3>2, <4>0, NoneOwed DEF OwedBy
      <4> QED
        BY <3>7, <3>8, <4>1
    <3> QED
      BY <3>9, <3>10, <3>11
  <2> QED
    BY <2>1, <2>2
<1>4. References(s) = {} => ownerlocker[s] = None
  <2>1. ownerlocker[s] \in Thread => <<ownerlocker[s], "list">> \in References(s)
    BY DEF References, Refers, Kind
  <2> QED
    BY <2>1 DEF Typed
<1>5. refcount[s] \in Nat
  BY <1>2, <1>3
<1> QED
  BY <1>2, <1>3, <1>4, <1>5

\* A set whose count is zero is not in use.
LEMMA ZeroCount ==
  ASSUME Typed, Threads, Counted, NEW s \in LockSet, refcount[s] = 0
  PROVE  Records(s) = {} /\ References(s) = {} /\ ownerlocker[s] = None
<1>1. Weight(s) = 0 /\ Cardinality(References(s)) = 0
  BY WeightIs
<1>2. References(s) = {}
  BY <1>1, FiniteCounts DEF References
<1>3. ownerlocker[s] = None
  BY <1>2, WeightIs
<1>4. Records(s) = {}
  BY <1>1, <1>3, WeightIs, NoneFacts
<1> QED
  BY <1>2, <1>3, <1>4

\* What a step of t does to its references to s, and the count that goes with it.
Kept(t, s, K)   == \A k \in Kind \ K : Refers(t, k, s)' <=> Refers(t, k, s)
Gained(t, s, k) == ~Refers(t, k, s) /\ Refers(t, k, s)'
Lost(t, s, k)   == Refers(t, k, s) /\ ~Refers(t, k, s)'

LEMMA OthersRefer ==
  ASSUME Typed, Typed', NEW t \in Thread, Frame(t), NEW s \in LockSet, NEW u \in Thread, u # t, NEW k \in Kind
  PROVE  Refers(u, k, s)' <=> Refers(u, k, s)
<1>1. SameLocals(u)
  BY DEF Frame
<1>2. ownerlocker'[s] = u <=> ownerlocker[s] = u
  BY NoneFacts DEF Frame
<1> QED
  BY <1>1, <1>2 DEF Refers, SameLocals

LEMMA RefersKept ==
  ASSUME Typed, Typed', NEW t \in Thread, Frame(t), NEW s \in LockSet, Kept(t, s, {})
  PROVE  References(s)' = References(s)
BY OthersRefer DEF References, Kept

LEMMA RefersGained ==
  ASSUME Typed, Typed', NEW t \in Thread, Frame(t), NEW s \in LockSet, NEW k \in Kind, Gained(t, s, k), Kept(t, s, {k})
  PROVE  Cardinality(References(s)') = Cardinality(References(s)) + 1
<1>1. References(s)' = References(s) \cup {<<t, k>>} /\ <<t, k>> \notin References(s)
  BY OthersRefer DEF References, Kept, Gained
<1>2. IsFiniteSet(References(s))
  BY FiniteCounts DEF References
<1> QED
  BY <1>1, <1>2, FS_AddElement

LEMMA RefersLost ==
  ASSUME Typed, Typed', NEW t \in Thread, Frame(t), NEW s \in LockSet, NEW k \in Kind, Lost(t, s, k), Kept(t, s, {k})
  PROVE  Cardinality(References(s)') = Cardinality(References(s)) - 1
<1>1. References(s)' = References(s) \ {<<t, k>>} /\ <<t, k>> \in References(s)
  BY OthersRefer DEF References, Kept, Lost
<1>2. IsFiniteSet(References(s))
  BY FiniteCounts DEF References
<1> QED
  BY <1>1, <1>2, FS_RemoveElement

LEMMA RefersPassed ==
  ASSUME Typed, Typed', NEW t \in Thread, Frame(t), NEW s \in LockSet, NEW j \in Kind, NEW k \in Kind, j # k,
         Lost(t, s, j), Gained(t, s, k), Kept(t, s, {j, k})
  PROVE  Cardinality(References(s)') = Cardinality(References(s))
<1>1. /\ References(s)' = (References(s) \ {<<t, j>>}) \cup {<<t, k>>}
      /\ <<t, j>> \in References(s) /\ <<t, k>> \notin References(s)
  BY OthersRefer DEF References, Kept, Gained, Lost
<1>2. IsFiniteSet(References(s))
  BY FiniteCounts DEF References
<1>3. PICK P : P = References(s) \ {<<t, j>>}
  OBVIOUS
<1>4. IsFiniteSet(P) /\ Cardinality(P) = Cardinality(References(s)) - 1
  BY <1>1, <1>2, <1>3, FS_RemoveElement
<1>5. Cardinality(P \cup {<<t, k>>}) = Cardinality(P) + 1
  BY <1>1, <1>3, <1>4, FS_AddElement
<1>6. Cardinality(References(s)) \in Nat
  BY <1>2, FS_CardinalityType
<1> QED
  BY <1>1, <1>3, <1>4, <1>5, <1>6

\* the change of a count that goes with the change of the references of t
Tallied(t, s) ==
  \/ refcount'[s] = refcount[s] /\ Kept(t, s, {})
  \/ \E k \in Kind : refcount'[s] = refcount[s] + 1 /\ Gained(t, s, k) /\ Kept(t, s, {k})
  \/ \E k \in Kind : refcount'[s] = refcount[s] - 1 /\ Lost(t, s, k) /\ Kept(t, s, {k})
  \/ \E j, k \in Kind : /\ refcount'[s] = refcount[s] /\ j # k
                        /\ Lost(t, s, j) /\ Gained(t, s, k) /\ Kept(t, s, {j, k})

LEMMA TallyCounts ==
  ASSUME Typed, Typed', Counted, NEW t \in Thread, Frame(t), NEW s \in LockSet,
         Weight(s)' = Weight(s), Weight(s) \in Int, Tallied(t, s)
  PROVE  refcount'[s] = Weight(s)' + Cardinality(References(s)')
<1>1. refcount[s] = Weight(s) + Cardinality(References(s)) /\ refcount[s] \in Int
  BY DEF Counted, Typed
<1>2. Cardinality(References(s)) \in Nat
  BY FiniteCounts DEF References
<1>3. CASE refcount'[s] = refcount[s] /\ Kept(t, s, {})
  BY <1>1, <1>3, RefersKept
<1>4. CASE \E k \in Kind : refcount'[s] = refcount[s] + 1 /\ Gained(t, s, k) /\ Kept(t, s, {k})
  <2>1. Cardinality(References(s)') = Cardinality(References(s)) + 1
    BY <1>4, RefersGained
  <2> QED
    BY <1>1, <1>2, <1>4, <2>1
<1>5. CASE \E k \in Kind : refcount'[s] = refcount[s] - 1 /\ Lost(t, s, k) /\ Kept(t, s, {k})
  <2>1. Cardinality(References(s)') = Cardinality(References(s)) - 1
    BY <1>5, RefersLost
  <2> QED
    BY <1>1, <1>2, <1>5, <2>1
<1>6. CASE \E j, k \in Kind : /\ refcount'[s] = refcount[s] /\ j # k
                              /\ Lost(t, s, j) /\ Gained(t, s, k) /\ Kept(t, s, {j, k})
  <2>1. Cardinality(References(s)') = Cardinality(References(s))
    BY <1>6, RefersPassed
  <2> QED
    BY <1>1, <1>6, <2>1
<1> QED
  BY <1>3, <1>4, <1>5, <1>6 DEF Tallied

\* The weight of a set stays where t does not move records.
LEMMA OtherWeight ==
  ASSUME Typed, Typed', Threads, NEW t \in Thread, Frame(t), Moved(t), NEW s \in LockSet,
         ownerlocker[s] \in Thread, ownerlocker[s] # t
  PROVE  Weight(s)' = Weight(s)
<1>0. PICK u \in Thread : u = ownerlocker[s]
  OBVIOUS
<1>1. u # t /\ ownerlocker'[s] = u /\ SameLocals(u)
  BY <1>0, NoneFacts DEF Frame
<1>2. Records(s)' = Records(s)
  BY OwnedStays DEF Records
<1>3. /\ pc[u] \in {"split", "move", "merge"} => plockSet'[rec'[u]] = plockSet[rec[u]]
      /\ pc[u] \in {"move", "merge"} => Records(ls[u])' = Records(ls[u])
  BY <1>1, OtherBusy
<1>4. OweOf(u)' = OweOf(u)
  BY <1>1, <1>3 DEF OweOf, SameLocals
<1>5. pc[u] \notin {"move", "merge"} => OweOf(u) = 0
  BY DEF OweOf
<1>6. OwedBy(u, s)' = OwedBy(u, s)
  <2>1. CASE pc[u] \in {"move", "merge"}
    BY <1>1, <1>3, <1>4, <2>1 DEF OwedBy, SameLocals
  <2>2. CASE pc[u] \notin {"move", "merge"}
    <3>1. OweOf(u) = 0 /\ OweOf(u)' = 0
      BY <1>4, <1>5, <2>2
    <3> QED
      BY <3>1 DEF OwedBy
  <2> QED
    BY <2>1, <2>2
<1>7. Owed(s) = OwedBy(u, s)
  BY <1>0, OwedIs
<1>8. Owed(s)' = OwedBy(u, s)'
  <2>1. Owed(s)' = IF OweOf(u)' = 0 THEN 0 ELSE OwedBy(u, s)'
    BY <1>1, NoneFacts DEF Owed, OwedBy, OweOf
  <2>2. OweOf(u)' = 0 => OwedBy(u, s)' = 0
    BY NoneOwed DEF OwedBy
  <2> QED
    BY <2>1, <2>2
<1> QED
  BY <1>2, <1>6, <1>7, <1>8 DEF Weight

\* t owes nothing to its sets before and after
LEMMA OwnWeight ==
  ASSUME Typed, Typed', NEW t \in Thread, NEW s \in LockSet,
         ownerlocker[s] \in {None, t}, ownerlocker'[s] \in {None, t}, Records(s)' = Records(s),
         ownerlocker[s] = t => OweOf(t) = 0, ownerlocker'[s] = t => OweOf(t)' = 0
  PROVE  Weight(s)' = Weight(s)
<1>1. Owed(s) = 0
  BY NoneFacts DEF Owed, OweOf
<1>2. Owed(s)' = 0
  BY NoneFacts DEF Owed, OweOf
<1> QED
  BY <1>1, <1>2 DEF Weight

LEMMA QuietWeight ==
  ASSUME Typed, Typed', Threads, NEW t \in Thread, Frame(t), UNCHANGED plockSet,
         OweOf(t) = 0, OweOf(t)' = 0
  PROVE  \A s \in LockSet : Weight(s)' = Weight(s)
<1>1. Moved(t) /\ \A s : Records(s)' = Records(s)
  BY DEF Moved, Records
<1>2. ASSUME NEW s \in LockSet PROVE Weight(s)' = Weight(s)
  <2>1. CASE ownerlocker[s] \in Thread /\ ownerlocker[s] # t
    BY <1>1, <2>1, OtherWeight
  <2>2. CASE ownerlocker[s] \in {None, t}
    <3>1. ownerlocker'[s] \in {None, t}
      BY <2>2 DEF Frame
    <3> QED
      BY <1>1, <2>2, <3>1, OwnWeight
  <2> QED
    BY <2>1, <2>2 DEF Typed
<1> QED
  BY <1>2

\* the merges of the other threads
LEMMA OtherMerges ==
  ASSUME Typed, Typed', Threads, Counted, NEW t \in Thread, Frame(t), Moved(t), NEW u \in Thread, u # t, pc'[u] = "merge"
  PROVE  Cardinality(Records(plockSet[rec[u]])') + Cardinality(Records(ls[u])') > num'[u]
<1>1. SameLocals(u)
  BY DEF Frame
<1>2. pc[u] = "merge" /\ num'[u] = num[u]
  BY <1>1 DEF SameLocals
<1>3. Records(plockSet[rec[u]])' = Records(plockSet[rec[u]]) /\ Records(ls[u])' = Records(ls[u])
  BY <1>2, OtherBusy
<1> QED
  BY <1>2, <1>3 DEF Counted

\* Steps that leave records where they are and move none.
LEMMA QuietCounted ==
  ASSUME Typed, Typed', Threads, Counted, NEW t \in Thread, Frame(t), UNCHANGED plockSet,
         pc[t] \notin {"move", "merge"}, pc'[t] \notin {"move", "merge"},
         \A s \in LockSet : Tallied(t, s)
  PROVE  Counted'
<1>1. OweOf(t) = 0 /\ OweOf(t)' = 0 /\ Moved(t)
  BY DEF OweOf, Moved
<1>2. \A s \in LockSet : Weight(s)' = Weight(s)
  BY <1>1, QuietWeight
<1>3. \A s \in LockSet : Weight(s) \in Int
  BY WeightIs
<1>4. \A s \in LockSet : refcount'[s] = Weight(s)' + Cardinality(References(s)')
  BY <1>2, <1>3, TallyCounts
<1>5. \A u \in Thread : pc'[u] = "merge" => Cardinality(Records(plockSet[rec[u]])') + Cardinality(Records(ls[u])') > num'[u]
  BY <1>1, OtherMerges
<1> QED
  BY <1>4, <1>5 DEF Counted

\* What refers to a set keeps its count up.
LEMMA CountPositive ==
  ASSUME Typed, Threads, Counted, NEW s \in LockSet,
         Records(s) # {} \/ \E u \in Thread, k \in Kind : Refers(u, k, s)
  PROVE  refcount[s] \in Nat /\ refcount[s] >= 1
<1>1. refcount[s] \in Nat
  BY WeightIs
<1>2. \A u \in Thread, k \in Kind : Refers(u, k, s) => <<u, k>> \in References(s)
  BY DEF References
<1>3. refcount[s] # 0
  BY <1>2, ZeroCount
<1> QED
  BY <1>1, <1>3

-----------------------------------------------------------------------------
(* The free list *)

LEMMA OtherFreeing ==
  ASSUME NEW t \in Thread, Frame(t), NEW s, NEW u \in Thread, u # t
  PROVE  u \in Freeing(s)' <=> u \in Freeing(s)
<1>1. SameLocals(u)
  BY DEF Frame
<1> QED
  BY <1>1 DEF Freeing, SameLocals

LEMMA QuietRecycled ==
  ASSUME Recycled, NEW t \in Thread, Frame(t), UNCHANGED <<lockSetsFree, made>>,
         pc[t] # "free", pc'[t] # "free", \A s \in LockSet : refcount'[s] = 0 <=> refcount[s] = 0
  PROVE  Recycled'
<1>1. ASSUME NEW s \in LockSet PROVE Freeing(s)' = Freeing(s)
  BY OtherFreeing DEF Freeing
<1> QED
  BY <1>1 DEF Recycled, SetRecycled

\* A step that leaves links, records and the free list alone.
QuietStep(t) ==
  /\ UNCHANGED <<link, plockSet, lockSetsFree, made>>
  /\ pc[t] \notin {"split", "move", "merge", "free"}
  /\ pc'[t] \notin {"split", "move", "merge", "free", "relink"}
  /\ \A s \in LockSet : Tallied(t, s) /\ (refcount'[s] = 0 <=> refcount[s] = 0)

LEMMA QuietKeeps ==
  ASSUME Inv, Typed', NEW t \in Thread, Frame(t), QuietStep(t)
  PROVE  Linked' /\ Counted' /\ Recycled'
BY QuietLinked, QuietCounted, QuietRecycled DEF Inv, QuietStep

\* No reference changes hands.
LEMMA SameRefers ==
  ASSUME NEW t \in Thread, UNCHANGED <<refcount, ownerlocker>>, refs'[t] = refs[t],
         pc[t] # "decref", pc'[t] # "decref", ls'[t] = ls[t],
         (pc'[t] \in {"lock", "check"} \/ ret'[t] = "lock") <=> (pc[t] \in {"lock", "check"} \/ ret[t] = "lock")
  PROVE  \A s \in LockSet : Tallied(t, s) /\ (refcount'[s] = 0 <=> refcount[s] = 0)
<1>1. \A s, k : Refers(t, k, s)' <=> Refers(t, k, s)
  BY DEF Refers
<1> QED
  BY <1>1 DEF Tallied, Kept

\* Steps that count nothing.
LEMMA LockMutex_Quiet == ASSUME Inv, NEW t \in Thread, LockMutex(t) PROVE QuietStep(t)
<1>1. /\ pc[t] = "lock" /\ pc'[t] = "check"
      /\ UNCHANGED <<link, plockSet, refcount, ownerlocker, lockSetsFree, made, refs, ls, ret>>
  BY DEF LockMutex, passVars, callVars, Goto, Inv, Typed
<1> QED
  BY <1>1, SameRefers DEF QuietStep

LEMMA dbLockerPrepare_Quiet ==
  ASSUME Inv, NEW t \in Thread, NEW r, NEW q, dbLockerPrepare(t, r, q) PROVE QuietStep(t)
<1>1. /\ pc[t] = "idle" /\ pc'[t] = "pass"
      /\ UNCHANGED <<link, plockSet, refcount, ownerlocker, lockSetsFree, made, refs, ls, ret>>
  BY DEF dbLockerPrepare, setVars, callVars, Goto, Inv, Typed
<1> QED
  BY <1>1, SameRefers DEF QuietStep

LEMMA PassSkip_Quiet == ASSUME Inv, NEW t \in Thread, PassSkip(t) PROVE QuietStep(t)
<1>1. /\ pc[t] = "pass" /\ pc'[t] \in {"pass", "acquire", "held"}
      /\ UNCHANGED <<link, plockSet, refcount, ownerlocker, lockSetsFree, made, refs, ls, ret>>
  BY DEF PassSkip, PassEnd, setVars, passVars, callVars, Goto, Inv, Typed
<1> QED
  BY <1>1, SameRefers DEF QuietStep

LEMMA PassStart_Quiet == ASSUME Inv, NEW t \in Thread, PassStart(t) PROVE QuietStep(t)
<1>1. /\ pc[t] = "pass" /\ pc'[t] = "slot1"
      /\ UNCHANGED <<link, plockSet, refcount, ownerlocker, lockSetsFree, made, refs, ls, ret>>
  BY DEF PassStart, setVars, callVars, Goto, Inv, Typed
<1> QED
  BY <1>1, SameRefers DEF QuietStep

LEMMA SlotSame_Quiet == ASSUME Inv, NEW t \in Thread, NEW i \in Slot, SlotSame(t, i) PROVE QuietStep(t)
<1>1. /\ pc[t] \in {"slot1", "slot2"} /\ pc'[t] \in {"slot2", "pass", "acquire", "held"}
      /\ UNCHANGED <<link, plockSet, refcount, ownerlocker, lockSetsFree, made, refs, ls, ret>>
  BY DEF SlotSame, AtSlot, AfterSlot, PassEnd, setVars, callVars, Goto, Inv, Typed
<1> QED
  BY <1>1, SameRefers DEF QuietStep

LEMMA SlotCollide_Quiet == ASSUME Inv, NEW t \in Thread, NEW i \in Slot, SlotCollide(t, i) PROVE QuietStep(t)
<1>1. /\ pc[t] \in {"slot1", "slot2"} /\ pc'[t] = "unlockmany"
      /\ UNCHANGED <<link, plockSet, refcount, ownerlocker, lockSetsFree, made, refs, ls, ret>>
  BY DEF SlotCollide, AtSlot, setVars, callVars, Goto, Inv, Typed
<1> QED
  BY <1>1, SameRefers DEF QuietStep

LEMMA Acquired_Quiet == ASSUME Inv, NEW t \in Thread, Acquired(t) PROVE QuietStep(t)
<1>1. /\ pc[t] = "acquire" /\ pc'[t] = "pass"
      /\ UNCHANGED <<link, plockSet, refcount, ownerlocker, lockSetsFree, made, refs, ls, ret>>
  BY DEF Acquired, setVars, passVars, callVars, Goto, Inv, Typed
<1> QED
  BY <1>1, SameRefers DEF QuietStep

LEMMA UnlockEnd_Quiet == ASSUME Inv, NEW t \in Thread, UnlockEnd(t) PROVE QuietStep(t)
<1>1. /\ pc[t] = "unlockmany" /\ pc'[t] \in {"finalize", "pass"}
      /\ UNCHANGED <<link, plockSet, refcount, ownerlocker, lockSetsFree, made, refs, ls, ret>>
  BY DEF UnlockEnd, setVars, passVars, callVars, Goto, Inv, Typed
<1> QED
  BY <1>1, SameRefers DEF QuietStep

LEMMA PutEnd_Quiet == ASSUME Inv, NEW t \in Thread, PutEnd(t) PROVE QuietStep(t)
<1>1. /\ pc[t] \in {"held", "relink", "linked"} /\ pc'[t] = "unlockmany"
      /\ UNCHANGED <<link, plockSet, refcount, ownerlocker, lockSetsFree, made, refs, ls, ret>>
  BY DEF PutEnd, setVars, passVars, callVars, Goto, Inv, Typed
<1> QED
  BY <1>1, SameRefers DEF QuietStep

\* Steps that take, pass on or drop a reference.
LEMMA UsedStays ==
  ASSUME Typed, Threads, Counted, NEW s \in LockSet, refcount'[s] = refcount[s] + 1,
         Records(s) # {} \/ \E u \in Thread, k \in Kind : Refers(u, k, s)
  PROVE  refcount'[s] = 0 <=> refcount[s] = 0
<1>1. refcount[s] \in Nat /\ refcount[s] >= 1
  BY CountPositive
<1> QED
  BY <1>1

LEMMA dbScanLock_Quiet ==
  ASSUME Inv, NEW t \in Thread, NEW r \in Record, dbScanLock(t, r) PROVE QuietStep(t)
<1>1. /\ pc[t] = "idle" /\ pc'[t] = "lock" /\ ls'[t] = plockSet[r]
      /\ refcount' = [refcount EXCEPT ![plockSet[r]] = @ + 1]
      /\ UNCHANGED <<link, plockSet, ownerlocker, lockSetsFree, made, refs, ret, drop>>
  BY DEF dbScanLock, passVars, callVars, Goto, Inv, Typed
<1>2. ret[t] = "idle" /\ plockSet[r] \in LockSet /\ refcount \in [LockSet -> Int]
  BY <1>1 DEF Inv, Threads, ThreadInv, Positions, Calls, Typed
<1>3. ASSUME NEW s \in LockSet, s # plockSet[r] PROVE Tallied(t, s) /\ (refcount'[s] = 0 <=> refcount[s] = 0)
  <2>1. \A k : Refers(t, k, s)' <=> Refers(t, k, s)
    BY <1>1, <1>2, <1>3 DEF Refers
  <2>2. refcount'[s] = refcount[s]
    BY <1>1, <1>2, <1>3
  <2> QED
    BY <2>1, <2>2 DEF Tallied, Kept
<1>4. ASSUME NEW s \in LockSet, s = plockSet[r] PROVE Tallied(t, s) /\ (refcount'[s] = 0 <=> refcount[s] = 0)
  <2>1. Gained(t, s, "wait") /\ \A k \in Kind \ {"wait"} : Refers(t, k, s)' <=> Refers(t, k, s)
    BY <1>1, <1>2, <1>4 DEF Refers, Gained
  <2>2. refcount'[s] = refcount[s] + 1
    BY <1>1, <1>2, <1>4
  <2>3. Records(s) # {}
    BY <1>4 DEF Records
  <2>4. refcount'[s] = 0 <=> refcount[s] = 0
    BY <2>2, <2>3, UsedStays DEF Inv
  <2>5. "wait" \in Kind
    BY DEF Kind
  <2> QED
    BY <2>1, <2>2, <2>4, <2>5 DEF Tallied, Kept
<1> QED
  BY <1>1, <1>3, <1>4 DEF QuietStep

LEMMA CheckOK_Quiet == ASSUME Inv, NEW t \in Thread, CheckOK(t) PROVE QuietStep(t)
<1>1. /\ pc[t] = "check" /\ pc'[t] = "locked" /\ ls[t] = plockSet[rec[t]]
      /\ refcount' = [refcount EXCEPT ![ls[t]] = @ - 1]
      /\ UNCHANGED <<link, plockSet, ownerlocker, lockSetsFree, made, refs, ret, drop, ls>>
  BY DEF CheckOK, passVars, callVars, Goto, Inv, Typed
<1>2. ret[t] = "idle" /\ rec[t] \in Record /\ ls[t] \in LockSet /\ refcount \in [LockSet -> Int] /\ At(t) = "check"
  BY <1>1 DEF Inv, Threads, ThreadInv, Positions, Calls, Scanning, At, Typed
<1>3. ASSUME NEW s \in LockSet, s # ls[t] PROVE Tallied(t, s) /\ (refcount'[s] = 0 <=> refcount[s] = 0)
  <2>1. \A k : Refers(t, k, s)' <=> Refers(t, k, s)
    BY <1>1, <1>2, <1>3 DEF Refers
  <2>2. refcount'[s] = refcount[s]
    BY <1>1, <1>2, <1>3
  <2> QED
    BY <2>1, <2>2 DEF Tallied, Kept
<1>4. ASSUME NEW s \in LockSet, s = ls[t] PROVE Tallied(t, s) /\ (refcount'[s] = 0 <=> refcount[s] = 0)
  <2>1. Lost(t, s, "wait") /\ \A k \in Kind \ {"wait"} : Refers(t, k, s)' <=> Refers(t, k, s)
    BY <1>1, <1>2, <1>4 DEF Refers, Lost
  <2>2. refcount'[s] = refcount[s] - 1
    BY <1>1, <1>2, <1>4
  <2>3. "wait" \in Kind
    BY DEF Kind
  <2>4. refcount[s] >= 2
    <3>1. \A u \in Thread : ownerlocker[s] # u
      <4>1. mutex[s] = t
        BY <1>1, <1>4 DEF Inv, Threads, ThreadInv, Mutexes
      <4>2. ownerlocker[s] # t
        BY <1>2 DEF Inv, Threads, ThreadInv, Owning, Mutated, Verifying, Passing
      <4> QED
        BY <4>1, <4>2 DEF Inv, Threads, ThreadInv, Mutexes
    <3>2. Weight(s) \in Nat /\ Weight(s) # 0
      <4>1. Records(s) # {}
        BY <1>1, <1>2, <1>4 DEF Records
      <4> QED
        BY <3>1, <4>1, WeightIs DEF Inv
    <3>3. Cardinality(References(s)) \in Nat /\ Cardinality(References(s)) # 0
      <4>1. <<t, "wait">> \in References(s)
        BY <2>1, <2>3 DEF References, Lost
      <4> QED
        BY <4>1, FiniteCounts DEF References
    <3>4. refcount[s] = Weight(s) + Cardinality(References(s))
      BY DEF Inv, Counted
    <3> QED
      BY <3>2, <3>3, <3>4
  <2>5. refcount'[s] = 0 <=> refcount[s] = 0
    BY <1>2, <2>2, <2>4
  <2> QED
    BY <2>1, <2>2, <2>3, <2>5 DEF Tallied, Kept
<1> QED
  BY <1>1, <1>3, <1>4 DEF QuietStep

LEMMA CheckRetry_Quiet == ASSUME Inv, NEW t \in Thread, CheckRetry(t) PROVE QuietStep(t)
<1>0. PICK new, old : new = plockSet[rec[t]] /\ old = ls[t]
  OBVIOUS
<1>1. /\ pc[t] = "check" /\ pc'[t] = "decref" /\ old # new /\ ls'[t] = new /\ drop'[t] = old /\ ret'[t] = "lock"
      /\ refcount' = [refcount EXCEPT ![new] = @ + 1]
      /\ UNCHANGED <<link, plockSet, ownerlocker, lockSetsFree, made, refs>>
  BY <1>0 DEF CheckRetry, CallDecRef, passVars, Goto, Inv, Typed
<1>2. ret[t] = "idle" /\ rec[t] \in Record /\ new \in LockSet /\ old \in LockSet /\ refcount \in [LockSet -> Int]
  BY <1>0, <1>1 DEF Inv, Threads, ThreadInv, Positions, Calls, Scanning, At, Typed
<1>3. ASSUME NEW s \in LockSet, s # new, s # old PROVE Tallied(t, s) /\ (refcount'[s] = 0 <=> refcount[s] = 0)
  <2>1. \A k : Refers(t, k, s)' <=> Refers(t, k, s)
    BY <1>0, <1>1, <1>2, <1>3 DEF Refers
  <2>2. refcount'[s] = refcount[s]
    BY <1>1, <1>2, <1>3
  <2> QED
    BY <2>1, <2>2 DEF Tallied, Kept
<1>4. Tallied(t, new) /\ (refcount'[new] = 0 <=> refcount[new] = 0)
  <2>1. Gained(t, new, "wait") /\ \A k \in Kind \ {"wait"} : Refers(t, k, new)' <=> Refers(t, k, new)
    BY <1>0, <1>1, <1>2 DEF Refers, Gained
  <2>2. refcount'[new] = refcount[new] + 1
    BY <1>1, <1>2
  <2>3. Records(new) # {}
    BY <1>0, <1>2 DEF Records
  <2>4. refcount'[new] = 0 <=> refcount[new] = 0
    BY <1>2, <2>2, <2>3, UsedStays DEF Inv
  <2>5. "wait" \in Kind
    BY DEF Kind
  <2> QED
    BY <2>1, <2>2, <2>4, <2>5 DEF Tallied, Kept
<1>5. Tallied(t, old) /\ (refcount'[old] = 0 <=> refcount[old] = 0)
  <2>1. /\ Lost(t, old, "wait") /\ Gained(t, old, "drop")
        /\ \A k \in Kind \ {"wait", "drop"} : Refers(t, k, old)' <=> Refers(t, k, old)
    BY <1>0, <1>1, <1>2 DEF Refers, Gained, Lost
  <2>2. refcount'[old] = refcount[old]
    BY <1>1, <1>2
  <2>3. "wait" \in Kind /\ "drop" \in Kind /\ "wait" # "drop"
    BY DEF Kind
  <2> QED
    BY <2>1, <2>2, <2>3 DEF Tallied, Kept
<1> QED
  BY <1>1, <1>3, <1>4, <1>5 DEF QuietStep

LEMMA dbScanUnlock_Quiet == ASSUME Inv, NEW t \in Thread, dbScanUnlock(t) PROVE QuietStep(t)
<1>0. PICK x : x = plockSet[rec[t]]
  OBVIOUS
<1>1. /\ pc[t] = "locked" /\ pc'[t] = "decref" /\ ls'[t] = None /\ drop'[t] = x /\ ret'[t] = "idle"
      /\ refcount' = [refcount EXCEPT ![x] = @ + 1]
      /\ UNCHANGED <<link, plockSet, ownerlocker, lockSetsFree, made, refs>>
  BY <1>0 DEF dbScanUnlock, CallDecRef, Forget, passVars, Goto, Inv, Typed
<1>2. ret[t] = "idle" /\ rec[t] \in Record /\ x \in LockSet /\ refcount \in [LockSet -> Int]
  BY <1>0, <1>1 DEF Inv, Threads, ThreadInv, Positions, Calls, Scanning, At, Typed
<1>3. ASSUME NEW s \in LockSet, s # x PROVE Tallied(t, s) /\ (refcount'[s] = 0 <=> refcount[s] = 0)
  <2>1. \A k : Refers(t, k, s)' <=> Refers(t, k, s)
    BY <1>0, <1>1, <1>2, <1>3 DEF Refers
  <2>2. refcount'[s] = refcount[s]
    BY <1>1, <1>2, <1>3
  <2> QED
    BY <2>1, <2>2 DEF Tallied, Kept
<1>4. Tallied(t, x) /\ (refcount'[x] = 0 <=> refcount[x] = 0)
  <2>1. Gained(t, x, "drop") /\ \A k \in Kind \ {"drop"} : Refers(t, k, x)' <=> Refers(t, k, x)
    BY <1>0, <1>1, <1>2 DEF Refers, Gained
  <2>2. refcount'[x] = refcount[x] + 1
    BY <1>1, <1>2
  <2>3. Records(x) # {}
    BY <1>0, <1>2 DEF Records
  <2>4. refcount'[x] = 0 <=> refcount[x] = 0
    BY <1>2, <2>2, <2>3, UsedStays DEF Inv
  <2>5. "drop" \in Kind
    BY DEF Kind
  <2> QED
    BY <2>1, <2>2, <2>4, <2>5 DEF Tallied, Kept
<1> QED
  BY <1>1, <1>3, <1>4 DEF QuietStep

\* the entry of locker->refs that slot i is
Entry(i) == IF i = 1 THEN "slot1" ELSE "slot2"

LEMMA SlotExchange_Quiet == ASSUME Inv, NEW t \in Thread, NEW i \in Slot, SlotExchange(t, i) PROVE QuietStep(t)
<1>0. PICK new, old : new = plockSet[Plr(t, i)] /\ old = refs[t][i]
  OBVIOUS
<1>1. /\ AtSlot(t, i) /\ Plr(t, i) # None /\ mode[t] # "verify" /\ old # new
      /\ refs' = [refs EXCEPT ![t][i] = new] /\ refcount' = [refcount EXCEPT ![new] = @ + 1]
      /\ UNCHANGED <<link, plockSet, ownerlocker, lockSetsFree, made, ls>>
  BY <1>0 DEF SlotExchange
<1>2. \/ old = None /\ pc'[t] = AfterSlot(t, i) /\ ret'[t] = ret[t]
      \/ /\ old # None /\ pc'[t] = "decref" /\ drop'[t] = old /\ ret'[t] = AfterSlot(t, i)
  BY <1>0 DEF SlotExchange, CallDecRef, Goto, callVars, Inv, Typed
<1>3. pc[t] \in {"slot1", "slot2"} /\ i \in {1, 2}
  BY <1>1 DEF AtSlot, Slot
<1>4. /\ ret[t] = "idle" /\ mode[t] \in {"prepare", "many"} /\ rec[t] \in Record
  BY <1>1, <1>3 DEF Inv, Threads, ThreadInv, Positions, Calls, Passing, Many, At
<1>5. AfterSlot(t, i) \in {"slot2", "pass", "acquire"}
  BY <1>4 DEF AfterSlot, PassEnd
<1>6. Plr(t, i) \in Record /\ new \in LockSet /\ old \in LockSet \cup {None} /\ refcount \in [LockSet -> Int]
  BY <1>0, <1>1, <1>3, <1>4 DEF Plr, Inv, Typed
<1>7. refs'[t][i] = new /\ \A j \in Slot : j # i => refs'[t][j] = refs[t][j]
  BY <1>1 DEF Inv, Typed
<1>8. /\ Entry(i) \in Kind /\ Entry(i) # "drop" /\ "drop" \in Kind
      /\ \A s : Refers(t, Entry(i), s)  <=> refs[t][i] = s
      /\ \A s : Refers(t, Entry(i), s)' <=> refs'[t][i] = s
      /\ \A s : Refers(t, "drop", s) <=> drop[t] = s /\ pc[t] = "decref"
      /\ \A s : Refers(t, "drop", s)' <=> drop'[t] = s /\ pc'[t] = "decref"
  BY <1>3 DEF Entry, Kind, Refers
<1>9. \A s, k : k \in Kind \ {Entry(i), "drop"} => (Refers(t, k, s)' <=> Refers(t, k, s))
  <2>1. ~(pc[t] \in {"lock", "check"} \/ ret[t] = "lock") /\ ~(pc'[t] \in {"lock", "check"} \/ ret'[t] = "lock")
    BY <1>2, <1>3, <1>4, <1>5
  <2>2. 1 \in Slot /\ 2 \in Slot
    BY DEF Slot
  <2> QED
    BY <1>1, <1>3, <1>7, <2>1, <2>2 DEF Refers, Entry
<1>10. pc'[t] = "decref" => drop'[t] = old
  BY <1>2, <1>5
<1>11. old # None => pc'[t] = "decref"
  BY <1>2
<1>12. pc[t] # "decref"
  BY <1>3
<1>13. ASSUME NEW s \in LockSet, s # new, s # old PROVE Tallied(t, s) /\ (refcount'[s] = 0 <=> refcount[s] = 0)
  <2>1. \A k \in Kind : Refers(t, k, s)' <=> Refers(t, k, s)
    BY <1>0, <1>7, <1>8, <1>9, <1>10, <1>12, <1>13
  <2>2. refcount'[s] = refcount[s]
    BY <1>1, <1>6, <1>13
  <2> QED
    BY <2>1, <2>2 DEF Tallied, Kept
<1>14. Tallied(t, new) /\ (refcount'[new] = 0 <=> refcount[new] = 0)
  <2>1. Gained(t, new, Entry(i)) /\ \A k \in Kind \ {Entry(i)} : Refers(t, k, new)' <=> Refers(t, k, new)
    BY <1>0, <1>1, <1>7, <1>8, <1>9, <1>10, <1>12 DEF Gained
  <2>2. refcount'[new] = refcount[new] + 1
    BY <1>1, <1>6
  <2>3. Records(new) # {}
    BY <1>0, <1>6 DEF Records
  <2>4. refcount'[new] = 0 <=> refcount[new] = 0
    BY <1>6, <2>2, <2>3, UsedStays DEF Inv
  <2> QED
    BY <1>8, <2>1, <2>2, <2>4 DEF Tallied, Kept
<1>15. ASSUME NEW s \in LockSet, s = old PROVE Tallied(t, s) /\ (refcount'[s] = 0 <=> refcount[s] = 0)
  <2>1. Lost(t, s, Entry(i)) /\ Gained(t, s, "drop")
    BY <1>0, <1>1, <1>2, <1>7, <1>8, <1>12, <1>15, NoneFacts DEF Lost, Gained
  <2>2. \A k \in Kind \ {Entry(i), "drop"} : Refers(t, k, s)' <=> Refers(t, k, s)
    BY <1>9
  <2>3. refcount'[s] = refcount[s]
    BY <1>1, <1>6, <1>15
  <2> QED
    BY <1>8, <2>1, <2>2, <2>3 DEF Tallied, Kept
<1>16. pc'[t] \notin {"split", "move", "merge", "free", "relink"}
  BY <1>2, <1>5
<1> QED
  BY <1>1, <1>3, <1>13, <1>14, <1>15, <1>16 DEF QuietStep

LEMMA Acquire_Quiet == ASSUME Inv, NEW t \in Thread, Acquire(t) PROVE QuietStep(t)
<1>0. PICK x : x = Min(Todo(t))
  OBVIOUS
<1>1. /\ pc[t] = "acquire" /\ Todo(t) # {} /\ ownerlocker' = [ownerlocker EXCEPT ![x] = t]
      /\ refcount' = [refcount EXCEPT ![x] = @ + 1]
      /\ UNCHANGED <<link, plockSet, lockSetsFree, made, pc, refs, ret, drop, ls>>
  BY <1>0 DEF Acquire, passVars, callVars
<1>2. x \in LockSet /\ ownerlocker[x] # t /\ \E i \in Slot : refs[t][i] = x
  BY <1>0, <1>1, LowestTodo DEF Inv
<1>3. refcount \in [LockSet -> Int] /\ \A s \in LockSet : ownerlocker'[s] = IF s = x THEN t ELSE ownerlocker[s]
  BY <1>1, <1>2 DEF Inv, Typed
<1>4. "list" \in Kind /\ "slot1" \in Kind /\ "slot2" \in Kind
  BY DEF Kind
<1>5. ASSUME NEW s \in LockSet, s # x PROVE Tallied(t, s) /\ (refcount'[s] = 0 <=> refcount[s] = 0)
  <2>1. \A k : Refers(t, k, s)' <=> Refers(t, k, s)
    BY <1>1, <1>3, <1>5 DEF Refers
  <2>2. refcount'[s] = refcount[s]
    BY <1>1, <1>3, <1>5
  <2> QED
    BY <2>1, <2>2 DEF Tallied, Kept
<1>6. Tallied(t, x) /\ (refcount'[x] = 0 <=> refcount[x] = 0)
  <2>1. Gained(t, x, "list") /\ \A k \in Kind \ {"list"} : Refers(t, k, x)' <=> Refers(t, k, x)
    BY <1>1, <1>2, <1>3 DEF Refers, Gained
  <2>2. refcount'[x] = refcount[x] + 1
    BY <1>1, <1>2, <1>3
  <2>3. Refers(t, "slot1", x) \/ Refers(t, "slot2", x)
    BY <1>2 DEF Refers, Slot
  <2>4. refcount'[x] = 0 <=> refcount[x] = 0
    BY <1>2, <1>4, <2>2, <2>3, UsedStays DEF Inv
  <2> QED
    BY <1>4, <2>1, <2>2, <2>4 DEF Tallied, Kept
<1> QED
  BY <1>1, <1>5, <1>6 DEF QuietStep

LEMMA UnlockOne_Quiet == ASSUME Inv, NEW t \in Thread, UnlockOne(t) PROVE QuietStep(t)
<1>0. PICK x \in LockSet :
        /\ ownerlocker[x] = t /\ ownerlocker' = [ownerlocker EXCEPT ![x] = None]
        /\ pc'[t] = "decref" /\ drop'[t] = x /\ ret'[t] = "unlockmany"
  BY DEF UnlockOne, Locked, CallDecRef, Goto, Inv, Typed
<1>1. /\ pc[t] = "unlockmany" /\ UNCHANGED <<link, plockSet, refcount, lockSetsFree, made, refs, ls>>
  BY DEF UnlockOne, passVars
<1>2. /\ ret[t] = "idle" /\ \A s \in LockSet : ownerlocker'[s] = IF s = x THEN None ELSE ownerlocker[s]
  BY <1>0, <1>1 DEF Inv, Threads, ThreadInv, Positions, Calls, Typed
<1>3. ASSUME NEW s \in LockSet, s # x PROVE Tallied(t, s)
  <2>1. \A k : Refers(t, k, s)' <=> Refers(t, k, s)
    BY <1>0, <1>1, <1>2, <1>3 DEF Refers
  <2> QED
    BY <1>1, <2>1 DEF Tallied, Kept
<1>4. Tallied(t, x)
  <2>1. /\ Lost(t, x, "list") /\ Gained(t, x, "drop")
        /\ \A k \in Kind \ {"list", "drop"} : Refers(t, k, x)' <=> Refers(t, k, x)
    BY <1>0, <1>1, <1>2, NoneFacts DEF Refers, Gained, Lost
  <2>2. "list" \in Kind /\ "drop" \in Kind /\ "list" # "drop"
    BY DEF Kind
  <2> QED
    BY <1>1, <2>1, <2>2 DEF Tallied, Kept
<1> QED
  BY <1>0, <1>1, <1>3, <1>4 DEF QuietStep

LEMMA Finalize_Quiet == ASSUME Inv, NEW t \in Thread, Finalize(t) PROVE QuietStep(t)
<1>1. /\ pc[t] = "finalize" /\ UNCHANGED <<link, plockSet, refcount, ownerlocker, lockSetsFree, made>>
  BY DEF Finalize, setVars
<1>2. ret[t] = "idle"
  BY <1>1 DEF Inv, Threads, ThreadInv, Positions, Calls
<1>3. CASE Goto(t, "idle") /\ Forget(t) /\ UNCHANGED <<refs, callVars>>
  <2>1. pc'[t] = "idle" /\ UNCHANGED <<refs, drop, ret>>
    BY <1>3 DEF Goto, callVars, Inv, Typed
  <2>2. \A s, k : s \in LockSet => (Refers(t, k, s)' <=> Refers(t, k, s))
    BY <1>1, <1>2, <2>1 DEF Refers
  <2> QED
    BY <1>1, <2>1, <2>2 DEF QuietStep, Tallied, Kept
<1>4. ASSUME NEW i \in Slot, refs[t][i] # None, refs' = [refs EXCEPT ![t][i] = None],
             CallDecRef(t, refs[t][i], "finalize"), ls' = ls
      PROVE  QuietStep(t)
  <2>1. pc'[t] = "decref" /\ drop'[t] = refs[t][i] /\ ret'[t] = "finalize" /\ i \in {1, 2} /\ 1 \in Slot /\ 2 \in Slot
    BY <1>4 DEF CallDecRef, Goto, Inv, Typed, Slot
  <2>2. refs'[t][i] = None /\ \A j \in Slot : j # i => refs'[t][j] = refs[t][j]
    BY <1>4 DEF Inv, Typed
  <2>3. "drop" \in Kind /\ Entry(i) \in Kind /\ Entry(i) # "drop"
    BY DEF Kind, Entry
  <2>4. \A s \in LockSet, k \in Kind \ {Entry(i), "drop"} : Refers(t, k, s)' <=> Refers(t, k, s)
    BY <1>1, <1>2, <2>1, <2>2, <1>4 DEF Refers, Entry
  <2>5. \A s \in LockSet : /\ Refers(t, Entry(i), s) <=> refs[t][i] = s
                           /\ ~Refers(t, Entry(i), s)'
                           /\ ~Refers(t, "drop", s)
                           /\ Refers(t, "drop", s)' <=> refs[t][i] = s
    BY <1>1, <2>1, <2>2, NoneFacts DEF Refers, Entry
  <2>6. ASSUME NEW s \in LockSet, refs[t][i] # s PROVE Tallied(t, s)
    BY <1>1, <2>3, <2>4, <2>5, <2>6 DEF Tallied, Kept
  <2>7. ASSUME NEW s \in LockSet, refs[t][i] = s PROVE Tallied(t, s)
    <3>1. Lost(t, s, Entry(i)) /\ Gained(t, s, "drop") /\ Kept(t, s, {Entry(i), "drop"})
      BY <2>4, <2>5, <2>7 DEF Lost, Gained, Kept
    <3> QED
      BY <1>1, <2>3, <3>1 DEF Tallied
  <2> QED
    BY <1>1, <2>1, <2>6, <2>7 DEF QuietStep
<1> QED
  BY <1>3, <1>4 DEF Finalize

\* dbLockDecRef: whoever drops the last reference frees the set.
LEMMA DecRef_Sets ==
  ASSUME Inv, NEW t \in Thread, DecRef(t), Typed', Frame(t) PROVE Linked' /\ Counted' /\ Recycled'
<1>0. PICK x : x = drop[t]
  OBVIOUS
<1>1. /\ pc[t] = "decref" /\ refcount' = [refcount EXCEPT ![x] = @ - 1]
      /\ UNCHANGED <<link, plockSet, ownerlocker, lockSetsFree, made, refs, ls>>
  BY <1>0 DEF DecRef, passVars
<1>2. \/ refcount[x] - 1 = 0 /\ pc'[t] = "free" /\ drop'[t] = x /\ ret'[t] = ret[t]
      \/ refcount[x] - 1 # 0 /\ pc'[t] = ret[t] /\ drop'[t] = None /\ ret'[t] = "idle"
  BY <1>0 DEF DecRef, Return, Goto, callVars, Inv, Typed
<1>3. /\ x \in LockSet /\ refcount \in [LockSet -> Int]
      /\ ret[t] \in {"lock", "idle", "slot2", "pass", "acquire", "unlockmany", "finalize"}
  BY <1>0, <1>1 DEF Inv, Threads, ThreadInv, Positions, Calls, Typed
<1>4. "drop" \in Kind
  BY DEF Kind
<1>5. \A s \in LockSet : Tallied(t, s)
  <2>1. \A s, k : k \in Kind \ {"drop"} => (Refers(t, k, s)' <=> Refers(t, k, s))
    BY <1>1, <1>2, <1>3 DEF Refers
  <2>2. \A s \in LockSet : ~Refers(t, "drop", s)' /\ (Refers(t, "drop", s) <=> s = x)
    BY <1>0, <1>1, <1>2, <1>3 DEF Refers
  <2>3. ASSUME NEW s \in LockSet, s # x PROVE Tallied(t, s)
    BY <1>1, <1>3, <2>1, <2>2, <2>3 DEF Tallied, Kept
  <2>4. ASSUME NEW s \in LockSet, s = x PROVE Tallied(t, s)
    <3>1. Lost(t, s, "drop") /\ Kept(t, s, {"drop"}) /\ refcount'[s] = refcount[s] - 1
      BY <1>1, <1>3, <2>1, <2>2, <2>4 DEF Lost, Kept
    <3> QED
      BY <1>4, <3>1 DEF Tallied
  <2> QED
    BY <2>3, <2>4
<1>6. Linked'
  BY <1>1, <1>2, <1>3, QuietLinked DEF Inv
<1>7. Counted'
  BY <1>1, <1>2, <1>3, <1>5, QuietCounted DEF Inv
<1>8. Recycled'
  <2>1. refcount[x] \in Nat /\ refcount[x] >= 1
    <3>1. Refers(t, "drop", x)
      BY <1>0, <1>1 DEF Refers
    <3> QED
      BY <1>3, <1>4, <3>1, CountPositive DEF Inv
  <2>2. CASE refcount[x] - 1 # 0 /\ pc'[t] = ret[t]
    <3>1. \A s \in LockSet : refcount'[s] = 0 <=> refcount[s] = 0
      BY <1>1, <1>3, <2>1, <2>2
    <3> QED
      BY <1>1, <1>3, <2>2, <3>1, QuietRecycled DEF Inv
  <2>3. CASE refcount[x] - 1 = 0 /\ pc'[t] = "free" /\ drop'[t] = x
    <3>1. \A s \in LockSet : refcount'[s] = IF s = x THEN 0 ELSE refcount[s]
      BY <1>1, <1>3, <2>1, <2>3
    <3>2. x \in made /\ ~Contains(lockSetsFree, x) /\ Freeing(x) = {}
      BY <1>3, <2>1 DEF Inv, Recycled, SetRecycled
    <3>3. \A s \in LockSet : s # x => Freeing(s)' = Freeing(s)
      BY <1>1, <2>3, OtherFreeing DEF Freeing
    <3>4. Freeing(x)' = {t}
      BY <2>3, <3>2, OtherFreeing DEF Freeing
    <3>5. SetRecycled(x)'
      BY <1>1, <1>3, <3>1, <3>2, <3>4 DEF SetRecycled
    <3>6. \A s \in LockSet : s # x => SetRecycled(s)'
      BY <1>1, <3>1, <3>3 DEF SetRecycled, Inv, Recycled
    <3> QED
      BY <1>1, <3>5, <3>6 DEF Inv, Recycled
  <2> QED
    BY <1>2, <2>2, <2>3
<1> QED
  BY <1>6, <1>7, <1>8

LEMMA FreeSet_Sets ==
  ASSUME Inv, NEW t \in Thread, FreeSet(t), Typed', Frame(t) PROVE Linked' /\ Counted' /\ Recycled'
<1>0. PICK x : x = drop[t]
  OBVIOUS
<1>1. /\ pc[t] = "free" /\ lockSetsFree' = Append(lockSetsFree, x)
      /\ pc'[t] = ret[t] /\ drop'[t] = None /\ ret'[t] = "idle"
      /\ UNCHANGED <<link, plockSet, refcount, ownerlocker, made, refs, ls>>
  BY <1>0 DEF FreeSet, Return, Goto, passVars, Inv, Typed
<1>2. /\ x \in LockSet /\ lockSetsFree \in Seq(LockSet)
      /\ ret[t] \in {"lock", "idle", "slot2", "pass", "acquire", "unlockmany", "finalize"}
  BY <1>0, <1>1 DEF Inv, Threads, ThreadInv, Positions, Calls, Typed
<1>3. \A s \in LockSet : Tallied(t, s)
  <2>1. \A s, k : s \in LockSet => (Refers(t, k, s)' <=> Refers(t, k, s))
    BY <1>1, <1>2 DEF Refers
  <2> QED
    BY <1>1, <2>1 DEF Tallied, Kept
<1>4. Linked'
  BY <1>1, <1>2, QuietLinked DEF Inv
<1>5. Counted'
  BY <1>1, <1>2, <1>3, QuietCounted DEF Inv
<1>6. Recycled'
  <2>1. t \in Freeing(x) /\ SetRecycled(x)
    BY <1>0, <1>1, <1>2 DEF Freeing, Inv, Recycled
  <2>2. x \in made /\ ~Contains(lockSetsFree, x) /\ refcount[x] = 0 /\ \A u \in Freeing(x) : u = t
    BY <2>1 DEF SetRecycled
  <2>3. /\ IsInjective(lockSetsFree')
        /\ \A s : Contains(lockSetsFree', s) <=> Contains(lockSetsFree, s) \/ s = x
    BY <1>1, <1>2, <2>2, ListAdd DEF Inv, Recycled
  <2>4. \A s \in LockSet : s # x => Freeing(s)' = Freeing(s)
    <3>1. \A s \in LockSet : s # x => t \notin Freeing(s) /\ t \notin Freeing(s)'
      BY <1>0, <1>1, <1>2 DEF Freeing
    <3>2. \A s \in LockSet : \A u \in Thread \ {t} : u \in Freeing(s)' <=> u \in Freeing(s)
      BY OtherFreeing
    <3>3. \A s : Freeing(s) \subseteq Thread /\ Freeing(s)' \subseteq Thread
      BY DEF Freeing
    <3> QED
      BY <3>1, <3>2, <3>3
  <2>5. Freeing(x)' = {}
    <3>1. t \notin Freeing(x)'
      BY <1>1, <1>2 DEF Freeing
    <3>2. \A u \in Thread \ {t} : u \notin Freeing(x)'
      BY <2>2, OtherFreeing
    <3> QED
      BY <3>1, <3>2 DEF Freeing
  <2>6. SetRecycled(x)'
    BY <1>1, <2>2, <2>3, <2>5 DEF SetRecycled
  <2>7. \A s \in LockSet : s # x => SetRecycled(s)'
    BY <1>1, <2>3, <2>4 DEF SetRecycled, Inv, Recycled
  <2> QED
    BY <2>3, <2>6, <2>7 DEF Recycled
<1> QED
  BY <1>4, <1>5, <1>6

LEMMA RemoveLink_Sets ==
  ASSUME Inv, NEW t \in Thread, RemoveLink(t), Typed', Frame(t) PROVE Linked' /\ Counted' /\ Recycled'
<1>1. /\ pc[t] = "held" /\ pc'[t] \in {"relink", "split"}
      /\ UNCHANGED <<plockSet, refcount, ownerlocker, lockSetsFree, made, refs, ls, ret>>
  BY DEF RemoveLink, setVars, passVars, callVars, Goto, Inv, Typed
<1>2. \A s \in LockSet : Tallied(t, s) /\ (refcount'[s] = 0 <=> refcount[s] = 0)
  BY <1>1, SameRefers
<1> QED
  BY <1>1, <1>2, RemoveLink_Linked, QuietCounted, QuietRecycled DEF Inv

LEMMA MakeSet_Sets ==
  ASSUME Inv, NEW t \in Thread, MakeSet(t), Typed', Frame(t) PROVE Linked' /\ Counted' /\ Recycled'
<1>0. PICK x \in LockSet :
        /\ \/ /\ lockSetsFree # <<>> /\ x = Head(lockSetsFree)
              /\ lockSetsFree' = Tail(lockSetsFree) /\ UNCHANGED made
           \/ /\ lockSetsFree = <<>> /\ x \notin made
              /\ made' = made \cup {x} /\ UNCHANGED lockSetsFree
        /\ ownerlocker' = [ownerlocker EXCEPT ![x] = t] /\ refcount' = [refcount EXCEPT ![x] = @ + 1]
        /\ ls'[t] = x
  BY ZenonT(60) DEF MakeSet, Inv, Typed
<1>1. /\ pc[t] = "split" /\ pc'[t] = "move"
      /\ UNCHANGED <<link, plockSet, refs, rec, drop, ret, num>>
  BY DEF MakeSet, Goto, passVars, argVars, callVars, moveVars, Inv, Typed
<1>2. /\ refcount \in [LockSet -> Int] /\ lockSetsFree \in Seq(LockSet) /\ ret[t] = "idle"
      /\ \A s \in LockSet : ownerlocker'[s] = IF s = x THEN t ELSE ownerlocker[s]
  BY <1>0, <1>1 DEF Inv, Typed, Threads, ThreadInv, Positions, Calls
<1>3. x \notin made \/ Contains(lockSetsFree, x)
  BY <1>0, <1>2, ListGet
<1>4. \A s \in LockSet : s \notin made \/ Contains(lockSetsFree, s) => refcount[s] = 0
  BY DEF Inv, Recycled, SetRecycled
<1>5. \A s \in LockSet : s \notin made \/ Contains(lockSetsFree, s) => Records(s) = {}
  BY <1>4, ZeroCount DEF Inv
<1>6. Linked'
  BY <1>5, MakeSet_Linked DEF Inv
<1>7. refcount[x] = 0 /\ Records(x) = {} /\ ownerlocker[x] = None /\ References(x) = {}
  BY <1>3, <1>4, ZeroCount DEF Inv
<1>8. "list" \in Kind
  BY DEF Kind
<1>9. ASSUME NEW s \in LockSet PROVE Tallied(t, s)
  <2>1. CASE s # x
    <3>1. \A k : Refers(t, k, s)' <=> Refers(t, k, s)
      BY <1>1, <1>2, <2>1 DEF Refers
    <3> QED
      BY <1>0, <1>2, <2>1, <3>1 DEF Tallied, Kept
  <2>2. CASE s = x
    <3>1. Gained(t, s, "list") /\ \A k \in Kind \ {"list"} : Refers(t, k, s)' <=> Refers(t, k, s)
      BY <1>1, <1>2, <1>7, <2>2, NoneFacts DEF Refers, Gained
    <3>2. refcount'[s] = refcount[s] + 1
      BY <1>0, <1>2, <2>2
    <3> QED
      BY <1>8, <3>1, <3>2 DEF Tallied, Kept
  <2> QED
    BY <2>1, <2>2
<1>10. Counted'
  <2>1. OweOf(t) = 0
    BY <1>1 DEF OweOf
  <2>2. OweOf(t)' = 0
    <3>1. Records(ls[t])' = {}
      BY <1>0, <1>1, <1>7 DEF Records
    <3> QED
      BY <1>1, <3>1, FS_EmptySet DEF OweOf
  <2>3. \A s \in LockSet : Weight(s)' = Weight(s)
    BY <1>1, <2>1, <2>2, QuietWeight DEF Inv
  <2>4. \A s \in LockSet : Weight(s) \in Int
    BY WeightIs DEF Inv
  <2>5. \A s \in LockSet : refcount'[s] = Weight(s)' + Cardinality(References(s)')
    BY <1>9, <2>3, <2>4, TallyCounts DEF Inv
  <2>6. Moved(t)
    BY <1>1 DEF Moved
  <2>7. \A u \in Thread : pc'[u] = "merge" => Cardinality(Records(plockSet[rec[u]])') + Cardinality(Records(ls[u])') > num'[u]
    BY <1>1, <2>6, OtherMerges DEF Inv
  <2> QED
    BY <2>5, <2>7 DEF Counted
<1>11. Recycled'
  <2>1. \A s \in LockSet : Freeing(s)' = Freeing(s)
    BY <1>1, OtherFreeing DEF Freeing
  <2>2. /\ IsInjective(lockSetsFree') /\ x \in made' /\ ~Contains(lockSetsFree', x)
        /\ \A s \in LockSet : s # x => /\ Contains(lockSetsFree', s) <=> Contains(lockSetsFree, s)
                                       /\ s \in made' <=> s \in made
    <3>1. IsInjective(lockSetsFree) /\ SetRecycled(x)
      BY DEF Inv, Recycled
    <3>2. Contains(lockSetsFree, x) => x \in made
      BY <3>1 DEF SetRecycled
    <3>3. CASE lockSetsFree # <<>> /\ x = Head(lockSetsFree) /\ lockSetsFree' = Tail(lockSetsFree) /\ UNCHANGED made
      BY <1>2, <3>1, <3>2, <3>3, ListGet
    <3>4. CASE lockSetsFree = <<>> /\ x \notin made /\ made' = made \cup {x} /\ UNCHANGED lockSetsFree
      BY <3>1, <3>2, <3>4
    <3> QED
      BY <1>0, <3>3, <3>4
  <2>3. Freeing(x) = {}
    <3>1. SetRecycled(x)
      BY DEF Inv, Recycled
    <3> QED
      BY <1>3, <3>1 DEF SetRecycled
  <2>4. SetRecycled(x)'
    <3>1. refcount'[x] = 1
      BY <1>0, <1>2, <1>7
    <3> QED
      BY <2>1, <2>2, <2>3, <3>1 DEF SetRecycled
  <2>5. \A s \in LockSet : s # x => SetRecycled(s)'
    <3>1. \A s \in LockSet : s # x => refcount'[s] = refcount[s]
      BY <1>0, <1>2
    <3> QED
      BY <2>1, <2>2, <3>1 DEF SetRecycled, Inv, Recycled
  <2> QED
    BY <2>2, <2>4, <2>5 DEF Recycled
<1> QED
  BY <1>6, <1>10, <1>11

\* The weight of the sets between which t moves records, in the middle of it.
LEMMA MoverWeight ==
  ASSUME Typed, Threads, NEW t \in Thread, pc[t] \in {"move", "merge"}
  PROVE  /\ Weight(plockSet[rec[t]]) = Cardinality(Records(plockSet[rec[t]])) + OweOf(t)
         /\ Weight(ls[t]) = Cardinality(Records(ls[t])) - OweOf(t)
         /\ \A s \in LockSet : ownerlocker[s] = t /\ s # plockSet[rec[t]] /\ s # ls[t] => Weight(s) = Cardinality(Records(s))
         /\ OweOf(t) = IF pc[t] = "move" THEN Cardinality(Records(ls[t])) ELSE Cardinality(Records(ls[t])) - num[t]
         /\ OweOf(t) \in Int
<1>1. /\ plockSet[rec[t]] \in LockSet /\ ownerlocker[plockSet[rec[t]]] = t
      /\ ls[t] \in LockSet /\ ownerlocker[ls[t]] = t /\ ls[t] # plockSet[rec[t]]
  <2>1. ThreadInv(t)
    BY DEF Threads
  <2> QED
    BY <2>1, MutatedFacts DEF Mutated, ThreadInv, Moves
<1>2. OweOf(t) \in Int /\ \A s \in LockSet : ownerlocker[s] = t => Owed(s) = OwedBy(t, s)
  BY <1>1, OwedIs
<1>3. \A s : Cardinality(Records(s)) \in Nat
  BY FiniteCounts DEF Records
<1>4. Weight(plockSet[rec[t]]) = Cardinality(Records(plockSet[rec[t]])) + OweOf(t)
  BY <1>1, <1>2 DEF Weight, OwedBy
<1>5. Weight(ls[t]) = Cardinality(Records(ls[t])) - OweOf(t)
  <2>1. Weight(ls[t]) = Cardinality(Records(ls[t])) + (- OweOf(t))
    BY <1>1, <1>2 DEF Weight, OwedBy
  <2>2. \A a, b \in Int : a + (-b) = a - b
    OBVIOUS
  <2> QED
    BY <1>2, <1>3, <2>1, <2>2
<1>6. \A s \in LockSet : ownerlocker[s] = t /\ s # plockSet[rec[t]] /\ s # ls[t] => Weight(s) = Cardinality(Records(s))
  BY <1>2, <1>3 DEF Weight, OwedBy
<1>7. OweOf(t) = IF pc[t] = "move" THEN Cardinality(Records(ls[t])) ELSE Cardinality(Records(ls[t])) - num[t]
  BY DEF OweOf
<1> QED
  BY <1>2, <1>4, <1>5, <1>6, <1>7

\* the same in the next state
LEMMA MoverWeightNext ==
  ASSUME Typed', Threads', NEW t \in Thread, pc'[t] \in {"move", "merge"}
  PROVE  /\ Weight(plockSet[rec[t]])' = Cardinality(Records(plockSet[rec[t]])') + OweOf(t)'
         /\ Weight(ls[t])' = Cardinality(Records(ls[t])') - OweOf(t)'
         /\ \A s \in LockSet : ownerlocker'[s] = t /\ s # plockSet'[rec'[t]] /\ s # ls'[t] =>
              Weight(s)' = Cardinality(Records(s)')
         /\ OweOf(t)' = IF pc'[t] = "move" THEN Cardinality(Records(ls[t])') ELSE Cardinality(Records(ls[t])') - num'[t]
         /\ OweOf(t)' \in Int
<1>1. /\ plockSet'[rec'[t]] \in LockSet /\ ownerlocker'[plockSet'[rec'[t]]] = t
      /\ ls'[t] \in LockSet /\ ownerlocker'[ls'[t]] = t /\ ls'[t] # plockSet'[rec'[t]]
  <2>1. ThreadInv(t)'
    BY DEF Threads
  <2>2. At(t)' = pc'[t] /\ pc'[t] \in Mutated
    BY DEF At, Calls, Mutated
  <2>3. rec'[t] \in Record
    BY <2>1, <2>2 DEF ThreadInv, Positions, Many
  <2>4. ownerlocker'[plockSet'[rec'[t]]] = t
    BY <2>1, <2>2 DEF ThreadInv, Owning
  <2> QED
    BY <2>1, <2>3, <2>4 DEF ThreadInv, Moves, Typed
<1>3. \A s : Cardinality(Records(s)') \in Nat
  BY FiniteCounts DEF Records
<1>7. OweOf(t)' = IF pc'[t] = "move" THEN Cardinality(Records(ls[t])') ELSE Cardinality(Records(ls[t])') - num'[t]
  BY DEF OweOf
<1>a. OweOf(t)' \in Int
  <2>1. num'[t] \in Nat
    BY DEF Typed
  <2> QED
    BY <1>3, <1>7, <2>1
<1>b. ASSUME NEW s \in LockSet, ownerlocker'[s] = t PROVE Owed(s)' = OwedBy(t, s)'
  <2>1. Owed(s)' = IF OweOf(t)' = 0 THEN 0 ELSE OwedBy(t, s)'
    BY <1>b, NoneFacts DEF Owed, OwedBy, OweOf
  <2>2. OweOf(t)' = 0 => OwedBy(t, s)' = 0
    BY NoneOwed DEF OwedBy
  <2> QED
    BY <2>1, <2>2
<1>4. Weight(plockSet[rec[t]])' = Cardinality(Records(plockSet[rec[t]])') + OweOf(t)'
  <2>1. Owed(plockSet[rec[t]])' = OwedBy(t, plockSet[rec[t]])'
    BY <1>1, <1>b
  <2> QED
    BY <2>1 DEF Weight, OwedBy
<1>5. Weight(ls[t])' = Cardinality(Records(ls[t])') - OweOf(t)'
  <2>1. Weight(ls[t])' = Cardinality(Records(ls[t])') + (- OweOf(t)')
    <3>1. Owed(ls[t])' = OwedBy(t, ls[t])'
      BY <1>1, <1>b
    <3> QED
      BY <1>1, <3>1 DEF Weight, OwedBy
  <2>2. \A a, b \in Int : a + (-b) = a - b
    OBVIOUS
  <2>3. Cardinality(Records(ls[t])') \in Int
    BY <1>3
  <2> QED
    BY <1>a, <2>1, <2>2, <2>3
<1>6. \A s \in LockSet : ownerlocker'[s] = t /\ s # plockSet'[rec'[t]] /\ s # ls'[t] =>
        Weight(s)' = Cardinality(Records(s)')
  BY <1>3, <1>b DEF Weight, OwedBy
<1> QED
  BY <1>a, <1>4, <1>5, <1>6, <1>7

\* a set that t has locked and is not moving records of
LEMMA CalmWeight ==
  ASSUME NEW s \in LockSet, ownerlocker[s] = None \/ (ownerlocker[s] \in Thread /\ pc[ownerlocker[s]] \notin {"move", "merge"})
  PROVE  Weight(s) = Cardinality(Records(s))
<1>1. Owed(s) = 0
  BY DEF Owed
<1>2. Cardinality(Records(s)) \in Nat
  BY FiniteCounts DEF Records
<1> QED
  BY <1>1, <1>2 DEF Weight

LEMMA CalmWeightNext ==
  ASSUME NEW s \in LockSet, ownerlocker'[s] = None \/ (ownerlocker'[s] \in Thread /\ pc'[ownerlocker'[s]] \notin {"move", "merge"})
  PROVE  Weight(s)' = Cardinality(Records(s)')
<1>1. Owed(s)' = 0
  BY DEF Owed
<1>2. Cardinality(Records(s)') \in Nat
  BY FiniteCounts DEF Records
<1> QED
  BY <1>1, <1>2 DEF Weight

\* Sets with which t is not busy keep their weight.
LEMMA RestWeight ==
  ASSUME Typed, Typed', Threads, Threads', NEW t \in Thread, Frame(t), Moved(t), NEW s \in LockSet,
         ~BusyWith(t, s), ~BusyWith(t, s)', {x \in Record : plockSet'[x] = s} = Records(s)
  PROVE  Weight(s)' = Weight(s)
<1>1. Records(s)' = Records(s)
  BY DEF Records
<1>2. CASE ownerlocker[s] \in Thread /\ ownerlocker[s] # t
  BY <1>2, OtherWeight
<1>3. CASE ownerlocker[s] \in {None, t}
  <2>1. ownerlocker'[s] \in {None, t}
    BY <1>3 DEF Frame
  <2>2. Weight(s) = Cardinality(Records(s))
    <3>1. CASE ownerlocker[s] = t /\ pc[t] \in {"move", "merge"}
      BY <3>1, MoverWeight DEF BusyWith
    <3>2. CASE ownerlocker[s] = None \/ pc[t] \notin {"move", "merge"}
      BY <1>3, <3>2, CalmWeight
    <3> QED
      BY <1>3, <3>1, <3>2
  <2>3. Weight(s)' = Cardinality(Records(s)')
    <3>1. CASE ownerlocker'[s] = t /\ pc'[t] \in {"move", "merge"}
      BY <3>1, MoverWeightNext DEF BusyWith
    <3>2. CASE ownerlocker'[s] = None \/ pc'[t] \notin {"move", "merge"}
      BY <2>1, <3>2, CalmWeightNext
    <3> QED
      BY <2>1, <3>1, <3>2
  <2> QED
    BY <1>1, <2>2, <2>3
<1> QED
  BY <1>2, <1>3 DEF Typed

LEMMA OneLess ==
  ASSUME NEW P \in SUBSET Record, NEW r \in P
  PROVE  Cardinality(P \ {r}) = Cardinality(P) - 1
<1>1. IsFiniteSet(P)
  BY FiniteCounts
<1> QED
  BY <1>1, FS_RemoveElement

LEMMA OneMore ==
  ASSUME NEW P \in SUBSET Record, NEW r \in Record, r \notin P
  PROVE  Cardinality(P \cup {r}) = Cardinality(P) + 1
<1>1. IsFiniteSet(P)
  BY FiniteCounts
<1> QED
  BY <1>1, FS_AddElement

LEMMA SplitMove_Sets ==
  ASSUME Inv, NEW t \in Thread, SplitMove(t), Typed', Threads', Frame(t) PROVE Linked' /\ Counted' /\ Recycled'
<1>0. PICK r \in moving[t] : plockSet' = [plockSet EXCEPT ![r] = ls[t]]
  BY DEF SplitMove, MoveRecord
<1>1. pc[t] = "move" /\ UNCHANGED <<link, pc, rec, ls, ownerlocker, refcount, lockSetsFree, made, refs, drop, ret, num>>
  BY DEF SplitMove, setVars, argVars, callVars
<1>2. PICK A, B : A = plockSet[rec[t]] /\ B = ls[t]
  OBVIOUS
<1>3. /\ rec[t] \in Record /\ rec[t] # r /\ r \in Record /\ plockSet[r] = A /\ r \in Records(A)
      /\ A # B /\ A \in LockSet /\ B \in LockSet /\ ownerlocker[A] = t /\ ownerlocker[B] = t
  <2>1. ThreadInv(t)
    BY DEF Threads, Inv
  <2>2. rec[t] \in Record /\ A \in LockSet /\ ownerlocker[A] = t
    BY <1>1, <1>2, <2>1, MutatedFacts DEF Mutated, Inv
  <2> QED
    BY <1>1, <1>2, <2>1, <2>2 DEF ThreadInv, Moves, Records
<1>4. \A x \in Record : plockSet'[x] = IF x = r THEN B ELSE plockSet[x]
  BY <1>0, <1>2, <1>3 DEF Typed, Inv
<1>5. plockSet'[rec'[t]] = A /\ ls'[t] = B
  BY <1>1, <1>2, <1>3, <1>4
<1>6. /\ Records(A)' = Records(A) \ {r} /\ Records(B)' = Records(B) \cup {r}
      /\ \A s \in LockSet : s # A /\ s # B => {x \in Record : plockSet'[x] = s} = Records(s)
  BY <1>3, <1>4 DEF Records
<1>7. Moved(t)
  BY <1>1, <1>3, <1>4 DEF Moved
<1>8. PICK a, b : a = Cardinality(Records(A)) /\ b = Cardinality(Records(B))
  OBVIOUS
<1>9. a \in Nat /\ b \in Nat /\ Cardinality(Records(A)') = a - 1 /\ Cardinality(Records(B)') = b + 1
  <2>1. a \in Nat /\ b \in Nat
    BY <1>8, FiniteCounts DEF Records
  <2>2. Records(A) \in SUBSET Record /\ Records(B) \in SUBSET Record /\ r \notin Records(B)
    BY <1>3 DEF Records
  <2> QED
    BY <1>3, <1>6, <1>8, <2>1, <2>2, OneLess, OneMore
<1>10. Weight(A) = a + b /\ Weight(B) = b - b
  BY <1>1, <1>2, <1>8, MoverWeight DEF Inv
<1>11. Weight(A)' = (a - 1) + (b + 1) /\ Weight(B)' = (b + 1) - (b + 1)
  <2>1. Weight(plockSet[rec[t]])' = Weight(A)' /\ Weight(ls[t])' = Weight(B)'
    BY <1>5
  <2>2. Records(plockSet[rec[t]])' = Records(A)' /\ Records(ls[t])' = Records(B)'
    BY <1>5
  <2> QED
    BY <1>1, <1>9, <2>1, <2>2, MoverWeightNext
<1>12. \A s \in LockSet : Weight(s)' = Weight(s)
  <2>1. Weight(A)' = Weight(A) /\ Weight(B)' = Weight(B)
    BY <1>9, <1>10, <1>11
  <2>2. \A s \in LockSet : s # A /\ s # B => ~BusyWith(t, s) /\ ~BusyWith(t, s)'
    BY <1>2, <1>5 DEF BusyWith
  <2> QED
    BY <1>6, <1>7, <2>1, <2>2, RestWeight DEF Inv
<1>13. \A s \in LockSet : Tallied(t, s) /\ (refcount'[s] = 0 <=> refcount[s] = 0)
  BY <1>1, SameRefers
<1>14. Counted'
  <2>1. \A s \in LockSet : Weight(s) \in Int
    BY WeightIs DEF Inv
  <2>2. \A s \in LockSet : refcount'[s] = Weight(s)' + Cardinality(References(s)')
    BY <1>12, <1>13, <2>1, TallyCounts DEF Inv
  <2>3. \A u \in Thread : pc'[u] = "merge" => Cardinality(Records(plockSet[rec[u]])') + Cardinality(Records(ls[u])') > num'[u]
    BY <1>1, <1>7, OtherMerges DEF Inv
  <2> QED
    BY <2>2, <2>3 DEF Counted
<1>15. Linked' /\ Recycled'
  BY <1>1, <1>13, SplitMove_Linked, QuietRecycled DEF Inv
<1> QED
  BY <1>14, <1>15

LEMMA MergeMove_Sets ==
  ASSUME Inv, NEW t \in Thread, MergeMove(t), Typed', Threads', Frame(t) PROVE Linked' /\ Counted' /\ Recycled'
<1>0. PICK r \in Records(ls[t]) : plockSet' = [plockSet EXCEPT ![r] = plockSet[rec[t]]]
  BY DEF MergeMove, MoveRecord
<1>1. pc[t] = "merge" /\ UNCHANGED <<link, pc, rec, ls, ownerlocker, refcount, lockSetsFree, made, refs, drop, ret, num>>
  BY DEF MergeMove, setVars, argVars, callVars, moveVars
<1>2. PICK A, B : A = plockSet[rec[t]] /\ B = ls[t]
  OBVIOUS
<1>3. /\ rec[t] \in Record /\ r \in Record /\ plockSet[r] = B /\ r \in Records(B)
      /\ A # B /\ A \in LockSet /\ B \in LockSet /\ ownerlocker[A] = t /\ ownerlocker[B] = t
  <2>1. ThreadInv(t)
    BY DEF Threads, Inv
  <2>2. rec[t] \in Record /\ A \in LockSet /\ ownerlocker[A] = t
    BY <1>1, <1>2, <2>1, MutatedFacts DEF Mutated, Inv
  <2> QED
    BY <1>1, <1>2, <2>1, <2>2 DEF ThreadInv, Moves, Records
<1>4. \A x \in Record : plockSet'[x] = IF x = r THEN A ELSE plockSet[x]
  BY <1>0, <1>2, <1>3 DEF Typed, Inv
<1>5. plockSet'[rec'[t]] = A /\ ls'[t] = B
  BY <1>1, <1>2, <1>3, <1>4
<1>6. /\ Records(A)' = Records(A) \cup {r} /\ Records(B)' = Records(B) \ {r}
      /\ \A s \in LockSet : s # A /\ s # B => {x \in Record : plockSet'[x] = s} = Records(s)
  BY <1>3, <1>4 DEF Records
<1>7. Moved(t)
  BY <1>1, <1>3, <1>4 DEF Moved
<1>8. PICK a, b, n : a = Cardinality(Records(A)) /\ b = Cardinality(Records(B)) /\ n = num[t]
  OBVIOUS
<1>9. /\ a \in Nat /\ b \in Nat /\ n \in Nat
      /\ Cardinality(Records(A)') = a + 1 /\ Cardinality(Records(B)') = b - 1
  <2>1. a \in Nat /\ b \in Nat /\ n \in Nat
    BY <1>8, FiniteCounts DEF Records, Inv, Typed
  <2>2. Records(A) \in SUBSET Record /\ Records(B) \in SUBSET Record /\ r \notin Records(A)
    BY <1>3 DEF Records
  <2> QED
    BY <1>3, <1>6, <1>8, <2>1, <2>2, OneLess, OneMore
<1>10. Weight(A) = a + (b - n) /\ Weight(B) = b - (b - n)
  BY <1>1, <1>2, <1>8, MoverWeight DEF Inv
<1>a. Weight(plockSet[rec[t]])' = Weight(A)' /\ Weight(ls[t])' = Weight(B)'
  BY <1>5
<1>b. Records(plockSet[rec[t]])' = Records(A)' /\ Records(ls[t])' = Records(B)'
  BY <1>5
<1>11. Weight(A)' = (a + 1) + ((b - 1) - n) /\ Weight(B)' = (b - 1) - ((b - 1) - n)
  <2>1. num'[t] = n
    BY <1>1, <1>8
  <2> QED
    BY <1>1, <1>9, <1>a, <1>b, <2>1, MoverWeightNext
<1>12. \A s \in LockSet : Weight(s)' = Weight(s)
  <2>1. Weight(A)' = Weight(A) /\ Weight(B)' = Weight(B)
    BY <1>9, <1>10, <1>11
  <2>2. \A s \in LockSet : s # A /\ s # B => ~BusyWith(t, s) /\ ~BusyWith(t, s)'
    BY <1>2, <1>5 DEF BusyWith
  <2> QED
    BY <1>6, <1>7, <2>1, <2>2, RestWeight DEF Inv
<1>13. \A s \in LockSet : Tallied(t, s) /\ (refcount'[s] = 0 <=> refcount[s] = 0)
  BY <1>1, SameRefers
<1>14. Counted'
  <2>1. \A s \in LockSet : Weight(s) \in Int
    BY WeightIs DEF Inv
  <2>2. \A s \in LockSet : refcount'[s] = Weight(s)' + Cardinality(References(s)')
    BY <1>12, <1>13, <2>1, TallyCounts DEF Inv
  <2>3. \A u \in Thread : u # t /\ pc'[u] = "merge" =>
          Cardinality(Records(plockSet[rec[u]])') + Cardinality(Records(ls[u])') > num'[u]
    BY <1>7, OtherMerges DEF Inv
  <2>4. Cardinality(Records(plockSet[rec[t]])') + Cardinality(Records(ls[t])') > num'[t]
    <3>1. a + b > n
      BY <1>1, <1>2, <1>8 DEF Inv, Counted
    <3>2. num'[t] = n
      BY <1>1, <1>8
    <3> QED
      BY <1>9, <1>b, <3>1, <3>2
  <2> QED
    BY <2>2, <2>3, <2>4 DEF Counted
<1>15. Linked' /\ Recycled'
  BY <1>1, <1>13, MergeMove_Linked, QuietRecycled DEF Inv
<1> QED
  BY <1>14, <1>15

LEMMA SplitEnd_Sets ==
  ASSUME Inv, NEW t \in Thread, SplitEnd(t), Typed', Threads', Frame(t) PROVE Linked' /\ Counted' /\ Recycled'
<1>1. pc[t] = "move" /\ pc'[t] = "relink"
      /\ UNCHANGED <<link, plockSet, ownerlocker, lockSetsFree, made, refs, rec, ls, drop, ret, num>>
  BY DEF SplitEnd, Goto, passVars, argVars, callVars, moveVars, Inv, Typed
<1>2. PICK A, B : A = plockSet[rec[t]] /\ B = ls[t]
  OBVIOUS
<1>3. /\ A # B /\ A \in LockSet /\ B \in LockSet /\ ownerlocker[A] = t /\ ownerlocker[B] = t /\ rec[t] \in Record
      /\ ret[t] = "idle"
  <2>1. ThreadInv(t)
    BY DEF Threads, Inv
  <2>2. rec[t] \in Record /\ A \in LockSet /\ ownerlocker[A] = t /\ ret[t] = "idle"
    BY <1>1, <1>2, <2>1, MutatedFacts DEF Mutated, Inv
  <2> QED
    BY <1>1, <1>2, <2>1, <2>2 DEF ThreadInv, Moves
<1>4. PICK a, b : a = Cardinality(Records(A)) /\ b = Cardinality(Records(B))
  OBVIOUS
<1>5. a \in Nat /\ b \in Nat /\ refcount \in [LockSet -> Int]
  BY <1>4, FiniteCounts DEF Records, Inv, Typed
<1>6. refcount' = [refcount EXCEPT ![A] = @ - b, ![B] = @ + b]
  BY <1>2, <1>4 DEF SplitEnd
<1>7. /\ refcount'[A] = refcount[A] - b /\ refcount'[B] = refcount[B] + b
      /\ \A s \in LockSet : s # A /\ s # B => refcount'[s] = refcount[s]
  BY <1>3, <1>5, <1>6
<1>8. \A s : Records(s)' = Records(s)
  BY <1>1 DEF Records
<1>9. \A s \in LockSet : References(s)' = References(s)
  <2>1. \A s, k : Refers(t, k, s)' <=> Refers(t, k, s)
    BY <1>1 DEF Refers
  <2> QED
    BY <2>1, RefersKept DEF Kept, Inv
<1>10. Weight(A) = a + b /\ Weight(B) = b - b
  BY <1>1, <1>2, <1>4, MoverWeight DEF Inv
<1>11. Weight(A)' = a /\ Weight(B)' = b
  BY <1>1, <1>3, <1>4, <1>8, CalmWeightNext
<1>12. \A s \in LockSet : Cardinality(References(s)) \in Nat /\ refcount[s] = Weight(s) + Cardinality(References(s))
  BY WeightIs DEF Inv
<1>13. Cardinality(References(A)) >= 1 /\ Cardinality(References(B)) >= 1
  <2>1. <<t, "list">> \in References(A) /\ <<t, "list">> \in References(B)
    BY <1>3 DEF References, Refers, Kind
  <2>2. Cardinality(References(A)) # 0 /\ Cardinality(References(B)) # 0
    BY <2>1, FiniteCounts DEF References
  <2> QED
    BY <1>3, <1>12, <2>2
<1>14. Moved(t)
  BY <1>1 DEF Moved
<1>15. \A s \in LockSet : s # A /\ s # B => Weight(s)' = Weight(s)
  <2>1. \A s \in LockSet : s # A /\ s # B => ~BusyWith(t, s) /\ ~BusyWith(t, s)'
    BY <1>1, <1>2 DEF BusyWith
  <2>2. \A s \in LockSet : {x \in Record : plockSet'[x] = s} = Records(s)
    BY <1>1 DEF Records
  <2> QED
    BY <1>14, <2>1, <2>2, RestWeight DEF Inv
<1>16. Counted'
  <2>1. refcount'[A] = Weight(A)' + Cardinality(References(A)')
    BY <1>3, <1>5, <1>7, <1>9, <1>10, <1>11, <1>12
  <2>2. refcount'[B] = Weight(B)' + Cardinality(References(B)')
    BY <1>3, <1>5, <1>7, <1>9, <1>10, <1>11, <1>12
  <2>3. \A s \in LockSet : s # A /\ s # B => refcount'[s] = Weight(s)' + Cardinality(References(s)')
    BY <1>7, <1>9, <1>12, <1>15
  <2>4. \A u \in Thread : pc'[u] = "merge" => Cardinality(Records(plockSet[rec[u]])') + Cardinality(Records(ls[u])') > num'[u]
    BY <1>1, <1>14, OtherMerges DEF Inv
  <2> QED
    BY <2>1, <2>2, <2>3, <2>4 DEF Counted
<1>17. Recycled'
  <2>1. refcount'[A] # 0 /\ refcount[A] # 0
    BY <1>3, <1>5, <1>7, <1>10, <1>12, <1>13
  <2>2. refcount'[B] # 0 /\ refcount[B] # 0
    BY <1>3, <1>5, <1>7, <1>10, <1>12, <1>13
  <2>3. \A s \in LockSet : refcount'[s] = 0 <=> refcount[s] = 0
    BY <1>7, <2>1, <2>2
  <2> QED
    BY <1>1, <2>3, QuietRecycled DEF Inv
<1> QED
  BY <1>16, <1>17, SplitEnd_Linked DEF Inv

LEMMA AddLink_Sets ==
  ASSUME Inv, NEW t \in Thread, AddLink(t), Typed', Threads', Frame(t) PROVE Linked' /\ Counted' /\ Recycled'
<1>1. /\ pc[t] = "relink" /\ pc'[t] \in {"linked", "merge"}
      /\ UNCHANGED <<plockSet, refcount, ownerlocker, lockSetsFree, made, refs, rec, drop, ret>>
      /\ pc'[t] = "merge" => ls'[t] = plockSet[tgt[t]] /\ num'[t] = Cardinality(Records(plockSet[tgt[t]]))
  BY DEF AddLink, Goto, setVars, passVars, argVars, callVars, Inv, Typed
<1>2. rec[t] \in Record /\ ret[t] = "idle"
  <2>1. ThreadInv(t)
    BY DEF Threads, Inv
  <2> QED
    BY <1>1, <2>1, MutatedFacts DEF Mutated, Inv
<1>3. \A s : Records(s)' = Records(s)
  BY <1>1 DEF Records
<1>4. \A s \in LockSet : Tallied(t, s) /\ (refcount'[s] = 0 <=> refcount[s] = 0)
  <2>1. \A s, k : Refers(t, k, s)' <=> Refers(t, k, s)
    BY <1>1, <1>2 DEF Refers
  <2> QED
    BY <1>1, <2>1 DEF Tallied, Kept
<1>5. \A x : Cardinality(Records(x)) \in Nat
  BY FiniteCounts DEF Records
<1>6. pc'[t] = "merge" => Cardinality(Records(ls[t])') = num'[t] /\ num'[t] \in Nat
  <2>1. pc'[t] = "merge" => Records(ls[t])' = Records(plockSet[tgt[t]])
    BY <1>1 DEF Records
  <2> QED
    BY <1>1, <1>5, <2>1
<1>7. OweOf(t) = 0 /\ OweOf(t)' = 0
  BY <1>1, <1>6 DEF OweOf
<1>8. Counted'
  <2>1. \A s \in LockSet : Weight(s)' = Weight(s)
    BY <1>1, <1>7, QuietWeight DEF Inv
  <2>2. \A s \in LockSet : Weight(s) \in Int
    BY WeightIs DEF Inv
  <2>3. \A s \in LockSet : refcount'[s] = Weight(s)' + Cardinality(References(s)')
    BY <1>4, <2>1, <2>2, TallyCounts DEF Inv
  <2>4. Moved(t)
    BY <1>1 DEF Moved
  <2>5. \A u \in Thread : u # t /\ pc'[u] = "merge" =>
          Cardinality(Records(plockSet[rec[u]])') + Cardinality(Records(ls[u])') > num'[u]
    BY <2>4, OtherMerges DEF Inv
  <2>6. pc'[t] = "merge" => Cardinality(Records(plockSet[rec[t]])') + Cardinality(Records(ls[t])') > num'[t]
    <3>1. Records(plockSet[rec[t]])' = Records(plockSet[rec[t]])
      BY <1>1 DEF Records
    <3>2. Cardinality(Records(plockSet[rec[t]])) \in Nat /\ Cardinality(Records(plockSet[rec[t]])) # 0
      BY <1>2, FiniteCounts DEF Records
    <3> QED
      BY <1>6, <3>1, <3>2
  <2> QED
    BY <2>3, <2>5, <2>6 DEF Counted
<1> QED
  BY <1>1, <1>4, <1>8, AddLink_Linked, QuietRecycled DEF Inv

LEMMA MergeEnd_Sets ==
  ASSUME Inv, NEW t \in Thread, MergeEnd(t), Typed', Threads', Frame(t) PROVE Linked' /\ Counted' /\ Recycled'
<1>0. PICK A, B, n : A = plockSet[rec[t]] /\ B = ls[t] /\ n = num[t]
  OBVIOUS
<1>1. /\ pc[t] = "merge" /\ pc'[t] = "decref" /\ drop'[t] = B /\ ret'[t] = "unlockmany" /\ Records(B) = {}
      /\ refcount' = [refcount EXCEPT ![A] = @ + n, ![B] = @ - n]
      /\ ownerlocker' = [ownerlocker EXCEPT ![B] = None]
      /\ UNCHANGED <<link, plockSet, lockSetsFree, made, refs, rec, ls, num>>
  BY <1>0 DEF MergeEnd, CallDecRef, Goto, passVars, argVars, moveVars, Inv, Typed
<1>2. /\ A # B /\ A \in LockSet /\ B \in LockSet /\ ownerlocker[A] = t /\ ownerlocker[B] = t /\ rec[t] \in Record
      /\ ret[t] = "idle"
  <2>1. ThreadInv(t)
    BY DEF Threads, Inv
  <2>2. rec[t] \in Record /\ A \in LockSet /\ ownerlocker[A] = t /\ ret[t] = "idle"
    BY <1>0, <1>1, <2>1, MutatedFacts DEF Mutated, Inv
  <2> QED
    BY <1>0, <1>1, <2>1, <2>2 DEF ThreadInv, Moves
<1>3. PICK a : a = Cardinality(Records(A))
  OBVIOUS
<1>4. a \in Nat /\ n \in Nat /\ refcount \in [LockSet -> Int] /\ Cardinality(Records(B)) = 0
  BY <1>0, <1>1, <1>3, FiniteCounts, FS_EmptySet DEF Records, Inv, Typed
<1>5. /\ refcount'[A] = refcount[A] + n /\ refcount'[B] = refcount[B] - n
      /\ \A s \in LockSet : s # A /\ s # B => refcount'[s] = refcount[s]
      /\ \A s \in LockSet : ownerlocker'[s] = IF s = B THEN None ELSE ownerlocker[s]
  BY <1>1, <1>2, <1>4 DEF Inv, Typed
<1>6. \A s : Records(s)' = Records(s)
  BY <1>1 DEF Records
<1>7. \A s \in LockSet : s # B => References(s)' = References(s)
  <2>1. \A s \in LockSet : s # B => \A k : Refers(t, k, s)' <=> Refers(t, k, s)
    BY <1>1, <1>2, <1>5 DEF Refers
  <2> QED
    BY <2>1, RefersKept DEF Kept, Inv
<1>8. Cardinality(References(B)') = Cardinality(References(B))
  <2>1. /\ Lost(t, B, "list") /\ Gained(t, B, "drop")
        /\ \A k \in Kind \ {"list", "drop"} : Refers(t, k, B)' <=> Refers(t, k, B)
    BY <1>1, <1>2, <1>5, NoneFacts DEF Refers, Gained, Lost
  <2>2. "list" \in Kind /\ "drop" \in Kind /\ "list" # "drop"
    BY DEF Kind
  <2> QED
    BY <1>2, <2>1, <2>2, RefersPassed DEF Kept, Inv
<1>9. Weight(A) = a + (0 - n) /\ Weight(B) = 0 - (0 - n)
  BY <1>0, <1>1, <1>3, <1>4, MoverWeight DEF Inv
<1>10. Weight(A)' = a /\ Weight(B)' = 0
  <2>1. ownerlocker'[A] = t /\ ownerlocker'[B] = None
    BY <1>2, <1>5
  <2> QED
    BY <1>1, <1>2, <1>3, <1>4, <1>6, <2>1, CalmWeightNext
<1>11. \A s \in LockSet : Cardinality(References(s)) \in Nat /\ refcount[s] = Weight(s) + Cardinality(References(s))
  BY WeightIs DEF Inv
<1>12. Cardinality(References(A)) >= 1 /\ Cardinality(References(B)) >= 1
  <2>1. <<t, "list">> \in References(A) /\ <<t, "list">> \in References(B)
    BY <1>2 DEF References, Refers, Kind
  <2>2. Cardinality(References(A)) # 0 /\ Cardinality(References(B)) # 0
    BY <2>1, FiniteCounts DEF References
  <2> QED
    BY <1>2, <1>11, <2>2
<1>13. Moved(t)
  BY <1>1 DEF Moved
<1>14. \A s \in LockSet : s # A /\ s # B => Weight(s)' = Weight(s)
  <2>1. \A s \in LockSet : s # A /\ s # B => ~BusyWith(t, s) /\ ~BusyWith(t, s)'
    BY <1>0, <1>1 DEF BusyWith
  <2>2. \A s \in LockSet : {x \in Record : plockSet'[x] = s} = Records(s)
    BY <1>1 DEF Records
  <2> QED
    BY <1>13, <2>1, <2>2, RestWeight DEF Inv
<1>15. Counted'
  <2>1. refcount'[A] = Weight(A)' + Cardinality(References(A)')
    BY <1>2, <1>4, <1>5, <1>7, <1>9, <1>10, <1>11
  <2>2. refcount'[B] = Weight(B)' + Cardinality(References(B)')
    BY <1>2, <1>4, <1>5, <1>8, <1>9, <1>10, <1>11
  <2>3. \A s \in LockSet : s # A /\ s # B => refcount'[s] = Weight(s)' + Cardinality(References(s)')
    BY <1>5, <1>7, <1>11, <1>14
  <2>4. \A u \in Thread : pc'[u] = "merge" => Cardinality(Records(plockSet[rec[u]])') + Cardinality(Records(ls[u])') > num'[u]
    BY <1>1, <1>13, OtherMerges DEF Inv
  <2> QED
    BY <2>1, <2>2, <2>3, <2>4 DEF Counted
<1>16. Recycled'
  <2>0. a - n >= 0
    <3>1. Weight(A) \in Nat
      BY <1>2, WeightIs DEF Inv
    <3> QED
      BY <1>4, <1>9, <3>1
  <2>1. refcount'[A] # 0 /\ refcount[A] # 0
    BY <1>2, <1>4, <1>5, <1>9, <1>11, <1>12, <2>0
  <2>2. refcount'[B] # 0 /\ refcount[B] # 0
    BY <1>2, <1>4, <1>5, <1>9, <1>11, <1>12
  <2>3. \A s \in LockSet : refcount'[s] = 0 <=> refcount[s] = 0
    BY <1>5, <2>1, <2>2
  <2> QED
    BY <1>1, <2>3, QuietRecycled DEF Inv
<1> QED
  BY <1>15, <1>16, MergeEnd_Linked DEF Inv

-----------------------------------------------------------------------------
(* The invariant *)

LEMMA Step_Sets ==
  ASSUME Inv, NEW t \in Thread, Step(t), Typed', Threads', Frame(t)
  PROVE  Linked' /\ Counted' /\ Recycled'
<1>1. CASE DecRef(t) \/ FreeSet(t)
  BY <1>1, DecRef_Sets, FreeSet_Sets
<1>2. CASE LockMutex(t) \/ CheckOK(t) \/ CheckRetry(t) \/ dbScanUnlock(t)
  BY <1>2, LockMutex_Quiet, CheckOK_Quiet, CheckRetry_Quiet, dbScanUnlock_Quiet, QuietKeeps
<1>3. CASE PassSkip(t) \/ PassStart(t) \/ \E i \in Slot : SlotSame(t, i) \/ SlotExchange(t, i) \/ SlotCollide(t, i)
  BY <1>3, PassSkip_Quiet, PassStart_Quiet, SlotSame_Quiet, SlotExchange_Quiet, SlotCollide_Quiet, QuietKeeps
<1>4. CASE Acquire(t) \/ Acquired(t) \/ UnlockOne(t) \/ UnlockEnd(t) \/ Finalize(t) \/ PutEnd(t)
  BY <1>4, Acquire_Quiet, Acquired_Quiet, UnlockOne_Quiet, UnlockEnd_Quiet, Finalize_Quiet, PutEnd_Quiet, QuietKeeps
<1>5. CASE RemoveLink(t) \/ MakeSet(t) \/ SplitMove(t) \/ SplitEnd(t)
  BY <1>5, RemoveLink_Sets, MakeSet_Sets, SplitMove_Sets, SplitEnd_Sets
<1>6. CASE AddLink(t) \/ MergeMove(t) \/ MergeEnd(t)
  BY <1>6, AddLink_Sets, MergeMove_Sets, MergeEnd_Sets
<1> QED
  BY <1>1, <1>2, <1>3, <1>4, <1>5, <1>6 DEF Step

LEMMA InvStep == Inv /\ [Next]_vars => Inv'
<1> SUFFICES ASSUME Inv, [Next]_vars PROVE Inv'
  OBVIOUS
<1>1. CASE UNCHANGED vars
  <2>1. UNCHANGED <<link, plockSet, refcount, mutex, ownerlocker, lockSetsFree, made, fresh, seen, refs,
                    pc, rec, tgt, mode, ls, drop, ret, moving, num, puts>>
    BY <1>1 DEF vars, setVars, passVars, argVars, callVars, moveVars
  <2>2. Typed' /\ Threads'
    BY <2>1 DEF Inv, Typed, Threads, ThreadInv, Positions, Cached, Owning, Mutexes, Moves, At, Plr, Verifying, Records
  <2>3. Linked'
    BY <2>1 DEF Inv, Linked, SetLinked, ThreadLinked, Busy, BusyWith, Splits, Leaving, Records, IsComponent, Tied
  <2>4. Counted'
    <3>1. \A s : Records(s)' = Records(s) /\ References(s)' = References(s)
      BY <2>1 DEF Records, References, Refers
    <3>2. \A s : Weight(s)' = Weight(s)
      BY <2>1, <3>1 DEF Weight, Owed
    <3>3. \A t \in Thread : Records(plockSet[rec[t]])' = Records(plockSet[rec[t]]) /\ Records(ls[t])' = Records(ls[t])
      BY <2>1, <3>1
    <3> QED
      BY <2>1, <3>1, <3>2, <3>3 DEF Inv, Counted
  <2>5. Recycled'
    BY <2>1 DEF Inv, Recycled, SetRecycled, Freeing
  <2> QED
    BY <2>2, <2>3, <2>4, <2>5 DEF Inv
<1>2. ASSUME NEW t \in Thread, Step(t), UNCHANGED puts PROVE Inv'
  <2>1. Own(t)
    BY <1>2, Step_Own DEF Inv
  <2>2. Typed' /\ Threads' /\ Frame(t)
    BY <2>1, AllKeep DEF Inv, Own
  <2> QED
    BY <1>2, <2>2, Step_Sets DEF Inv
<1>3. ASSUME NEW t \in Thread, Call(t) PROVE Inv'
  <2>1. Own(t)
    BY <1>3, Call_Own DEF Inv
  <2>2. Typed' /\ Threads' /\ Frame(t)
    BY <2>1, AllKeep DEF Inv, Own
  <2>3. QuietStep(t)
    BY <1>3, dbScanLock_Quiet, dbLockerPrepare_Quiet DEF Call
  <2> QED
    BY <2>2, <2>3, QuietKeeps DEF Inv
<1> QED
  BY <1>1, <1>2, <1>3 DEF Next

LEMMA InvInit == Init => Inv
<1> SUFFICES ASSUME Init PROVE Inv
  OBVIOUS
<1>0. PICK F : F = {s \in 1 .. Cardinality(Record) : Records(s) = {}}
  OBVIOUS
<1>1. Cardinality(Record) \in Nat /\ 1 .. Cardinality(Record) \subseteq LockSet
  BY LockAssumption, FS_CardinalityType DEF LockSet
<1>2. IsFiniteSet(F) /\ F \subseteq LockSet
  <2>1. IsFiniteSet(1 .. Cardinality(Record))
    BY <1>1, FS_Interval
  <2> QED
    BY <1>0, <1>1, <2>1, FS_Subset
<1>3. /\ lockSetsFree \in Seq(F) /\ IsInjective(lockSetsFree)
      /\ \A e : Contains(lockSetsFree, e) <=> e \in F
  BY <1>0, <1>2, ListOfSet DEF Init
<1>4. \A s : Cardinality(Records(s)) \in Nat /\ (Cardinality(Records(s)) = 0 <=> Records(s) = {})
  BY FiniteCounts DEF Records
<1>5. Typed
  <2>1. lockSetsFree \in Seq(LockSet)
    BY <1>2, <1>3, SeqDef
  <2>2. refcount \in [LockSet -> Int]
    BY <1>4 DEF Init
  <2>3. plockSet \in [Record -> LockSet] /\ made \subseteq LockSet
    BY <1>1 DEF Init
  <2>4. link \in [Record -> Record \cup {None}] /\ puts \in 0 .. MaxPuts
    BY LockAssumption DEF Init
  <2> QED
    BY <2>1, <2>2, <2>3, <2>4 DEF Init, Typed, PC, Mode, Slot
<1>6. Threads
  <2>1. ASSUME NEW t \in Thread PROVE ThreadInv(t)
    <3>1. /\ pc[t] = "idle" /\ ret[t] = "idle" /\ rec[t] = None /\ tgt[t] = None /\ mode[t] = "final"
          /\ refs[t] = [i \in Slot |-> None] /\ At(t) = "idle"
          /\ \A s \in LockSet : ownerlocker[s] = None /\ mutex[s] = None
      BY DEF Init, At, Calls
    <3>2. Positions(t)
      BY <3>1 DEF Positions, Calls, Scanning, Many, Passing, Mutated
    <3>3. Cached(t)
      BY <3>1 DEF Cached, Many, Passing, Mutated, Slot
    <3>4. Owning(t) /\ Mutexes(t) /\ Moves(t)
      BY <3>1, NoneFacts DEF Owning, Mutexes, Moves, Verifying, Passing, Mutated
    <3> QED
      BY <3>2, <3>3, <3>4 DEF ThreadInv
  <2> QED
    BY <2>1 DEF Threads
<1>7. Linked
  <2>1. \A t \in Thread : pc[t] = "idle"
    BY DEF Init
  <2>2. ASSUME NEW s \in LockSet, Records(s) # {} PROVE IsComponent(link, Records(s))
    <3>1. PICK r \in Record : plockSet[r] = s
      BY <2>2 DEF Records
    <3>2. Records(s) = Component(link, r)
      BY <3>1 DEF Init
    <3>3. link \in Links
      BY <1>5 DEF Typed, Links
    <3> QED
      BY <3>2, <3>3, ComponentIs
  <2> QED
    BY <2>1, <2>2 DEF Linked, SetLinked, ThreadLinked, Splits
<1>8. Counted
  <2>1. ASSUME NEW s \in LockSet PROVE refcount[s] = Weight(s) + Cardinality(References(s))
    <3>1. ownerlocker[s] = None
      BY DEF Init
    <3>2. Weight(s) = Cardinality(Records(s))
      BY <3>1, CalmWeight
    <3>3. References(s) = {}
      <4>1. \A t \in Thread, k \in Kind : ~Refers(t, k, s)
        BY <3>1, NoneFacts DEF Refers, Init, Slot
      <4> QED
        BY <4>1 DEF References
    <3>4. Cardinality({}) = 0
      BY FS_EmptySet
    <3> QED
      BY <1>4, <3>2, <3>3, <3>4 DEF Init
  <2> QED
    BY <2>1 DEF Counted, Init
<1>9. Recycled
  <2>1. \A s \in LockSet : Freeing(s) = {}
    BY DEF Freeing, Init
  <2>2. \A s \in LockSet : refcount[s] = 0 <=> Records(s) = {}
    BY <1>4 DEF Init
  <2>3. \A s \in LockSet : s \notin made => Records(s) = {}
    BY DEF Init, Records
  <2>4. \A s \in LockSet : SetRecycled(s)
    BY <1>0, <1>3, <2>1, <2>2, <2>3 DEF SetRecycled, Init
  <2> QED
    BY <1>3, <2>4 DEF Recycled
<1> QED
  BY <1>5, <1>6, <1>7, <1>8, <1>9 DEF Inv

\* The invariant, for any database, threads and puts.
THEOREM LockInvariant == Spec => []Inv
BY InvInit, InvStep, PTL DEF Spec

\* Counts are natural numbers.
LEMMA TypesRight == Inv => TypeOK
<1>1. Inv => \A s \in LockSet : refcount[s] \in Nat
  BY WeightIs DEF Inv
<1> QED
  BY <1>1 DEF Inv, Typed, TypeOK

\* The model is typed; no count of references becomes negative.
THEOREM LocksTyped == Spec => []TypeOK
BY LockInvariant, TypesRight, PTL


-----------------------------------------------------------------------------
(* What follows: no deadlock, and sets are components *)

\* Nobody has locked a set that nothing refers to.
LEMMA ZeroUnlocked ==
  ASSUME Typed, Threads, Counted, NEW s \in LockSet, refcount[s] = 0
  PROVE  mutex[s] = None /\ ownerlocker[s] = None /\ Records(s) = {}
<1>1. Records(s) = {} /\ References(s) = {} /\ ownerlocker[s] = None
  BY ZeroCount
<1>2. ASSUME NEW t \in Thread, mutex[s] = t PROVE FALSE
  <2>1. ThreadInv(t) /\ ownerlocker[s] # t
    BY <1>1, NoneFacts DEF Threads
  <2>2. pc[t] = "check" => ls[t] # s
    <3>1. ~Refers(t, "wait", s)
      <4>1. <<t, "wait">> \in Thread \X Kind
        BY DEF Kind
      <4> QED
        BY <1>1, <4>1 DEF References
    <3> QED
      BY <3>1 DEF Refers
  <2>3. pc[t] = "locked" => rec[t] \in Record
    BY <2>1 DEF ThreadInv, Positions, At, Calls, Scanning
  <2>4. pc[t] = "locked" => plockSet[rec[t]] # s
    BY <1>1, <2>3 DEF Records
  <2> QED
    BY <1>2, <2>1, <2>2, <2>4 DEF ThreadInv, Mutexes
<1>3. mutex[s] \in Thread \cup {None}
  BY DEF Typed
<1> QED
  BY <1>1, <1>2, <1>3

\* The threads of S do not wait for each other: the one that waits for the
\* highest address waits for somebody else.
LEMMA DeadlockFree == Inv => NoDeadlock
<1>0. SUFFICES ASSUME Inv, NEW S \in SUBSET Thread, S # {},
                      \A t \in S : \E s \in Wants(t) : mutex[s] \in S
               PROVE  FALSE
  BY DEF NoDeadlock
<1>1. Typed /\ Threads /\ Counted /\ Recycled
  BY <1>0 DEF Inv
<1>2. ASSUME NEW t \in S PROVE pc[t] \in {"lock", "acquire"}
  <2>1. pc[t] \in {"lock", "acquire", "free"}
    BY <1>0 DEF Wants
  <2>2. ASSUME pc[t] = "free" PROVE FALSE
    <3>1. t \in Thread /\ drop[t] \in LockSet
      BY <1>1, <2>2 DEF Threads, ThreadInv, Positions, Calls
    <3>2. t \in Freeing(drop[t])
      BY <2>2, <3>1 DEF Freeing
    <3>3. refcount[drop[t]] = 0
      BY <1>1, <3>1, <3>2 DEF Recycled, SetRecycled
    <3>4. mutex[drop[t]] = None
      BY <1>1, <3>1, <3>3, ZeroUnlocked
    <3>5. Wants(t) = {drop[t]}
      BY <2>2 DEF Wants
    <3> QED
      BY <1>0, <3>4, <3>5, NoneFacts
  <2> QED
    BY <2>1, <2>2
<1>3. ASSUME NEW t \in S, NEW s \in LockSet, mutex[s] = t
      PROVE  pc[t] = "acquire" /\ ownerlocker[s] = t /\ At(t) = "acquire"
  <2>1. t \in Thread /\ pc[t] \in {"lock", "acquire"} /\ ThreadInv(t) /\ At(t) = pc[t]
    BY <1>1, <1>2 DEF Threads, At, Calls
  <2>2. ownerlocker[s] = t
    BY <1>3, <2>1 DEF ThreadInv, Mutexes
  <2>3. At(t) # "lock"
    BY <2>1, <2>2 DEF ThreadInv, Owning, Verifying, Passing, Mutated
  <2> QED
    BY <2>1, <2>2, <2>3
<1> DEFINE T == {t \in S : pc[t] = "acquire" /\ Todo(t) # {}}
<1>4. \A t \in S : pc[t] = "acquire" => t \in T
  BY <1>0 DEF Wants
<1>5. ASSUME NEW t \in S, NEW s \in LockSet, s \in Wants(t), mutex[s] \in S
      PROVE  mutex[s] \in T /\ ownerlocker[s] = mutex[s]
  BY <1>3, <1>4, <1>5
<1>6. \A t \in S : Wants(t) \subseteq LockSet
  <2>1. \A t \in S : pc[t] = "lock" => ls[t] \in LockSet
    BY <1>1 DEF Threads, ThreadInv, Positions, At, Calls, Scanning
  <2>2. \A t \in S : Todo(t) # {} => Min(Todo(t)) \in LockSet
    BY <1>1, LowestTodo
  <2> QED
    BY <1>2, <2>1, <2>2 DEF Wants
<1> DEFINE M == {Min(Todo(t)) : t \in T}
<1>7. M # {}
  BY <1>0, <1>5, <1>6
<1>8. M \in SUBSET (0 .. NumSets) /\ NumSets \in Nat
  <2>1. NumSets \in Nat /\ LockSet \subseteq 0 .. NumSets
    BY LockAssumption DEF LockSet
  <2>2. \A t \in T : Min(Todo(t)) \in LockSet
    BY <1>1, LowestTodo
  <2> QED
    BY <2>1, <2>2
<1>9. PICK t \in T : \A u \in T : Min(Todo(u)) <= Min(Todo(t))
  <2>1. Max(M) \in M /\ \A k \in M : k <= Max(M)
    BY <1>7, <1>8, MaxIs
  <2> QED
    BY <2>1
<1>10. PICK m : m = Min(Todo(t))
  OBVIOUS
<1>11. Wants(t) = {m} /\ m \in LockSet /\ mutex[m] \in S
  BY <1>0, <1>6, <1>9, <1>10 DEF Wants
<1>12. PICK u \in T : ownerlocker[m] = u
  BY <1>5, <1>9, <1>11
<1>13. /\ Min(Todo(u)) \in LockSet /\ ownerlocker[Min(Todo(u))] # u
       /\ \E i \in Slot : refs[u][i] = Min(Todo(u))
  BY <1>1, <1>12, LowestTodo
<1>14. At(u) = "acquire" /\ Owning(u)
  BY <1>1, <1>12 DEF At, Calls, Threads, ThreadInv
<1>15. m < Min(Todo(u))
  BY <1>11, <1>12, <1>13, <1>14 DEF Owning
<1>16. Min(Todo(u)) <= m
  BY <1>9, <1>10, <1>12
<1> QED
  BY <1>8, <1>11, <1>13, <1>15, <1>16 DEF LockSet

\* Threads that wait for mutexes never wait for each other in a circle.
THEOREM LocksNotDead == Spec => []NoDeadlock
BY LockInvariant, DeadlockFree, PTL

\* The sets are the components of the links, except where a thread moves records.
LEMMA SetsRight == Inv => SetsAreComponents
<1>1. SUFFICES ASSUME Inv, NEW r \in Record,
                      \A t \in Thread : ownerlocker[plockSet[r]] = t => pc[t] \notin {"split", "move", "merge"}
               PROVE  Records(plockSet[r]) = Component(link, r)
  BY DEF SetsAreComponents
<1>2. Typed /\ Threads /\ Linked /\ plockSet[r] \in LockSet /\ r \in Records(plockSet[r])
  BY <1>1 DEF Inv, Typed, Records
<1>3. ~Busy(plockSet[r])
  BY <1>1, <1>2, BusyIsOwned DEF Busy, BusyWith
<1>4. IsComponent(link, Records(plockSet[r]))
  BY <1>2, <1>3 DEF Linked, SetLinked
<1>5. link \in Links
  BY <1>2 DEF Typed, Links
<1> QED
  BY <1>2, <1>4, <1>5, ComponentOf

\* Except where a thread is moving records, a lock set is a component.
THEOREM SetsStayComponents == Spec => []SetsAreComponents
BY LockInvariant, SetsRight, PTL

-----------------------------------------------------------------------------
(* A put makes one set at most, so NumSets bounds nothing *)

\* the thread may still make a set for its put
Unsplit(t) == \/ At(t) \in Passing \cup {"acquire", "held", "split"}
              \/ At(t) = "unlockmany" /\ mode[t] = "many"
Pending == {t \in Thread : Unsplit(t)}

\* Each put makes one set at most.
Enough == Cardinality(made) + Cardinality(Pending) <= Cardinality(Record) + puts

LEMMA FewSets_Locks ==
  ASSUME Typed, NEW t \in Thread, ThreadInv(t),
         DecRef(t) \/ FreeSet(t) \/ LockMutex(t) \/ CheckOK(t) \/ CheckRetry(t) \/ dbScanUnlock(t)
  PROVE  made' = made /\ (Unsplit(t)' => Unsplit(t))
<1>1. CASE DecRef(t)
  <2>1. /\ pc[t] = "decref" /\ UNCHANGED <<made, mode>>
        /\ \/ pc'[t] = "free" /\ ret'[t] = ret[t]
           \/ pc'[t] = ret[t]
    BY <1>1 DEF DecRef, Return, Goto, callVars, Typed
  <2> QED
    BY <2>1 DEF Unsplit, At, Calls, ThreadInv, Positions
<1>2. CASE FreeSet(t)
  BY <1>2 DEF FreeSet, Return, Goto, Typed, Unsplit, At, Calls, ThreadInv, Positions
<1>3. CASE LockMutex(t)
  BY <1>3 DEF LockMutex, Goto, Typed, Unsplit, At, Calls, Passing
<1>4. CASE CheckOK(t)
  BY <1>4 DEF CheckOK, Goto, Typed, Unsplit, At, Calls, Passing
<1>5. CASE CheckRetry(t)
  BY <1>5 DEF CheckRetry, CallDecRef, Goto, Typed, Unsplit, At, Calls, Passing
<1>6. CASE dbScanUnlock(t)
  BY <1>6 DEF dbScanUnlock, CallDecRef, Goto, Typed, Unsplit, At, Calls, Passing
<1> QED
  BY <1>1, <1>2, <1>3, <1>4, <1>5, <1>6

LEMMA FewSets_Passes ==
  ASSUME Typed, NEW t \in Thread, ThreadInv(t),
         \/ PassSkip(t) \/ PassStart(t) \/ Acquire(t) \/ Acquired(t)
         \/ \E i \in Slot : SlotSame(t, i) \/ SlotExchange(t, i) \/ SlotCollide(t, i)
  PROVE  made' = made /\ (Unsplit(t)' => Unsplit(t))
<1>1. pc[t] \in Passing \cup {"acquire"}
  BY DEF PassSkip, PassStart, Acquire, Acquired, SlotSame, SlotExchange, SlotCollide, AtSlot, Passing, Slot
<1>2. made' = made
  BY DEF PassSkip, PassStart, Acquire, Acquired, SlotSame, SlotExchange, SlotCollide, setVars
<1> QED
  BY <1>1, <1>2 DEF Unsplit, At, Calls, Passing

LEMMA FewSets_Puts ==
  ASSUME Typed, NEW t \in Thread, ThreadInv(t),
         \/ UnlockOne(t) \/ UnlockEnd(t) \/ Finalize(t) \/ RemoveLink(t) \/ SplitMove(t) \/ SplitEnd(t)
         \/ AddLink(t) \/ MergeMove(t) \/ MergeEnd(t) \/ PutEnd(t)
  PROVE  made' = made /\ (Unsplit(t)' => Unsplit(t))
<1>1. CASE UnlockOne(t)
  BY <1>1 DEF UnlockOne, CallDecRef, Goto, Typed, Unsplit, At, Calls, Passing
<1>2. CASE UnlockEnd(t)
  BY <1>2 DEF UnlockEnd, Goto, Typed, Unsplit, At, Calls, Passing, ThreadInv, Positions, setVars, callVars
<1>3. CASE Finalize(t)
  <2>1. /\ pc[t] = "finalize" /\ made' = made
        /\ \/ pc'[t] = "idle"
           \/ pc'[t] = "decref" /\ ret'[t] = "finalize"
    BY <1>3 DEF Finalize, CallDecRef, Goto, Typed, setVars
  <2> QED
    BY <2>1 DEF Unsplit, At, Calls, Passing
<1>4. CASE RemoveLink(t)
  BY <1>4 DEF RemoveLink, Unsplit, At, Calls, Passing, setVars
<1>5. CASE SplitMove(t)
  BY <1>5 DEF SplitMove, Unsplit, At, Calls, Passing, setVars
<1>6. CASE SplitEnd(t)
  BY <1>6 DEF SplitEnd, Goto, Typed, Unsplit, At, Calls, Passing
<1>7. CASE AddLink(t)
  <2>1. made' = made /\ pc'[t] \in {"linked", "merge"}
    BY <1>7 DEF AddLink, Goto, Typed, setVars
  <2> QED
    BY <2>1 DEF Unsplit, At, Calls, Passing
<1>8. CASE MergeMove(t)
  BY <1>8 DEF MergeMove, Unsplit, At, Calls, Passing, setVars
<1>9. CASE MergeEnd(t)
  BY <1>9 DEF MergeEnd, CallDecRef, Goto, Typed, Unsplit, At, Calls, Passing
<1>10. CASE PutEnd(t)
  BY <1>10 DEF PutEnd, Goto, Typed, Unsplit, At, Calls, Passing, setVars, callVars
<1> QED
  BY <1>1, <1>2, <1>3, <1>4, <1>5, <1>6, <1>7, <1>8, <1>9, <1>10

LEMMA OtherPending ==
  ASSUME NEW t \in Thread, Frame(t), NEW u \in Thread, u # t
  PROVE  u \in Pending' <=> u \in Pending
<1>1. SameLocals(u)
  BY DEF Frame
<1> QED
  BY <1>1 DEF Pending, Unsplit, At, SameLocals

LEMMA PendingFinite ==
  ASSUME Typed
  PROVE  /\ IsFiniteSet(Pending) /\ Cardinality(Pending) \in Nat
         /\ IsFiniteSet(made) /\ Cardinality(made) \in Nat /\ Cardinality(Record) \in Nat /\ puts \in Nat
<1>1. Pending \in SUBSET Thread /\ made \in SUBSET LockSet /\ NumSets \in Nat /\ MaxPuts \in Nat
      /\ IsFiniteSet(Record) /\ IsFiniteSet(Thread)
  BY LockAssumption DEF Pending, Typed
<1>2. IsFiniteSet(LockSet)
  BY <1>1, FS_Interval DEF LockSet
<1>3. IsFiniteSet(Pending) /\ IsFiniteSet(made)
  BY <1>1, <1>2, FS_Subset
<1> QED
  BY <1>1, <1>3, FS_CardinalityType DEF Typed

LEMMA EnoughStep == Inv /\ Enough /\ [Next]_vars => Enough'
<1>1. SUFFICES ASSUME Inv, Enough, [Next]_vars PROVE Enough'
  OBVIOUS
<1>2. /\ Typed /\ Threads /\ Linked /\ Typed'
  BY <1>1, InvStep DEF Inv
<1>3. PICK n, p, m : n = Cardinality(Record) /\ p = Cardinality(Pending) /\ m = Cardinality(made)
  OBVIOUS
<1>4. /\ IsFiniteSet(Pending) /\ IsFiniteSet(made) /\ n \in Nat /\ p \in Nat /\ m \in Nat /\ puts \in Nat
      /\ m + p <= n + puts
  BY <1>1, <1>2, <1>3, PendingFinite DEF Enough
<1>5. CASE UNCHANGED vars
  BY <1>1, <1>5 DEF vars, setVars, passVars, argVars, moveVars, callVars, Enough, Pending, Unsplit, At
<1>6. ASSUME NEW t \in Thread, made' = made, Unsplit(t)' => Unsplit(t), Frame(t), puts' \in {puts, puts + 1}
      PROVE  Enough'
  <2>1. Pending' \subseteq Pending
    BY <1>6, OtherPending DEF Pending
  <2>2. Cardinality(Pending') <= p /\ Cardinality(Pending') \in Nat
    BY <1>3, <1>4, <2>1, FS_Subset, FS_CardinalityType
  <2>3. puts' >= puts /\ puts' \in Nat
    BY <1>4, <1>6
  <2> QED
    BY <1>3, <1>4, <1>6, <2>2, <2>3 DEF Enough
<1>7. ASSUME NEW t \in Thread, MakeSet(t), UNCHANGED puts, Frame(t) PROVE Enough'
  <2>1. PICK s \in LockSet : made' \in {made, made \cup {s}}
    BY <1>7 DEF MakeSet
  <2>2. pc[t] = "split" /\ pc'[t] = "move"
    BY <1>2, <1>7 DEF MakeSet, Goto, Typed
  <2>3. t \in Pending /\ t \notin Pending'
    BY <2>2 DEF Pending, Unsplit, At, Calls, Passing
  <2>4. Pending' = Pending \ {t}
    <3>1. Pending \subseteq Thread /\ Pending' \subseteq Thread
      BY DEF Pending
    <3> QED
      BY <1>7, <2>3, <3>1, OtherPending
  <2>5. Cardinality(Pending') = p - 1
    BY <1>3, <1>4, <2>3, <2>4, FS_RemoveElement
  <2>6. Cardinality(made') \in {m, m + 1}
    BY <1>3, <1>4, <2>1, FS_AddElement
  <2> QED
    BY <1>3, <1>4, <1>7, <2>5, <2>6 DEF Enough
<1>8. ASSUME NEW t \in Thread, Call(t) PROVE Enough'
  <2>0. Frame(t)
    BY <1>2, <1>8, Call_Own DEF Own
  <2>1. CASE \E r \in Record : dbScanLock(t, r) /\ UNCHANGED puts
    <3>1. made' = made /\ ~Unsplit(t)'
      BY <1>2, <2>1 DEF dbScanLock, Goto, Typed, Unsplit, At, Calls, Passing
    <3> QED
      BY <1>6, <2>0, <2>1, <3>1
  <2>2. CASE puts' = puts + 1 /\ \E a \in Puts : dbLockerPrepare(t, a[1], a[2])
    <3>1. made' = made
      BY <2>2 DEF dbLockerPrepare, setVars
    <3>2. \/ Pending' = Pending
          \/ Pending' = Pending \cup {t}
      <4>1. Pending \subseteq Thread /\ Pending' \subseteq Thread /\ t \notin Pending
        BY <2>2 DEF Pending, Unsplit, At, Calls, Passing, dbLockerPrepare
      <4> QED
        BY <2>0, <4>1, OtherPending
    <3>3. Cardinality(Pending') \in {p, p + 1}
      BY <1>3, <1>4, <3>2, FS_AddElement
    <3> QED
      BY <1>3, <1>4, <2>2, <3>1, <3>3 DEF Enough
  <2> QED
    BY <1>8, <2>1, <2>2 DEF Call
<1>9. ASSUME NEW t \in Thread, Step(t), UNCHANGED puts PROVE Enough'
  <2>1. Frame(t) /\ ThreadInv(t)
    BY <1>2, <1>9, Step_Own DEF Own, Threads
  <2>2. MakeSet(t) \/ (made' = made /\ (Unsplit(t)' => Unsplit(t)))
    BY <1>2, <1>9, <2>1, FewSets_Locks, FewSets_Passes, FewSets_Puts DEF Step
  <2> QED
    BY <1>6, <1>7, <1>9, <2>1, <2>2
<1> QED
  BY <1>1, <1>5, <1>8, <1>9 DEF Next

LEMMA EnoughInit == Init => Enough
<1>1. SUFFICES ASSUME Init PROVE Enough
  OBVIOUS
<1>2. Pending = {} /\ made = 1 .. Cardinality(Record) /\ puts = 0
  BY <1>1 DEF Init, Pending, Unsplit, At, Calls, Passing
<1>3. Cardinality(Record) \in Nat
  BY LockAssumption, FS_CardinalityType
<1>4. Cardinality(made) = Cardinality(Record) /\ Cardinality(Pending) = 0
  BY <1>2, <1>3, FS_Interval, FS_EmptySet
<1> QED
  BY <1>2, <1>3, <1>4 DEF Enough

-----------------------------------------------------------------------------
(* What follows: references are counted *)

\* The references are counted.
LEMMA EachIsCounted == Inv => EachCounted
BY DEF Inv, Counted, EachCounted, Weight

LEMMA FreedRight == Inv => FreedOnce
<1>1. SUFFICES ASSUME Inv PROVE FreedOnce
  OBVIOUS
<1>2. Typed /\ Threads /\ Counted /\ Recycled
  BY <1>1 DEF Inv
<1>3. lockSetsFree \in Seq(LockSet) /\ DOMAIN lockSetsFree = 1 .. Len(lockSetsFree)
  BY <1>2, LenProperties DEF Typed
<1>4. \A i, j \in DOMAIN lockSetsFree : i # j => lockSetsFree[i] # lockSetsFree[j]
  BY <1>2 DEF Recycled, IsInjective
<1>5. ASSUME NEW s \in made
      PROVE  LET freers == {t \in Thread : pc[t] = "free" /\ drop[t] = s}
                 free   == \E i \in DOMAIN lockSetsFree : lockSetsFree[i] = s
             IN /\ refcount[s] = 0 <=> (free \/ freers # {})
                /\ ~ (free /\ freers # {}) /\ Cardinality(freers) <= 1
                /\ refcount[s] = 0 => Records(s) = {} /\ mutex[s] = None
  <2>1. s \in LockSet /\ SetRecycled(s)
    BY <1>2, <1>5 DEF Typed, Recycled
  <2>2. Freeing(s) = {t \in Thread : pc[t] = "free" /\ drop[t] = s}
    BY DEF Freeing
  <2>3. Contains(lockSetsFree, s) <=> \E i \in DOMAIN lockSetsFree : lockSetsFree[i] = s
    BY <1>3 DEF Contains
  <2>4. Cardinality(Freeing(s)) <= 1
    <3>1. CASE Freeing(s) = {}
      BY <3>1, FS_EmptySet
    <3>2. CASE Freeing(s) # {}
      <4>1. PICK t : Freeing(s) = {t}
        BY <2>1, <3>2 DEF SetRecycled
      <4> QED
        BY <4>1, FS_Singleton
    <3> QED
      BY <3>1, <3>2
  <2>5. refcount[s] = 0 <=> Contains(lockSetsFree, s) \/ Freeing(s) # {}
    BY <1>5, <2>1 DEF SetRecycled
  <2>6. ~(Contains(lockSetsFree, s) /\ Freeing(s) # {})
    BY <2>1 DEF SetRecycled
  <2>7. refcount[s] = 0 => Records(s) = {} /\ mutex[s] = None
    BY <1>2, <2>1, ZeroUnlocked
  <2> QED
    BY <2>2, <2>3, <2>4, <2>5, <2>6, <2>7
<1> QED
  BY <1>4, <1>5 DEF FreedOnce

LEMMA CheckedTwice ==
  ASSUME Inv, NEW t \in Thread, pc[t] = "check", ls[t] = plockSet[rec[t]]
  PROVE  refcount[ls[t]] >= 2
<1>1. /\ Typed /\ Threads /\ Counted /\ ThreadInv(t) /\ At(t) = "check"
      /\ rec[t] \in Record /\ ls[t] \in LockSet
  BY DEF Inv, Threads, ThreadInv, Positions, At, Calls, Scanning
<1>2. mutex[ls[t]] = t
  BY <1>1 DEF ThreadInv, Mutexes
<1>3. \A u \in Thread : ownerlocker[ls[t]] # u
  <2>1. ownerlocker[ls[t]] # t
    BY <1>1 DEF ThreadInv, Owning, Mutated, Verifying, Passing
  <2> QED
    BY <1>1, <1>2, <2>1 DEF Threads, ThreadInv, Mutexes
<1>4. Weight(ls[t]) \in Nat /\ Weight(ls[t]) # 0
  <2>1. Records(ls[t]) # {}
    BY <1>1 DEF Records
  <2> QED
    BY <1>1, <1>3, <2>1, WeightIs
<1>5. Cardinality(References(ls[t])) \in Nat /\ Cardinality(References(ls[t])) # 0
  <2>1. <<t, "wait">> \in References(ls[t])
    BY DEF References, Refers, Kind
  <2> QED
    BY <2>1, FiniteCounts DEF References
<1>6. refcount[ls[t]] = Weight(ls[t]) + Cardinality(References(ls[t]))
  BY <1>1 DEF Counted
<1> QED
  BY <1>4, <1>5, <1>6

LEMMA SplitRoom ==
  ASSUME Inv, Enough, NEW t \in Thread, pc[t] = "split"
  PROVE  lockSetsFree # <<>> \/ made # LockSet
<1>1. t \in Pending
  BY DEF Pending, Unsplit, At, Calls
<1>2. /\ IsFiniteSet(Pending) /\ Cardinality(Pending) \in Nat /\ Cardinality(made) \in Nat
      /\ Cardinality(Record) \in Nat /\ puts \in Nat /\ puts <= MaxPuts /\ MaxPuts \in Nat
  BY PendingFinite, LockAssumption DEF Inv, Typed
<1>3. Cardinality(Pending) # 0
  BY <1>1, <1>2, FS_EmptySet
<1>4. Cardinality(made) < Cardinality(Record) + MaxPuts
  BY <1>2, <1>3 DEF Enough
<1>5. Cardinality(LockSet) = NumSets /\ NumSets \in Nat /\ NumSets >= Cardinality(Record) + MaxPuts
  <2>1. NumSets \in Nat /\ NumSets >= Cardinality(Record) + MaxPuts
    BY LockAssumption
  <2> QED
    BY <2>1, FS_Interval DEF LockSet
<1> QED
  BY <1>2, <1>4, <1>5

LEMMA AssertionsHold == Inv /\ Enough => AssertsHold
<1>1. SUFFICES ASSUME Inv, Enough PROVE AssertsHold
  OBVIOUS
<1>2. Typed /\ Threads /\ Linked /\ Counted /\ Recycled
  BY <1>1 DEF Inv
<1>3. \A r \in Record : refcount[plockSet[r]] >= 1
  <2>1. \A r \in Record : plockSet[r] \in LockSet /\ Records(plockSet[r]) # {}
    BY <1>2 DEF Typed, Records
  <2> QED
    BY <1>2, <2>1, CountPositive
<1>4. \A s \in LockSet : mutex[s] = None => ownerlocker[s] = None
  <2>1. \A s \in LockSet : ownerlocker[s] \in Thread => mutex[s] = ownerlocker[s]
    BY <1>2 DEF Threads, ThreadInv, Mutexes
  <2> QED
    BY <1>2, <2>1, NoneFacts DEF Typed
<1>5. ASSUME NEW t \in Thread
      PROVE  /\ pc[t] = "check" /\ ls[t] = plockSet[rec[t]] => refcount[ls[t]] >= 2
             /\ pc[t] = "decref" => refcount[drop[t]] >= 1
             /\ pc[t] = "free" => Records(drop[t]) = {}
  <2>0. pc[t] \in Calls => drop[t] \in LockSet
    BY <1>2 DEF Threads, ThreadInv, Positions
  <2>1. ASSUME pc[t] = "decref" PROVE refcount[drop[t]] >= 1
    <3>1. Refers(t, "drop", drop[t]) /\ "drop" \in Kind
      BY <2>1 DEF Refers, Kind
    <3> QED
      BY <1>2, <2>0, <2>1, <3>1, CountPositive DEF Calls
  <2>2. ASSUME pc[t] = "free" PROVE Records(drop[t]) = {}
    <3>1. drop[t] \in LockSet /\ Freeing(drop[t]) # {}
      BY <2>0, <2>2 DEF Freeing, Calls
    <3>2. refcount[drop[t]] = 0
      BY <1>2, <3>1 DEF Recycled, SetRecycled
    <3> QED
      BY <1>2, <3>1, <3>2, ZeroCount
  <2> QED
    BY <1>1, <2>1, <2>2, CheckedTwice
<1>6. ASSUME NEW t \in Thread, pc[t] = "acquire", NEW s \in Todo(t) PROVE mutex[s] # t
  <2>1. s \in LockSet /\ ownerlocker[s] # t
    BY <1>2 DEF Todo, Locked, Typed, Slot
  <2> QED
    BY <1>2, <1>6, <2>1 DEF Threads, ThreadInv, Mutexes
<1>7. ASSUME NEW t \in Thread, pc[t] = "held"
      PROVE  /\ Locked(t) # {}
             /\ link[rec[t]] # None => plockSet[rec[t]] = plockSet[link[rec[t]]]
  <2>1. rec[t] \in Record /\ plockSet[rec[t]] \in LockSet /\ ownerlocker[plockSet[rec[t]]] = t
    BY <1>2, <1>7, MutatedFacts DEF Threads, Mutated
  <2>2. IsComponent(link, Records(plockSet[rec[t]]))
    BY <1>2, <1>7, <2>1, HeldComponent
  <2>3. link[rec[t]] # None => link[rec[t]] \in Records(plockSet[rec[t]])
    BY <2>1, <2>2 DEF IsComponent, Tied, Records
  <2> QED
    BY <2>1, <2>3 DEF Locked, Records
<1>8. ASSUME NEW t \in Thread, pc[t] = "split"
      PROVE  /\ moving[t] \subseteq Records(plockSet[rec[t]]) \ {rec[t]}
             /\ refcount[plockSet[rec[t]]] >= Cardinality(Records(plockSet[rec[t]])) + 1
             /\ lockSetsFree # <<>> \/ made # LockSet
  <2>1. moving[t] \subseteq Records(plockSet[rec[t]]) \ {rec[t]}
    BY <1>2, <1>8 DEF Threads, ThreadInv, Moves
  <2>2. PICK s : s = plockSet[rec[t]]
    OBVIOUS
  <2>3. s \in LockSet /\ ownerlocker[s] = t
    BY <1>2, <1>8, <2>2, MutatedFacts DEF Threads, Mutated
  <2>4. Weight(s) = Cardinality(Records(s))
    BY <1>8, <2>3, CalmWeight
  <2>5. Cardinality(References(s)) \in Nat /\ Cardinality(References(s)) # 0
    <3>1. <<t, "list">> \in References(s)
      BY <2>3 DEF References, Refers, Kind
    <3> QED
      BY <3>1, FiniteCounts DEF References
  <2>6. refcount[s] = Weight(s) + Cardinality(References(s))
    BY <1>2, <2>3 DEF Counted
  <2>7. Cardinality(Records(s)) \in Nat
    BY FiniteCounts DEF Records
  <2>8. refcount[s] >= Cardinality(Records(s)) + 1
    BY <2>4, <2>5, <2>6, <2>7
  <2> QED
    BY <1>1, <1>8, <2>1, <2>2, <2>8, SplitRoom
<1>9. ASSUME NEW t \in Thread, pc[t] = "relink"
      PROVE  /\ ownerlocker[plockSet[rec[t]]] = t
             /\ tgt[t] # None => ownerlocker[plockSet[tgt[t]]] = t
  BY <1>2, <1>9, MutatedFacts DEF Threads, Mutated
<1> QED
  BY <1>3, <1>4, <1>5, <1>6, <1>7, <1>8, <1>9 DEF AssertsHold

\* Every reference is counted once, a set is freed once and only when nothing
\* refers to it, and no assertion of dbLock.c fails.
THEOREM ReferencesCounted == Spec => []RefsCounted
<1>1. Init => Inv /\ Enough
  BY InvInit, EnoughInit
<1>2. Inv /\ Enough /\ [Next]_vars => (Inv /\ Enough)'
  BY InvStep, EnoughStep
<1>3. Inv /\ Enough => RefsCounted
  BY EachIsCounted, FreedRight, AssertionsHold DEF RefsCounted
<1> QED
  BY <1>1, <1>2, <1>3, PTL DEF Spec

-----------------------------------------------------------------------------
(* The records a thread holds, and the abstract specification *)

Holding == Mutated \cup {"locked"}

\* A thread has locked the mutex of every record that it holds.
LEMMA HoldsMutex ==
  ASSUME Typed, Threads, NEW u \in Thread, NEW r \in Holds(u)
  PROVE  r \in Record /\ mutex[plockSet[r]] = u
<1>1. ThreadInv(u)
  BY DEF Threads
<1>2. CASE pc[u] = "locked"
  <2>1. r \in Record /\ plockSet[r] = plockSet[rec[u]]
    BY <1>2 DEF Holds, Records
  <2>2. plockSet[r] \in LockSet
    BY <2>1 DEF Typed
  <2> QED
    BY <1>1, <1>2, <2>1, <2>2 DEF ThreadInv, Mutexes
<1>3. CASE pc[u] \in Mutated
  <2>1. r \in Record /\ ownerlocker[plockSet[r]] = u
    BY <1>3 DEF Holds, Mutated
  <2>2. plockSet[r] \in LockSet
    BY <2>1 DEF Typed
  <2> QED
    BY <1>1, <2>1, <2>2 DEF ThreadInv, Mutexes
<1> QED
  BY <1>2, <1>3 DEF Holds

\* A step of t changes nothing in what the others hold.
LEMMA OtherHolds ==
  ASSUME Typed, Typed', Threads, NEW t \in Thread, Frame(t), Moved(t), NEW u \in Thread, u # t
  PROVE  Holds(u)' = Holds(u)
<1>1. ThreadInv(u) /\ ThreadInv(t) /\ pc'[u] = pc[u] /\ rec'[u] = rec[u]
  BY DEF Threads, Frame, SameLocals
<1>2. CASE pc[u] = "locked"
  <2>1. PICK s : s = plockSet[rec[u]]
    OBVIOUS
  <2>2. rec[u] \in Record /\ s \in LockSet /\ mutex[s] = u
    BY <1>1, <1>2, <2>1 DEF ThreadInv, Positions, At, Calls, Scanning, Mutexes, Typed
  <2>3. ownerlocker[s] # t
    BY <1>1, <2>2 DEF ThreadInv, Mutexes
  <2>4. {r \in Record : plockSet'[r] = s} = Records(s)
    BY <2>2, <2>3, OwnedStays
  <2>5. plockSet'[rec[u]] = s
    BY <2>1, <2>2, <2>4 DEF Records
  <2> QED
    BY <1>1, <1>2, <2>1, <2>4, <2>5 DEF Holds, Records
<1>3. CASE pc[u] \in Mutated
  <2>1. \A r \in Record : plockSet[r] \in LockSet /\ plockSet'[r] \in LockSet
    BY DEF Typed
  <2>2. \A s \in LockSet : ownerlocker'[s] = u <=> ownerlocker[s] = u
    BY NoneFacts DEF Frame
  <2>3. \A r \in Record : ownerlocker'[plockSet'[r]] = u <=> ownerlocker[plockSet[r]] = u
    BY <2>1, <2>2 DEF Moved
  <2> QED
    BY <1>1, <1>3, <2>3 DEF Holds, Mutated
<1>4. CASE pc[u] \notin Holding
  BY <1>1, <1>4 DEF Holds, Holding
<1> QED
  BY <1>2, <1>3, <1>4 DEF Holding

\* How a step maps to one of the abstract specification.
OthersHold(t) == \A u \in Thread \ {t} : Holds(u)' = Holds(u)

LEMMA MapStutter ==
  ASSUME NEW t \in Thread, OthersHold(t), Holds(t)' = Holds(t), link' = link
  PROVE  UNCHANGED RL!vars
<1>1. \A u \in Thread : Holds(u)' = Holds(u)
  BY DEF OthersHold
<1>2. [u \in Thread |-> Holds(u)'] = [u \in Thread |-> Holds(u)]
  BY <1>1
<1> QED
  BY <1>2 DEF RL!vars

LEMMA MapRelease ==
  ASSUME NEW t \in Thread, OthersHold(t), Holds(t)' = {}, link' = link
  PROVE  RL!Next
<1>1. [u \in Thread |-> Holds(u)'] = [[u \in Thread |-> Holds(u)] EXCEPT ![t] = {}]
  BY DEF OthersHold
<1>2. RL!Release(t)
  BY <1>1 DEF RL!Release
<1> QED
  BY <1>2 DEF RL!Next

LEMMA MapRelink ==
  ASSUME NEW t \in Thread, OthersHold(t), Holds(t)' = Holds(t), NEW r \in Record, NEW q \in Record \cup {None},
         r \in Holds(t), q \in Holds(t) \cup {None}, link' = [link EXCEPT ![r] = q]
  PROVE  RL!Next
<1>1. [u \in Thread |-> Holds(u)'] = [u \in Thread |-> Holds(u)]
  BY DEF OthersHold
<1>2. RL!Relink(t, r, q)
  BY <1>1 DEF RL!Relink
<1> QED
  BY <1>2 DEF RL!Next

LEMMA MapAcquire ==
  ASSUME Typed, Threads, NEW t \in Thread, OthersHold(t), Holds(t) = {}, link' = link,
         NEW R \in SUBSET Record, Holds(t)' = R, Tied(link, R), \A r \in R : mutex[plockSet[r]] = t
  PROVE  RL!Next
<1>1. [u \in Thread |-> Holds(u)'] = [[u \in Thread |-> Holds(u)] EXCEPT ![t] = R]
  BY DEF OthersHold
<1>2. \A u \in Thread : Holds(u) \cap R = {}
  BY HoldsMutex
<1>3. RL!Closed(R)
  BY DEF RL!Closed, Tied
<1>4. RL!Acquire(t, R)
  BY <1>1, <1>2, <1>3 DEF RL!Acquire
<1> QED
  BY <1>4 DEF RL!Next

\* The records of locked sets, none of which is being changed, are closed under links.
LEMMA OwnedTied ==
  ASSUME Typed, Threads, Linked, NEW P \in SUBSET LockSet, \A s \in P : ~Busy(s)
  PROVE  Tied(link, {r \in Record : plockSet[r] \in P})
<1>1. ASSUME NEW r \in Record, plockSet[r] \in P PROVE Tied(link, Records(plockSet[r])) /\ r \in Records(plockSet[r])
  <2>1. r \in Records(plockSet[r])
    BY DEF Records
  <2> QED
    BY <1>1, <2>1 DEF Linked, SetLinked, IsComponent
<1>2. ASSUME NEW q \in Record, link[q] # None
      PROVE  plockSet[q] \in P <=> plockSet[link[q]] \in P
  <2>1. link[q] \in Record
    BY <1>2 DEF Typed
  <2>2. plockSet[q] \in P => plockSet[link[q]] = plockSet[q]
    BY <1>1, <1>2, <2>1 DEF Tied, Records
  <2>3. plockSet[link[q]] \in P => plockSet[link[q]] = plockSet[q]
    BY <1>1, <1>2, <2>1 DEF Tied, Records
  <2> QED
    BY <2>2, <2>3
<1> QED
  BY <1>2 DEF Tied, Typed

\* A step that neither takes nor gives back nor changes records.
LEMMA AsideMaps ==
  ASSUME Typed, Typed', Threads, NEW t \in Thread, Frame(t), UNCHANGED <<link, plockSet>>,
         pc[t] \notin Holding, pc'[t] \notin Holding
  PROVE  UNCHANGED RL!vars
<1>1. Moved(t)
  BY DEF Moved
<1>2. OthersHold(t)
  BY <1>1, OtherHolds DEF OthersHold
<1>3. Holds(t) = {} /\ Holds(t)' = {}
  BY DEF Holds, Holding
<1> QED
  BY <1>2, <1>3, MapStutter

\* dbScanLock returns: the record's set is complete, and nobody is changing it.
LEMMA CheckOK_Maps ==
  ASSUME Inv, NEW t \in Thread, CheckOK(t), Typed', Frame(t) PROVE RL!Next
<1>1. Typed /\ Threads /\ Linked /\ ThreadInv(t)
  BY DEF Inv, Threads
<1>2. /\ pc[t] = "check" /\ pc'[t] = "locked" /\ ls[t] = plockSet[rec[t]]
      /\ UNCHANGED <<link, plockSet, rec>>
  BY <1>1 DEF CheckOK, Goto, argVars, Typed
<1>3. rec[t] \in Record /\ ls[t] \in LockSet /\ At(t) = "check" /\ mutex[ls[t]] = t
  BY <1>1, <1>2 DEF ThreadInv, Positions, Mutexes, At, Calls, Scanning
<1>4. \A u \in Thread : ownerlocker[ls[t]] # u
  <2>1. ownerlocker[ls[t]] # t
    BY <1>1, <1>3 DEF ThreadInv, Owning, Mutated, Verifying, Passing
  <2> QED
    BY <1>1, <1>3, <2>1 DEF Threads, ThreadInv, Mutexes
<1>5. ~Busy(ls[t])
  BY <1>1, <1>4, BusyIsOwned DEF Busy
<1>6. PICK R : R = Records(ls[t])
  OBVIOUS
<1>7. R \in SUBSET Record /\ \A r \in R : mutex[plockSet[r]] = t
  BY <1>3, <1>6 DEF Records
<1>8. Tied(link, R)
  <2>1. Records(ls[t]) # {}
    BY <1>2, <1>3 DEF Records
  <2> QED
    BY <1>1, <1>3, <1>5, <1>6, <2>1 DEF Linked, SetLinked, IsComponent
<1>9. Holds(t) = {} /\ Holds(t)' = R
  BY <1>2, <1>6 DEF Holds, Mutated, Records
<1>10. OthersHold(t)
  BY <1>1, <1>2, OtherHolds DEF OthersHold, Moved
<1> QED
  BY <1>1, <1>2, <1>7, <1>8, <1>9, <1>10, MapAcquire

\* dbScanLockMany returns: all its sets are complete.
LEMMA Held_Maps ==
  ASSUME Inv, NEW t \in Thread, pc[t] \in Passing, pc'[t] = "held",
         UNCHANGED <<link, plockSet, ownerlocker>>, Typed', Frame(t) PROVE RL!Next
<1>1. Typed /\ Threads /\ Linked /\ ThreadInv(t)
  BY DEF Inv, Threads
<1>2. PICK P : P = {s \in LockSet : ownerlocker[s] = t}
  OBVIOUS
<1>3. PICK R : R = {r \in Record : ownerlocker[plockSet[r]] = t}
  OBVIOUS
<1>4. R = {r \in Record : plockSet[r] \in P} /\ R \in SUBSET Record
  BY <1>1, <1>2, <1>3 DEF Typed
<1>5. \A r \in R : mutex[plockSet[r]] = t
  BY <1>1, <1>3 DEF Typed, ThreadInv, Mutexes
<1>6. \A s \in P : ~Busy(s)
  BY <1>1, <1>2, BusyIsOwned DEF Busy, BusyWith, Passing
<1>7. Tied(link, R)
  <2>1. P \in SUBSET LockSet
    BY <1>2
  <2> QED
    BY <1>1, <1>4, <1>6, <2>1, OwnedTied
<1>8. Holds(t) = {} /\ Holds(t)' = R
  BY <1>3 DEF Holds, Mutated, Passing
<1>9. OthersHold(t)
  BY <1>1, OtherHolds DEF OthersHold, Moved
<1> QED
  BY <1>1, <1>4, <1>5, <1>7, <1>8, <1>9, MapAcquire

\* Unlocking gives all records back.
LEMMA Unlock_Maps ==
  ASSUME Inv, NEW t \in Thread, pc'[t] \notin Holding, UNCHANGED <<link, plockSet>>, Typed', Frame(t)
  PROVE  RL!Next
<1>1. Typed /\ Threads
  BY DEF Inv
<1>2. Holds(t)' = {}
  BY DEF Holds, Holding
<1>3. OthersHold(t)
  BY <1>1, OtherHolds DEF OthersHold, Moved
<1> QED
  BY <1>2, <1>3, MapRelease

\* A link changes with both ends held.
LEMMA Relink_Maps ==
  ASSUME Inv, NEW t \in Thread, pc[t] \in Mutated, pc'[t] \in Mutated,
         UNCHANGED <<plockSet, ownerlocker>>,
         NEW q, q = None \/ q = tgt[t], link' = [link EXCEPT ![rec[t]] = q], Typed', Frame(t)
  PROVE  RL!Next
<1>1. Typed /\ Threads /\ ThreadInv(t)
  BY DEF Inv, Threads
<1>2. /\ rec[t] \in Record /\ ownerlocker[plockSet[rec[t]]] = t
      /\ tgt[t] # None => tgt[t] \in Record /\ ownerlocker[plockSet[tgt[t]]] = t
  BY <1>1, MutatedFacts
<1>3. Holds(t) = {r \in Record : ownerlocker[plockSet[r]] = t} /\ Holds(t)' = Holds(t)
  BY DEF Holds, Mutated
<1>4. rec[t] \in Holds(t) /\ q \in Holds(t) \cup {None} /\ q \in Record \cup {None}
  BY <1>2, <1>3
<1>5. OthersHold(t)
  BY <1>1, OtherHolds DEF OthersHold, Moved
<1> QED
  BY <1>2, <1>3, <1>4, <1>5, MapRelink

\* Records move between sets, and sets come and go, without a change in what is held.
LEMMA Moving_Maps ==
  ASSUME Inv, NEW t \in Thread, pc[t] \in Mutated, pc'[t] \in Mutated, link' = link, Moved(t), Typed', Frame(t),
         \A r \in Record : ownerlocker'[plockSet'[r]] = t <=> ownerlocker[plockSet[r]] = t
  PROVE  UNCHANGED RL!vars
<1>1. Typed /\ Threads
  BY DEF Inv
<1>2. Holds(t)' = Holds(t)
  BY DEF Holds, Mutated
<1>3. OthersHold(t)
  BY <1>1, OtherHolds DEF OthersHold
<1> QED
  BY <1>2, <1>3, MapStutter

LEMMA MakeSet_Maps ==
  ASSUME Inv, NEW t \in Thread, MakeSet(t), Typed', Frame(t) PROVE UNCHANGED RL!vars
<1>1. PICK x \in LockSet : /\ \/ lockSetsFree # <<>> /\ x = Head(lockSetsFree)
                              \/ x \notin made
                           /\ ownerlocker' = [ownerlocker EXCEPT ![x] = t]
  BY DEF MakeSet
<1>2. pc[t] \in Mutated /\ pc'[t] \in Mutated /\ UNCHANGED <<link, plockSet>>
  BY DEF MakeSet, Goto, Mutated, Inv, Typed
<1>3. x \notin made \/ Contains(lockSetsFree, x)
  BY <1>1, ListGet DEF Inv, Typed
<1>4. refcount[x] = 0
  BY <1>3 DEF Inv, Recycled, SetRecycled
<1>5. Records(x) = {}
  BY <1>4, ZeroCount DEF Inv
<1>6. \A r \in Record : ownerlocker'[plockSet'[r]] = t <=> ownerlocker[plockSet[r]] = t
  <2>1. \A r \in Record : plockSet[r] # x /\ plockSet[r] \in LockSet
    BY <1>5 DEF Records, Inv, Typed
  <2>2. \A s \in LockSet : s # x => ownerlocker'[s] = ownerlocker[s]
    BY <1>1 DEF Inv, Typed
  <2> QED
    BY <1>2, <2>1, <2>2
<1>7. Moved(t)
  BY <1>2 DEF Moved
<1> QED
  BY <1>2, <1>6, <1>7, Moving_Maps

LEMMA Move_Maps ==
  ASSUME Inv, NEW t \in Thread, SplitMove(t) \/ MergeMove(t), Typed', Frame(t) PROVE UNCHANGED RL!vars
<1>1. pc[t] \in {"move", "merge"} /\ UNCHANGED <<link, ownerlocker, pc>>
  BY DEF SplitMove, MergeMove, setVars
<1>2. ThreadInv(t) /\ Typed
  BY DEF Inv, Threads
<1>3. /\ rec[t] \in Record /\ plockSet[rec[t]] \in LockSet /\ ownerlocker[plockSet[rec[t]]] = t
      /\ ls[t] \in LockSet /\ ownerlocker[ls[t]] = t
  BY <1>1, <1>2, MutatedFacts DEF ThreadInv, Moves, Mutated
<1>4. PICK r \in Record, s \in LockSet :
        /\ plockSet' = [plockSet EXCEPT ![r] = s]
        /\ ownerlocker[plockSet[r]] = t /\ ownerlocker[s] = t
  <2>1. CASE SplitMove(t)
    <3>1. PICK r \in moving[t] : plockSet' = [plockSet EXCEPT ![r] = ls[t]]
      BY <2>1 DEF SplitMove, MoveRecord
    <3>2. r \in Records(plockSet[rec[t]])
      BY <1>2, <2>1, <3>1 DEF ThreadInv, Moves, SplitMove
    <3> QED
      BY <1>3, <3>1, <3>2 DEF Records
  <2>2. CASE MergeMove(t)
    <3>1. PICK r \in Records(ls[t]) : plockSet' = [plockSet EXCEPT ![r] = plockSet[rec[t]]]
      BY <2>2 DEF MergeMove, MoveRecord
    <3> QED
      BY <1>3, <3>1 DEF Records
  <2> QED
    BY <2>1, <2>2
<1>5. \A x \in Record : plockSet'[x] = IF x = r THEN s ELSE plockSet[x]
  BY <1>2, <1>4 DEF Typed
<1>6. Moved(t) /\ \A x \in Record : ownerlocker'[plockSet'[x]] = t <=> ownerlocker[plockSet[x]] = t
  BY <1>1, <1>4, <1>5 DEF Moved
<1> QED
  BY <1>1, <1>6, Moving_Maps DEF Mutated

LEMMA SplitEnd_Maps ==
  ASSUME Inv, NEW t \in Thread, SplitEnd(t), Typed', Frame(t) PROVE UNCHANGED RL!vars
<1>1. pc[t] \in Mutated /\ pc'[t] \in Mutated /\ UNCHANGED <<link, plockSet, ownerlocker>>
  BY DEF SplitEnd, Goto, Mutated, Inv, Typed
<1>2. Moved(t)
  BY <1>1 DEF Moved
<1> QED
  BY <1>1, <1>2, Moving_Maps

\* the steps of dbLockDecRef, and those of a thread that has locked nothing yet or
\* is unlocking
LEMMA Aside ==
  ASSUME Inv, NEW t \in Thread,
         \/ DecRef(t) \/ FreeSet(t) \/ LockMutex(t) \/ CheckRetry(t)
         \/ PassStart(t) \/ Acquire(t) \/ Acquired(t) \/ UnlockOne(t) \/ UnlockEnd(t) \/ Finalize(t)
         \/ \E i \in Slot : SlotExchange(t, i) \/ SlotCollide(t, i)
         \/ \E r \in Record : dbScanLock(t, r)
         \/ \E r, q : dbLockerPrepare(t, r, q)
  PROVE  /\ pc[t] \notin Holding /\ pc'[t] \notin Holding
         /\ UNCHANGED <<link, plockSet>>
<1>1. Typed /\ ThreadInv(t)
  BY DEF Inv, Threads
<1>2. CASE DecRef(t) \/ FreeSet(t)
  <2>1. /\ pc[t] \in Calls /\ UNCHANGED <<link, plockSet>> /\ pc'[t] \in {"free", ret[t]}
    BY <1>1, <1>2 DEF DecRef, FreeSet, Return, Goto, Calls, Typed
  <2> QED
    BY <1>1, <2>1 DEF ThreadInv, Positions, Calls, Holding, Mutated
<1>3. CASE LockMutex(t) \/ CheckRetry(t) \/ PassStart(t) \/ Acquire(t) \/ Acquired(t)
  BY <1>1, <1>3 DEF LockMutex, CheckRetry, CallDecRef, PassStart, Acquire, Acquired, Goto, Holding, Mutated, Typed
<1>4. CASE UnlockOne(t) \/ UnlockEnd(t)
  BY <1>1, <1>4 DEF UnlockOne, UnlockEnd, CallDecRef, Goto, Holding, Mutated, Typed
<1>5. CASE Finalize(t)
  <2>1. pc[t] = "finalize" /\ pc'[t] \in {"idle", "decref"} /\ UNCHANGED <<link, plockSet>>
    BY <1>1, <1>5 DEF Finalize, CallDecRef, Goto, Typed
  <2> QED
    BY <2>1 DEF Holding, Mutated
<1>6. ASSUME NEW i \in Slot, SlotExchange(t, i)
      PROVE /\ pc[t] \notin Holding /\ pc'[t] \notin Holding
            /\ UNCHANGED <<link, plockSet>>
  <2>1. /\ pc[t] \in {"slot1", "slot2"} /\ mode[t] # "verify" /\ UNCHANGED <<link, plockSet>>
        /\ pc'[t] \in {"decref", AfterSlot(t, i)}
    BY <1>1, <1>6 DEF SlotExchange, AtSlot, CallDecRef, Goto, Typed
  <2>2. mode[t] \in {"prepare", "many", "verify"}
    BY <1>1, <2>1 DEF ThreadInv, Positions, At, Calls, Passing
  <2> QED
    BY <2>1, <2>2 DEF AfterSlot, PassEnd, Holding, Mutated
<1>7. ASSUME NEW i \in Slot, SlotCollide(t, i)
      PROVE /\ pc[t] \notin Holding /\ pc'[t] \notin Holding
            /\ UNCHANGED <<link, plockSet>>
  BY <1>1, <1>7 DEF SlotCollide, AtSlot, Goto, Holding, Mutated, Typed
<1>8. CASE (\E r \in Record : dbScanLock(t, r)) \/ (\E r, q : dbLockerPrepare(t, r, q))
  BY <1>1, <1>8 DEF dbScanLock, dbLockerPrepare, Goto, Holding, Mutated, Typed
<1> QED
  BY <1>2, <1>3, <1>4, <1>5, <1>6, <1>7, <1>8

LEMMA Pass_Maps ==
  ASSUME Inv, NEW t \in Thread, PassSkip(t) \/ \E i \in Slot : SlotSame(t, i), Typed', Frame(t)
  PROVE  RL!Next \/ UNCHANGED RL!vars
<1>1. Typed /\ Threads /\ ThreadInv(t)
  BY DEF Inv, Threads
<1>2. /\ pc[t] \in Passing /\ UNCHANGED <<link, plockSet, ownerlocker>>
      /\ pc'[t] \in {PassEnd(t), "slot2"}
  BY <1>1 DEF PassSkip, SlotSame, AtSlot, AfterSlot, Goto, Passing, Slot, setVars, Typed
<1>3. CASE pc'[t] = "held"
  BY <1>2, <1>3, Held_Maps
<1>4. CASE pc'[t] # "held"
  <2>1. pc[t] \notin Holding /\ pc'[t] \notin Holding
    BY <1>2, <1>4 DEF PassEnd, Holding, Mutated, Passing
  <2> QED
    BY <1>1, <1>2, <2>1, AsideMaps
<1> QED
  BY <1>3, <1>4

LEMMA Refine_Step == Inv /\ [Next]_vars => [RL!Next]_(RL!vars)
<1> SUFFICES ASSUME Inv, [Next]_vars PROVE RL!Next \/ UNCHANGED RL!vars
  OBVIOUS
<1>0. Typed /\ Threads /\ Linked /\ Typed'
  BY InvStep DEF Inv
<1>1. CASE UNCHANGED vars
  <2>1. UNCHANGED <<link, plockSet, ownerlocker, pc, rec>>
    BY <1>1 DEF vars, setVars, argVars
  <2>2. \A u \in Thread : Holds(u)' = Holds(u)
    BY <2>1 DEF Holds, Records
  <2>3. [u \in Thread |-> Holds(u)'] = [u \in Thread |-> Holds(u)]
    BY <2>2
  <2> QED
    BY <2>1, <2>3 DEF RL!vars
<1>2. ASSUME NEW t \in Thread, Call(t) PROVE UNCHANGED RL!vars
  <2>1. Frame(t)
    BY <1>0, <1>2, Call_Own DEF Own
  <2>2. pc[t] \notin Holding /\ pc'[t] \notin Holding /\ UNCHANGED <<link, plockSet>>
    BY <1>2, Aside DEF Call
  <2> QED
    BY <1>0, <2>1, <2>2, AsideMaps
<1>3. ASSUME NEW t \in Thread, Step(t), UNCHANGED puts PROVE RL!Next \/ UNCHANGED RL!vars
  <2>1. Frame(t)
    BY <1>0, <1>3, Step_Own DEF Own
  <2>2. CASE \/ DecRef(t) \/ FreeSet(t) \/ LockMutex(t) \/ CheckRetry(t)
             \/ PassStart(t) \/ Acquire(t) \/ Acquired(t) \/ UnlockOne(t) \/ UnlockEnd(t) \/ Finalize(t)
             \/ \E i \in Slot : SlotExchange(t, i) \/ SlotCollide(t, i)
    <3>1. pc[t] \notin Holding /\ pc'[t] \notin Holding /\ UNCHANGED <<link, plockSet>>
      BY <2>2, Aside
    <3> QED
      BY <1>0, <2>1, <3>1, AsideMaps
  <2>3. CASE CheckOK(t)
    BY <1>0, <2>1, <2>3, CheckOK_Maps
  <2>4. CASE dbScanUnlock(t) \/ MergeEnd(t) \/ PutEnd(t)
    <3>1. pc'[t] \notin Holding /\ UNCHANGED <<link, plockSet>>
      BY <1>0, <2>4 DEF dbScanUnlock, MergeEnd, PutEnd, CallDecRef, Goto, Holding, Mutated, Typed
    <3> QED
      BY <1>0, <2>1, <3>1, Unlock_Maps
  <2>5. CASE PassSkip(t) \/ \E i \in Slot : SlotSame(t, i)
    BY <1>0, <2>1, <2>5, Pass_Maps
  <2>6. CASE RemoveLink(t)
    <3>1. /\ pc[t] \in Mutated /\ pc'[t] \in Mutated /\ UNCHANGED <<plockSet, ownerlocker>>
          /\ link' = [link EXCEPT ![rec[t]] = None]
      BY <1>0, <2>6 DEF RemoveLink, Goto, Mutated, setVars, Typed
    <3> QED
      BY <1>0, <2>1, <3>1, Relink_Maps
  <2>7. CASE AddLink(t)
    <3>1. /\ pc[t] \in Mutated /\ pc'[t] \in Mutated /\ UNCHANGED <<plockSet, ownerlocker>>
          /\ link' = [link EXCEPT ![rec[t]] = tgt[t]]
      BY <1>0, <2>7 DEF AddLink, Goto, Mutated, setVars, Typed
    <3> QED
      BY <1>0, <2>1, <3>1, Relink_Maps
  <2>8. CASE MakeSet(t)
    BY <1>0, <2>1, <2>8, MakeSet_Maps
  <2>9. CASE SplitMove(t) \/ MergeMove(t)
    BY <1>0, <2>1, <2>9, Move_Maps
  <2>10. CASE SplitEnd(t)
    BY <1>0, <2>1, <2>10, SplitEnd_Maps
  <2> QED
    BY <1>3, <2>2, <2>3, <2>4, <2>5, <2>6, <2>7, <2>8, <2>9, <2>10 DEF Step
<1> QED
  BY <1>1, <1>2, <1>3 DEF Next

LEMMA Refine_Init == Init => RL!Init
<1> SUFFICES ASSUME Init PROVE RL!Init
  OBVIOUS
<1>1. \A t \in Thread : Holds(t) = {}
  BY DEF Init, Holds, Mutated
<1> QED
  BY <1>1 DEF Init, RL!Init

\* Lock sets implement RecordLock: a thread that has returned from dbScanLock or
\* dbScanLockMany holds all that is tied to its records, alone.
THEOREM LocksRecords == Spec => RefinesRecordLock
BY InvInit, InvStep, Refine_Init, Refine_Step, PTL DEF Spec, RefinesRecordLock, RL!Spec

=============================================================================
