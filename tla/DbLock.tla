------------------------------- MODULE DbLock -------------------------------
(***************************************************************************)
(* Lock sets, dbLock.c: one mutex for all the records that database links  *)
(* tie together.                                                           *)
(*                                                                         *)
(* dbScanLock locks the set of one record, dbScanLockMany the sets of      *)
(* several.  dbPutFieldLink changes a link with both ends locked:          *)
(* dbLockSetSplit then moves records to a new set, dbLockSetMerge moves    *)
(* all records of one set to another.  A record's set can change while a   *)
(* thread waits for the set's mutex, so every lock is checked once it is   *)
(* taken.  Sets are counted references and go to a free list.              *)
(*                                                                         *)
(* A set is its address, a number.  Each thread has its own dbLocker.  The *)
(* list of a set's records is the inverse of plockSet: both change under   *)
(* the set's mutex.  recomputeCnt is only ever compared with a locker's    *)
(* copy of it, so the model keeps the copies that still equal it.          *)
(***************************************************************************)
EXTENDS Integers, Sequences, FiniteSets, SequencesExt

CONSTANTS
  Thread, Record, None,
  InitLink,     \* the links of the database file
  Puts,         \* bound: the record and the new target of the links that are put
  MaxPuts,      \* bound: calls of dbPutFieldLink
  NumSets       \* bound: lock sets ever allocated

LockSet == 1 .. NumSets
Slot    == 1 .. 2       \* entries of locker->refs that dbPutFieldLink uses

ASSUME LockAssumption ==
  /\ None \notin Thread \cup Record /\ None \notin LockSet
  /\ InitLink \in [Record -> Record \cup {None}]
  /\ Puts \subseteq Record \X (Record \cup {None})
  /\ IsFiniteSet(Record) /\ IsFiniteSet(Thread)
  /\ MaxPuts \in Nat /\ NumSets \in Nat
  /\ NumSets >= Cardinality(Record) + MaxPuts   \* a put makes one set at most

VARIABLES
  link,          \* the target of a record's DB_LINK, or None
  plockSet,      \* the set of a record
  refcount, mutex, ownerlocker,  \* of a set
  lockSetsFree,  \* the free list
  made,          \* the sets allocated so far
  fresh,         \* threads whose locker->recomp equals recomputeCnt
  seen,          \* threads whose copy of recomputeCnt on the stack equals it
  refs,          \* locker->refs: the sets cached for rec and tgt
  pc,
  rec, tgt,      \* the record a thread locks, the link target it locks too
  mode,          \* which pass of dbLockUpdateRefs, or the last unlocking
  ls,            \* the set a thread works on
  drop, ret,     \* dbLockDecRef: its argument, where it returns to
  moving, num,   \* records still to move in a split, records moved by a merge
  puts           \* calls of dbPutFieldLink so far

setVars  == <<refcount, mutex, ownerlocker, lockSetsFree, made>>
passVars == <<fresh, seen, refs>>
argVars  == <<rec, tgt>>
moveVars == <<moving, num>>
callVars == <<drop, ret>>
vars == <<link, plockSet, setVars, passVars, pc, argVars, mode, ls, callVars, moveVars, puts>>

Mutated == {"held", "split", "move", "relink", "merge", "linked"}
PC == Mutated \cup {"idle", "lock", "check", "locked", "pass", "slot1", "slot2", "acquire",
                    "unlockmany", "finalize", "decref", "free"}
Mode == {"prepare", "many", "verify", "final"}

TypeOK ==
  /\ link \in [Record -> Record \cup {None}]
  /\ plockSet \in [Record -> LockSet]
  /\ refcount \in [LockSet -> Nat]
  /\ mutex \in [LockSet -> Thread \cup {None}]
  /\ ownerlocker \in [LockSet -> Thread \cup {None}]
  /\ lockSetsFree \in Seq(LockSet) /\ made \subseteq LockSet
  /\ fresh \subseteq Thread /\ seen \subseteq Thread
  /\ refs \in [Thread -> [Slot -> LockSet \cup {None}]]
  /\ pc \in [Thread -> PC] /\ mode \in [Thread -> Mode]
  /\ rec \in [Thread -> Record \cup {None}] /\ tgt \in [Thread -> Record \cup {None}]
  /\ ls \in [Thread -> LockSet \cup {None}] /\ drop \in [Thread -> LockSet \cup {None}]
  /\ ret \in [Thread -> PC]
  /\ moving \in [Thread -> SUBSET Record] /\ num \in [Thread -> Nat]
  /\ puts \in 0 .. MaxPuts

\* lockRecordList
Records(s) == {r \in Record : plockSet[r] = s}

\* locker->locked
Locked(t) == {s \in LockSet : ownerlocker[s] = t}

\* the records tied to r by links l: what the breadth first search visits
Tied(l, R) == \A q \in Record : l[q] # None => (q \in R <=> l[q] \in R)
Component(l, r) == {q \in Record : \A R \in SUBSET Record : r \in R /\ Tied(l, R) => q \in R}

\* dbLockInitRecords gives every record a set of its own; dbDbInitLink merges the
\* sets of the records that the database file links.
Init ==
  /\ link = InitLink
  /\ plockSet \in [Record -> 1 .. Cardinality(Record)]
  /\ \A r \in Record : Records(plockSet[r]) = Component(link, r)
  /\ refcount = [s \in LockSet |-> Cardinality(Records(s))]
  /\ lockSetsFree = SetToSeq({s \in 1 .. Cardinality(Record) : Records(s) = {}})
  /\ made = 1 .. Cardinality(Record)
  /\ mutex = [s \in LockSet |-> None] /\ ownerlocker = [s \in LockSet |-> None]
  /\ fresh = {} /\ seen = {}
  /\ refs = [t \in Thread |-> [i \in Slot |-> None]]
  /\ pc = [t \in Thread |-> "idle"] /\ mode = [t \in Thread |-> "final"]
  /\ rec = [t \in Thread |-> None] /\ tgt = [t \in Thread |-> None]
  /\ ls = [t \in Thread |-> None]
  /\ drop = [t \in Thread |-> None] /\ ret = [t \in Thread |-> "idle"]
  /\ moving = [t \in Thread |-> {}] /\ num = [t \in Thread |-> 0]
  /\ puts = 0

Goto(t, p) == pc' = [pc EXCEPT ![t] = p]

\* A call returns; its locals are dead.
Forget(t) ==
  /\ rec' = [rec EXCEPT ![t] = None] /\ tgt' = [tgt EXCEPT ![t] = None]
  /\ ls' = [ls EXCEPT ![t] = None] /\ num' = [num EXCEPT ![t] = 0]

\* call dbLockDecRef(s) and go on at p
CallDecRef(t, s, p) ==
  /\ drop' = [drop EXCEPT ![t] = s]
  /\ ret' = [ret EXCEPT ![t] = p]
  /\ Goto(t, "decref")
Return(t) ==
  /\ Goto(t, ret[t])
  /\ drop' = [drop EXCEPT ![t] = None] /\ ret' = [ret EXCEPT ![t] = "idle"]

-----------------------------------------------------------------------------
(* dbLockDecRef *)

\* Decrement the count.  Whoever drops the last reference frees the set.
DecRef(t) ==
  LET cnt == refcount[drop[t]] - 1
  IN /\ pc[t] = "decref"
     /\ refcount' = [refcount EXCEPT ![drop[t]] = cnt]
     /\ IF cnt = 0 THEN Goto(t, "free") /\ UNCHANGED callVars ELSE Return(t)
     /\ UNCHANGED <<link, plockSet, mutex, ownerlocker, lockSetsFree, made, passVars,
                    argVars, mode, ls, moveVars>>

\* Lock and unlock the dead set, then move it to the free list.
FreeSet(t) ==
  /\ pc[t] = "free" /\ mutex[drop[t]] = None
  /\ lockSetsFree' = Append(lockSetsFree, drop[t])
  /\ Return(t)
  /\ UNCHANGED <<link, plockSet, refcount, mutex, ownerlocker, made, passVars,
                 argVars, mode, ls, moveVars>>

-----------------------------------------------------------------------------
(* dbScanLock and dbScanUnlock *)

\* dbLockGetRef
dbScanLock(t, r) ==
  /\ pc[t] = "idle"
  /\ rec' = [rec EXCEPT ![t] = r]
  /\ ls' = [ls EXCEPT ![t] = plockSet[r]]
  /\ refcount' = [refcount EXCEPT ![plockSet[r]] = @ + 1]
  /\ Goto(t, "lock")
  /\ UNCHANGED <<link, plockSet, mutex, ownerlocker, lockSetsFree, made, passVars,
                 tgt, mode, callVars, moveVars>>

\* epicsMutexMustLock(ls->lock)
LockMutex(t) ==
  /\ pc[t] = "lock" /\ mutex[ls[t]] = None
  /\ mutex' = [mutex EXCEPT ![ls[t]] = t]
  /\ Goto(t, "check")
  /\ UNCHANGED <<link, plockSet, refcount, ownerlocker, lockSetsFree, made, passVars,
                 argVars, mode, ls, callVars, moveVars>>

\* Mutant: the set that was waited for is not compared with the record's set.
CheckOK_Blind(t) ==
  /\ pc[t] = "check"
  /\ refcount' = [refcount EXCEPT ![ls[t]] = @ - 1]
  /\ Goto(t, "locked")
  /\ UNCHANGED <<link, plockSet, mutex, ownerlocker, lockSetsFree, made, passVars,
                 argVars, mode, ls, callVars, moveVars>>

\* Is it still the record's set?  If so the reference is released.
CheckOK(t) ==
  /\ pc[t] = "check" /\ ls[t] = plockSet[rec[t]]
  /\ refcount' = [refcount EXCEPT ![ls[t]] = @ - 1]
  /\ Goto(t, "locked")
  /\ UNCHANGED <<link, plockSet, mutex, ownerlocker, lockSetsFree, made, passVars,
                 argVars, mode, ls, callVars, moveVars>>

\* "oops, collided with recompute": refer to the new set, let go of the old one.
CheckRetry(t) ==
  LET ls2 == plockSet[rec[t]]
  IN /\ pc[t] = "check" /\ ls[t] # ls2
     /\ refcount' = [refcount EXCEPT ![ls2] = @ + 1]
     /\ mutex' = [mutex EXCEPT ![ls[t]] = None]
     /\ ls' = [ls EXCEPT ![t] = ls2]
     /\ CallDecRef(t, ls[t], "lock")
     /\ UNCHANGED <<link, plockSet, ownerlocker, lockSetsFree, made, passVars,
                    argVars, mode, moveVars>>

\* The reference taken first keeps the set alive across the unlock.
dbScanUnlock(t) ==
  LET s == plockSet[rec[t]]
  IN /\ pc[t] = "locked"
     /\ refcount' = [refcount EXCEPT ![s] = @ + 1]
     /\ mutex' = [mutex EXCEPT ![s] = None]
     /\ CallDecRef(t, s, "idle") /\ Forget(t)
     /\ UNCHANGED <<link, plockSet, ownerlocker, lockSetsFree, made, passVars, mode, moving>>

-----------------------------------------------------------------------------
(* dbLockUpdateRefs: one pass over locker->refs *)

\* locker->refs[i].plr
Plr(t, i) == IF i = 1 THEN rec[t] ELSE tgt[t]

\* dbLockerPrepare: spoil locker->recomp and start the first pass.
dbLockerPrepare(t, r, q) ==
  /\ pc[t] = "idle"
  /\ rec' = [rec EXCEPT ![t] = r] /\ tgt' = [tgt EXCEPT ![t] = q]
  /\ mode' = [mode EXCEPT ![t] = "prepare"]
  /\ fresh' = fresh \ {t}
  /\ Goto(t, "pass")
  /\ UNCHANGED <<link, plockSet, setVars, seen, refs, ls, callVars, moveVars>>

\* where a pass that found no change goes on, and the mode that then holds
PassEnd(t) ==
  IF mode[t] = "prepare" THEN "pass" ELSE IF mode[t] = "many" THEN "acquire" ELSE "held"
NextMode(t) == IF mode[t] = "prepare" THEN "many" ELSE mode[t]

\* Nothing was recomputed since the last pass.
PassSkip(t) ==
  /\ pc[t] = "pass" /\ t \in fresh
  /\ Goto(t, PassEnd(t)) /\ mode' = [mode EXCEPT ![t] = NextMode(t)]
  /\ UNCHANGED <<link, plockSet, setVars, passVars, argVars, ls, callVars, moveVars>>

PassStart(t) ==
  /\ pc[t] = "pass" /\ t \notin fresh
  /\ seen' = seen \cup {t}
  /\ Goto(t, "slot1")
  /\ UNCHANGED <<link, plockSet, setVars, fresh, refs, argVars, mode, ls, callVars,
                 moveVars>>

\* after entry i, and at the end of a pass that updates: locker->recomp = recomp
AfterSlot(t, i) == IF i = 1 THEN "slot2" ELSE PassEnd(t)
SlotDone(t, i) ==
  /\ mode' = IF i = 1 THEN mode ELSE [mode EXCEPT ![t] = NextMode(t)]
  /\ fresh' = IF i = 1 \/ mode[t] = "verify" THEN fresh
              ELSE IF t \in seen THEN fresh \cup {t} ELSE fresh \ {t}
  /\ seen' = IF i = 1 THEN seen ELSE seen \ {t}

AtSlot(t, i) == pc[t] = (IF i = 1 THEN "slot1" ELSE "slot2")

\* entry not used, or its set has not changed
SlotSame(t, i) ==
  /\ AtSlot(t, i)
  /\ Plr(t, i) # None => refs[t][i] = plockSet[Plr(t, i)]
  /\ SlotDone(t, i)
  /\ Goto(t, AfterSlot(t, i))
  /\ UNCHANGED <<link, plockSet, setVars, refs, argVars, ls, callVars, moveVars>>

\* Exchange the cached set, then drop the reference to the old one.
SlotExchange(t, i) ==
  LET new == plockSet[Plr(t, i)]
      old == refs[t][i]
  IN /\ AtSlot(t, i) /\ Plr(t, i) # None /\ old # new /\ mode[t] # "verify"
     /\ refs' = [refs EXCEPT ![t][i] = new]
     /\ refcount' = [refcount EXCEPT ![new] = @ + 1]
     /\ SlotDone(t, i)
     /\ IF old = None
        THEN Goto(t, AfterSlot(t, i)) /\ UNCHANGED callVars
        ELSE CallDecRef(t, old, AfterSlot(t, i))
     /\ UNCHANGED <<link, plockSet, mutex, ownerlocker, lockSetsFree, made, argVars, ls,
                    moveVars>>

\* After locking: a record has moved, so unlock everything and start again.
SlotCollide(t, i) ==
  /\ AtSlot(t, i) /\ Plr(t, i) # None /\ mode[t] = "verify"
  /\ refs[t][i] # plockSet[Plr(t, i)]
  /\ mode' = [mode EXCEPT ![t] = "many"]
  /\ seen' = seen \ {t}
  /\ Goto(t, "unlockmany")
  /\ UNCHANGED <<link, plockSet, setVars, fresh, refs, argVars, ls, callVars, moveVars>>

-----------------------------------------------------------------------------
(* dbScanLockMany, dbScanUnlockMany, dbLockerFinalize *)

\* the cached sets that are not locked yet
Todo(t) == {refs[t][i] : i \in Slot} \ (Locked(t) \cup {None})

\* Mutant: the mutexes are taken in the order of the entries.
Acquire_Unsorted(t) ==
  LET s == IF refs[t][1] \in Todo(t) THEN refs[t][1] ELSE refs[t][2]
  IN /\ pc[t] = "acquire" /\ Todo(t) # {} /\ mutex[s] = None
     /\ mutex' = [mutex EXCEPT ![s] = t]
     /\ ownerlocker' = [ownerlocker EXCEPT ![s] = t]
     /\ refcount' = [refcount EXCEPT ![s] = @ + 1]
     /\ UNCHANGED <<link, plockSet, lockSetsFree, made, passVars, pc, argVars, mode, ls,
                    callVars, moveVars>>

\* the entries are sorted by address, so the mutexes are taken in that order
Acquire(t) ==
  LET s == Min(Todo(t))
  IN /\ pc[t] = "acquire" /\ Todo(t) # {} /\ mutex[s] = None
     /\ mutex' = [mutex EXCEPT ![s] = t]
     /\ ownerlocker' = [ownerlocker EXCEPT ![s] = t]
     /\ refcount' = [refcount EXCEPT ![s] = @ + 1]
     /\ UNCHANGED <<link, plockSet, lockSetsFree, made, passVars, pc, argVars, mode, ls,
                    callVars, moveVars>>

\* All are locked: verify.
Acquired(t) ==
  /\ pc[t] = "acquire" /\ Todo(t) = {}
  /\ mode' = [mode EXCEPT ![t] = "verify"]
  /\ Goto(t, "pass")
  /\ UNCHANGED <<link, plockSet, setVars, passVars, argVars, ls, callVars, moveVars>>

UnlockOne(t) ==
  /\ pc[t] = "unlockmany"
  /\ \E s \in Locked(t) :
       /\ ownerlocker' = [ownerlocker EXCEPT ![s] = None]
       /\ mutex' = [mutex EXCEPT ![s] = None]
       /\ CallDecRef(t, s, "unlockmany")
  /\ UNCHANGED <<link, plockSet, refcount, lockSetsFree, made, passVars, argVars, mode, ls,
                 moveVars>>

UnlockEnd(t) ==
  /\ pc[t] = "unlockmany" /\ Locked(t) = {}
  /\ Goto(t, IF mode[t] = "final" THEN "finalize" ELSE "pass")
  /\ UNCHANGED <<link, plockSet, setVars, passVars, argVars, mode, ls, callVars, moveVars>>

\* drop the cached references
Finalize(t) ==
  /\ pc[t] = "finalize"
  /\ \/ /\ refs[t] = [i \in Slot |-> None]
        /\ Goto(t, "idle") /\ Forget(t) /\ fresh' = fresh \ {t}
        /\ UNCHANGED <<refs, callVars>>
     \/ \E i \in Slot :
          /\ refs[t][i] # None /\ \A j \in Slot : j < i => refs[t][j] = None
          /\ refs' = [refs EXCEPT ![t][i] = None]
          /\ CallDecRef(t, refs[t][i], "finalize")
          /\ UNCHANGED <<fresh, argVars, ls, num>>
  /\ UNCHANGED <<link, plockSet, setVars, seen, mode, moving>>

-----------------------------------------------------------------------------
(* dbPutFieldLink, between locking and unlocking *)

\* dbScanUnlockMany: the new link is refused or the caller only wanted the records
\* locked; the new link is none of the database; or the work is done.
PutEnd(t) ==
  /\ pc[t] \in {"held", "relink", "linked"}
  /\ mode' = [mode EXCEPT ![t] = "final"]
  /\ Goto(t, "unlockmany")
  /\ UNCHANGED <<link, plockSet, setVars, passVars, argVars, ls, callVars, moveVars>>

\* Mutant: the old target leaves alone, without the records tied to it.
RemoveLink_NoSearch(t) ==
  LET r == rec[t]
  IN /\ pc[t] = "held"
     /\ link' = [link EXCEPT ![r] = None]
     /\ IF link[r] \in {None, r}
        THEN Goto(t, "relink") /\ UNCHANGED moving
        ELSE Goto(t, "split") /\ moving' = [moving EXCEPT ![t] = {link[r]}]
     /\ UNCHANGED <<plockSet, setVars, passVars, argVars, mode, ls, callVars, num>>

\* dbRemoveLink; dbLockSetSplit looks for the record from its old target.
RemoveLink(t) ==
  LET r == rec[t]
      l == [link EXCEPT ![r] = None]
      newLS == IF link[r] = None THEN {} ELSE Component(l, link[r])
  IN /\ pc[t] = "held"
     /\ link' = l
     /\ IF link[r] = None \/ r \in newLS
        THEN Goto(t, "relink") /\ UNCHANGED moving
        ELSE Goto(t, "split") /\ moving' = [moving EXCEPT ![t] = newLS]
     /\ UNCHANGED <<plockSet, setVars, passVars, argVars, mode, ls, callVars, num>>

\* makeSet, and lock it: from the free list, or newly allocated
MakeSet(t) ==
  /\ pc[t] = "split"
  /\ \E s \in LockSet :
       /\ \/ /\ lockSetsFree # <<>> /\ s = Head(lockSetsFree)
             /\ lockSetsFree' = Tail(lockSetsFree) /\ UNCHANGED made
          \/ /\ lockSetsFree = <<>> /\ s \notin made
             /\ made' = made \cup {s} /\ UNCHANGED lockSetsFree
       /\ mutex[s] = None
       /\ mutex' = [mutex EXCEPT ![s] = t]
       /\ ownerlocker' = [ownerlocker EXCEPT ![s] = t]
       /\ refcount' = [refcount EXCEPT ![s] = @ + 1]
       /\ ls' = [ls EXCEPT ![t] = s]
  /\ Goto(t, "move")
  /\ UNCHANGED <<link, plockSet, passVars, argVars, mode, callVars, moveVars>>

\* move a record, and count the change
MoveRecord(r, s) ==
  /\ plockSet' = [plockSet EXCEPT ![r] = s]
  /\ fresh' = {} /\ seen' = {}

SplitMove(t) ==
  /\ pc[t] = "move"
  /\ \E r \in moving[t] :
       /\ MoveRecord(r, ls[t])
       /\ moving' = [moving EXCEPT ![t] = @ \ {r}]
  /\ UNCHANGED <<link, setVars, refs, pc, argVars, mode, ls, callVars, num>>

\* Mutant: the old set keeps the references of the records that left it.
SplitEnd_Keep(t) ==
  /\ pc[t] = "move" /\ moving[t] = {}
  /\ refcount' = [refcount EXCEPT ![ls[t]] = @ + Cardinality(Records(ls[t]))]
  /\ Goto(t, "relink")
  /\ UNCHANGED <<link, plockSet, mutex, ownerlocker, lockSetsFree, made, passVars,
                 argVars, mode, ls, callVars, moveVars>>

\* the records' references follow them
SplitEnd(t) ==
  LET n == Cardinality(Records(ls[t]))
  IN /\ pc[t] = "move" /\ moving[t] = {}
     /\ refcount' = [refcount EXCEPT ![plockSet[rec[t]]] = @ - n, ![ls[t]] = @ + n]
     /\ Goto(t, "relink")
     /\ UNCHANGED <<link, plockSet, mutex, ownerlocker, lockSetsFree, made, passVars,
                    argVars, mode, ls, callVars, moveVars>>

\* dbAddLink; dbLockSetMerge(locker, rec, tgt)
AddLink(t) ==
  LET B == plockSet[tgt[t]]
  IN /\ pc[t] = "relink" /\ tgt[t] # None
     /\ link' = [link EXCEPT ![rec[t]] = tgt[t]]
     /\ IF plockSet[rec[t]] = B
        THEN Goto(t, "linked") /\ UNCHANGED <<ls, num>>
        ELSE /\ ls' = [ls EXCEPT ![t] = B]
             /\ num' = [num EXCEPT ![t] = Cardinality(Records(B))]
             /\ Goto(t, "merge")
     /\ UNCHANGED <<plockSet, setVars, passVars, argVars, mode, callVars, moving>>

MergeMove(t) ==
  /\ pc[t] = "merge"
  /\ \E r \in Records(ls[t]) : MoveRecord(r, plockSet[rec[t]])
  /\ UNCHANGED <<link, setVars, refs, pc, argVars, mode, ls, callVars, moveVars>>

\* The references follow; the empty set is unlocked and let go.
MergeEnd(t) ==
  LET A == plockSet[rec[t]]
      B == ls[t]
  IN /\ pc[t] = "merge" /\ Records(B) = {}
     /\ refcount' = [refcount EXCEPT ![A] = @ + num[t], ![B] = @ - num[t]]
     /\ ownerlocker' = [ownerlocker EXCEPT ![B] = None]
     /\ mutex' = [mutex EXCEPT ![B] = None]
     /\ mode' = [mode EXCEPT ![t] = "final"]
     /\ CallDecRef(t, B, "unlockmany")
     /\ UNCHANGED <<link, plockSet, lockSetsFree, made, passVars, argVars, ls, moveVars>>

-----------------------------------------------------------------------------
Step(t) ==
  \/ DecRef(t) \/ FreeSet(t)
  \/ LockMutex(t) \/ CheckOK(t) \/ CheckRetry(t) \/ dbScanUnlock(t)
  \/ PassSkip(t) \/ PassStart(t)
  \/ \E i \in Slot : SlotSame(t, i) \/ SlotExchange(t, i) \/ SlotCollide(t, i)
  \/ Acquire(t) \/ Acquired(t) \/ UnlockOne(t) \/ UnlockEnd(t) \/ Finalize(t)
  \/ RemoveLink(t) \/ MakeSet(t) \/ SplitMove(t) \/ SplitEnd(t)
  \/ AddLink(t) \/ MergeMove(t) \/ MergeEnd(t) \/ PutEnd(t)

Call(t) ==
  \/ (\E r \in Record : dbScanLock(t, r)) /\ UNCHANGED puts
  \/ /\ puts < MaxPuts /\ puts' = puts + 1
     /\ \E p \in Puts : dbLockerPrepare(t, p[1], p[2])

Next == \E t \in Thread : (Step(t) /\ UNCHANGED puts) \/ Call(t)

Spec == Init /\ [][Next]_vars

-----------------------------------------------------------------------------
(* Properties *)

\* The refinement: a thread holds the records of its set, or of all the sets
\* its locker has locked, from the moment it has checked them.
Holds(t) ==
  IF pc[t] = "locked" THEN Records(plockSet[rec[t]])
  ELSE IF pc[t] \in Mutated THEN {r \in Record : ownerlocker[plockSet[r]] = t}
  ELSE {}
RL == INSTANCE RecordLock WITH holds <- [t \in Thread |-> Holds(t)]

\* Lock sets keep their promise: whoever has returned from dbScanLock or
\* dbScanLockMany holds all the records tied to its own, alone, whatever splits
\* and merges other threads made while it waited.
RefinesRecordLock == RL!Spec

\* records whose reference is still counted in s although they have left it,
\* less those that have come and are not counted yet, while the thread that has
\* locked s moves records
Owed(s) ==
  LET t == ownerlocker[s]
      n == IF t = None THEN 0
           ELSE IF pc[t] = "move" THEN Cardinality(Records(ls[t]))
           ELSE IF pc[t] = "merge" THEN Cardinality(Records(ls[t])) - num[t] ELSE 0
  IN IF n = 0 THEN 0
     ELSE IF s = plockSet[rec[t]] THEN n ELSE IF s = ls[t] THEN -n ELSE 0

\* a thread's reference to a set: in its hand while it waits for the mutex, as
\* the argument of dbLockDecRef, in its locker's cache, for its locked list
Kind == {"wait", "drop", "slot1", "slot2", "list"}
Refers(t, k, s) ==
  \/ k = "wait" /\ ls[t] = s /\ (pc[t] \in {"lock", "check"} \/ ret[t] = "lock")
  \/ k = "drop" /\ drop[t] = s /\ pc[t] = "decref"
  \/ k = "slot1" /\ refs[t][1] = s
  \/ k = "slot2" /\ refs[t][2] = s
  \/ k = "list" /\ ownerlocker[s] = t
References(s) == {x \in Thread \X Kind : Refers(x[1], x[2], s)}

EachCounted ==
  \A s \in LockSet :
    refcount[s] = Cardinality(Records(s)) + Owed(s) + Cardinality(References(s))

FreedOnce ==
  /\ \A i, j \in DOMAIN lockSetsFree : i # j => lockSetsFree[i] # lockSetsFree[j]
  /\ \A s \in made :
       LET freers == {t \in Thread : pc[t] = "free" /\ drop[t] = s}
           free   == \E i \in DOMAIN lockSetsFree : lockSetsFree[i] = s
       IN /\ refcount[s] = 0 <=> (free \/ freers # {})
          /\ ~ (free /\ freers # {}) /\ Cardinality(freers) <= 1
          /\ refcount[s] = 0 => Records(s) = {} /\ mutex[s] = None

\* Except where a thread is moving records, two records are in the same set
\* exactly when links tie them together.
SetsAreComponents ==
  \A r \in Record :
    LET s == plockSet[r]
    IN (\A t \in Thread : ownerlocker[s] = t => pc[t] \notin {"split", "move", "merge"})
         => Records(s) = Component(link, r)

\* the assertions and cantProceed calls of dbLock.c
AssertsHold ==
  /\ \A r \in Record : refcount[plockSet[r]] >= 1
  /\ \A s \in LockSet : mutex[s] = None => ownerlocker[s] = None
  /\ \A t \in Thread :
       /\ pc[t] = "check" /\ ls[t] = plockSet[rec[t]] => refcount[ls[t]] >= 2
       /\ pc[t] = "decref" => refcount[drop[t]] >= 1
       /\ pc[t] = "free" => Records(drop[t]) = {}
       /\ pc[t] = "acquire" => \A s \in Todo(t) : mutex[s] # t
       /\ pc[t] = "held" => Locked(t) # {}
       /\ pc[t] = "held" /\ link[rec[t]] # None => plockSet[rec[t]] = plockSet[link[rec[t]]]
       /\ pc[t] = "split" =>
            /\ moving[t] \subseteq Records(plockSet[rec[t]]) \ {rec[t]}
            /\ refcount[plockSet[rec[t]]] >= Cardinality(Records(plockSet[rec[t]])) + 1
            /\ lockSetsFree # <<>> \/ made # LockSet
       /\ pc[t] = "relink" => ownerlocker[plockSet[rec[t]]] = t
       /\ pc[t] = "relink" /\ tgt[t] # None => ownerlocker[plockSet[tgt[t]]] = t

\* Every reference to a set is counted once: by each record, each cached entry,
\* each locked list and each thread that waits, also half way through a move.
\* So a set is free, or being freed by exactly one thread, if and only if
\* nothing refers to it: none is lost, none is freed twice or while in use, and
\* no assertion of dbLock.c fails.
RefsCounted == EachCounted /\ FreedOnce /\ AssertsHold

\* the mutexes a thread needs to go on
Wants(t) ==
  IF pc[t] = "lock" THEN {ls[t]}
  ELSE IF pc[t] = "acquire" /\ Todo(t) # {} THEN {Min(Todo(t))}
  ELSE IF pc[t] = "free" THEN {drop[t]}
  ELSE {}

\* No threads wait for each other: among any threads that wait, one waits for a
\* mutex that none of them holds.
NoDeadlock ==
  \A S \in SUBSET Thread :
    S # {} => \E t \in S : \A s \in Wants(t) : mutex[s] \notin S

=============================================================================
