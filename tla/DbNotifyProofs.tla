--------------------------- MODULE DbNotifyProofs ---------------------------
(***************************************************************************)
(* Process notify, for any number of records, notifies and links.          *)
(*                                                                         *)
(* Phase says what a notify's block is doing: each state is one in which   *)
(* either records, a queued callback, a running callDone or an event will  *)
(* make the next step, and just one of them.  Owners relates the records'  *)
(* ppn to the wait lists, Waiters the restart lists to the states.         *)
(* Reading says that a ppn a processing thread has read is the record's    *)
(* still, which a cancel could change if the group were not in one lock    *)
(* set: Grouped.                                                           *)
(***************************************************************************)
EXTENDS DbNotify, ListLemmas

\* a block is on the free list or a notify's
Blocks ==
  /\ \A n \in Notifies : pnotifyPvt[n] # None =>
       pnotifyPvt[n] \in Pvts \ freeList /\ user[pnotifyPvt[n]] = n
  /\ \A q \in Pvts \ freeList : user[q] \in Notifies /\ pnotifyPvt[user[q]] = q

\* and nothing is left of the last request on the free list
Clean ==
  \A q \in freeList : /\ state[q] = "NotActive" /\ waitList[q] = {} /\ callback[q] = "none"
                      /\ ~cancelEvent[q] /\ ~userCallbackEvent[q]

Requesting == {"RestartCallbackRequested", "UserCallbackRequested"}
Progress   == {"RestartInProgress", "ProcessInProgress"}

\* the hands a block is in: callDone's, and those of the client that waits on its events
Hands(n) ==
  /\ done[n] = "none" <=> donePvt[n] = None
  /\ done[n] # "none" => donePvt[n] = pnotifyPvt[n] /\ state[pnotifyPvt[n]] = "UserCallbackActive"
  /\ client[n] \in {"waitUser", "waitCancel"} <=> waitPvt[n] # None
  /\ waitPvt[n] # None => waitPvt[n] = pnotifyPvt[n]
  /\ client[n] = "inline" => done[n] # "none"
  /\ done[n] \in {"call", "again"} \/ client[n] = "waitUser" => busy[n]

\* what block q of n waits for
Phase(n, q) ==
  /\ state[q] # "NotActive"
  /\ state[q] \in Progress <=> waitList[q] # {}
  /\ callback[q] # "none" => state[q] \in Requesting /\ ~cancelEvent[q]
  /\ userCallbackEvent[q] => client[n] = "waitUser" /\ done[n] = "none"
  /\ cancelEvent[q] => client[n] = "waitCancel" /\ done[n] = "none"
  /\ state[q] \in Requesting => callback[q] # "none" \/ cancelEvent[q]
  /\ state[q] = "UserCallbackActive" => done[n] # "none" \/ cancelEvent[q] \/ userCallbackEvent[q]
  /\ client[n] = "waitUser" => state[q] = "UserCallbackActive"
  /\ client[n] = "waitUser" /\ ~userCallbackEvent[q] => userCallbackWait[q] /\ done[n] = "tail"
  /\ client[n] = "waitCancel" => state[q] \in Requesting \cup {"UserCallbackActive"}
  /\ client[n] = "waitCancel" /\ ~cancelEvent[q] => cancelWait[q]
  /\ cancelWait[q] => client[n] = "waitCancel"
  /\ userCallbackWait[q] => done[n] = "again" \/ client[n] = "waitUser"
  /\ ~busy[n] => state[q] = "UserCallbackActive"
  /\ state[q] = "RestartCallbackRequested" /\ callback[q] # "none" => ppn[ChanRec[n]] = n
  /\ state[q] = "RestartInProgress" => waitList[q] = {ChanRec[n]}

Phases ==
  \A n \in Notifies : Hands(n) /\ (pnotifyPvt[n] # None => Phase(n, pnotifyPvt[n]))

\* ppn names the notify that waits for the record, or its own record held for the restart
Owners ==
  /\ \A r \in Recs : ppn[r] # None =>
       /\ pnotifyPvt[ppn[r]] # None
       /\ \/ r \in waitList[pnotifyPvt[ppn[r]]]
          \/ /\ r = ChanRec[ppn[r]] /\ callback[pnotifyPvt[ppn[r]]] # "none"
             /\ state[pnotifyPvt[ppn[r]]] = "RestartCallbackRequested"
  /\ \A q \in Pvts : \A r \in waitList[q] : ppn[r] = user[q]

\* the restart list of a record: the notifies that wait for its owner
Waiters ==
  \A r \in Recs :
    /\ IsInjective(restartList[r])
    /\ restartList[r] # <<>> => ppn[r] # None
    /\ \A n \in Notifies : Contains(restartList[r], n) <=>
         /\ r = ChanRec[n] /\ pnotifyPvt[n] # None
         /\ state[pnotifyPvt[n]] = "WaitForRestart"

\* the thread that processes a record
Reading ==
  \A r \in Recs :
    /\ proc[r] \in {"add", "complete"} => readPpn[r] # None /\ readPpn[r] = ppn[r]
    /\ proc[r] \in {"add", "call", "child"} => flnk[r] # None

\* Without Relink a group stays in the lock set of its notify's record.
Grouped ==
  "relink" \notin Ops =>
    \A q \in Pvts \ freeList : waitList[q] \subseteq LockSet(ChanRec[user[q]])

NotifyInv ==
  /\ TypeOK /\ ~failed /\ Blocks /\ Clean /\ Phases /\ Owners /\ Waiters /\ Reading
  /\ Grouped /\ AwaitedIsActive

-----------------------------------------------------------------------------
(* Record processing *)

LEMMA NotifyInit == Init => NotifyInv
<1> SUFFICES ASSUME Init PROVE NotifyInv
  OBVIOUS
<1>1. TypeOK
  <2>1. <<>> \in Seq(Notifies)
    OBVIOUS
  <2>2. QED
    BY <2>1, NotifyAssumption DEF Init, TypeOK, States
<1>2. ~failed /\ Blocks /\ Clean /\ Owners /\ Reading /\ AwaitedIsActive
  BY NotifyAssumption DEF Init, Blocks, Clean, Owners, Reading, AwaitedIsActive
<1>3. Phases
  BY NotifyAssumption DEF Init, Phases, Hands
<1>4. Waiters
  BY NotifyAssumption DEF Init, Waiters, IsInjective, Contains
<1>5. Grouped
  BY DEF Init, Grouped
<1>6. QED
  BY <1>1, <1>2, <1>3, <1>4, <1>5 DEF NotifyInv

\* A step of a processing thread outside dbNotify.c leaves the notifies alone.
LEMMA ProcessingFrame ==
  ASSUME NotifyInv, UNCHANGED frameRest
  PROVE  ~failed' /\ Blocks' /\ Clean' /\ Phases' /\ Owners' /\ Waiters' /\ Grouped'
<1>1. ~failed' /\ Blocks' /\ Clean' /\ Owners' /\ Waiters'
  BY DEF NotifyInv, Blocks, Clean, Owners, Waiters, frameRest, procRest, notifyVars, eventVars,
         clientVars, doneVars
<1>2. Phases'
  BY DEF NotifyInv, Phases, Hands, Phase, frameRest, procRest, notifyVars, eventVars,
         clientVars, doneVars
<1>3. Grouped'
  BY DEF NotifyInv, Grouped, LockSet, Closed, frameRest, procRest
<1>4. QED
  BY <1>1, <1>2, <1>3

LEMMA ProcessingTypes ==
  ASSUME NotifyInv, UNCHANGED frameRest, pact' \in [Recs -> BOOLEAN],
         proc' \in [Recs -> {"idle", "enter", "target", "add", "call", "child", "test", "complete"}],
         readPpn' \in [Recs -> Notifies \cup {None}]
  PROVE  TypeOK'
BY DEF NotifyInv, TypeOK, frameRest, procRest, notifyVars, eventVars, clientVars, doneVars

\* An awaited record is one of a group, so its ppn is set.
LEMMA AwaitedHasOwner ==
  ASSUME NotifyInv, NEW r \in Recs, ppn[r] = None
  PROVE  NotAwaited(r)
<1>1. ASSUME NEW q \in Pvts, r \in waitList[q] PROVE FALSE
  <2>1. q \notin freeList
    BY <1>1 DEF NotifyInv, Clean
  <2>2. user[q] \in Notifies /\ ppn[r] = user[q]
    BY <1>1, <2>1 DEF NotifyInv, Blocks, Owners
  <2>3. QED
    BY <2>2, NotifyAssumption
<1>2. QED
  BY <1>1 DEF NotAwaited

LEMMA ProcessingKeeps ==
  ASSUME NotifyInv, NEW r \in Recs,
         \/ Scan(r) \/ AsyncDone(r) \/ ProcessActive(r) \/ ProcessDisabled(r) \/ Process(r)
         \/ Target(r) \/ Call(r) \/ Child(r) \/ TestPpn(r)
  PROVE  NotifyInv'
<1>1. UNCHANGED frameRest
  BY DEF Scan, AsyncDone, ProcessActive, ProcessDisabled, Process, Target, Call, Child, TestPpn
<1>2. flnk' = flnk /\ ppn' = ppn /\ waitList' = waitList
  BY <1>1 DEF frameRest, procRest
<1>3. /\ pact \in [Recs -> BOOLEAN] /\ ppn \in [Recs -> Notifies \cup {None}]
      /\ flnk \in [Recs -> Recs \cup {None}] /\ waitList \in [Pvts -> SUBSET Recs]
      /\ proc \in [Recs -> {"idle", "enter", "target", "add", "call", "child", "test", "complete"}]
      /\ readPpn \in [Recs -> Notifies \cup {None}]
      /\ Reading /\ AwaitedIsActive
  BY DEF NotifyInv, TypeOK
<1>4. /\ pact' \in [Recs -> BOOLEAN]
      /\ proc' \in [Recs -> {"idle", "enter", "target", "add", "call", "child", "test", "complete"}]
      /\ readPpn' \in [Recs -> Notifies \cup {None}]
  <2>1. CASE Scan(r) \/ AsyncDone(r) \/ ProcessActive(r) \/ ProcessDisabled(r) \/ Child(r)
    BY <1>3, <2>1 DEF Scan, AsyncDone, ProcessActive, ProcessDisabled, Child, At
  <2>2. CASE Process(r) \/ Target(r)
    <3>1. CASE Process(r)
      BY <1>3, <3>1 DEF Process, At
    <3>2. CASE Target(r)
      BY <1>3, <3>2 DEF Target, At
    <3>3. QED
      BY <2>2, <3>1, <3>2
  <2>3. CASE Call(r)
    BY <1>3, <2>3 DEF Call
  <2>4. CASE TestPpn(r)
    <3>1. (pact[r] /\ ppn[r] # None) \in BOOLEAN
      OBVIOUS
    <3>2. QED
      BY <1>3, <2>4, <3>1 DEF TestPpn, At
  <2>5. QED
    BY <2>1, <2>2, <2>3, <2>4
<1>5. Reading' /\ AwaitedIsActive'
  <2>1. CASE Scan(r) \/ AsyncDone(r) \/ ProcessActive(r) \/ ProcessDisabled(r) \/ Process(r)
    BY <1>2, <1>3, <2>1 DEF Scan, AsyncDone, ProcessActive, ProcessDisabled, Process, At, Reading,
                            AwaitedIsActive
  <2>2. CASE Target(r) \/ Child(r)
    BY <1>2, <1>3, <2>2 DEF Target, Child, At, Reading, AwaitedIsActive
  <2>3. CASE Call(r)
    <3>1. flnk[r] \in Recs
      BY <1>3, <2>3 DEF Call, Reading
    <3>2. QED
      BY <1>2, <1>3, <2>3, <3>1 DEF Call, Reading, AwaitedIsActive
  <2>4. CASE TestPpn(r)
    <3>1. ppn[r] = None => NotAwaited(r)
      BY AwaitedHasOwner
    <3>2. QED
      BY <1>2, <1>3, <2>4, <3>1 DEF TestPpn, At, Reading, AwaitedIsActive, NotAwaited
  <2>5. QED
    BY <2>1, <2>2, <2>3, <2>4
<1>6. QED
  BY <1>1, <1>4, <1>5, ProcessingFrame, ProcessingTypes DEF NotifyInv

LEMMA RelinkKeeps ==
  ASSUME NotifyInv, NEW r \in Recs, NEW to \in Recs \cup {None}, Relink(r, to)
  PROVE  NotifyInv'
<1>1. /\ UNCHANGED <<pact, ppn, restartList, val, procVars, notifyVars, pvtVars, eventVars,
                     freeList, callback, clientVars, doneVars, failed>>
      /\ flnk' = [flnk EXCEPT ![r] = to] /\ "relink" \in Ops
  BY DEF Relink
<1>2. r \in LockSet(r)
  BY DEF LockSet
<1>3. proc[r] = "idle"
  BY <1>2 DEF Relink, Lockable
<1>4. TypeOK'
  BY <1>1 DEF NotifyInv, TypeOK, procVars, notifyVars, pvtVars, eventVars, clientVars, doneVars
<1>5. ~failed' /\ Blocks' /\ Clean' /\ Owners' /\ Waiters' /\ Grouped'
  BY <1>1 DEF NotifyInv, Blocks, Clean, Owners, Waiters, Grouped, notifyVars, pvtVars, eventVars,
              clientVars, doneVars
<1>6. Phases'
  BY <1>1 DEF NotifyInv, Phases, Hands, Phase, notifyVars, pvtVars, eventVars, clientVars, doneVars
<1>7. flnk \in [Recs -> Recs \cup {None}] /\ Reading /\ AwaitedIsActive
  BY DEF NotifyInv, TypeOK
<1>8. Reading' /\ AwaitedIsActive'
  BY <1>1, <1>3, <1>7 DEF Reading, AwaitedIsActive, procVars, pvtVars
<1>9. QED
  BY <1>4, <1>5, <1>6, <1>8 DEF NotifyInv

-----------------------------------------------------------------------------
(* The client and its callback *)

\* Two notifies have two blocks.
LEMMA OwnBlock ==
  ASSUME NotifyInv, NEW n \in Notifies, pnotifyPvt[n] # None
  PROVE  /\ pnotifyPvt[n] \in Pvts /\ pnotifyPvt[n] \notin freeList /\ user[pnotifyPvt[n]] = n
         /\ Hands(n) /\ Phase(n, pnotifyPvt[n])
         /\ \A m \in Notifies : m # n => /\ pnotifyPvt[m] # pnotifyPvt[n]
                                         /\ waitPvt[m] # pnotifyPvt[n]
                                         /\ donePvt[m] # pnotifyPvt[n]
<1>1. /\ pnotifyPvt[n] \in Pvts /\ pnotifyPvt[n] \notin freeList /\ user[pnotifyPvt[n]] = n
      /\ Hands(n) /\ Phase(n, pnotifyPvt[n])
  BY DEF NotifyInv, Blocks, Phases
<1>2. ASSUME NEW m \in Notifies, m # n
      PROVE  /\ pnotifyPvt[m] # pnotifyPvt[n] /\ waitPvt[m] # pnotifyPvt[n]
             /\ donePvt[m] # pnotifyPvt[n]
  <2>1. pnotifyPvt[m] # pnotifyPvt[n]
    BY <1>1, <1>2 DEF NotifyInv, Blocks
  <2>2. Hands(m)
    BY DEF NotifyInv, Phases
  <2>3. waitPvt[m] \in {None, pnotifyPvt[m]} /\ donePvt[m] \in {None, pnotifyPvt[m]}
    BY <2>2 DEF Hands
  <2>4. QED
    BY <2>1, <2>3
<1>3. QED
  BY <1>1, <1>2

\* the part of the invariant a step of a client that leaves the block alone keeps
LEMMA GroupsFrame ==
  ASSUME NotifyInv, UNCHANGED <<recVars, procVars, pnotifyPvt, state, user, waitList, freeList>>,
         \A q \in Pvts : callback[q] # "none" <=> callback'[q] # "none"
  PROVE  Blocks' /\ Owners' /\ Waiters' /\ Reading' /\ Grouped' /\ AwaitedIsActive'
<1>1. Blocks' /\ Waiters' /\ Reading' /\ AwaitedIsActive'
  BY DEF NotifyInv, Blocks, Waiters, Reading, AwaitedIsActive, recVars, procVars
<1>2. \A n \in Notifies : pnotifyPvt[n] # None => pnotifyPvt[n] \in Pvts
  BY DEF NotifyInv, Blocks
<1>3. \A r \in Recs : ppn[r] # None => ppn[r] \in Notifies
  BY DEF NotifyInv, TypeOK
<1>4. Owners'
  BY <1>2, <1>3 DEF NotifyInv, Owners, recVars
<1>5. Grouped'
  BY DEF NotifyInv, Grouped, LockSet, Closed, recVars
<1>6. QED
  BY <1>1, <1>4, <1>5

\* what a step of n, whose block is then q, leaves to the others
Elsewhere(n, q) ==
  /\ \A m \in Notifies : m # n =>
       /\ pnotifyPvt'[m] = pnotifyPvt[m] /\ done'[m] = done[m] /\ donePvt'[m] = donePvt[m]
       /\ client'[m] = client[m] /\ waitPvt'[m] = waitPvt[m] /\ busy'[m] = busy[m]
  /\ \A p \in Pvts \ {q, pnotifyPvt[n]} :
       /\ cancelWait'[p] = cancelWait[p] /\ userCallbackWait'[p] = userCallbackWait[p]
       /\ cancelEvent'[p] = cancelEvent[p] /\ userCallbackEvent'[p] = userCallbackEvent[p]

LEMMA PhasesOfOthers ==
  ASSUME NotifyInv, NEW n \in Notifies, NEW q, NEW m \in Notifies, m # n,
         Elsewhere(n, q), pnotifyPvt[m] # q,
         pnotifyPvt[m] # None =>
           /\ state'[pnotifyPvt[m]] = state[pnotifyPvt[m]]
           /\ callback'[pnotifyPvt[m]] = callback[pnotifyPvt[m]]
           /\ waitList'[pnotifyPvt[m]] = waitList[pnotifyPvt[m]]
           /\ ppn[ChanRec[m]] = m => ppn'[ChanRec[m]] = m
  PROVE  Hands(m)' /\ (pnotifyPvt'[m] # None => Phase(m, pnotifyPvt[m])')
<1>1. Hands(m) /\ (pnotifyPvt[m] # None => pnotifyPvt[m] \in Pvts /\ Phase(m, pnotifyPvt[m]))
  BY DEF NotifyInv, Phases, Blocks
<1>2. /\ pnotifyPvt'[m] = pnotifyPvt[m] /\ done'[m] = done[m] /\ donePvt'[m] = donePvt[m]
      /\ client'[m] = client[m] /\ waitPvt'[m] = waitPvt[m] /\ busy'[m] = busy[m]
  BY DEF Elsewhere
<1>3. CASE pnotifyPvt[m] = None
  <2>1. done[m] = "none"
    BY <1>1, <1>3 DEF Hands
  <2>2. QED
    BY <1>1, <1>2, <1>3, <2>1 DEF Hands
<1>4. CASE pnotifyPvt[m] # None
  <2>1. PICK p : p = pnotifyPvt[m]
    OBVIOUS
  <2>2. /\ cancelWait'[p] = cancelWait[p] /\ userCallbackWait'[p] = userCallbackWait[p]
        /\ cancelEvent'[p] = cancelEvent[p] /\ userCallbackEvent'[p] = userCallbackEvent[p]
        /\ p \in Pvts
    <3>1. p \in Pvts /\ p # q /\ p # pnotifyPvt[n]
      BY <1>1, <1>4, <2>1, OwnBlock
    <3>2. QED
      BY <3>1 DEF Elsewhere
  <2>3. Hands(m)'
    BY <1>1, <1>2, <1>4 DEF Hands
  <2>4. Phase(m, p) /\ pnotifyPvt'[m] = p
    BY <1>1, <1>2, <1>4, <2>1
  <2>5. Phase(m, pnotifyPvt[m])'
    BY <1>2, <1>4, <2>1, <2>2, <2>4 DEF Phase
  <2>6. QED
    BY <2>3, <2>5, <1>2
<1>5. QED
  BY <1>3, <1>4

\* A step that only changes what n and its block are waiting for.
LEMMA ClientFrame ==
  ASSUME NotifyInv, NEW n \in Notifies, NEW q, pnotifyPvt[n] = q, Elsewhere(n, q), TypeOK',
         UNCHANGED <<recVars, procVars, pnotifyPvt, state, user, waitList, freeList, failed>>,
         \A p \in Pvts : callback[p] # "none" <=> callback'[p] # "none",
         \A p \in Pvts : p # q => callback'[p] = callback[p],
         Hands(n)', q # None => Phase(n, q)'
  PROVE  NotifyInv'
<1>1. Blocks' /\ Owners' /\ Waiters' /\ Reading' /\ Grouped' /\ AwaitedIsActive'
  BY GroupsFrame
<1>2. q \notin freeList
  BY NotifyAssumption DEF NotifyInv, Blocks, TypeOK
<1>3. Clean'
  <2>1. \A p \in freeList : p \in Pvts /\ p # q
    BY <1>2 DEF NotifyInv, TypeOK
  <2>2. QED
    BY <2>1 DEF NotifyInv, Clean, Elsewhere
<1>4. Phases'
  <2>1. ASSUME NEW m \in Notifies, m # n
        PROVE  Hands(m)' /\ (pnotifyPvt'[m] # None => Phase(m, pnotifyPvt[m])')
    <3>1. CASE pnotifyPvt[m] = None
      <4>1. Hands(m)
        BY DEF NotifyInv, Phases
      <4>2. QED
        BY <2>1, <3>1, <4>1 DEF Hands, Elsewhere
    <3>2. CASE pnotifyPvt[m] # None
      <4>1. pnotifyPvt[m] # q /\ pnotifyPvt[m] \in Pvts
        BY <2>1, <3>2, OwnBlock
      <4>2. QED
        BY <2>1, <4>1, PhasesOfOthers DEF recVars
    <3>3. QED
      BY <3>1, <3>2
  <2>2. pnotifyPvt'[n] = q
    OBVIOUS
  <2>3. pnotifyPvt'[n] # None => Phase(n, pnotifyPvt[n])'
    BY <2>2
  <2>4. QED
    BY <2>1, <2>3 DEF Phases
<1>5. QED
  BY <1>1, <1>3, <1>4 DEF NotifyInv

LEMMA ProcessNotifyWaitKeeps ==
  ASSUME NotifyInv, NEW n \in Notifies, ProcessNotifyWait(n)
  PROVE  NotifyInv'
<1>1. PICK q : q = pnotifyPvt[n]
  OBVIOUS
<1>2. q # None /\ ~busy[n] /\ client[n] = "idle"
  BY <1>1 DEF ProcessNotifyWait
<1>3. q \in Pvts /\ q \notin freeList /\ user[q] = n /\ Hands(n) /\ Phase(n, q) /\ TypeOK /\ ~failed
  BY <1>1, <1>2, OwnBlock DEF NotifyInv
<1>4. /\ UNCHANGED <<recVars, procVars, pnotifyPvt, state, user, waitList, freeList, callback,
                     cancelWait, cancelEvent, userCallbackEvent, done, donePvt, wasProcessed, got>>
      /\ busy' = [busy EXCEPT ![n] = TRUE]
      /\ userCallbackWait' = [userCallbackWait EXCEPT ![q] = TRUE]
      /\ client' = [client EXCEPT ![n] = "waitUser"]
      /\ waitPvt' = [waitPvt EXCEPT ![n] = q]
      /\ failed' = (failed \/ ~(state[q] = "UserCallbackActive"))
  BY <1>1 DEF ProcessNotifyWait, notifyVars, eventVars, doneVars, MustHold
<1>5. state[q] = "UserCallbackActive" /\ done[n] = "tail"
  BY <1>1, <1>2, <1>3 DEF Phase, Hands, TypeOK
<1>6. failed' = failed
  BY <1>3, <1>4, <1>5 DEF TypeOK
<1>7. TypeOK'
  BY <1>3, <1>4, <1>6 DEF TypeOK, recVars, procVars
<1>8. Elsewhere(n, q)
  BY <1>3, <1>4 DEF TypeOK, Elsewhere
<1>9. Hands(n)'
  BY <1>1, <1>2, <1>3, <1>4, <1>5 DEF TypeOK, Hands
<1>10. Phase(n, q)'
  BY <1>1, <1>2, <1>3, <1>4, <1>5 DEF TypeOK, Phase, Hands
<1>11. QED
  BY <1>1, <1>4, <1>6, <1>7, <1>8, <1>9, <1>10, ClientFrame

LEMMA doneCallbackKeeps ==
  ASSUME NotifyInv, NEW n \in Notifies, doneCallback(n) \/ doneCallbackAgain(n)
  PROVE  NotifyInv'
<1>1. PICK q : q = pnotifyPvt[n]
  OBVIOUS
<1>2. done[n] = "call"
  BY DEF doneCallback, doneCallbackAgain
<1>3. q # None /\ Hands(n)
  BY <1>1, <1>2, NotifyAssumption DEF NotifyInv, Phases, Hands
<1>4. q \in Pvts /\ q \notin freeList /\ Phase(n, q) /\ TypeOK /\ ~failed
      /\ state[q] = "UserCallbackActive"
  BY <1>1, <1>2, <1>3, OwnBlock DEF NotifyInv, Hands
<1>5. /\ UNCHANGED <<recVars, procVars, pnotifyPvt, state, user, waitList, freeList, callback,
                     cancelWait, cancelEvent, userCallbackEvent, client, waitPvt, donePvt,
                     wasProcessed, got>>
      /\ \/ /\ done' = [done EXCEPT ![n] = "tail"] /\ busy' = [busy EXCEPT ![n] = FALSE]
            /\ UNCHANGED <<userCallbackWait, failed>>
         \/ /\ done' = [done EXCEPT ![n] = "again"] /\ UNCHANGED busy
            /\ userCallbackWait' = [userCallbackWait EXCEPT ![q] = TRUE]
            /\ failed' = (failed \/ ~(state[q] = "UserCallbackActive"))
  BY <1>1 DEF doneCallback, doneCallbackAgain, notifyVars, eventVars, pvtVars, clientVars, MustHold
<1>6. failed' = failed
  BY <1>4, <1>5 DEF TypeOK
<1>7. TypeOK'
  BY <1>4, <1>5, <1>6 DEF TypeOK, recVars, procVars
<1>8. Elsewhere(n, q)
  BY <1>4, <1>5 DEF TypeOK, Elsewhere
<1>9. Hands(n)'
  BY <1>1, <1>2, <1>3, <1>4, <1>5 DEF TypeOK, Hands, Phase
<1>10. Phase(n, q)'
  BY <1>1, <1>2, <1>3, <1>4, <1>5 DEF TypeOK, Phase, Hands
<1>11. QED
  BY <1>1, <1>5, <1>6, <1>7, <1>8, <1>9, <1>10, ClientFrame

LEMMA TakeCallbackKeeps ==
  ASSUME NotifyInv, NEW q \in Pvts, TakeCallback(q)
  PROVE  NotifyInv'
<1>1. callback[q] = "queued" /\ callback' = [callback EXCEPT ![q] = "taken"]
      /\ failed' = (failed \/ ~(pnotifyPvt[user[q]] = q))
      /\ UNCHANGED <<recVars, procVars, notifyVars, pvtVars, eventVars, freeList, clientVars,
                     doneVars>>
  BY DEF TakeCallback, MustHold
<1>2. q \notin freeList
  BY <1>1 DEF NotifyInv, Clean
<1>3. user[q] \in Notifies /\ pnotifyPvt[user[q]] = q
  BY <1>2 DEF NotifyInv, Blocks
<1>4. PICK n \in Notifies : n = user[q]
  BY <1>3
<1>5. q # None /\ TypeOK /\ ~failed /\ Hands(n) /\ Phase(n, q)
  BY <1>3, <1>4, NotifyAssumption, OwnBlock DEF NotifyInv
<1>6. failed' = failed
  BY <1>1, <1>3, <1>5 DEF TypeOK
<1>7. TypeOK'
  BY <1>1, <1>5, <1>6 DEF TypeOK, recVars, procVars, notifyVars, pvtVars, eventVars, clientVars,
                          doneVars
<1>8. Elsewhere(n, q)
  BY <1>1 DEF Elsewhere, notifyVars, pvtVars, eventVars, clientVars, doneVars
<1>9. Hands(n)' /\ Phase(n, q)'
  BY <1>1, <1>5 DEF TypeOK, Hands, Phase, recVars, notifyVars, pvtVars, eventVars, clientVars,
                    doneVars
<1>10. /\ UNCHANGED <<pnotifyPvt, state, user, waitList, freeList, failed>>
       /\ \A p \in Pvts : callback[p] # "none" <=> callback'[p] # "none"
       /\ \A p \in Pvts : p # q => callback'[p] = callback[p]
  BY <1>1, <1>5, <1>6 DEF TypeOK, notifyVars, pvtVars
<1>11. QED
  BY <1>1, <1>3, <1>4, <1>7, <1>8, <1>9, <1>10, ClientFrame

LEMMA CancelWaitKeeps ==
  ASSUME NotifyInv, NEW n \in Notifies, CancelWait(n) \/ CancelNothing(n)
  PROVE  NotifyInv'
<1>1. PICK q : q = pnotifyPvt[n]
  OBVIOUS
<1>2. CASE CancelWait(n)
  <2>1. /\ q # None /\ client[n] = "idle"
        /\ state[q] \in Requesting \cup {"UserCallbackActive"}
        /\ UNCHANGED <<recVars, procVars, pnotifyPvt, state, user, waitList, freeList, callback,
                       userCallbackWait, cancelEvent, userCallbackEvent, done, donePvt, busy,
                       wasProcessed, got, failed>>
        /\ cancelWait' = [cancelWait EXCEPT ![q] = TRUE]
        /\ client' = [client EXCEPT ![n] = "waitCancel"]
        /\ waitPvt' = [waitPvt EXCEPT ![n] = q]
    BY <1>1, <1>2 DEF CancelWait, CancelBegin, cancelRest, recVars, procVars, eventVars, doneVars,
                      Requesting
  <2>2. q \in Pvts /\ q \notin freeList /\ Hands(n) /\ Phase(n, q) /\ TypeOK
    BY <1>1, <2>1, OwnBlock DEF NotifyInv
  <2>3. TypeOK'
    BY <2>1, <2>2 DEF TypeOK, recVars, procVars
  <2>4. Elsewhere(n, q)
    BY <2>1, <2>2 DEF TypeOK, Elsewhere
  <2>5. Hands(n)'
    BY <1>1, <2>1, <2>2 DEF TypeOK, Hands
  <2>6. Phase(n, q)'
    BY <1>1, <2>1, <2>2 DEF TypeOK, Phase, Hands, recVars
  <2>7. QED
    BY <1>1, <2>1, <2>3, <2>4, <2>5, <2>6, ClientFrame
<1>3. CASE CancelNothing(n)
  <2>1. /\ q = None /\ busy' = [busy EXCEPT ![n] = FALSE]
        /\ UNCHANGED <<recVars, procVars, pnotifyPvt, state, user, waitList, freeList, callback,
                       userCallbackWait, cancelWait, cancelEvent, userCallbackEvent, done, donePvt,
                       client, waitPvt, wasProcessed, got, failed>>
    BY <1>1, <1>3 DEF CancelNothing, cancelRest, recVars, procVars, eventVars, doneVars
  <2>2. Hands(n) /\ TypeOK
    BY DEF NotifyInv, Phases
  <2>3. TypeOK'
    BY <2>1, <2>2 DEF TypeOK, recVars, procVars
  <2>4. Elsewhere(n, q)
    BY <2>1, <2>2 DEF TypeOK, Elsewhere
  <2>5. Hands(n)'
    BY <1>1, <2>1, <2>2 DEF TypeOK, Hands
  <2>6. QED
    BY <1>1, <2>1, <2>3, <2>4, <2>5, ClientFrame
<1>4. QED
  BY <1>2, <1>3

\* A notify that waits for no record and has no callback owns no record.
LEMMA OwnsNothing ==
  ASSUME NotifyInv, NEW n \in Notifies,
         pnotifyPvt[n] # None =>
           waitList[pnotifyPvt[n]] = {} /\ (callback[pnotifyPvt[n]] = "none"
                                            \/ state[pnotifyPvt[n]] # "RestartCallbackRequested")
  PROVE  \A r \in Recs : ppn[r] # n
<1>1. n # None
  BY NotifyAssumption
<1>2. QED
  BY <1>1 DEF NotifyInv, Owners

\* notifyCleanup of a block that nobody has business with any more
LEMMA CleanupFrame ==
  ASSUME NotifyInv, NEW n \in Notifies, NEW q, pnotifyPvt[n] = q, q # None, Elsewhere(n, q), TypeOK',
         waitList[q] = {}, callback[q] = "none", state[q] # "WaitForRestart",
         state' = [state EXCEPT ![q] = "NotActive"], freeList' = freeList \cup {q},
         pnotifyPvt' = [pnotifyPvt EXCEPT ![n] = None],
         UNCHANGED <<recVars, procVars, user, waitList, callback, failed>>,
         ~cancelEvent'[q], ~userCallbackEvent'[q], Hands(n)'
  PROVE  NotifyInv'
<1>1. /\ q \in Pvts /\ q \notin freeList /\ user[q] = n /\ TypeOK
      /\ \A m \in Notifies : m # n => pnotifyPvt[m] # q
  BY OwnBlock DEF NotifyInv
<1>2. \A m \in Notifies : pnotifyPvt'[m] = IF m = n THEN None ELSE pnotifyPvt[m]
  BY <1>1 DEF TypeOK
<1>3. \A p \in Pvts : state'[p] = IF p = q THEN "NotActive" ELSE state[p]
  BY <1>1 DEF TypeOK
<1>4. Blocks'
  BY <1>1, <1>2 DEF NotifyInv, Blocks
<1>5. Clean'
  <2>1. \A p \in freeList : p \in Pvts /\ p # q
    BY <1>1 DEF TypeOK
  <2>2. QED
    BY <1>1, <1>3, <2>1 DEF NotifyInv, Clean, Elsewhere
<1>6. Owners'
  <2>1. \A r \in Recs : ppn[r] # n
    BY OwnsNothing
  <2>2. \A r \in Recs : ppn[r] # None => ppn[r] \in Notifies
    BY <1>1 DEF TypeOK
  <2>3. \A m \in Notifies : pnotifyPvt[m] # None => pnotifyPvt[m] \in Pvts
    BY <1>1 DEF TypeOK
  <2>4. QED
    BY <1>1, <1>2, <1>3, <2>1, <2>2, <2>3 DEF NotifyInv, Owners, recVars
<1>7. Waiters'
  <2>1. \A m \in Notifies : pnotifyPvt[m] # None => pnotifyPvt[m] \in Pvts
    BY <1>1 DEF TypeOK
  <2>2. QED
    BY <1>1, <1>2, <1>3, <2>1 DEF NotifyInv, Waiters, recVars
<1>8. Reading' /\ AwaitedIsActive'
  BY DEF NotifyInv, Reading, AwaitedIsActive, recVars, procVars
<1>9. Grouped'
  BY DEF NotifyInv, Grouped, LockSet, Closed, recVars
<1>10. Phases'
  <2>1. ASSUME NEW m \in Notifies, m # n
        PROVE  Hands(m)' /\ (pnotifyPvt'[m] # None => Phase(m, pnotifyPvt[m])')
    <3>1. pnotifyPvt[m] # q /\ (pnotifyPvt[m] # None => pnotifyPvt[m] \in Pvts)
      BY <1>1, <2>1 DEF TypeOK
    <3>2. /\ pnotifyPvt[m] # None => state'[pnotifyPvt[m]] = state[pnotifyPvt[m]]
          /\ callback' = callback /\ waitList' = waitList /\ ppn' = ppn
      BY <1>3, <3>1 DEF recVars
    <3>3. QED
      BY <2>1, <3>1, <3>2, PhasesOfOthers
  <2>2. pnotifyPvt'[n] = None
    BY <1>2
  <2>3. QED
    BY <2>1, <2>2 DEF Phases
<1>11. QED
  BY <1>4, <1>5, <1>6, <1>7, <1>8, <1>9, <1>10 DEF NotifyInv

LEMMA DoneTailKeeps ==
  ASSUME NotifyInv, NEW n \in Notifies, DoneTail(n)
  PROVE  NotifyInv'
<1>1. PICK q : q = pnotifyPvt[n]
  OBVIOUS
<1>2. done[n] = "tail" /\ Hands(n)
  BY DEF DoneTail, NotifyInv, Phases
<1>3. q # None /\ donePvt[n] = q /\ state[q] = "UserCallbackActive"
  BY <1>1, <1>2 DEF Hands
<1>4. q \in Pvts /\ q \notin freeList /\ Phase(n, q) /\ TypeOK /\ ~failed
  BY <1>1, <1>3, OwnBlock DEF NotifyInv
<1>5. /\ done' = [done EXCEPT ![n] = "none"] /\ donePvt' = [donePvt EXCEPT ![n] = None]
      /\ client' = [client EXCEPT ![n] = IF client[n] = "inline" THEN "idle" ELSE client[n]]
      /\ cancelWait' = [cancelWait EXCEPT ![q] = FALSE]
      /\ userCallbackWait' = [userCallbackWait EXCEPT ![q] = FALSE]
      /\ UNCHANGED <<recVars, procVars, wasProcessed, got, user, waitList, callback, waitPvt, busy>>
  BY <1>3 DEF DoneTail
<1>6. CASE cancelWait[q] <=> userCallbackWait[q]
  <2>1. /\ state' = [state EXCEPT ![q] = "NotActive"] /\ freeList' = freeList \cup {q}
        /\ pnotifyPvt' = [pnotifyPvt EXCEPT ![n] = None]
        /\ failed' = (failed \/ ~(q # None))
        /\ cancelEvent' = cancelEvent /\ userCallbackEvent' = userCallbackEvent
    BY <1>1, <1>3, <1>6 DEF DoneTail, MustHold, eventVars
  <2>2. failed' = failed
    BY <1>3, <1>4, <2>1 DEF TypeOK
  <2>3. client[n] \notin {"waitUser", "waitCancel"}
    BY <1>2, <1>4, <1>6 DEF Phase
  <2>4. waitList[q] = {} /\ callback[q] = "none" /\ ~cancelEvent[q] /\ ~userCallbackEvent[q]
    BY <1>2, <1>3, <1>4 DEF Phase, Requesting, Progress
  <2>5. TypeOK'
    BY <1>4, <1>5, <2>1, <2>2 DEF TypeOK, States, recVars, procVars
  <2>6. Elsewhere(n, q)
    <3>1. \A m \in Notifies : m # n =>
            /\ pnotifyPvt'[m] = pnotifyPvt[m] /\ done'[m] = done[m] /\ donePvt'[m] = donePvt[m]
            /\ client'[m] = client[m] /\ waitPvt' = waitPvt /\ busy' = busy
      BY <1>4, <1>5, <2>1 DEF TypeOK
    <3>2. \A p \in Pvts : p # q =>
            cancelWait'[p] = cancelWait[p] /\ userCallbackWait'[p] = userCallbackWait[p]
      BY <1>4, <1>5 DEF TypeOK
    <3>3. QED
      BY <2>1, <3>1, <3>2 DEF Elsewhere
  <2>7. Hands(n)'
    BY <1>2, <1>4, <1>5, <2>1, <2>3 DEF TypeOK, Hands
  <2>8. state[q] # "WaitForRestart" /\ ~cancelEvent'[q] /\ ~userCallbackEvent'[q]
    BY <1>3, <2>1, <2>4
  <2>9. QED
    BY <1>1, <1>3, <1>5, <2>1, <2>2, <2>4, <2>5, <2>6, <2>7, <2>8, CleanupFrame
<1>7. CASE ~(cancelWait[q] <=> userCallbackWait[q])
  <2>1. /\ cancelEvent' = [cancelEvent EXCEPT ![q] = cancelEvent[q] \/ cancelWait[q]]
        /\ userCallbackEvent' = [userCallbackEvent EXCEPT ![q] = userCallbackEvent[q] \/ ~cancelWait[q]]
        /\ UNCHANGED <<state, freeList, pnotifyPvt, failed>>
    BY <1>3, <1>7 DEF DoneTail
  <2>2. client[n] # "inline"
    BY <1>2, <1>4, <1>7 DEF Phase
  <2>3. client' = client
    BY <1>4, <1>5, <2>2 DEF TypeOK
  <2>4. TypeOK'
    BY <1>4, <1>5, <2>1, <2>3 DEF TypeOK, recVars, procVars
  <2>5. Elsewhere(n, q)
    <3>1. \A p \in Pvts \ {q} :
            /\ cancelEvent'[p] = cancelEvent[p] /\ userCallbackEvent'[p] = userCallbackEvent[p]
            /\ cancelWait'[p] = cancelWait[p] /\ userCallbackWait'[p] = userCallbackWait[p]
      BY <1>4, <1>5, <2>1, ZenonT(60) DEF TypeOK
    <3>2. QED
      <4>1. \A m \in Notifies : m # n => done'[m] = done[m] /\ donePvt'[m] = donePvt[m]
        BY <1>4, <1>5 DEF TypeOK
      <4>2. pnotifyPvt' = pnotifyPvt /\ client' = client /\ waitPvt' = waitPvt /\ busy' = busy
        BY <1>5, <2>1, <2>3
      <4>3. QED
        BY <3>1, <4>1, <4>2 DEF Elsewhere
  <2>6. Hands(n)'
    BY <1>2, <1>4, <1>5, <2>1, <2>2, <2>3 DEF TypeOK, Hands
  <2>7. Phase(n, q)'
    <3>1. /\ cancelWait[q] \in BOOLEAN /\ userCallbackWait[q] \in BOOLEAN
          /\ done'[n] = "none" /\ ~cancelWait'[q] /\ ~userCallbackWait'[q]
          /\ cancelEvent'[q] <=> cancelEvent[q] \/ cancelWait[q]
          /\ userCallbackEvent'[q] <=> userCallbackEvent[q] \/ ~cancelWait[q]
          /\ client' = client /\ busy' = busy /\ state' = state /\ callback' = callback
          /\ waitList' = waitList /\ ppn' = ppn
      <4>1. cancelWait[q] \in BOOLEAN /\ userCallbackWait[q] \in BOOLEAN
        BY <1>4 DEF TypeOK
      <4>2. done'[n] = "none" /\ ~cancelWait'[q] /\ ~userCallbackWait'[q]
        BY <1>4, <1>5 DEF TypeOK
      <4>3. /\ cancelEvent'[q] <=> cancelEvent[q] \/ cancelWait[q]
            /\ userCallbackEvent'[q] <=> userCallbackEvent[q] \/ ~cancelWait[q]
        BY <1>4, <2>1, ZenonT(60) DEF TypeOK
      <4>4. /\ client' = client /\ busy' = busy /\ state' = state /\ callback' = callback
            /\ waitList' = waitList /\ ppn' = ppn
        BY <1>5, <2>1, <2>3 DEF recVars
      <4>5. QED
        BY <4>1, <4>2, <4>3, <4>4
    <3>2. QED
      BY <1>2, <1>3, <1>4, <1>7, <3>1 DEF Phase, Requesting, Progress
  <2>8. QED
    BY <1>1, <1>5, <2>1, <2>4, <2>5, <2>6, <2>7, ClientFrame
<1>8. QED
  BY <1>6, <1>7

LEMMA CancelWokenKeeps ==
  ASSUME NotifyInv, NEW n \in Notifies, CancelWoken(n)
  PROVE  NotifyInv'
<1>1. PICK q : q = pnotifyPvt[n]
  OBVIOUS
<1>2. client[n] = "waitCancel" /\ Hands(n) /\ cancelEvent[waitPvt[n]]
  BY DEF CancelWoken, NotifyInv, Phases
<1>3. q # None /\ waitPvt[n] = q
  BY <1>1, <1>2 DEF Hands
<1>4. q \in Pvts /\ q \notin freeList /\ Phase(n, q) /\ TypeOK /\ ~failed
  BY <1>1, <1>3, OwnBlock DEF NotifyInv
<1>5. /\ cancelEvent' = [cancelEvent EXCEPT ![q] = FALSE]
      /\ state' = [state EXCEPT ![q] = "NotActive"]
      /\ client' = [client EXCEPT ![n] = "idle"] /\ waitPvt' = [waitPvt EXCEPT ![n] = None]
      /\ freeList' = freeList \cup {q}
      /\ pnotifyPvt' = [pnotifyPvt EXCEPT ![n] = None]
      /\ busy' = [busy EXCEPT ![n] = FALSE]
      /\ failed' = (failed \/ ~(q # None))
      /\ UNCHANGED <<recVars, procVars, user, wasProcessed, got, userCallbackWait, done, donePvt,
                     waitList, cancelWait, userCallbackEvent, callback>>
  BY <1>1, <1>3 DEF CancelWoken, CancelReturns, MustHold, cancelRest, recVars, procVars, doneVars
<1>6. failed' = failed
  BY <1>3, <1>4, <1>5 DEF TypeOK
<1>7. /\ waitList[q] = {} /\ callback[q] = "none" /\ state[q] # "WaitForRestart"
      /\ ~userCallbackEvent[q] /\ done[n] = "none"
  BY <1>2, <1>3, <1>4 DEF Phase, Requesting, Progress
<1>8. TypeOK'
  BY <1>4, <1>5, <1>6 DEF TypeOK, States, recVars, procVars
<1>9. Elsewhere(n, q)
  <2>1. \A m \in Notifies : m # n =>
          /\ pnotifyPvt'[m] = pnotifyPvt[m] /\ client'[m] = client[m]
          /\ waitPvt'[m] = waitPvt[m] /\ busy'[m] = busy[m]
    BY <1>4, <1>5 DEF TypeOK
  <2>2. \A p \in Pvts : p # q => cancelEvent'[p] = cancelEvent[p]
    BY <1>4, <1>5 DEF TypeOK
  <2>3. QED
    BY <1>5, <2>1, <2>2 DEF Elsewhere
<1>10. Hands(n)' /\ ~cancelEvent'[q] /\ ~userCallbackEvent'[q]
  BY <1>2, <1>4, <1>5, <1>7 DEF TypeOK, Hands
<1>11. QED
  BY <1>1, <1>3, <1>5, <1>6, <1>7, <1>8, <1>9, <1>10, CleanupFrame

-----------------------------------------------------------------------------
(* dbNotifyAdd *)

LEMMA dbNotifyAddKeeps ==
  ASSUME NotifyInv, NEW r \in Recs, dbNotifyAdd(r)
  PROVE  NotifyInv'
<1>1. PICK n, pto : n = readPpn[r] /\ pto = flnk[r]
  OBVIOUS
<1>2. TypeOK /\ ~failed /\ Reading /\ AwaitedIsActive
  BY DEF NotifyInv
<1>3. /\ proc[r] = "add" /\ proc' = [proc EXCEPT ![r] = "call"]
      /\ readPpn' = [readPpn EXCEPT ![r] = None]
      /\ UNCHANGED <<pact, restartList, state, callback, procRest>>
  BY DEF dbNotifyAdd, At
<1>4. n \in Notifies /\ ppn[r] = n /\ pto \in Recs
  BY <1>1, <1>2, <1>3 DEF Reading, TypeOK
<1>5. PICK q : q = pnotifyPvt[n]
  OBVIOUS
<1>6. n # None /\ q # None
  BY <1>4, <1>5, NotifyAssumption DEF NotifyInv, Owners
<1>7. /\ q \in Pvts /\ q \notin freeList /\ user[q] = n /\ Phase(n, q)
      /\ \A m \in Notifies : m # n => pnotifyPvt[m] # q
  BY <1>4, <1>5, <1>6, OwnBlock
<1>8. CASE UNCHANGED <<ppn, waitList, failed>>
  <2>1. UNCHANGED frameRest
    BY <1>3, <1>8 DEF frameRest
  <2>2. /\ pact' \in [Recs -> BOOLEAN]
        /\ proc' \in [Recs -> {"idle", "enter", "target", "add", "call", "child", "test", "complete"}]
        /\ readPpn' \in [Recs -> Notifies \cup {None}]
    BY <1>2, <1>3 DEF TypeOK
  <2>3. flnk' = flnk
    BY <1>3 DEF procRest
  <2>4. Reading' /\ AwaitedIsActive'
    BY <1>2, <1>3, <1>8, <2>3 DEF Reading, AwaitedIsActive, TypeOK
  <2>5. QED
    BY <2>1, <2>2, <2>4, ProcessingFrame, ProcessingTypes DEF NotifyInv
<1>9. CASE /\ Joins(n, pto) /\ ppn' = [ppn EXCEPT ![pto] = ppn[r]]
           /\ waitList' = [p \in Pvts |-> IF ppn[r] # None /\ p = pnotifyPvt[ppn[r]]
                                          THEN waitList[p] \cup {pto} ELSE waitList[p]]
           /\ MustHold(NotAwaited(pto) /\ ppn[r] # None)
  <2>1. /\ ppn[pto] = None /\ state[q] = "ProcessInProgress" /\ pto # ChanRec[n]
        /\ ppn' = [ppn EXCEPT ![pto] = n]
        /\ \A p \in Pvts : waitList'[p] = IF p = q THEN waitList[p] \cup {pto} ELSE waitList[p]
        /\ waitList' \in [Pvts -> SUBSET Recs]
    BY <1>2, <1>4, <1>5, <1>6, <1>9 DEF Joins, TypeOK
  <2>2. NotAwaited(pto)
    BY <1>4, <2>1, AwaitedHasOwner
  <2>3. failed' = failed
    BY <1>2, <1>4, <1>6, <1>9, <2>2 DEF MustHold, TypeOK
  <2>4. r \in waitList[q]
    BY <1>4, <1>5, <1>6, <2>1 DEF NotifyInv, Owners
  <2>5. UNCHANGED <<flnk, pnotifyPvt, user, freeList, cancelWait, userCallbackWait, cancelEvent,
                    userCallbackEvent, client, waitPvt, busy, done, donePvt>>
    BY <1>3 DEF procRest, notifyVars, eventVars, clientVars, doneVars
  <2>6. TypeOK'
    BY <1>2, <1>3, <1>4, <2>1, <2>3 DEF TypeOK, procRest, notifyVars, eventVars, clientVars, doneVars
  <2>7. Blocks' /\ Clean'
    <3>1. \A p \in freeList : p \in Pvts /\ p # q
      BY <1>2, <1>7 DEF TypeOK
    <3>2. QED
      BY <1>3, <2>1, <2>5, <3>1 DEF NotifyInv, Blocks, Clean
  <2>8. Owners'
    <3>1. \A x \in Recs : ppn'[x] = IF x = pto THEN n ELSE ppn[x]
      BY <1>2, <2>1 DEF TypeOK
    <3>2. \A x \in Recs : ppn[x] # None => ppn[x] \in Notifies /\ pnotifyPvt[ppn[x]] \in Pvts
      BY <1>2 DEF NotifyInv, TypeOK, Owners
    <3>3. \A p \in Pvts : waitList[p] \subseteq Recs
      BY <1>2 DEF TypeOK
    <3>4. QED
      BY <1>3, <1>5, <1>6, <1>7, <2>1, <2>2, <2>5, <3>1, <3>2, <3>3
      DEF NotifyInv, Owners, NotAwaited
  <2>9. Waiters'
    <3>1. \A x \in Recs : ppn[x] # None => ppn'[x] # None
      BY <1>2, <1>6, <2>1 DEF TypeOK
    <3>2. QED
      BY <1>3, <2>5, <3>1 DEF NotifyInv, Waiters
  <2>10. Reading' /\ AwaitedIsActive'
    <3>1. \A x \in Recs : x # pto => ppn'[x] = ppn[x]
      BY <1>2, <2>1 DEF TypeOK
    <3>2. Reading'
      BY <1>2, <1>3, <2>1, <2>5, <3>1 DEF Reading, TypeOK
    <3>3. ASSUME NEW p \in Pvts, NEW x \in waitList'[p]
          PROVE  \/ pact'[x] \/ proc'[x] # "idle"
                 \/ \E s \in Recs : flnk'[s] = x /\ proc'[s] = "call"
      <4>1. \A s \in Recs : proc'[s] = IF s = r THEN "call" ELSE proc[s]
        BY <1>2, <1>3 DEF TypeOK
      <4>2. CASE x = pto
        BY <1>1, <2>5, <4>1, <4>2
      <4>3. CASE x # pto
        <5>1. waitList'[p] \in {waitList[p], waitList[p] \cup {pto}} /\ waitList[p] \subseteq Recs
          BY <1>2, <2>1 DEF TypeOK
        <5>2. x \in waitList[p] /\ x \in Recs
          BY <3>3, <4>3, <5>1
        <5>3. QED
          BY <1>2, <1>3, <2>5, <4>1, <5>2 DEF AwaitedIsActive
      <4>4. QED
        BY <4>2, <4>3
    <3>4. QED
      BY <3>2, <3>3 DEF AwaitedIsActive
  <2>11. Grouped'
    <3>1. ASSUME "relink" \notin Ops PROVE pto \in LockSet(ChanRec[n])
      <4>1. r \in LockSet(ChanRec[n])
        BY <1>7, <2>4, <3>1 DEF NotifyInv, Grouped
      <4>2. flnk[r] # None /\ flnk[r] = pto
        BY <1>1, <1>4, NotifyAssumption
      <4>3. QED
        BY <1>4, <4>1, <4>2 DEF LockSet, Closed
    <3>2. ASSUME NEW p \in Pvts, p \notin freeList, "relink" \notin Ops
          PROVE  waitList'[p] \subseteq LockSet(ChanRec[user[p]])
      <4>1. waitList[p] \subseteq LockSet(ChanRec[user[p]])
        BY <3>2 DEF NotifyInv, Grouped
      <4>2. QED
        BY <1>7, <2>1, <3>1, <3>2, <4>1
    <3>3. QED
      BY <2>5, <3>2 DEF Grouped, LockSet, Closed
  <2>12. Phases'
    <3>1. ASSUME NEW m \in Notifies, m # n
          PROVE  Hands(m)' /\ (pnotifyPvt'[m] # None => Phase(m, pnotifyPvt[m])')
      <4>1. Elsewhere(n, q)
        BY <2>5 DEF Elsewhere
      <4>2. pnotifyPvt[m] # q /\ (pnotifyPvt[m] # None => pnotifyPvt[m] \in Pvts)
        BY <1>2, <1>7, <3>1 DEF TypeOK
      <4>3. ppn[ChanRec[m]] = m => ppn'[ChanRec[m]] = m
        BY <1>2, <2>1, <3>1, NotifyAssumption DEF TypeOK
      <4>4. pnotifyPvt[m] # None => waitList'[pnotifyPvt[m]] = waitList[pnotifyPvt[m]]
        BY <2>1, <4>2
      <4>5. QED
        BY <1>3, <1>4, <3>1, <4>1, <4>2, <4>3, <4>4, PhasesOfOthers
    <3>2. Hands(n)'
      BY <1>3, <1>4, <2>5 DEF NotifyInv, Phases, Hands
    <3>3. Phase(n, q)'
      <4>1. /\ waitList[q] # {} /\ waitList'[q] # {} /\ ppn[ChanRec[n]] = ppn'[ChanRec[n]]
            /\ state'[q] = "ProcessInProgress" /\ state' = state
        BY <1>2, <1>3, <1>4, <1>7, <2>1, <2>4, NotifyAssumption DEF TypeOK
      <4>2. QED
        BY <1>3, <1>7, <2>5, <4>1 DEF Phase
    <3>4. pnotifyPvt'[n] = q
      BY <1>5, <2>5
    <3>5. QED
      BY <3>1, <3>2, <3>3, <3>4 DEF Phases
  <2>13. QED
    BY <1>2, <2>3, <2>6, <2>7, <2>8, <2>9, <2>10, <2>11, <2>12 DEF NotifyInv
<1>10. QED
  BY <1>1, <1>5, <1>6, <1>8, <1>9 DEF dbNotifyAdd

-----------------------------------------------------------------------------
(* restartCheck: records are released *)

\* n, whose block is q, gives the records rs to the next notifies.
Releases(n, q, rs) ==
  /\ Elsewhere(n, q) /\ UNCHANGED <<flnk, user>>
  /\ \A x \in rs : x \in Recs /\ ppn[x] = n
  /\ ppn' = restartPpn(rs) /\ restartList' = restartLists(rs)
  /\ \A p \in Pvts : p # q =>
       /\ state'[p] = IF p \in Restarted(rs) THEN "RestartCallbackRequested" ELSE state[p]
       /\ callback'[p] = IF p \in Restarted(rs) THEN "queued" ELSE callback[p]
       /\ waitList'[p] = waitList[p]
  /\ waitList'[q] \subseteq waitList[q] \ rs
  /\ state[q] # "WaitForRestart" /\ state'[q] # "WaitForRestart"
  /\ \A x \in Recs \ rs : ppn[x] = n =>
       /\ pnotifyPvt'[n] = q
       /\ \/ x \in waitList'[q]
          \/ x = ChanRec[n] /\ callback'[q] # "none" /\ state'[q] = "RestartCallbackRequested"

\* Who is first on a restart list waits for a restart.
LEMMA FirstWaiter ==
  ASSUME NotifyInv, NEW r \in Recs, restartList[r] # <<>>
  PROVE  /\ NextOwner(r) \in Notifies /\ ChanRec[NextOwner(r)] = r
         /\ pnotifyPvt[NextOwner(r)] \in Pvts
         /\ state[pnotifyPvt[NextOwner(r)]] = "WaitForRestart"
         /\ NextOwner(r) = Head(restartList[r]) /\ Contains(restartList[r], NextOwner(r))
<1>1. restartList[r] \in Seq(Notifies)
  BY DEF NotifyInv, TypeOK
<1>2. NextOwner(r) \in Notifies /\ Contains(restartList[r], NextOwner(r))
      /\ NextOwner(r) = Head(restartList[r])
  BY <1>1, ListGet DEF NextOwner
<1>3. ChanRec[NextOwner(r)] = r /\ pnotifyPvt[NextOwner(r)] # None
      /\ state[pnotifyPvt[NextOwner(r)]] = "WaitForRestart"
  BY <1>2 DEF NotifyInv, Waiters
<1>4. QED
  BY <1>2, <1>3 DEF NotifyInv, TypeOK

\* The restarted blocks are those of the first waiters of rs.
LEMMA RestartedIs ==
  ASSUME NotifyInv, NEW rs \in SUBSET Recs
  PROVE  /\ \A p \in Restarted(rs) : p \in Pvts /\ state[p] = "WaitForRestart"
         /\ \A m \in Notifies : pnotifyPvt[m] # None =>
              (pnotifyPvt[m] \in Restarted(rs) <=>
                 ChanRec[m] \in rs /\ restartList[ChanRec[m]] # <<>> /\ m = NextOwner(ChanRec[m]))
<1>1. ASSUME NEW p \in Restarted(rs)
      PROVE  \E x \in rs : /\ restartList[x] # <<>> /\ p = pnotifyPvt[NextOwner(x)]
                           /\ p \in Pvts /\ state[p] = "WaitForRestart"
                           /\ NextOwner(x) \in Notifies /\ ChanRec[NextOwner(x)] = x
  <2>1. PICK x \in rs : restartList[x] # <<>> /\ p = pnotifyPvt[NextOwner(x)]
    BY <1>1 DEF Restarted
  <2>2. QED
    BY <2>1, FirstWaiter
<1>2. ASSUME NEW m \in Notifies, pnotifyPvt[m] # None, pnotifyPvt[m] \in Restarted(rs)
      PROVE  ChanRec[m] \in rs /\ restartList[ChanRec[m]] # <<>> /\ m = NextOwner(ChanRec[m])
  <2>1. PICK x \in rs : /\ restartList[x] # <<>> /\ pnotifyPvt[m] = pnotifyPvt[NextOwner(x)]
                        /\ NextOwner(x) \in Notifies /\ ChanRec[NextOwner(x)] = x
    BY <1>1, <1>2
  <2>2. m = NextOwner(x)
    BY <1>2, <2>1, OwnBlock
  <2>3. QED
    BY <2>1, <2>2
<1>3. ASSUME NEW m \in Notifies, ChanRec[m] \in rs, restartList[ChanRec[m]] # <<>>,
             m = NextOwner(ChanRec[m])
      PROVE  pnotifyPvt[m] \in Restarted(rs)
  BY <1>3 DEF Restarted
<1>4. QED
  BY <1>1, <1>2, <1>3

LEMMA ReleaseAsserts ==
  ASSUME NotifyInv, NEW rs \in SUBSET Recs, \A r \in rs : ppn[r] # None
  PROVE  restartAsserts(rs)
BY RestartedIs DEF restartAsserts

LEMMA ReleaseTypes ==
  ASSUME NotifyInv, NEW rs \in SUBSET Recs
  PROVE  /\ restartPpn(rs) \in [Recs -> Notifies \cup {None}]
         /\ restartLists(rs) \in [Recs -> Seq(Notifies)]
<1>1. ASSUME NEW r \in Recs
      PROVE  NextOwner(r) \in Notifies \cup {None}
             /\ (restartList[r] # <<>> => Tail(restartList[r]) \in Seq(Notifies))
  <2>1. restartList[r] \in Seq(Notifies)
    BY DEF NotifyInv, TypeOK
  <2>2. QED
    BY <2>1, ListGet DEF NextOwner
<1>2. ppn \in [Recs -> Notifies \cup {None}] /\ restartList \in [Recs -> Seq(Notifies)]
  BY DEF NotifyInv, TypeOK
<1>3. QED
  BY <1>1, <1>2 DEF restartPpn, restartLists

LEMMA ReleaseWaiters ==
  ASSUME NotifyInv, NEW n \in Notifies, NEW q, pnotifyPvt[n] = q, q # None,
         pnotifyPvt'[n] \in {q, None}, NEW rs \in SUBSET Recs, Releases(n, q, rs)
  PROVE  Waiters'
<1>1. /\ q \in Pvts
      /\ \A m \in Notifies : m # n => /\ pnotifyPvt[m] # q /\ pnotifyPvt'[m] = pnotifyPvt[m]
                                      /\ pnotifyPvt[m] # None => pnotifyPvt[m] \in Pvts
  BY OwnBlock DEF Releases, Elsewhere, NotifyInv, Blocks
<1>2. ASSUME NEW r \in Recs
      PROVE  /\ IsInjective(restartList'[r])
             /\ restartList'[r] # <<>> => ppn'[r] # None
             /\ \A m \in Notifies : Contains(restartList'[r], m) <=>
                  /\ r = ChanRec[m] /\ pnotifyPvt'[m] # None
                  /\ state'[pnotifyPvt'[m]] = "WaitForRestart"
  <2>1. /\ IsInjective(restartList[r]) /\ restartList[r] \in Seq(Notifies)
        /\ restartList[r] # <<>> => ppn[r] # None
        /\ \A m \in Notifies : Contains(restartList[r], m) <=>
             r = ChanRec[m] /\ pnotifyPvt[m] # None /\ state[pnotifyPvt[m]] = "WaitForRestart"
    BY DEF NotifyInv, Waiters, TypeOK
  <2>2. ~Contains(restartList[r], n)
    BY <2>1 DEF Releases
  <2>3. ~(pnotifyPvt'[n] # None /\ state'[pnotifyPvt'[n]] = "WaitForRestart")
    BY DEF Releases
  <2>4. CASE r \notin rs \/ restartList[r] = <<>>
    <3>1. restartList'[r] = restartList[r]
      BY <2>4 DEF Releases, restartLists
    <3>2. restartList'[r] # <<>> => ppn'[r] # None
      BY <2>1, <2>4, <3>1 DEF Releases, restartPpn
    <3>3. ASSUME NEW m \in Notifies, m # n, r = ChanRec[m], pnotifyPvt[m] # None
          PROVE  state'[pnotifyPvt'[m]] = "WaitForRestart"
                 <=> state[pnotifyPvt[m]] = "WaitForRestart"
      <4>1. pnotifyPvt[m] \notin Restarted(rs)
        BY <2>4, <3>3, RestartedIs
      <4>2. QED
        BY <1>1, <3>3, <4>1 DEF Releases
    <3>4. QED
      BY <1>1, <2>1, <2>2, <2>3, <3>1, <3>2, <3>3
  <2>5. CASE r \in rs /\ restartList[r] # <<>>
    <3>1. restartList'[r] = Tail(restartList[r]) /\ ppn'[r] = NextOwner(r)
      BY <2>5 DEF Releases, restartLists, restartPpn
    <3>2. /\ IsInjective(Tail(restartList[r]))
          /\ \A m : Contains(restartList[r], m) <=>
               m = NextOwner(r) \/ Contains(Tail(restartList[r]), m)
          /\ ~Contains(Tail(restartList[r]), NextOwner(r))
      BY <2>1, <2>5, ListGet DEF NextOwner
    <3>3. ppn'[r] # None
      BY <2>5, <3>1, FirstWaiter, NotifyAssumption
    <3>4. ASSUME NEW m \in Notifies, m # n, r = ChanRec[m], pnotifyPvt[m] # None
          PROVE  state'[pnotifyPvt'[m]] = "WaitForRestart"
                 <=> state[pnotifyPvt[m]] = "WaitForRestart" /\ m # NextOwner(r)
      <4>1. pnotifyPvt[m] \in Restarted(rs) <=> m = NextOwner(r)
        BY <2>5, <3>4, RestartedIs
      <4>2. QED
        BY <1>1, <3>4, <4>1 DEF Releases
    <3>5. QED
      BY <1>1, <2>1, <2>2, <2>3, <3>1, <3>2, <3>3, <3>4
  <2>6. QED
    BY <2>4, <2>5
<1>3. QED
  BY <1>2 DEF Waiters

LEMMA ReleaseOwners ==
  ASSUME NotifyInv, NEW n \in Notifies, NEW q, pnotifyPvt[n] = q, q # None,
         NEW rs \in SUBSET Recs, Releases(n, q, rs)
  PROVE  Owners'
<1>1. /\ q \in Pvts /\ user[q] = n /\ n # None /\ user' = user
      /\ \A m \in Notifies : m # n => /\ pnotifyPvt[m] # q /\ pnotifyPvt'[m] = pnotifyPvt[m]
                                      /\ pnotifyPvt[m] # None => pnotifyPvt[m] \in Pvts
  BY OwnBlock, NotifyAssumption DEF Releases, Elsewhere, NotifyInv, Blocks
<1>2. \A x \in Recs : ppn'[x] = IF x \in rs THEN NextOwner(x) ELSE ppn[x]
  BY DEF Releases, restartPpn
<1>3. \A x \in rs : ppn[x] = n /\ x \in Recs
  BY DEF Releases
<1>4. ASSUME NEW x \in Recs, ppn'[x] # None
      PROVE  /\ pnotifyPvt'[ppn'[x]] # None
             /\ \/ x \in waitList'[pnotifyPvt'[ppn'[x]]]
                \/ /\ x = ChanRec[ppn'[x]] /\ callback'[pnotifyPvt'[ppn'[x]]] # "none"
                   /\ state'[pnotifyPvt'[ppn'[x]]] = "RestartCallbackRequested"
  <2>1. CASE x \in rs
    <3>1. restartList[x] # <<>> /\ ppn'[x] = NextOwner(x)
      BY <1>2, <1>4, <2>1 DEF NextOwner
    <3>2. PICK m : m = NextOwner(x)
      OBVIOUS
    <3>3. m \in Notifies /\ ChanRec[m] = x /\ pnotifyPvt[m] \in Pvts
          /\ state[pnotifyPvt[m]] = "WaitForRestart"
      BY <3>1, <3>2, FirstWaiter
    <3>4. pnotifyPvt[m] # None /\ m # n
      BY <3>3, NotifyAssumption DEF Releases
    <3>5. pnotifyPvt[m] \in Restarted(rs)
      BY <2>1, <3>1, <3>2, <3>3, <3>4, RestartedIs
    <3>6. /\ state'[pnotifyPvt[m]] = "RestartCallbackRequested"
          /\ callback'[pnotifyPvt[m]] = "queued" /\ pnotifyPvt'[m] = pnotifyPvt[m]
      BY <1>1, <3>3, <3>4, <3>5 DEF Releases
    <3>7. QED
      BY <3>1, <3>2, <3>3, <3>4, <3>6
  <2>2. CASE x \notin rs /\ ppn[x] = n
    <3>1. ppn'[x] = n
      BY <1>2, <2>2
    <3>2. QED
      BY <1>1, <2>2, <3>1 DEF Releases
  <2>3. CASE x \notin rs /\ ppn[x] # n
    <3>1. PICK m : m = ppn[x]
      OBVIOUS
    <3>2. ppn'[x] = m /\ m # n /\ m # None
      BY <1>2, <1>4, <2>3, <3>1
    <3>3. m \in Notifies
      BY <3>1, <3>2 DEF NotifyInv, TypeOK
    <3>4. /\ pnotifyPvt[m] # None
          /\ \/ x \in waitList[pnotifyPvt[m]]
             \/ /\ x = ChanRec[m] /\ callback[pnotifyPvt[m]] # "none"
                /\ state[pnotifyPvt[m]] = "RestartCallbackRequested"
      BY <3>1, <3>2 DEF NotifyInv, Owners
    <3>5. pnotifyPvt[m] \in Pvts /\ pnotifyPvt[m] # q /\ pnotifyPvt'[m] = pnotifyPvt[m]
      BY <1>1, <3>2, <3>3, <3>4
    <3>6. pnotifyPvt[m] \in Restarted(rs) => state[pnotifyPvt[m]] = "WaitForRestart"
      BY RestartedIs
    <3>7. QED
      BY <3>2, <3>4, <3>5, <3>6 DEF Releases
  <2>4. QED
    BY <2>1, <2>2, <2>3
<1>5. ASSUME NEW p \in Pvts, NEW x \in waitList'[p]
      PROVE  ppn'[x] = user'[p]
  <2>1. x \in waitList[p] /\ (p = q => x \notin rs)
    BY <1>1, <1>5 DEF Releases
  <2>2. ppn[x] = user[p] /\ x \in Recs
    BY <2>1 DEF NotifyInv, Owners, TypeOK
  <2>3. x \notin rs
    <3>1. ASSUME x \in rs PROVE FALSE
      <4>1. user[p] = n /\ p # q
        BY <1>3, <2>1, <2>2, <3>1
      <4>2. p \notin freeList
        BY <2>1 DEF NotifyInv, Clean
      <4>3. QED
        BY <4>1, <4>2 DEF NotifyInv, Blocks
    <3>2. QED
      BY <3>1
  <2>4. QED
    BY <1>1, <1>2, <2>2, <2>3
<1>6. QED
  BY <1>4, <1>5 DEF Owners

\* The other notifies keep what they wait for; those restarted wait for their callback.
LEMMA ReleasePhases ==
  ASSUME NotifyInv, NEW n \in Notifies, NEW q, pnotifyPvt[n] = q, q # None,
         NEW rs \in SUBSET Recs, Releases(n, q, rs), NEW m \in Notifies, m # n
  PROVE  Hands(m)' /\ (pnotifyPvt'[m] # None => Phase(m, pnotifyPvt[m])')
<1>1. PICK p : p = pnotifyPvt[m]
  OBVIOUS
<1>2. Elsewhere(n, q) /\ p # q /\ (p # None => p \in Pvts)
  BY <1>1, OwnBlock DEF Releases, NotifyInv, Blocks
<1>3. CASE p = None \/ p \notin Restarted(rs)
  <2>1. p # None => /\ state'[p] = state[p] /\ callback'[p] = callback[p]
                    /\ waitList'[p] = waitList[p]
    BY <1>2, <1>3 DEF Releases
  <2>2. ppn[ChanRec[m]] = m => ppn'[ChanRec[m]] = m
    BY NotifyAssumption DEF Releases, restartPpn
  <2>3. QED
    BY <1>1, <1>2, <2>1, <2>2, PhasesOfOthers
<1>4. CASE p # None /\ p \in Restarted(rs)
  <2>1. state[p] = "WaitForRestart" /\ ChanRec[m] \in rs /\ m = NextOwner(ChanRec[m])
    BY <1>1, <1>4, RestartedIs
  <2>2. /\ state'[p] = "RestartCallbackRequested" /\ callback'[p] = "queued"
        /\ waitList'[p] = waitList[p]
    BY <1>2, <1>4 DEF Releases
  <2>3. ppn'[ChanRec[m]] = m
    BY <2>1, NotifyAssumption DEF Releases, restartPpn
  <2>4. Hands(m) /\ Phase(m, p)
    BY <1>1, <1>4, OwnBlock
  <2>5. waitList[p] = {} /\ client[m] = "idle" /\ done[m] = "none" /\ busy[m]
        /\ ~cancelEvent[p] /\ ~userCallbackEvent[p] /\ ~cancelWait[p] /\ ~userCallbackWait[p]
    BY <1>1, <2>1, <2>4 DEF Phase, Hands, Progress, Requesting, NotifyInv, TypeOK
  <2>6. /\ pnotifyPvt'[m] = p /\ done'[m] = "none" /\ donePvt'[m] = donePvt[m]
        /\ client'[m] = "idle" /\ waitPvt'[m] = waitPvt[m] /\ busy'[m]
        /\ ~cancelEvent'[p] /\ ~userCallbackEvent'[p] /\ ~cancelWait'[p] /\ ~userCallbackWait'[p]
    BY <1>1, <1>2, <1>4, <2>5 DEF Elsewhere
  <2>7. Hands(m)'
    BY <2>4, <2>5, <2>6 DEF Hands
  <2>8. Phase(m, pnotifyPvt[m])'
    BY <2>2, <2>3, <2>5, <2>6 DEF Phase, Progress, Requesting
  <2>9. QED
    BY <2>7, <2>8
<1>5. QED
  BY <1>3, <1>4

LEMMA ReleaseClean ==
  ASSUME NotifyInv, NEW n \in Notifies, NEW q, pnotifyPvt[n] = q, q # None,
         NEW rs \in SUBSET Recs, Releases(n, q, rs)
  PROVE  /\ \A p \in freeList :
              /\ state'[p] = "NotActive" /\ waitList'[p] = {} /\ callback'[p] = "none"
              /\ ~cancelEvent'[p] /\ ~userCallbackEvent'[p]
         /\ \A p \in Pvts : waitList'[p] \subseteq waitList[p]
<1>1. ASSUME NEW p \in freeList
      PROVE  p \in Pvts /\ p # q /\ p \notin Restarted(rs)
  <2>1. state[p] = "NotActive" /\ p \in Pvts /\ q \notin freeList
    BY OwnBlock DEF NotifyInv, Clean, TypeOK
  <2>2. QED
    BY <2>1, RestartedIs
<1>2. QED
  BY <1>1 DEF NotifyInv, Clean, Releases, Elsewhere

LEMMA ReleaseReading ==
  ASSUME NotifyInv, NEW n \in Notifies, NEW q, pnotifyPvt[n] = q, q # None,
         NEW rs \in SUBSET Recs, Releases(n, q, rs), UNCHANGED <<pact, procVars>>,
         \A x \in rs : proc[x] = "idle"
  PROVE  Reading' /\ AwaitedIsActive'
<1>1. /\ flnk' = flnk /\ proc' = proc /\ readPpn' = readPpn /\ pact' = pact
      /\ \A x \in Recs : x \notin rs => ppn'[x] = ppn[x]
  BY DEF Releases, restartPpn, procVars
<1>2. \A p \in Pvts : waitList'[p] \subseteq waitList[p]
  BY ReleaseClean
<1>3. Reading'
  BY <1>1 DEF NotifyInv, Reading
<1>4. AwaitedIsActive'
  BY <1>1, <1>2 DEF NotifyInv, AwaitedIsActive
<1>5. QED
  BY <1>3, <1>4

\* A release by a block that stays its notify's.
LEMMA ReleaseKeeps ==
  ASSUME NotifyInv, NEW n \in Notifies, NEW q, pnotifyPvt[n] = q, q # None,
         NEW rs \in SUBSET Recs, Releases(n, q, rs), UNCHANGED <<pnotifyPvt, freeList>>,
         TypeOK', ~failed', Reading', AwaitedIsActive', Hands(n)', Phase(n, q)'
  PROVE  NotifyInv'
<1>1. Owners' /\ Waiters'
  BY ReleaseOwners, ReleaseWaiters
<1>2. Clean'
  BY ReleaseClean DEF Clean
<1>3. Blocks'
  BY DEF NotifyInv, Blocks, Releases
<1>4. Grouped'
  <2>1. \A p \in Pvts : waitList'[p] \subseteq waitList[p]
    BY ReleaseClean
  <2>2. flnk' = flnk /\ user' = user
    BY DEF Releases
  <2>3. QED
    BY <2>1, <2>2 DEF NotifyInv, Grouped, LockSet, Closed
<1>5. Phases'
  <2>1. \A m \in Notifies : m # n => Hands(m)' /\ (pnotifyPvt'[m] # None => Phase(m, pnotifyPvt[m])')
    BY ReleasePhases
  <2>2. pnotifyPvt'[n] = q
    OBVIOUS
  <2>3. QED
    BY <2>1, <2>2 DEF Phases
<1>6. QED
  BY <1>1, <1>2, <1>3, <1>4, <1>5 DEF NotifyInv

\* The record of a lock that can be taken is not being processed.
LEMMA LockedIsIdle ==
  ASSUME NEW r \in Recs, Lockable(r)
  PROVE  proc[r] = "idle"
BY DEF Lockable, LockSet

\* What notifyCallback finds.
LEMMA CallbackFinds ==
  ASSUME NotifyInv, NEW q \in Pvts, callback[q] = "taken", NEW n, n = user[q]
  PROVE  /\ n \in Notifies /\ n # None /\ ChanRec[n] \in Recs
         /\ q # None /\ pnotifyPvt[n] = q /\ q \notin freeList
         /\ Hands(n) /\ Phase(n, q) /\ state[q] \in Requesting /\ waitList[q] = {}
         /\ CallbackAsserts(q) /\ done[n] = "none" /\ client[n] \in {"idle", "waitCancel"}
         /\ ~cancelEvent[q] /\ ~userCallbackEvent[q] /\ busy[n]
         /\ state[q] = "RestartCallbackRequested" => ppn[ChanRec[n]] = n
         /\ \A r \in Recs : ppn[r] = n => /\ r = ChanRec[n]
                                          /\ state[q] = "RestartCallbackRequested"
<1>1. q \notin freeList /\ q # None
  BY NotifyAssumption DEF NotifyInv, Clean
<1>2. n \in Notifies /\ pnotifyPvt[n] = q /\ n # None /\ ChanRec[n] \in Recs
  BY <1>1, NotifyAssumption DEF NotifyInv, Blocks
<1>3. Hands(n) /\ Phase(n, q) /\ TypeOK
  BY <1>1, <1>2, OwnBlock DEF NotifyInv
<1>4. state[q] \in Requesting /\ ~cancelEvent[q] /\ waitList[q] = {}
  BY <1>3 DEF Phase, Requesting, Progress
<1>5. done[n] = "none"
  BY <1>2, <1>3, <1>4 DEF Hands, Requesting
<1>6. client[n] \in {"idle", "waitCancel"} /\ ~userCallbackEvent[q] /\ busy[n]
  BY <1>2, <1>3, <1>4, <1>5 DEF Phase, Hands, Requesting, TypeOK
<1>7. CallbackAsserts(q)
  BY <1>4 DEF CallbackAsserts, Requesting
<1>8. state[q] = "RestartCallbackRequested" => ppn[ChanRec[n]] = n
  BY <1>3 DEF Phase
<1>9. \A r \in Recs : ppn[r] = n => r = ChanRec[n] /\ state[q] = "RestartCallbackRequested"
  BY <1>2, <1>4 DEF NotifyInv, Owners
<1>10. QED
  BY <1>1, <1>2, <1>3, <1>4, <1>5, <1>6, <1>7, <1>8, <1>9

\* The records a callback may release: its own, if it was to restart.
LEMMA CallbackReleases ==
  ASSUME NotifyInv, NEW q \in Pvts, callback[q] = "taken", NEW n, n = user[q], NEW st, NEW rs,
         rs = (IF state[q] = "RestartCallbackRequested" THEN {ChanRec[n]} ELSE {}),
         Elsewhere(n, q), UNCHANGED <<flnk, user>>,
         ppn' = restartPpn(rs), restartList' = restartLists(rs),
         state' = StateAfter(n, q, st, rs), Handled(q, rs), waitList'[q] = {},
         \A p \in Pvts : p # q => waitList'[p] = waitList[p], st # "WaitForRestart"
  PROVE  Releases(n, q, rs) /\ state'[q] = st /\ callback'[q] = "none"
<1>1. /\ n \in Notifies /\ pnotifyPvt[n] = q /\ ChanRec[n] \in Recs /\ state[q] \in Requesting
      /\ state[q] = "RestartCallbackRequested" => ppn[ChanRec[n]] = n
      /\ \A r \in Recs : ppn[r] = n => r = ChanRec[n] /\ state[q] = "RestartCallbackRequested"
  BY CallbackFinds
<1>2. state'[q] = st
      /\ \A p \in Pvts : p # q =>
           state'[p] = IF p \in Restarted(rs) THEN "RestartCallbackRequested" ELSE state[p]
  BY <1>1 DEF StateAfter
<1>3. callback'[q] = "none"
      /\ \A p \in Pvts : p # q => callback'[p] = IF p \in Restarted(rs) THEN "queued" ELSE callback[p]
  BY DEF Handled, Requested
<1>4. /\ \A x \in rs : x \in Recs /\ ppn[x] = n
      /\ \A x \in Recs \ rs : ppn[x] # n
      /\ state[q] # "WaitForRestart"
  BY <1>1 DEF Requesting
<1>5. QED
  BY <1>2, <1>3, <1>4 DEF Releases

LEMMA CallbackCanceledKeeps ==
  ASSUME NotifyInv, NEW q \in Pvts, CallbackCanceled(q)
  PROVE  NotifyInv'
<1>1. PICK n : n = user[q]
  OBVIOUS
<1>2. PICK rs : rs = IF state[q] = "RestartCallbackRequested" THEN {ChanRec[n]} ELSE {}
  OBVIOUS
<1>3. /\ callback[q] = "taken" /\ Lockable(ChanRec[n]) /\ cancelWait[q]
      /\ ppn' = restartPpn(rs) /\ restartList' = restartLists(rs)
      /\ state' = StateAfter(n, q, state[q], rs) /\ Handled(q, rs)
      /\ cancelEvent' = [cancelEvent EXCEPT ![q] = TRUE]
      /\ failed' = (failed \/ ~(CallbackAsserts(q) /\ restartAsserts(rs)))
      /\ UNCHANGED <<pact, val, procVars, wasProcessed, got, waitList, done, donePvt,
                     flnk, pnotifyPvt, user, cancelWait, userCallbackWait, userCallbackEvent,
                     freeList, client, waitPvt, busy>>
  BY <1>1, <1>2 DEF CallbackCanceled, Taken, MustHold, callbackRest, clientVars, doneVars
<1>4. /\ n \in Notifies /\ n # None /\ ChanRec[n] \in Recs /\ pnotifyPvt[n] = q /\ q # None
      /\ Hands(n) /\ Phase(n, q) /\ state[q] \in Requesting /\ waitList[q] = {}
      /\ CallbackAsserts(q) /\ ~userCallbackEvent[q] /\ done[n] = "none"
      /\ state[q] = "RestartCallbackRequested" => ppn[ChanRec[n]] = n
  BY <1>1, <1>3, CallbackFinds
<1>5. TypeOK /\ ~failed /\ rs \in SUBSET Recs
  BY <1>2, <1>4 DEF NotifyInv
<1>6. Elsewhere(n, q)
  BY <1>3, <1>5 DEF Elsewhere, TypeOK
<1>7. Releases(n, q, rs) /\ state'[q] = state[q] /\ callback'[q] = "none"
  <2>1. waitList'[q] = {} /\ (\A p \in Pvts : p # q => waitList'[p] = waitList[p])
        /\ state[q] # "WaitForRestart"
    BY <1>3, <1>4 DEF Requesting
  <2>2. /\ callback[q] = "taken" /\ UNCHANGED <<flnk, user>>
        /\ ppn' = restartPpn(rs) /\ restartList' = restartLists(rs)
        /\ state' = StateAfter(n, q, state[q], rs) /\ Handled(q, rs)
    BY <1>3
  <2>3. PICK st : st = state[q]
    OBVIOUS
  <2>4. Releases(n, q, rs) /\ state'[q] = st /\ callback'[q] = "none"
    BY <1>1, <1>2, <1>6, <2>1, <2>2, <2>3, CallbackReleases, ZenonT(60)
  <2>5. QED
    BY <2>3, <2>4
<1>8. \A x \in rs : proc[x] = "idle" /\ ppn[x] # None
  BY <1>2, <1>3, <1>4, LockedIsIdle
<1>9. failed' = failed
  <2>1. restartAsserts(rs)
    BY <1>5, <1>8, ReleaseAsserts
  <2>2. QED
    BY <1>3, <1>4, <1>5, <2>1 DEF TypeOK
<1>10. TypeOK'
  <2>1. ppn' \in [Recs -> Notifies \cup {None}] /\ restartList' \in [Recs -> Seq(Notifies)]
    BY <1>3, <1>5, ReleaseTypes
  <2>2. state' \in [Pvts -> States]
    BY <1>3, <1>5 DEF StateAfter, TypeOK, States
  <2>3. callback' \in [Pvts -> {"none", "queued", "taken"}]
    BY <1>3, <1>5 DEF Handled, Requested, TypeOK
  <2>4. QED
    BY <1>3, <1>5, <1>9, <2>1, <2>2, <2>3 DEF TypeOK, procVars
<1>11. Reading' /\ AwaitedIsActive'
  BY <1>3, <1>4, <1>5, <1>7, <1>8, ReleaseReading
<1>12. Hands(n)'
  BY <1>3, <1>4, <1>7 DEF Hands
<1>13. Phase(n, q)'
  <2>1. cancelEvent'[q] /\ client[n] = "waitCancel"
    BY <1>3, <1>4, <1>5 DEF Phase, TypeOK
  <2>2. QED
    BY <1>3, <1>4, <1>7, <2>1 DEF Phase, Requesting, Progress
<1>14. QED
  BY <1>3, <1>4, <1>5, <1>7, <1>9, <1>10, <1>11, <1>12, <1>13, ReleaseKeeps

LEMMA ReleaseNone ==
  ASSUME NotifyInv
  PROVE  restartPpn({}) = ppn /\ restartLists({}) = restartList /\ Restarted({}) = {}
<1>1. ppn \in [Recs -> Notifies \cup {None}] /\ restartList \in [Recs -> Seq(Notifies)]
  BY DEF NotifyInv, TypeOK
<1>2. QED
  BY <1>1 DEF restartPpn, restartLists, Restarted

\* callDone begins: the block's callback is over and doneCallback is next.
LEMMA CallDoneKeeps ==
  ASSUME NotifyInv, NEW q \in Pvts, callback[q] = "taken", NEW n, n = user[q], ~cancelWait[q],
         NEW rs, rs = (IF state[q] = "RestartCallbackRequested" THEN {ChanRec[n]} ELSE {}),
         Lockable(ChanRec[n]), callDone(n, q), val' \in [Recs -> Notifies \cup {None}],
         wasProcessed' \in [Notifies -> BOOLEAN],
         ppn' = restartPpn(rs), restartList' = restartLists(rs),
         state' = StateAfter(n, q, "UserCallbackActive", rs), Handled(q, rs),
         waitList' = [waitList EXCEPT ![q] = {}], failed' = failed,
         UNCHANGED <<pact, procVars, cancelEvent, callbackRest>>
  PROVE  NotifyInv'
<1>1. /\ n \in Notifies /\ n # None /\ ChanRec[n] \in Recs /\ pnotifyPvt[n] = q /\ q # None
      /\ Hands(n) /\ Phase(n, q) /\ state[q] \in Requesting /\ waitList[q] = {}
      /\ done[n] = "none" /\ busy[n] /\ client[n] \in {"idle", "waitCancel"}
      /\ ~cancelEvent[q] /\ ~userCallbackEvent[q]
  BY CallbackFinds
<1>2. TypeOK /\ ~failed /\ rs \in SUBSET Recs
  BY <1>1 DEF NotifyInv
<1>3. /\ got' \in [Notifies -> Notifies \cup {None}]
      /\ done' = [done EXCEPT ![n] = "call"] /\ donePvt' = [donePvt EXCEPT ![n] = q]
  BY <1>1, <1>2 DEF callDone, TypeOK
<1>4. UNCHANGED <<flnk, pnotifyPvt, user, cancelWait, userCallbackWait, userCallbackEvent,
                  freeList, client, waitPvt, busy>>
  BY DEF callbackRest, clientVars
<1>5. Elsewhere(n, q)
  BY <1>2, <1>3, <1>4 DEF Elsewhere, TypeOK
<1>6. waitList' = waitList
  BY <1>1, <1>2 DEF TypeOK
<1>7. Releases(n, q, rs) /\ state'[q] = "UserCallbackActive" /\ callback'[q] = "none"
  <2>1. /\ UNCHANGED <<flnk, user>> /\ waitList'[q] = {}
        /\ \A p \in Pvts : p # q => waitList'[p] = waitList[p]
    BY <1>1, <1>4, <1>6
  <2>2. PICK st : st = "UserCallbackActive" /\ st # "WaitForRestart"
    OBVIOUS
  <2>3. Releases(n, q, rs) /\ state'[q] = st /\ callback'[q] = "none"
    BY <1>5, <2>1, <2>2, CallbackReleases, ZenonT(60)
  <2>4. QED
    BY <2>2, <2>3
<1>8. TypeOK'
  <2>1. ppn' \in [Recs -> Notifies \cup {None}] /\ restartList' \in [Recs -> Seq(Notifies)]
    BY <1>2, ReleaseTypes
  <2>2. state' \in [Pvts -> States]
    BY <1>2 DEF StateAfter, TypeOK, States
  <2>3. callback' \in [Pvts -> {"none", "queued", "taken"}]
    BY <1>2 DEF Handled, Requested, TypeOK
  <2>4. QED
    BY <1>2, <1>3, <1>4, <1>6, <2>1, <2>2, <2>3 DEF TypeOK, procVars
<1>9. \A x \in rs : proc[x] = "idle"
  BY <1>1, LockedIsIdle
<1>10. Reading' /\ AwaitedIsActive'
  BY <1>1, <1>2, <1>7, <1>9, ReleaseReading
<1>11. done'[n] = "call" /\ donePvt'[n] = q
  BY <1>1, <1>2, <1>3 DEF TypeOK
<1>12. Hands(n)'
  BY <1>1, <1>4, <1>7, <1>11 DEF Hands
<1>13. Phase(n, q)'
  BY <1>1, <1>4, <1>6, <1>7, <1>11 DEF Phase, Requesting, Progress
<1>14. QED
  BY <1>1, <1>2, <1>4, <1>7, <1>8, <1>10, <1>12, <1>13, ReleaseKeeps

LEMMA CallbackDoneKeeps ==
  ASSUME NotifyInv, NEW q \in Pvts, CallbackDone(q)
  PROVE  NotifyInv'
<1>1. PICK n : n = user[q]
  OBVIOUS
<1>2. /\ callback[q] = "taken" /\ Lockable(ChanRec[n]) /\ ~cancelWait[q]
      /\ state[q] # "RestartCallbackRequested"
      /\ state' = [state EXCEPT ![q] = "UserCallbackActive"]
      /\ Handled(q, {}) /\ val' = val /\ callDone(n, q)
      /\ failed' = (failed \/ ~(CallbackAsserts(q) /\ ppn[ChanRec[n]] # n))
      /\ UNCHANGED <<pact, ppn, restartList, procVars, wasProcessed, waitList, cancelEvent,
                     callbackRest>>
  BY <1>1 DEF CallbackDone, Taken, MustHold
<1>3. /\ CallbackAsserts(q) /\ ChanRec[n] \in Recs /\ waitList[q] = {} /\ pnotifyPvt[n] = q
      /\ \A r \in Recs : ppn[r] = n => state[q] = "RestartCallbackRequested"
  BY <1>1, <1>2, CallbackFinds
<1>4. TypeOK
  BY DEF NotifyInv
<1>5. failed' = failed
  BY <1>2, <1>3, <1>4 DEF NotifyInv, TypeOK
<1>6. ppn' = restartPpn({}) /\ restartList' = restartLists({}) /\ Restarted({}) = {}
  BY <1>2, ReleaseNone
<1>7. state' = StateAfter(n, q, "UserCallbackActive", {})
  BY <1>2, <1>3, <1>4, <1>6 DEF StateAfter, TypeOK
<1>8. waitList' = [waitList EXCEPT ![q] = {}]
  BY <1>2, <1>3, <1>4 DEF TypeOK
<1>9. val' \in [Recs -> Notifies \cup {None}] /\ wasProcessed' \in [Notifies -> BOOLEAN]
  BY <1>2, <1>4 DEF TypeOK
<1>10. QED
  BY <1>1, <1>2, <1>5, <1>6, <1>7, <1>8, <1>9, CallDoneKeeps

\* putCallback
LEMMA PutTypes ==
  ASSUME NotifyInv, NEW n \in Notifies, NEW didPut \in BOOLEAN, Put(n, didPut)
  PROVE  val' \in [Recs -> Notifies \cup {None}]
BY DEF NotifyInv, TypeOK, Put

LEMMA PutResultsType ==
  ASSUME NEW n PROVE PutResults(n) \subseteq BOOLEAN
BY DEF PutResults

LEMMA RestartPutOnlyKeeps ==
  ASSUME NotifyInv, NEW q \in Pvts, NEW n, n = user[q], Taken(q), ~cancelWait[q],
         state[q] = "RestartCallbackRequested", PutOnly(n, q, TRUE, CallbackAsserts(q)),
         wasProcessed' = [wasProcessed EXCEPT ![n] = FALSE],
         UNCHANGED <<cancelEvent, callbackRest>>
  PROVE  NotifyInv'
<1>1. callback[q] = "taken" /\ Lockable(ChanRec[n])
  BY DEF Taken
<1>2. /\ n \in Notifies /\ n # None /\ CallbackAsserts(q) /\ ChanRec[n] \in Recs
      /\ ppn[ChanRec[n]] = n /\ pnotifyPvt[n] = q
  BY <1>1, CallbackFinds
<1>3. PICK rs : rs = {ChanRec[n]}
  OBVIOUS
<1>4. /\ ppn' = restartPpn(rs) /\ restartList' = restartLists(rs)
      /\ state' = StateAfter(n, q, "UserCallbackActive", rs) /\ Handled(q, rs)
      /\ waitList' = [waitList EXCEPT ![q] = {}] /\ callDone(n, q)
      /\ failed' = (failed \/ ~(/\ CallbackAsserts(q) /\ restartAsserts(rs)
                                /\ ppn[ChanRec[n]] \in {None, n} /\ ppn'[ChanRec[n]] # n))
      /\ UNCHANGED <<pact, procVars>>
      /\ \E didPut \in PutResults(n) : Put(n, didPut)
  BY <1>3 DEF PutOnly, MustHold
<1>5. val' \in [Recs -> Notifies \cup {None}]
  BY <1>2, <1>4, PutTypes, PutResultsType
<1>6. wasProcessed' \in [Notifies -> BOOLEAN]
  BY DEF NotifyInv, TypeOK
<1>7. restartAsserts(rs)
  BY <1>2, <1>3, ReleaseAsserts
<1>8. ppn'[ChanRec[n]] # n
  <2>1. ppn'[ChanRec[n]] = NextOwner(ChanRec[n])
    BY <1>2, <1>3, <1>4 DEF restartPpn
  <2>2. CASE restartList[ChanRec[n]] = <<>>
    BY <1>2, <2>1, <2>2 DEF NextOwner
  <2>3. CASE restartList[ChanRec[n]] # <<>>
    BY <1>2, <2>1, <2>3, FirstWaiter
  <2>4. QED
    BY <2>2, <2>3
<1>9. failed' = failed
  BY <1>2, <1>4, <1>7, <1>8 DEF NotifyInv, TypeOK
<1>10. rs = IF state[q] = "RestartCallbackRequested" THEN {ChanRec[n]} ELSE {}
  BY <1>3
<1>11. QED
  BY <1>1, <1>4, <1>5, <1>6, <1>9, <1>10, CallDoneKeeps

-----------------------------------------------------------------------------
(* processNotifyCommon: a request, or its restart, takes block q *)

\* n has q or takes it from the free list, and no longer needs the block it has, if any.
Ready(n, q) ==
  /\ q \in freeList \cup {pnotifyPvt[n]}
  /\ pnotifyPvt[n] # None =>
       waitList[pnotifyPvt[n]] = {} /\ state[pnotifyPvt[n]] # "WaitForRestart"
  /\ pnotifyPvt[n] \notin {None, q} => callback[pnotifyPvt[n]] = "none"

\* A request owns the records it then waits for: none, or its own.
BlockTaken(n, q) ==
  /\ Elsewhere(n, q) /\ flnk' = flnk /\ pnotifyPvt'[n] = q
  /\ user'[q] = n /\ \A p \in Pvts \ {q} : user'[p] = user[p]
  /\ freeList' = (freeList \cup ({pnotifyPvt[n]} \ {None})) \ {q}
  /\ \A p \in Pvts \ {q} :
       /\ state'[p] = IF p = pnotifyPvt[n] THEN "NotActive" ELSE state[p]
       /\ callback'[p] = callback[p] /\ waitList'[p] = waitList[p]
       /\ p = pnotifyPvt[n] => ~cancelEvent'[p] /\ ~userCallbackEvent'[p]
  /\ waitList'[q] \subseteq {ChanRec[n]}
  /\ \A x \in Recs : /\ ppn'[x] = IF x \in waitList'[q] THEN n ELSE ppn[x]
                     /\ x \in waitList'[q] => ppn[x] \in {None, n}
                     /\ ppn[x] = n => x \in waitList'[q]

\* The block was nobody else's.
LEMMA TakenIsFree ==
  ASSUME NotifyInv, NEW n \in Notifies, NEW q \in Pvts, Ready(n, q)
  PROVE  /\ \A m \in Notifies : m # n /\ pnotifyPvt[m] # None =>
              pnotifyPvt[m] \in Pvts /\ pnotifyPvt[m] \notin {q, pnotifyPvt[n]}
         /\ pnotifyPvt[n] # None => pnotifyPvt[n] \in Pvts /\ pnotifyPvt[n] \notin freeList
<1>1. ASSUME NEW m \in Notifies, m # n, pnotifyPvt[m] # None
      PROVE  pnotifyPvt[m] \in Pvts /\ pnotifyPvt[m] \notin {q, pnotifyPvt[n]}
  <2>1. pnotifyPvt[m] \in Pvts /\ pnotifyPvt[m] \notin freeList /\ pnotifyPvt[n] # pnotifyPvt[m]
    BY <1>1, OwnBlock
  <2>2. QED
    BY <2>1 DEF Ready
<1>2. pnotifyPvt[n] # None => pnotifyPvt[n] \in Pvts /\ pnotifyPvt[n] \notin freeList
  BY OwnBlock
<1>3. QED
  BY <1>1, <1>2

LEMMA TakenBlocks ==
  ASSUME NotifyInv, NEW n \in Notifies, NEW q \in Pvts, Ready(n, q), BlockTaken(n, q)
  PROVE  Blocks' /\ Clean'
<1>1. /\ \A m \in Notifies : m # n /\ pnotifyPvt[m] # None =>
           pnotifyPvt[m] \in Pvts /\ pnotifyPvt[m] \notin {q, pnotifyPvt[n]}
      /\ pnotifyPvt[n] # None => pnotifyPvt[n] \in Pvts /\ pnotifyPvt[n] \notin freeList
      /\ freeList \subseteq Pvts /\ None \notin Pvts
  BY TakenIsFree, NotifyAssumption DEF NotifyInv, TypeOK
<1>2. /\ \A m \in Notifies : m # n => pnotifyPvt'[m] = pnotifyPvt[m]
      /\ pnotifyPvt'[n] = q /\ user'[q] = n
      /\ \A p \in Pvts \ {q} : user'[p] = user[p]
      /\ freeList' = (freeList \cup ({pnotifyPvt[n]} \ {None})) \ {q}
  BY DEF BlockTaken, Elsewhere
<1>3. ASSUME NEW m \in Notifies, pnotifyPvt'[m] # None
      PROVE  pnotifyPvt'[m] \in Pvts \ freeList' /\ user'[pnotifyPvt'[m]] = m
  <2>1. CASE m = n
    BY <1>2, <2>1
  <2>2. CASE m # n
    <3>1. pnotifyPvt[m] \notin freeList /\ user[pnotifyPvt[m]] = m
      BY <1>2, <1>3, <2>2 DEF NotifyInv, Blocks
    <3>2. QED
      BY <1>1, <1>2, <1>3, <2>2, <3>1
  <2>3. QED
    BY <2>1, <2>2
<1>4. ASSUME NEW p \in Pvts, p \notin freeList'
      PROVE  user'[p] \in Notifies /\ pnotifyPvt'[user'[p]] = p
  <2>1. CASE p = q
    BY <1>2, <2>1
  <2>2. CASE p # q
    <3>1. p \notin freeList /\ p # pnotifyPvt[n]
      BY <1>1, <1>2, <1>4, <2>2
    <3>2. user[p] \in Notifies /\ pnotifyPvt[user[p]] = p /\ user'[p] = user[p]
      BY <1>2, <2>2, <3>1 DEF NotifyInv, Blocks
    <3>3. QED
      BY <1>2, <3>1, <3>2
  <2>3. QED
    BY <2>1, <2>2
<1>5. ASSUME NEW p \in freeList'
      PROVE  /\ state'[p] = "NotActive" /\ waitList'[p] = {} /\ callback'[p] = "none"
             /\ ~cancelEvent'[p] /\ ~userCallbackEvent'[p]
  <2>1. p # q /\ p \in Pvts /\ (p \in freeList \/ (p = pnotifyPvt[n] /\ p # None))
    BY <1>1, <1>2, <1>5
  <2>2. CASE p = pnotifyPvt[n]
    <3>1. waitList[p] = {} /\ callback[p] = "none"
      BY <2>1, <2>2, <1>1 DEF Ready
    <3>2. QED
      BY <2>1, <2>2, <3>1 DEF BlockTaken
  <2>3. CASE p # pnotifyPvt[n]
    <3>1. p \in freeList /\ p \in Pvts \ {q, pnotifyPvt[n]}
      BY <2>1, <2>3
    <3>2. /\ state[p] = "NotActive" /\ waitList[p] = {} /\ callback[p] = "none"
          /\ ~cancelEvent[p] /\ ~userCallbackEvent[p]
      BY <3>1 DEF NotifyInv, Clean
    <3>3. QED
      BY <3>1, <3>2 DEF BlockTaken, Elsewhere
  <2>4. QED
    BY <2>2, <2>3
<1>6. QED
  BY <1>3, <1>4, <1>5 DEF Blocks, Clean

LEMMA TakenOwners ==
  ASSUME NotifyInv, NEW n \in Notifies, NEW q \in Pvts, Ready(n, q), BlockTaken(n, q)
  PROVE  Owners' /\ Grouped'
<1>1. /\ \A m \in Notifies : m # n /\ pnotifyPvt[m] # None =>
           pnotifyPvt[m] \in Pvts /\ pnotifyPvt[m] \notin {q, pnotifyPvt[n]}
      /\ n # None /\ q # None
  BY TakenIsFree, NotifyAssumption
<1>2. ASSUME NEW x \in Recs, ppn'[x] # None
      PROVE  /\ pnotifyPvt'[ppn'[x]] # None
             /\ \/ x \in waitList'[pnotifyPvt'[ppn'[x]]]
                \/ /\ x = ChanRec[ppn'[x]] /\ callback'[pnotifyPvt'[ppn'[x]]] # "none"
                   /\ state'[pnotifyPvt'[ppn'[x]]] = "RestartCallbackRequested"
  <2>1. CASE x \in waitList'[q]
    BY <1>1, <2>1 DEF BlockTaken
  <2>2. CASE x \notin waitList'[q]
    <3>1. PICK m : m = ppn[x]
      OBVIOUS
    <3>2. ppn'[x] = m /\ m # n /\ m \in Notifies
      BY <1>2, <2>2, <3>1 DEF BlockTaken, NotifyInv, TypeOK
    <3>3. PICK p : p = pnotifyPvt[m]
      OBVIOUS
    <3>4. /\ p # None
          /\ \/ x \in waitList[p]
             \/ x = ChanRec[m] /\ callback[p] # "none" /\ state[p] = "RestartCallbackRequested"
      BY <1>2, <3>1, <3>2, <3>3 DEF NotifyInv, Owners
    <3>5. p \in Pvts \ {q} /\ p # pnotifyPvt[n] /\ pnotifyPvt'[m] = p
      BY <1>1, <3>2, <3>3, <3>4 DEF BlockTaken, Elsewhere
    <3>6. state'[p] = state[p] /\ callback'[p] = callback[p] /\ waitList'[p] = waitList[p]
      BY <3>5 DEF BlockTaken
    <3>7. QED
      BY <3>2, <3>4, <3>5, <3>6
  <2>3. QED
    BY <2>1, <2>2
<1>3. ASSUME NEW p \in Pvts, NEW x \in waitList'[p]
      PROVE  ppn'[x] = user'[p]
  <2>1. CASE p = q
    <3>1. x \in Recs
      BY <1>3, <2>1, NotifyAssumption DEF BlockTaken
    <3>2. QED
      BY <1>3, <2>1, <3>1 DEF BlockTaken
  <2>2. CASE p # q
    <3>1. x \in waitList[p] /\ user'[p] = user[p]
      BY <1>3, <2>2 DEF BlockTaken
    <3>2. x \in Recs /\ ppn[x] = user[p] /\ p \notin freeList
      BY <3>1 DEF NotifyInv, Owners, Clean, TypeOK
    <3>3. user[p] \in Notifies /\ pnotifyPvt[user[p]] = p
      BY <3>2 DEF NotifyInv, Blocks
    <3>4. user[p] # n
      BY <3>1, <3>3, NotifyAssumption DEF Ready
    <3>5. user[p] # None
      BY <3>3, NotifyAssumption
    <3>6. x \notin waitList'[q]
      BY <3>2, <3>4, <3>5 DEF BlockTaken
    <3>7. QED
      BY <3>1, <3>2, <3>6 DEF BlockTaken
  <2>3. QED
    BY <2>1, <2>2
<1>4. Owners'
  BY <1>2, <1>3 DEF Owners
<1>5. ASSUME NEW p \in Pvts, p \notin freeList', "relink" \notin Ops
      PROVE  waitList'[p] \subseteq LockSet(ChanRec[user'[p]])
  <2>1. CASE p = q
    <3>1. ChanRec[n] \in LockSet(ChanRec[n])
      BY NotifyAssumption DEF LockSet
    <3>2. QED
      BY <2>1, <3>1 DEF BlockTaken
  <2>2. CASE p # q
    <3>1. p \notin freeList /\ user'[p] = user[p] /\ waitList'[p] = waitList[p]
      BY <1>5, <2>2 DEF BlockTaken
    <3>2. QED
      BY <1>5, <3>1 DEF NotifyInv, Grouped
  <2>3. QED
    BY <2>1, <2>2
<1>6. flnk' = flnk
  BY DEF BlockTaken
<1>7. Grouped'
  BY <1>5, <1>6 DEF Grouped, LockSet, Closed
<1>8. QED
  BY <1>4, <1>7

LEMMA TakenPhases ==
  ASSUME NotifyInv, NEW n \in Notifies, NEW q \in Pvts, Ready(n, q), BlockTaken(n, q),
         Hands(n)', Phase(n, q)'
  PROVE  Phases'
<1>1. /\ \A m \in Notifies : m # n /\ pnotifyPvt[m] # None =>
           pnotifyPvt[m] \in Pvts /\ pnotifyPvt[m] \notin {q, pnotifyPvt[n]}
      /\ q # None
  BY TakenIsFree, NotifyAssumption
<1>2. ASSUME NEW m \in Notifies, m # n
      PROVE  Hands(m)' /\ (pnotifyPvt'[m] # None => Phase(m, pnotifyPvt[m])')
  <2>1. PICK p : p = pnotifyPvt[m]
    OBVIOUS
  <2>2. p # None => /\ p \in Pvts \ {q} /\ p # pnotifyPvt[n]
    BY <1>1, <1>2, <2>1
  <2>3. p # None => /\ state'[p] = state[p] /\ callback'[p] = callback[p]
                    /\ waitList'[p] = waitList[p]
    BY <2>2 DEF BlockTaken
  <2>4. ppn[ChanRec[m]] = m => ppn'[ChanRec[m]] = m
    <3>1. m # None /\ ChanRec[m] \in Recs
      BY NotifyAssumption
    <3>2. QED
      BY <1>2, <3>1 DEF BlockTaken
  <2>5. p # q /\ Elsewhere(n, q)
    BY <1>1, <2>2 DEF BlockTaken
  <2>6. QED
    BY <1>2, <2>1, <2>3, <2>4, <2>5, PhasesOfOthers
<1>3. pnotifyPvt'[n] = q
  BY DEF BlockTaken
<1>4. QED
  BY <1>2, <1>3 DEF Phases

\* The lists stay, unless n goes to the end of its record's.
LEMMA TakenWaiters ==
  ASSUME NotifyInv, NEW n \in Notifies, NEW q \in Pvts, Ready(n, q), BlockTaken(n, q),
         \/ restartList' = restartList /\ state'[q] # "WaitForRestart"
         \/ /\ restartList' = [restartList EXCEPT ![ChanRec[n]] = Append(restartList[ChanRec[n]], n)]
            /\ state'[q] = "WaitForRestart" /\ ppn[ChanRec[n]] # None
  PROVE  Waiters'
<1>1. /\ \A m \in Notifies : m # n /\ pnotifyPvt[m] # None =>
           pnotifyPvt[m] \in Pvts /\ pnotifyPvt[m] \notin {q, pnotifyPvt[n]}
      /\ q # None /\ n # None /\ ChanRec[n] \in Recs
  BY TakenIsFree, NotifyAssumption
<1>2. ASSUME NEW m \in Notifies, m # n
      PROVE  /\ pnotifyPvt'[m] = pnotifyPvt[m]
             /\ pnotifyPvt[m] # None => state'[pnotifyPvt[m]] = state[pnotifyPvt[m]]
  <2>1. pnotifyPvt[m] # None => pnotifyPvt[m] \in Pvts \ {q} /\ pnotifyPvt[m] # pnotifyPvt[n]
    BY <1>1, <1>2
  <2>2. QED
    BY <1>2, <2>1 DEF BlockTaken, Elsewhere
<1>3. ASSUME NEW r \in Recs
      PROVE  /\ IsInjective(restartList'[r])
             /\ restartList'[r] # <<>> => ppn'[r] # None
             /\ \A m \in Notifies : Contains(restartList'[r], m) <=>
                  /\ r = ChanRec[m] /\ pnotifyPvt'[m] # None
                  /\ state'[pnotifyPvt'[m]] = "WaitForRestart"
  <2>1. /\ IsInjective(restartList[r]) /\ restartList[r] \in Seq(Notifies)
        /\ restartList[r] # <<>> => ppn[r] # None
        /\ \A m \in Notifies : Contains(restartList[r], m) <=>
             r = ChanRec[m] /\ pnotifyPvt[m] # None /\ state[pnotifyPvt[m]] = "WaitForRestart"
        /\ restartList \in [Recs -> Seq(Notifies)]
    BY DEF NotifyInv, Waiters, TypeOK
  <2>2. ~Contains(restartList[r], n)
    BY <2>1 DEF Ready
  <2>3. pnotifyPvt'[n] = q
    BY DEF BlockTaken
  <2>4. ppn[r] # None => ppn'[r] # None
    BY <1>1 DEF BlockTaken
  <2>5. CASE restartList' = restartList /\ state'[q] # "WaitForRestart"
    BY <1>2, <2>1, <2>2, <2>3, <2>4, <2>5
  <2>6. CASE restartList' # restartList \/ state'[q] = "WaitForRestart"
    <3>1. /\ restartList'[ChanRec[n]] = Append(restartList[ChanRec[n]], n)
          /\ \A x \in Recs : x # ChanRec[n] => restartList'[x] = restartList[x]
          /\ state'[q] = "WaitForRestart" /\ ppn[ChanRec[n]] # None
      BY <1>1, <2>1, <2>6
    <3>2. CASE r # ChanRec[n]
      BY <1>2, <2>1, <2>2, <2>4, <3>1, <3>2
    <3>3. CASE r = ChanRec[n]
      <4>1. /\ \A e : Contains(Append(restartList[r], n), e) <=> Contains(restartList[r], e) \/ e = n
            /\ IsInjective(Append(restartList[r], n))
        BY <2>1, <2>2, ListAdd
      <4>2. QED
        <5>1. IsInjective(restartList'[r]) /\ ppn'[r] # None
          BY <2>4, <3>1, <3>3, <4>1
        <5>2. \A m \in Notifies : Contains(restartList'[r], m) <=> Contains(restartList[r], m) \/ m = n
          BY <3>1, <3>3, <4>1
        <5>3. /\ pnotifyPvt'[n] # None /\ state'[pnotifyPvt'[n]] = "WaitForRestart"
          BY <1>1, <2>3, <3>1
        <5>4. QED
          BY <1>2, <2>1, <3>3, <5>1, <5>2, <5>3
    <3>4. QED
      BY <3>2, <3>3
  <2>7. QED
    BY <2>5, <2>6
<1>4. QED
  BY <1>3 DEF Waiters

LEMMA TakenKeeps ==
  ASSUME NotifyInv, NEW n \in Notifies, NEW q \in Pvts, Ready(n, q), BlockTaken(n, q),
         \/ restartList' = restartList /\ state'[q] # "WaitForRestart"
         \/ /\ restartList' = [restartList EXCEPT ![ChanRec[n]] = Append(restartList[ChanRec[n]], n)]
            /\ state'[q] = "WaitForRestart" /\ ppn[ChanRec[n]] # None,
         TypeOK', failed' = failed, Hands(n)', Phase(n, q)',
         UNCHANGED <<pact, readPpn>>,
         \/ proc' = proc /\ \A x \in waitList'[q] : pact[x]
         \/ proc' = [proc EXCEPT ![ChanRec[n]] = "enter"] /\ proc[ChanRec[n]] = "idle"
  PROVE  NotifyInv'
<1>1. Blocks' /\ Clean' /\ Owners' /\ Grouped' /\ Phases' /\ Waiters'
  BY TakenBlocks, TakenOwners, TakenPhases, TakenWaiters
<1>2. TypeOK /\ Reading /\ AwaitedIsActive /\ ~failed
  BY DEF NotifyInv
<1>3. /\ \A x \in Recs : ppn[x] # None => ppn'[x] = ppn[x]
      /\ flnk' = flnk
      /\ \A p \in Pvts : p # q => waitList'[p] = waitList[p]
      /\ waitList'[q] \subseteq {ChanRec[n]}
  BY NotifyAssumption DEF BlockTaken
<1>4. /\ ChanRec[n] \in Recs
      /\ \A x \in Recs : proc'[x] = proc[x] \/ (x = ChanRec[n] /\ proc[x] = "idle" /\ proc'[x] = "enter")
  BY <1>2, NotifyAssumption DEF TypeOK
<1>5. Reading'
  BY <1>2, <1>3, <1>4 DEF Reading, TypeOK
<1>6. ASSUME NEW p \in Pvts, NEW x \in waitList'[p]
      PROVE  \/ pact'[x] \/ proc'[x] # "idle"
             \/ \E s \in Recs : flnk'[s] = x /\ proc'[s] = "call"
  <2>1. CASE p = q
    <3>1. x = ChanRec[n]
      BY <1>3, <1>6, <2>1
    <3>2. pact[x] \/ proc'[x] = "enter"
      BY <1>2, <1>4, <1>6, <2>1, <3>1 DEF TypeOK
    <3>3. QED
      BY <3>2
  <2>2. CASE p # q
    <3>1. x \in waitList[p] /\ x \in Recs
      BY <1>2, <1>3, <1>6, <2>2 DEF TypeOK
    <3>2. QED
      BY <1>2, <1>3, <1>4, <3>1 DEF AwaitedIsActive
  <2>3. QED
    BY <2>1, <2>2
<1>7. QED
  BY <1>1, <1>2, <1>5, <1>6 DEF NotifyInv, AwaitedIsActive

LEMMA TakenNotAwaited ==
  ASSUME NotifyInv, NEW n \in Notifies, NEW q \in Pvts, Ready(n, q), NEW r \in Recs,
         ppn[r] \in {None, n}
  PROVE  NotAwaited(r)
<1>1. ASSUME NEW p \in Pvts, r \in waitList[p] PROVE FALSE
  <2>1. p \notin freeList /\ ppn[r] = user[p]
    BY <1>1 DEF NotifyInv, Clean, Owners
  <2>2. user[p] \in Notifies /\ pnotifyPvt[user[p]] = p
    BY <2>1 DEF NotifyInv, Blocks
  <2>3. user[p] = n /\ p # None
    BY <2>1, <2>2, NotifyAssumption
  <2>4. QED
    BY <1>1, <2>2, <2>3 DEF Ready
<1>2. QED
  BY <1>1 DEF NotAwaited

\* the blocks after processNotifyCommon, when no record is released
LEMMA CommonBlocks ==
  ASSUME NotifyInv, NEW n \in Notifies, NEW q \in Pvts, NEW st \in States, NEW rs, rs = {},
         state' = StateAfter(n, q, st, rs), Handled(q, rs)
  PROVE  /\ state'[q] = st /\ callback'[q] = "none"
         /\ \A p \in Pvts \ {q} :
              /\ state'[p] = IF p = pnotifyPvt[n] THEN "NotActive" ELSE state[p]
              /\ callback'[p] = callback[p]
         /\ state' \in [Pvts -> States] /\ callback' \in [Pvts -> {"none", "queued", "taken"}]
<1>1. TypeOK /\ Restarted(rs) = {}
  BY ReleaseNone DEF NotifyInv
<1>2. /\ state'[q] = st /\ state' \in [Pvts -> States]
      /\ \A p \in Pvts \ {q} : state'[p] = IF p = pnotifyPvt[n] THEN "NotActive" ELSE state[p]
  BY <1>1 DEF StateAfter, TypeOK, States
<1>3. /\ callback'[q] = "none" /\ callback' \in [Pvts -> {"none", "queued", "taken"}]
      /\ \A p \in Pvts \ {q} : callback'[p] = callback[p]
  BY <1>1 DEF Handled, Requested, TypeOK
<1>4. QED
  BY <1>2, <1>3

\* The notify takes its record and waits for it.
Claimed(n, q) ==
  /\ \E st \in Progress : state' = StateAfter(n, q, st, {})
  /\ Handled(q, {}) /\ waitList' = [waitList EXCEPT ![q] = {ChanRec[n]}]
  /\ ppn' = [ppn EXCEPT ![ChanRec[n]] = n]
  /\ UNCHANGED <<pact, restartList, flnk, readPpn, got, doneVars>>
  /\ \/ proc' = proc /\ val' = val /\ pact[ChanRec[n]]
     \/ /\ proc' = [proc EXCEPT ![ChanRec[n]] = "enter"]
        /\ \E didPut \in PutResults(n) : Put(n, didPut)

LEMMA ClaimedTypes ==
  ASSUME NotifyInv, NEW n \in Notifies, NEW q \in Pvts, Claimed(n, q)
  PROVE  /\ ppn' \in [Recs -> Notifies \cup {None}] /\ val' \in [Recs -> Notifies \cup {None}]
         /\ proc' \in [Recs -> {"idle", "enter", "target", "add", "call", "child", "test", "complete"}]
         /\ \A x \in Recs : ppn'[x] = IF x = ChanRec[n] THEN n ELSE ppn[x]
<1>1. /\ ppn \in [Recs -> Notifies \cup {None}] /\ val \in [Recs -> Notifies \cup {None}]
      /\ proc \in [Recs -> {"idle", "enter", "target", "add", "call", "child", "test", "complete"}]
  BY DEF NotifyInv, TypeOK
<1>2. val' \in [Recs -> Notifies \cup {None}]
  BY <1>1, PutTypes, PutResultsType DEF Claimed
<1>3. QED
  BY <1>1, <1>2 DEF Claimed

\* The restarted notify claims the record it was given.
LEMMA RestartClaimKeeps ==
  ASSUME NotifyInv, NEW q \in Pvts, NEW n, n = user[q], Taken(q), ~cancelWait[q],
         state[q] = "RestartCallbackRequested", Claimed(n, q), failed' = failed,
         wasProcessed' \in [Notifies -> BOOLEAN], UNCHANGED <<cancelEvent, callbackRest>>
  PROVE  NotifyInv'
<1>1. callback[q] = "taken" /\ Lockable(ChanRec[n]) /\ TypeOK
  BY DEF Taken, NotifyInv
<1>2. /\ n \in Notifies /\ n # None /\ ChanRec[n] \in Recs
      /\ q # None /\ pnotifyPvt[n] = q /\ q \notin freeList
      /\ Hands(n) /\ Phase(n, q) /\ waitList[q] = {}
      /\ done[n] = "none" /\ client[n] \in {"idle", "waitCancel"}
      /\ ~cancelEvent[q] /\ ~userCallbackEvent[q] /\ busy[n]
      /\ ppn[ChanRec[n]] = n
      /\ \A r \in Recs : ppn[r] = n => r = ChanRec[n]
  BY <1>1, CallbackFinds
<1>3. PICK st \in Progress : state' = StateAfter(n, q, st, {})
  BY DEF Claimed
<1>4. UNCHANGED <<pact, restartList, flnk, readPpn, got, done, donePvt,
                  pnotifyPvt, user, cancelWait, userCallbackWait, cancelEvent, userCallbackEvent,
                  freeList, client, waitPvt, busy>>
  BY DEF Claimed, callbackRest, clientVars, doneVars
<1>5. Ready(n, q)
  BY <1>2 DEF Ready
<1>6. /\ state'[q] = st /\ callback'[q] = "none" /\ waitList'[q] = {ChanRec[n]}
      /\ \A p \in Pvts \ {q} :
           /\ state'[p] = IF p = pnotifyPvt[n] THEN "NotActive" ELSE state[p]
           /\ callback'[p] = callback[p] /\ waitList'[p] = waitList[p]
      /\ state' \in [Pvts -> States] /\ callback' \in [Pvts -> {"none", "queued", "taken"}]
      /\ waitList' \in [Pvts -> SUBSET Recs]
  <2>1. PICK rs : rs = {}
    OBVIOUS
  <2>2. state' = StateAfter(n, q, st, rs) /\ Handled(q, rs) /\ st \in States
    BY <1>3, <2>1 DEF Claimed, Progress, States
  <2>3. waitList' = [waitList EXCEPT ![q] = {ChanRec[n]}] /\ waitList \in [Pvts -> SUBSET Recs]
    BY <1>1 DEF Claimed, TypeOK
  <2>4. /\ waitList'[q] = {ChanRec[n]} /\ waitList' \in [Pvts -> SUBSET Recs]
        /\ \A p \in Pvts \ {q} : waitList'[p] = waitList[p]
    BY <1>2, <2>3
  <2>5. QED
    BY <1>2, <2>1, <2>2, <2>4, CommonBlocks
<1>7. /\ ppn' \in [Recs -> Notifies \cup {None}] /\ val' \in [Recs -> Notifies \cup {None}]
      /\ proc' \in [Recs -> {"idle", "enter", "target", "add", "call", "child", "test", "complete"}]
      /\ \A x \in Recs : ppn'[x] = IF x = ChanRec[n] THEN n ELSE ppn[x]
  BY <1>2, ClaimedTypes
<1>8. BlockTaken(n, q)
  <2>1. Elsewhere(n, q)
    BY <1>4 DEF Elsewhere
  <2>2. freeList' = (freeList \cup ({pnotifyPvt[n]} \ {None})) \ {q}
    BY <1>2, <1>4
  <2>3. QED
    BY <1>2, <1>4, <1>6, <1>7, <2>1, <2>2 DEF BlockTaken
<1>9. TypeOK'
  BY <1>1, <1>4, <1>6, <1>7 DEF TypeOK
<1>10. Hands(n)'
  BY <1>2, <1>4 DEF Hands
<1>11. Phase(n, q)'
  BY <1>2, <1>4, <1>6 DEF Phase, Progress, Requesting
<1>12. proc[ChanRec[n]] = "idle"
  BY <1>1, <1>2, LockedIsIdle
<1>13. /\ restartList' = restartList /\ state'[q] # "WaitForRestart" /\ UNCHANGED <<pact, readPpn>>
       /\ \/ proc' = proc /\ \A x \in waitList'[q] : pact[x]
          \/ proc' = [proc EXCEPT ![ChanRec[n]] = "enter"] /\ proc[ChanRec[n]] = "idle"
  BY <1>4, <1>6, <1>12 DEF Progress, Claimed
<1>14. QED
  BY <1>2, <1>5, <1>8, <1>9, <1>10, <1>11, <1>13, TakenKeeps

LEMMA CallbackRestartKeeps ==
  ASSUME NotifyInv, NEW q \in Pvts, CallbackRestart(q)
  PROVE  NotifyInv'
<1>1. PICK n : n = user[q]
  OBVIOUS
<1>2. /\ Taken(q) /\ ~cancelWait[q] /\ state[q] = "RestartCallbackRequested"
      /\ UNCHANGED <<cancelEvent, callbackRest>>
      /\ wasProcessed \in [Notifies -> BOOLEAN] /\ callback[q] = "taken"
  BY DEF CallbackRestart, NotifyInv, TypeOK, Taken
<1>3. CASE \/ /\ PutAndProcess(n, q, TRUE, CallbackAsserts(q))
              /\ wasProcessed' = [wasProcessed EXCEPT ![n] = TRUE]
           \/ /\ WaitForPact(n, q, TRUE, CallbackAsserts(q))
              /\ wasProcessed' = [wasProcessed EXCEPT ![n] = FALSE]
  <2>1. wasProcessed' \in [Notifies -> BOOLEAN]
    BY <1>2, <1>3
  <2>2. Claimed(n, q)
    BY <1>3 DEF Claimed, PutAndProcess, WaitForPact, Progress, procVars
  <2>3. failed' = (failed \/ ~(/\ CallbackAsserts(q) /\ NotAwaited(ChanRec[n])
                               /\ ppn[ChanRec[n]] \in {None, n}))
    BY <1>3 DEF PutAndProcess, WaitForPact, MustHold
  <2>4. /\ CallbackAsserts(q) /\ n \in Notifies /\ ChanRec[n] \in Recs /\ pnotifyPvt[n] = q
        /\ ppn[ChanRec[n]] = n /\ waitList[q] = {}
    BY <1>1, <1>2, CallbackFinds
  <2>5. Ready(n, q)
    BY <1>2, <2>4 DEF Ready
  <2>6. NotAwaited(ChanRec[n])
    BY <2>4, <2>5, TakenNotAwaited
  <2>7. failed' = failed
    BY <2>3, <2>4, <2>6 DEF NotifyInv, TypeOK
  <2>8. QED
    BY <1>1, <1>2, <2>1, <2>2, <2>7, RestartClaimKeeps
<1>4. CASE /\ PutOnly(n, q, TRUE, CallbackAsserts(q))
           /\ wasProcessed' = [wasProcessed EXCEPT ![n] = FALSE]
  BY <1>1, <1>2, <1>4, RestartPutOnlyKeeps
<1>5. ~WaitForOwner(n, q, TRUE, CallbackAsserts(q))
  BY DEF WaitForOwner
<1>6. QED
  BY <1>1, <1>3, <1>4, <1>5 DEF CallbackRestart, processNotifyCommon

\* dbProcessNotify when n has no block, or one whose callDone has returned
NewRequest(n, q) ==
  /\ q \in freeList \cup {pnotifyPvt[n]} /\ done[n] = "none" /\ Lockable(ChanRec[n])
  /\ pnotifyPvt[n] # None =>
       /\ waitList[pnotifyPvt[n]] = {} /\ state[pnotifyPvt[n]] = "UserCallbackActive"
       /\ callback[pnotifyPvt[n]] = "none" /\ ~cancelEvent[pnotifyPvt[n]]

\* notifyInit, and what the request changes of n itself
Started(n, q) ==
  /\ pnotifyPvt' = [pnotifyPvt EXCEPT ![n] = q] /\ user' = [user EXCEPT ![q] = n]
  /\ freeList' = (freeList \cup ({pnotifyPvt[n]} \ {None})) \ {q}
  /\ cancelWait' = [cancelWait EXCEPT ![q] = FALSE]
  /\ userCallbackWait' = [userCallbackWait EXCEPT ![q] = FALSE]
  /\ client' = [client EXCEPT ![n] = IF done'[n] = "call" THEN "inline" ELSE "idle"]
  /\ waitPvt' = [waitPvt EXCEPT ![n] = None] /\ busy' = [busy EXCEPT ![n] = TRUE]
  /\ wasProcessed' \in [Notifies -> BOOLEAN]
  /\ cancelEvent' = cancelEvent
  /\ userCallbackEvent' = IF pnotifyPvt[n] = None THEN userCallbackEvent
                          ELSE [userCallbackEvent EXCEPT ![pnotifyPvt[n]] = FALSE]

Waiting(n, q) ==
  /\ ppn[ChanRec[n]] # None
  /\ state' = StateAfter(n, q, "WaitForRestart", {}) /\ Handled(q, {})
  /\ restartList' = [restartList EXCEPT ![ChanRec[n]] = Append(restartList[ChanRec[n]], n)]
  /\ waitList' = [waitList EXCEPT ![q] = {}]
  /\ UNCHANGED <<pact, ppn, flnk, val, procVars, got, doneVars>>

Finished(n, q) ==
  /\ \E didPut \in PutResults(n) : Put(n, didPut)
  /\ state' = StateAfter(n, q, "UserCallbackActive", {}) /\ Handled(q, {})
  /\ waitList' = [waitList EXCEPT ![q] = {}]
  /\ callDone(n, q)
  /\ UNCHANGED <<pact, ppn, restartList, flnk, procVars>>

LEMMA StartedFacts ==
  ASSUME NotifyInv, NEW n \in Notifies, NEW q \in Pvts, NewRequest(n, q), Started(n, q),
         \A m \in Notifies : m # n => done'[m] = done[m] /\ donePvt'[m] = donePvt[m]
  PROVE  /\ Ready(n, q) /\ Elsewhere(n, q) /\ pnotifyPvt'[n] = q
         /\ user'[q] = n /\ \A p \in Pvts \ {q} : user'[p] = user[p]
         /\ freeList' = (freeList \cup ({pnotifyPvt[n]} \ {None})) \ {q}
         /\ \A p \in Pvts \ {q} : p = pnotifyPvt[n] => ~cancelEvent'[p] /\ ~userCallbackEvent'[p]
         /\ ~cancelEvent'[q] /\ ~userCallbackEvent'[q] /\ ~cancelWait'[q] /\ ~userCallbackWait'[q]
         /\ client'[n] = IF done'[n] = "call" THEN "inline" ELSE "idle"
         /\ waitPvt'[n] = None /\ busy'[n]
         /\ \A r \in Recs : ppn[r] # n
<1>1. TypeOK /\ (pnotifyPvt[n] # None => pnotifyPvt[n] \in Pvts) /\ None \notin Pvts
  BY NotifyAssumption DEF NotifyInv, TypeOK
<1>2. Ready(n, q)
  BY DEF NewRequest, Ready
<1>3. /\ pnotifyPvt'[n] = q /\ user'[q] = n /\ \A p \in Pvts \ {q} : user'[p] = user[p]
      /\ freeList' = (freeList \cup ({pnotifyPvt[n]} \ {None})) \ {q}
      /\ ~cancelWait'[q] /\ ~userCallbackWait'[q]
      /\ client'[n] = IF done'[n] = "call" THEN "inline" ELSE "idle"
      /\ waitPvt'[n] = None /\ busy'[n]
  BY <1>1 DEF Started, TypeOK
<1>4. \A p \in Pvts : IF p = pnotifyPvt[n] THEN ~userCallbackEvent'[p]
                      ELSE userCallbackEvent'[p] = userCallbackEvent[p]
  <2>1. userCallbackEvent \in [Pvts -> BOOLEAN]
    BY <1>1 DEF TypeOK
  <2>2. CASE pnotifyPvt[n] = None
    <3>1. userCallbackEvent' = userCallbackEvent
      BY <2>2 DEF Started
    <3>2. QED
      BY <1>1, <2>2, <3>1
  <2>3. CASE pnotifyPvt[n] # None
    <3>1. userCallbackEvent' = [userCallbackEvent EXCEPT ![pnotifyPvt[n]] = FALSE]
      BY <2>3 DEF Started
    <3>2. QED
      BY <1>1, <2>1, <2>3, <3>1
  <2>4. QED
    BY <2>2, <2>3
<1>5. \A p \in Pvts \ {q} : p = pnotifyPvt[n] => ~cancelEvent'[p] /\ ~userCallbackEvent'[p]
  BY <1>1, <1>4 DEF Started, NewRequest
<1>6. ~cancelEvent'[q] /\ ~userCallbackEvent'[q]
  <2>1. CASE q = pnotifyPvt[n]
    BY <1>1, <1>4, <2>1 DEF Started, NewRequest
  <2>2. CASE q # pnotifyPvt[n]
    <3>1. q \in freeList
      BY <2>2 DEF NewRequest
    <3>2. ~cancelEvent[q] /\ ~userCallbackEvent[q]
      BY <3>1 DEF NotifyInv, Clean
    <3>3. QED
      BY <1>4, <2>2, <3>2 DEF Started
  <2>3. QED
    BY <2>1, <2>2
<1>7. Elsewhere(n, q)
  <2>1. \A m \in Notifies : m # n =>
          /\ pnotifyPvt'[m] = pnotifyPvt[m] /\ client'[m] = client[m]
          /\ waitPvt'[m] = waitPvt[m] /\ busy'[m] = busy[m]
    <3>1. \A m \in Notifies : m # n => /\ pnotifyPvt'[m] = pnotifyPvt[m]
                                       /\ waitPvt'[m] = waitPvt[m] /\ busy'[m] = busy[m]
      BY <1>1 DEF Started, TypeOK
    <3>2. \A m \in Notifies : m # n => client'[m] = client[m]
      BY <1>1 DEF Started, TypeOK
    <3>3. QED
      BY <3>1, <3>2
  <2>2. \A p \in Pvts \ {q, pnotifyPvt[n]} :
          /\ cancelWait'[p] = cancelWait[p] /\ userCallbackWait'[p] = userCallbackWait[p]
          /\ cancelEvent'[p] = cancelEvent[p] /\ userCallbackEvent'[p] = userCallbackEvent[p]
    BY <1>1, <1>4 DEF Started, TypeOK
  <2>3. QED
    BY <2>1, <2>2 DEF Elsewhere
<1>8. \A r \in Recs : ppn[r] # n
  <2>1. pnotifyPvt[n] # None =>
          waitList[pnotifyPvt[n]] = {} /\ callback[pnotifyPvt[n]] = "none"
    BY DEF NewRequest
  <2>2. QED
    BY <2>1, OwnsNothing
<1>9. QED
  BY <1>2, <1>3, <1>5, <1>6, <1>7, <1>8

LEMMA StartedTypes ==
  ASSUME NotifyInv, NEW n \in Notifies, NEW q \in Pvts, Started(n, q)
  PROVE  /\ pnotifyPvt' \in [Notifies -> Pvts \cup {None}] /\ user' \in [Pvts -> Notifies \cup {None}]
         /\ freeList' \subseteq Pvts
         /\ cancelWait' \in [Pvts -> BOOLEAN] /\ userCallbackWait' \in [Pvts -> BOOLEAN]
         /\ client' \in [Notifies -> {"idle", "inline", "waitUser", "waitCancel"}]
         /\ waitPvt' \in [Notifies -> Pvts \cup {None}] /\ busy' \in [Notifies -> BOOLEAN]
         /\ wasProcessed' \in [Notifies -> BOOLEAN]
         /\ cancelEvent' \in [Pvts -> BOOLEAN] /\ userCallbackEvent' \in [Pvts -> BOOLEAN]
<1>1. TypeOK
  BY DEF NotifyInv
<1>2. /\ pnotifyPvt' \in [Notifies -> Pvts \cup {None}] /\ user' \in [Pvts -> Notifies \cup {None}]
      /\ cancelWait' \in [Pvts -> BOOLEAN] /\ userCallbackWait' \in [Pvts -> BOOLEAN]
      /\ client' \in [Notifies -> {"idle", "inline", "waitUser", "waitCancel"}]
      /\ waitPvt' \in [Notifies -> Pvts \cup {None}] /\ busy' \in [Notifies -> BOOLEAN]
      /\ wasProcessed' \in [Notifies -> BOOLEAN] /\ cancelEvent' \in [Pvts -> BOOLEAN]
  BY <1>1 DEF Started, TypeOK
<1>3. userCallbackEvent' \in [Pvts -> BOOLEAN]
  BY <1>1 DEF Started, TypeOK
<1>4. freeList' \subseteq Pvts
  BY <1>1 DEF Started, TypeOK
<1>5. QED
  BY <1>2, <1>3, <1>4

LEMMA StartWaitingKeeps ==
  ASSUME NotifyInv, NEW n \in Notifies, NEW q \in Pvts, NewRequest(n, q), Started(n, q),
         Waiting(n, q), failed' = failed
  PROVE  NotifyInv'
<1>1. TypeOK /\ Hands(n) /\ done[n] = "none" /\ q # None /\ ChanRec[n] \in Recs
  BY NotifyAssumption DEF NotifyInv, Phases, NewRequest
<1>2. UNCHANGED <<pact, ppn, flnk, val, proc, readPpn, got, done, donePvt>>
  BY DEF Waiting, procVars, doneVars
<1>3. /\ Ready(n, q) /\ Elsewhere(n, q) /\ pnotifyPvt'[n] = q
      /\ user'[q] = n /\ \A p \in Pvts \ {q} : user'[p] = user[p]
      /\ freeList' = (freeList \cup ({pnotifyPvt[n]} \ {None})) \ {q}
      /\ \A p \in Pvts \ {q} : p = pnotifyPvt[n] => ~cancelEvent'[p] /\ ~userCallbackEvent'[p]
      /\ ~cancelEvent'[q] /\ ~userCallbackEvent'[q] /\ ~cancelWait'[q] /\ ~userCallbackWait'[q]
      /\ client'[n] = (IF done'[n] = "call" THEN "inline" ELSE "idle")
      /\ waitPvt'[n] = None /\ busy'[n]
      /\ \A r \in Recs : ppn[r] # n
  BY <1>2, StartedFacts
<1>4. /\ state'[q] = "WaitForRestart" /\ callback'[q] = "none"
      /\ \A p \in Pvts \ {q} :
           /\ state'[p] = IF p = pnotifyPvt[n] THEN "NotActive" ELSE state[p]
           /\ callback'[p] = callback[p]
      /\ state' \in [Pvts -> States] /\ callback' \in [Pvts -> {"none", "queued", "taken"}]
  <2>1. PICK rs, st : rs = {} /\ st = "WaitForRestart"
    OBVIOUS
  <2>2. state' = StateAfter(n, q, st, rs) /\ Handled(q, rs) /\ st \in States
    BY <2>1 DEF Waiting, States
  <2>3. QED
    BY <2>1, <2>2, CommonBlocks
<1>5. /\ waitList'[q] = {} /\ waitList' \in [Pvts -> SUBSET Recs]
      /\ \A p \in Pvts \ {q} : waitList'[p] = waitList[p]
  BY <1>1 DEF Waiting, TypeOK
<1>6. BlockTaken(n, q)
  BY <1>2, <1>3, <1>4, <1>5 DEF BlockTaken
<1>7. restartList' \in [Recs -> Seq(Notifies)]
  BY <1>1 DEF Waiting, TypeOK
<1>8. TypeOK'
  BY <1>1, <1>2, <1>4, <1>5, <1>7, StartedTypes DEF TypeOK
<1>9. Hands(n)'
  BY <1>1, <1>2, <1>3 DEF Hands
<1>10. Phase(n, q)'
  BY <1>1, <1>2, <1>3, <1>4, <1>5 DEF Phase, Progress, Requesting
<1>11. /\ restartList' = [restartList EXCEPT ![ChanRec[n]] = Append(restartList[ChanRec[n]], n)]
       /\ ppn[ChanRec[n]] # None /\ UNCHANGED <<pact, readPpn>>
       /\ proc' = proc /\ \A x \in waitList'[q] : pact[x]
  BY <1>2, <1>5 DEF Waiting
<1>12. QED
  BY <1>3, <1>4, <1>6, <1>8, <1>9, <1>10, <1>11, TakenKeeps

LEMMA StartClaimedKeeps ==
  ASSUME NotifyInv, NEW n \in Notifies, NEW q \in Pvts, NewRequest(n, q), Started(n, q),
         Claimed(n, q), ppn[ChanRec[n]] = None, failed' = failed
  PROVE  NotifyInv'
<1>1. TypeOK /\ Hands(n) /\ done[n] = "none" /\ q # None /\ ChanRec[n] \in Recs
      /\ Lockable(ChanRec[n])
  BY NotifyAssumption DEF NotifyInv, Phases, NewRequest
<1>2. UNCHANGED <<pact, restartList, flnk, readPpn, got, done, donePvt>>
  BY DEF Claimed, doneVars
<1>3. /\ Ready(n, q) /\ Elsewhere(n, q) /\ pnotifyPvt'[n] = q
      /\ user'[q] = n /\ \A p \in Pvts \ {q} : user'[p] = user[p]
      /\ freeList' = (freeList \cup ({pnotifyPvt[n]} \ {None})) \ {q}
      /\ \A p \in Pvts \ {q} : p = pnotifyPvt[n] => ~cancelEvent'[p] /\ ~userCallbackEvent'[p]
      /\ ~cancelEvent'[q] /\ ~userCallbackEvent'[q] /\ ~cancelWait'[q] /\ ~userCallbackWait'[q]
      /\ client'[n] = (IF done'[n] = "call" THEN "inline" ELSE "idle")
      /\ waitPvt'[n] = None /\ busy'[n]
      /\ \A r \in Recs : ppn[r] # n
  BY <1>2, StartedFacts
<1>4. PICK st \in Progress : state' = StateAfter(n, q, st, {})
  BY DEF Claimed
<1>5. /\ state'[q] = st /\ callback'[q] = "none"
      /\ \A p \in Pvts \ {q} :
           /\ state'[p] = IF p = pnotifyPvt[n] THEN "NotActive" ELSE state[p]
           /\ callback'[p] = callback[p]
      /\ state' \in [Pvts -> States] /\ callback' \in [Pvts -> {"none", "queued", "taken"}]
  <2>1. PICK rs : rs = {}
    OBVIOUS
  <2>2. state' = StateAfter(n, q, st, rs) /\ Handled(q, rs) /\ st \in States
    BY <1>4, <2>1 DEF Claimed, Progress, States
  <2>3. QED
    BY <2>1, <2>2, CommonBlocks
<1>6. /\ waitList'[q] = {ChanRec[n]} /\ waitList' \in [Pvts -> SUBSET Recs]
      /\ \A p \in Pvts \ {q} : waitList'[p] = waitList[p]
  BY <1>1 DEF Claimed, TypeOK
<1>7. /\ ppn' \in [Recs -> Notifies \cup {None}] /\ val' \in [Recs -> Notifies \cup {None}]
      /\ proc' \in [Recs -> {"idle", "enter", "target", "add", "call", "child", "test", "complete"}]
      /\ \A x \in Recs : ppn'[x] = IF x = ChanRec[n] THEN n ELSE ppn[x]
  BY ClaimedTypes
<1>8. BlockTaken(n, q)
  BY <1>2, <1>3, <1>5, <1>6, <1>7 DEF BlockTaken
<1>9. TypeOK'
  BY <1>1, <1>2, <1>5, <1>6, <1>7, StartedTypes DEF TypeOK
<1>10. Hands(n)'
  BY <1>1, <1>2, <1>3 DEF Hands
<1>11. Phase(n, q)'
  BY <1>1, <1>2, <1>3, <1>5, <1>6 DEF Phase, Progress, Requesting
<1>12. proc[ChanRec[n]] = "idle"
  BY <1>1, LockedIsIdle
<1>13. /\ restartList' = restartList /\ state'[q] # "WaitForRestart" /\ UNCHANGED <<pact, readPpn>>
       /\ \/ proc' = proc /\ \A x \in waitList'[q] : pact[x]
          \/ proc' = [proc EXCEPT ![ChanRec[n]] = "enter"] /\ proc[ChanRec[n]] = "idle"
  BY <1>2, <1>5, <1>6, <1>12 DEF Progress, Claimed
<1>14. QED
  BY <1>3, <1>8, <1>9, <1>10, <1>11, <1>13, TakenKeeps

LEMMA StartFinishedKeeps ==
  ASSUME NotifyInv, NEW n \in Notifies, NEW q \in Pvts, NewRequest(n, q), Started(n, q),
         Finished(n, q), failed' = failed
  PROVE  NotifyInv'
<1>1. TypeOK /\ Hands(n) /\ done[n] = "none" /\ q # None /\ ChanRec[n] \in Recs
  BY NotifyAssumption DEF NotifyInv, Phases, NewRequest
<1>2. /\ UNCHANGED <<pact, ppn, restartList, flnk, proc, readPpn>>
      /\ done' = [done EXCEPT ![n] = "call"] /\ donePvt' = [donePvt EXCEPT ![n] = q]
  BY DEF Finished, callDone, procVars
<1>3. /\ done'[n] = "call" /\ donePvt'[n] = q
      /\ \A m \in Notifies : m # n => done'[m] = done[m] /\ donePvt'[m] = donePvt[m]
  BY <1>1, <1>2 DEF TypeOK
<1>4. /\ Ready(n, q) /\ Elsewhere(n, q) /\ pnotifyPvt'[n] = q
      /\ user'[q] = n /\ \A p \in Pvts \ {q} : user'[p] = user[p]
      /\ freeList' = (freeList \cup ({pnotifyPvt[n]} \ {None})) \ {q}
      /\ \A p \in Pvts \ {q} : p = pnotifyPvt[n] => ~cancelEvent'[p] /\ ~userCallbackEvent'[p]
      /\ ~cancelEvent'[q] /\ ~userCallbackEvent'[q] /\ ~cancelWait'[q] /\ ~userCallbackWait'[q]
      /\ client'[n] = (IF done'[n] = "call" THEN "inline" ELSE "idle")
      /\ waitPvt'[n] = None /\ busy'[n]
      /\ \A r \in Recs : ppn[r] # n
  BY <1>3, StartedFacts
<1>5. /\ state'[q] = "UserCallbackActive" /\ callback'[q] = "none"
      /\ \A p \in Pvts \ {q} :
           /\ state'[p] = IF p = pnotifyPvt[n] THEN "NotActive" ELSE state[p]
           /\ callback'[p] = callback[p]
      /\ state' \in [Pvts -> States] /\ callback' \in [Pvts -> {"none", "queued", "taken"}]
  <2>1. PICK rs, st : rs = {} /\ st = "UserCallbackActive"
    OBVIOUS
  <2>2. state' = StateAfter(n, q, st, rs) /\ Handled(q, rs) /\ st \in States
    BY <2>1 DEF Finished, States
  <2>3. QED
    BY <2>1, <2>2, CommonBlocks
<1>6. /\ waitList'[q] = {} /\ waitList' \in [Pvts -> SUBSET Recs]
      /\ \A p \in Pvts \ {q} : waitList'[p] = waitList[p]
  BY <1>1 DEF Finished, TypeOK
<1>7. BlockTaken(n, q)
  BY <1>2, <1>4, <1>5, <1>6 DEF BlockTaken
<1>8. val' \in [Recs -> Notifies \cup {None}]
  BY PutTypes, PutResultsType DEF Finished
<1>9. TypeOK'
  <2>1. /\ done' \in [Notifies -> {"none", "call", "again", "tail"}]
        /\ donePvt' \in [Notifies -> Pvts \cup {None}]
    BY <1>1, <1>2 DEF TypeOK
  <2>2. got' \in [Notifies -> Notifies \cup {None}]
    BY <1>1, <1>8 DEF TypeOK, Finished, callDone
  <2>3. QED
    BY <1>1, <1>2, <1>5, <1>6, <1>8, <2>1, <2>2, StartedTypes DEF TypeOK
<1>10. Hands(n)'
  BY <1>1, <1>3, <1>4, <1>5 DEF Hands
<1>11. Phase(n, q)'
  BY <1>1, <1>3, <1>4, <1>5, <1>6 DEF Phase, Progress, Requesting
<1>12. /\ restartList' = restartList /\ state'[q] # "WaitForRestart" /\ UNCHANGED <<pact, readPpn>>
       /\ proc' = proc /\ \A x \in waitList'[q] : pact[x]
  BY <1>2, <1>5, <1>6
<1>13. QED
  BY <1>4, <1>7, <1>9, <1>10, <1>11, <1>12, TakenKeeps

\* processNotifyCommon of a request that owns nothing yet: no assert fails.
LEMMA StartKeeps ==
  ASSUME NotifyInv, NEW n \in Notifies, NEW q \in Pvts, NewRequest(n, q), Started(n, q),
         processNotifyCommon(n, q, FALSE, TRUE)
  PROVE  NotifyInv'
<1>1. PICK r : r = ChanRec[n]
  OBVIOUS
<1>2. TypeOK /\ ~failed /\ r \in Recs /\ n # None /\ Ready(n, q)
  BY <1>1, NotifyAssumption DEF NotifyInv, NewRequest, Ready
<1>3. CASE WaitForOwner(n, q, FALSE, TRUE)
  <2>1. Waiting(n, q)
    BY <1>3 DEF WaitForOwner, Waiting
  <2>2. failed' = (failed \/ ~(\A i \in 1 .. Len(restartList[r]) : restartList[r][i] # n))
    BY <1>1, <1>3 DEF WaitForOwner, MustHold
  <2>3. ~Contains(restartList[r], n)
    BY <1>2 DEF NotifyInv, Waiters, Ready
  <2>4. \A i \in 1 .. Len(restartList[r]) : restartList[r][i] # n
    BY <2>3 DEF Contains
  <2>5. failed' = failed
    BY <1>2, <2>2, <2>4 DEF TypeOK
  <2>6. QED
    BY <2>1, <2>5, StartWaitingKeeps
<1>4. CASE WaitForPact(n, q, FALSE, TRUE) \/ PutAndProcess(n, q, FALSE, TRUE)
  <2>1. Claimed(n, q) /\ ppn[r] = None
    BY <1>1, <1>4 DEF Claimed, PutAndProcess, WaitForPact, Claims, Progress, procVars
  <2>2. failed' = (failed \/ ~(NotAwaited(r) /\ ppn[r] \in {None, n}))
    BY <1>1, <1>4 DEF PutAndProcess, WaitForPact, MustHold
  <2>3. NotAwaited(r)
    BY <1>2, <2>1, AwaitedHasOwner
  <2>4. failed' = failed
    BY <1>2, <2>1, <2>2, <2>3 DEF TypeOK
  <2>5. QED
    BY <1>1, <2>1, <2>4, StartClaimedKeeps
<1>5. CASE PutOnly(n, q, FALSE, TRUE)
  <2>1. /\ ppn[r] = None /\ ppn' = restartPpn({}) /\ restartList' = restartLists({})
        /\ failed' = (failed \/ ~(restartAsserts({}) /\ ppn[r] \in {None, n} /\ ppn'[r] # n))
    BY <1>1, <1>5 DEF PutOnly, MustHold, Claims
  <2>2. ppn' = ppn /\ restartList' = restartList /\ restartAsserts({})
    BY <2>1, ReleaseNone DEF restartAsserts
  <2>3. failed' = failed
    BY <1>2, <2>1, <2>2 DEF TypeOK
  <2>4. Finished(n, q)
    BY <1>5, <2>2 DEF PutOnly, Finished
  <2>5. QED
    BY <2>3, <2>4, StartFinishedKeeps
<1>6. QED
  BY <1>3, <1>4, <1>5 DEF processNotifyCommon

LEMMA dbProcessNotifyKeeps ==
  ASSUME NotifyInv, NEW n \in Notifies, dbProcessNotify(n)
  PROVE  NotifyInv'
<1>1. PICK q \in Pvts : Begin(n, q, freeList, TRUE)
  BY DEF dbProcessNotify
<1>2. /\ client[n] = "idle" /\ pnotifyPvt[n] = None /\ Lockable(ChanRec[n])
      /\ busy' = [busy EXCEPT ![n] = TRUE] /\ UNCHANGED <<cancelEvent, userCallbackEvent, waitPvt>>
  BY DEF dbProcessNotify, eventVars
<1>3. TypeOK /\ Hands(n)
  BY DEF NotifyInv, Phases
<1>4. done[n] = "none" /\ waitPvt[n] = None
  BY <1>2, <1>3 DEF Hands
<1>5. NewRequest(n, q)
  BY <1>1, <1>2, <1>4 DEF Begin, NewRequest
<1>6. wasProcessed' \in [Notifies -> BOOLEAN]
  BY <1>1, <1>3 DEF Begin, processNotifyCommon, TypeOK
<1>7. waitPvt' = [waitPvt EXCEPT ![n] = None]
  BY <1>2, <1>3, <1>4 DEF TypeOK
<1>8. Started(n, q)
  BY <1>1, <1>2, <1>6, <1>7 DEF Begin, Started
<1>9. processNotifyCommon(n, q, FALSE, TRUE)
  BY <1>1 DEF Begin
<1>10. QED
  BY <1>5, <1>8, <1>9, StartKeeps

LEMMA ProcessNotifyAgainKeeps ==
  ASSUME NotifyInv, NEW n \in Notifies, ProcessNotifyAgain(n)
  PROVE  NotifyInv'
<1>1. PICK o : o = pnotifyPvt[n]
  OBVIOUS
<1>2. PICK q \in Pvts : Begin(n, q, freeList \cup {o}, o # None)
  BY <1>1 DEF ProcessNotifyAgain
<1>3. /\ client[n] = "waitUser" /\ userCallbackEvent[waitPvt[n]] /\ Lockable(ChanRec[n])
      /\ userCallbackEvent' = [userCallbackEvent EXCEPT ![waitPvt[n]] = FALSE]
      /\ waitPvt' = [waitPvt EXCEPT ![n] = None] /\ UNCHANGED <<cancelEvent, busy>>
  BY DEF ProcessNotifyAgain
<1>4. TypeOK /\ Hands(n)
  BY DEF NotifyInv, Phases
<1>5. waitPvt[n] = o /\ o # None
  BY <1>1, <1>3, <1>4 DEF Hands
<1>6. Phase(n, o) /\ o \in Pvts
  BY <1>1, <1>5, OwnBlock
<1>7. /\ state[o] = "UserCallbackActive" /\ done[n] = "none" /\ ~cancelEvent[o]
      /\ callback[o] = "none" /\ waitList[o] = {}
  BY <1>3, <1>5, <1>6 DEF Phase, Requesting, Progress
<1>8. busy' = [busy EXCEPT ![n] = TRUE]
  BY <1>3, <1>4 DEF Hands, TypeOK
<1>9. NewRequest(n, q)
  BY <1>1, <1>2, <1>3, <1>7 DEF Begin, NewRequest
<1>10. wasProcessed' \in [Notifies -> BOOLEAN]
  BY <1>2, <1>4 DEF Begin, processNotifyCommon, TypeOK
<1>11. Started(n, q)
  <2>1. freeList \cup {o} = freeList \cup ({o} \ {None})
    BY <1>5
  <2>2. QED
    BY <1>1, <1>2, <1>3, <1>5, <1>8, <1>10, <2>1 DEF Begin, Started
<1>12. processNotifyCommon(n, q, FALSE, TRUE)
  <2>1. processNotifyCommon(n, q, FALSE, o # None)
    BY <1>2 DEF Begin
  <2>2. QED
    <3>1. (o # None) = TRUE
      BY <1>5
    <3>2. QED
      BY <2>1, <3>1
<1>13. QED
  BY <1>9, <1>11, <1>12, StartKeeps

-----------------------------------------------------------------------------
(* dbNotifyCancel of a request that waits, or is in progress *)

\* notifyCleanup of a block of which only the lists had to be told
LEMMA CancelReturnsFacts ==
  ASSUME NotifyInv, NEW n \in Notifies, NEW q, pnotifyPvt[n] = q, q # None, CancelReturns(n),
         client[n] = "idle", state[q] # "UserCallbackActive",
         UNCHANGED <<user, cancelWait, userCallbackWait, cancelEvent, userCallbackEvent, client,
                     waitPvt, done, donePvt>>
  PROVE  /\ Elsewhere(n, q) /\ Hands(n)' /\ pnotifyPvt'[n] = None
         /\ freeList' = freeList \cup {q} /\ ~cancelEvent'[q] /\ ~userCallbackEvent'[q]
         /\ pnotifyPvt' \in [Notifies -> Pvts \cup {None}] /\ busy' \in [Notifies -> BOOLEAN]
         /\ freeList' \subseteq Pvts
         /\ Blocks'
<1>1. /\ q \in Pvts /\ q \notin freeList /\ user[q] = n /\ Hands(n) /\ Phase(n, q) /\ TypeOK
      /\ \A m \in Notifies : m # n => pnotifyPvt[m] # q
  BY OwnBlock DEF NotifyInv
<1>2. /\ freeList' = freeList \cup {q} /\ pnotifyPvt' = [pnotifyPvt EXCEPT ![n] = None]
      /\ busy' = [busy EXCEPT ![n] = FALSE]
  BY DEF CancelReturns
<1>3. /\ pnotifyPvt' \in [Notifies -> Pvts \cup {None}] /\ busy' \in [Notifies -> BOOLEAN]
      /\ freeList' \subseteq Pvts
      /\ \A m \in Notifies : pnotifyPvt'[m] = IF m = n THEN None ELSE pnotifyPvt[m]
      /\ \A m \in Notifies : m # n => busy'[m] = busy[m]
  BY <1>1, <1>2 DEF TypeOK
<1>4. Elsewhere(n, q)
  BY <1>3 DEF Elsewhere
<1>5. done[n] = "none" /\ ~cancelEvent[q] /\ ~userCallbackEvent[q]
  BY <1>1 DEF Hands, Phase
<1>6. Hands(n)'
  BY <1>1, <1>3, <1>5 DEF Hands
<1>7. Blocks'
  BY <1>1, <1>2, <1>3 DEF NotifyInv, Blocks
<1>8. QED
  BY <1>2, <1>3, <1>4, <1>5, <1>6, <1>7

LEMMA CancelWaitingKeeps ==
  ASSUME NotifyInv, NEW n \in Notifies, CancelWaiting(n)
  PROVE  NotifyInv'
<1>1. PICK q, r : q = pnotifyPvt[n] /\ r = ChanRec[n]
  OBVIOUS
<1>2. /\ client[n] = "idle" /\ q # None /\ state[q] = "WaitForRestart"
      /\ restartList' = [restartList EXCEPT ![r] = RemoveFirst(restartList[r], n)]
      /\ state' = [state EXCEPT ![q] = "NotActive"]
      /\ CancelReturns(n)
      /\ failed' = (failed \/ ~(/\ ppn[r] \notin {None, n}
                                /\ \E i \in 1 .. Len(restartList[r]) : restartList[r][i] = n))
      /\ UNCHANGED <<ppn, waitList, cancelWait, cancelEvent, userCallbackEvent, callback, client,
                     waitPvt, pact, flnk, val, proc, readPpn, wasProcessed, got, user,
                     userCallbackWait, done, donePvt>>
  BY <1>1 DEF CancelWaiting, CancelBegin, MustHold, cancelRest, eventVars, procVars, doneVars
<1>3. /\ q \in Pvts /\ q \notin freeList /\ user[q] = n /\ Phase(n, q) /\ TypeOK /\ ~failed
      /\ \A m \in Notifies : m # n => pnotifyPvt[m] # q
      /\ r \in Recs /\ n # None
  BY <1>1, <1>2, OwnBlock, NotifyAssumption DEF NotifyInv
<1>4. waitList[q] = {} /\ callback[q] = "none"
  BY <1>2, <1>3 DEF Phase, Progress, Requesting
<1>5. \A x \in Recs : ppn[x] # n
  BY <1>1, <1>4, OwnsNothing
<1>6. /\ IsInjective(restartList[r]) /\ restartList[r] \in Seq(Notifies)
      /\ restartList \in [Recs -> Seq(Notifies)]
      /\ restartList[r] # <<>> => ppn[r] # None
      /\ Contains(restartList[r], n)
  BY <1>1, <1>2, <1>3 DEF NotifyInv, Waiters, TypeOK
<1>7. restartList[r] # <<>> /\ \E i \in 1 .. Len(restartList[r]) : restartList[r][i] = n
  BY <1>6 DEF Contains
<1>8. failed' = failed
  BY <1>2, <1>3, <1>5, <1>6, <1>7 DEF TypeOK
<1>9. /\ Elsewhere(n, q) /\ Hands(n)' /\ pnotifyPvt'[n] = None
      /\ freeList' = freeList \cup {q} /\ ~cancelEvent'[q] /\ ~userCallbackEvent'[q]
      /\ pnotifyPvt' \in [Notifies -> Pvts \cup {None}] /\ busy' \in [Notifies -> BOOLEAN]
      /\ freeList' \subseteq Pvts
      /\ Blocks'
  <2>1. state[q] # "UserCallbackActive"
    BY <1>2
  <2>2. QED
    BY <1>1, <1>2, <2>1, CancelReturnsFacts
<1>10. /\ RemoveFirst(restartList[r], n) \in Seq(Notifies)
       /\ IsInjective(RemoveFirst(restartList[r], n))
       /\ \A e : Contains(RemoveFirst(restartList[r], n), e) <=> Contains(restartList[r], e) /\ e # n
  BY <1>6, ListDeleted
<1>11. /\ restartList' \in [Recs -> Seq(Notifies)]
       /\ \A x \in Recs : restartList'[x] = IF x = r THEN RemoveFirst(restartList[r], n)
                                            ELSE restartList[x]
  BY <1>2, <1>3, <1>6, <1>10
<1>12. /\ state' \in [Pvts -> States]
       /\ \A p \in Pvts : state'[p] = IF p = q THEN "NotActive" ELSE state[p]
  BY <1>2, <1>3 DEF TypeOK, States
<1>13. TypeOK'
  BY <1>2, <1>3, <1>8, <1>9, <1>11, <1>12 DEF TypeOK
<1>14. Clean'
  <2>1. \A p \in freeList : p \in Pvts /\ p # q
    BY <1>3 DEF TypeOK
  <2>2. QED
    BY <1>2, <1>3, <1>4, <1>9, <1>12, <2>1 DEF NotifyInv, Clean
<1>15. \A m \in Notifies : m # n => /\ pnotifyPvt'[m] = pnotifyPvt[m] /\ pnotifyPvt[m] # q
                                    /\ pnotifyPvt[m] # None => pnotifyPvt[m] \in Pvts
  BY <1>3, <1>9 DEF Elsewhere, TypeOK
<1>16. Owners'
  <2>1. \A x \in Recs : ppn[x] # None => ppn[x] \in Notifies /\ ppn[x] # n
    BY <1>3, <1>5 DEF TypeOK
  <2>2. QED
    BY <1>2, <1>12, <1>15, <2>1 DEF NotifyInv, Owners
<1>17. Waiters'
  <2>1. ASSUME NEW x \in Recs
        PROVE  /\ IsInjective(restartList'[x])
               /\ restartList'[x] # <<>> => ppn'[x] # None
               /\ \A m \in Notifies : Contains(restartList'[x], m) <=>
                    /\ x = ChanRec[m] /\ pnotifyPvt'[m] # None
                    /\ state'[pnotifyPvt'[m]] = "WaitForRestart"
    <3>1. /\ IsInjective(restartList[x])
          /\ restartList[x] # <<>> => ppn[x] # None
          /\ \A m \in Notifies : Contains(restartList[x], m) <=>
               x = ChanRec[m] /\ pnotifyPvt[m] # None /\ state[pnotifyPvt[m]] = "WaitForRestart"
      BY DEF NotifyInv, Waiters
    <3>2. \A m \in Notifies : Contains(restartList'[x], m) <=> Contains(restartList[x], m) /\ m # n
      BY <1>1, <1>10, <1>11, <3>1
    <3>3. IsInjective(restartList'[x])
      BY <1>10, <1>11, <3>1
    <3>4. restartList'[x] # <<>> => ppn'[x] # None
      BY <1>2, <1>6, <1>7, <1>11, <3>1
    <3>5. QED
      BY <1>9, <1>12, <1>15, <3>1, <3>2, <3>3, <3>4
  <2>2. QED
    BY <2>1 DEF Waiters
<1>18. Reading' /\ AwaitedIsActive'
  BY <1>2 DEF NotifyInv, Reading, AwaitedIsActive
<1>19. Grouped'
  BY <1>2, <1>9 DEF NotifyInv, Grouped, LockSet, Closed
<1>20. Phases'
  <2>1. ASSUME NEW m \in Notifies, m # n
        PROVE  Hands(m)' /\ (pnotifyPvt'[m] # None => Phase(m, pnotifyPvt[m])')
    <3>1. pnotifyPvt[m] # q /\ (pnotifyPvt[m] # None => state'[pnotifyPvt[m]] = state[pnotifyPvt[m]])
      BY <1>12, <1>15, <2>1
    <3>2. QED
      BY <1>2, <1>9, <2>1, <3>1, PhasesOfOthers
  <2>2. QED
    BY <1>9, <2>1 DEF Phases
<1>21. QED
  BY <1>3, <1>8, <1>9, <1>13, <1>14, <1>16, <1>17, <1>18, <1>19, <1>20 DEF NotifyInv

\* The records of a group in one lock set are not being processed while it is locked.
LEMMA CancelInProgressKeeps ==
  ASSUME NotifyInv, ~({"cancel", "relink"} \subseteq Ops), NEW n \in Notifies, CancelInProgress(n)
  PROVE  NotifyInv'
<1>1. PICK q, r : q = pnotifyPvt[n] /\ r = ChanRec[n]
  OBVIOUS
<1>2. PICK rs : rs = waitList[q] \cup (IF ppn[r] = n THEN {r} ELSE {})
  OBVIOUS
<1>3. /\ client[n] = "idle" /\ q # None /\ state[q] \in Progress
      /\ "cancel" \in Ops /\ Lockable(r)
      /\ waitList' = [waitList EXCEPT ![q] = {}]
      /\ ppn' = restartPpn(rs) /\ restartList' = restartLists(rs)
      /\ state' = StateAfter(n, q, "NotActive", rs)
      /\ callback' = Requested(Restarted(rs))
      /\ CancelReturns(n)
      /\ failed' = (failed \/ ~restartAsserts(rs))
      /\ UNCHANGED <<cancelWait, cancelEvent, userCallbackEvent, client,
                     waitPvt, pact, flnk, val, procVars, wasProcessed, got, user,
                     userCallbackWait, done, donePvt>>
  BY <1>1, <1>2 DEF CancelInProgress, CancelBegin, MustHold, cancelRest, eventVars, doneVars, Progress
<1>4. /\ q \in Pvts /\ q \notin freeList /\ user[q] = n /\ Phase(n, q) /\ TypeOK /\ ~failed
      /\ r \in Recs /\ n # None
  BY <1>1, <1>3, OwnBlock, NotifyAssumption DEF NotifyInv
<1>5. \A x \in Recs : ppn[x] = n => x \in waitList[q]
  BY <1>1, <1>3, <1>4 DEF NotifyInv, Owners, Progress
<1>6. rs = waitList[q] /\ rs \in SUBSET Recs /\ \A x \in rs : ppn[x] = n
  BY <1>2, <1>4, <1>5 DEF NotifyInv, Owners, TypeOK
<1>7. /\ Elsewhere(n, q) /\ Hands(n)' /\ pnotifyPvt'[n] = None
      /\ freeList' = freeList \cup {q} /\ ~cancelEvent'[q] /\ ~userCallbackEvent'[q]
      /\ pnotifyPvt' \in [Notifies -> Pvts \cup {None}] /\ busy' \in [Notifies -> BOOLEAN]
      /\ freeList' \subseteq Pvts
      /\ Blocks'
  <2>1. state[q] # "UserCallbackActive"
    BY <1>3 DEF Progress
  <2>2. QED
    BY <1>1, <1>3, <2>1, CancelReturnsFacts
<1>8. q \notin Restarted(rs)
  BY <1>3, <1>6, RestartedIs DEF Progress
<1>9. /\ callback[q] = "none" /\ callback'[q] = "none" /\ state'[q] = "NotActive"
      /\ waitList'[q] = {} /\ waitList' \in [Pvts -> SUBSET Recs]
      /\ state' \in [Pvts -> States] /\ callback' \in [Pvts -> {"none", "queued", "taken"}]
      /\ \A p \in Pvts : p # q =>
           /\ state'[p] = IF p \in Restarted(rs) THEN "RestartCallbackRequested" ELSE state[p]
           /\ callback'[p] = IF p \in Restarted(rs) THEN "queued" ELSE callback[p]
           /\ waitList'[p] = waitList[p]
  <2>1. callback[q] = "none"
    BY <1>3, <1>4 DEF Phase, Progress, Requesting
  <2>2. /\ state'[q] = "NotActive" /\ state' \in [Pvts -> States]
        /\ \A p \in Pvts : p # q =>
             state'[p] = IF p \in Restarted(rs) THEN "RestartCallbackRequested" ELSE state[p]
    BY <1>1, <1>3, <1>4 DEF StateAfter, TypeOK, States
  <2>3. /\ callback'[q] = "none" /\ callback' \in [Pvts -> {"none", "queued", "taken"}]
        /\ \A p \in Pvts : p # q =>
             callback'[p] = IF p \in Restarted(rs) THEN "queued" ELSE callback[p]
    BY <1>3, <1>4, <1>8, <2>1 DEF Requested, TypeOK
  <2>4. /\ waitList'[q] = {} /\ waitList' \in [Pvts -> SUBSET Recs]
        /\ \A p \in Pvts : p # q => waitList'[p] = waitList[p]
    BY <1>3, <1>4 DEF TypeOK
  <2>5. QED
    BY <2>1, <2>2, <2>3, <2>4
<1>10. Releases(n, q, rs)
  <2>1. /\ \A x \in Recs \ rs : ppn[x] # n
        /\ waitList'[q] \subseteq waitList[q] \ rs
        /\ state[q] # "WaitForRestart" /\ state'[q] # "WaitForRestart"
    BY <1>3, <1>5, <1>6, <1>9 DEF Progress
  <2>2. QED
    BY <1>3, <1>6, <1>7, <1>9, <2>1 DEF Releases
<1>11. \A x \in rs : proc[x] = "idle"
  <2>1. "relink" \notin Ops
    BY <1>3
  <2>2. rs \subseteq LockSet(r)
    BY <1>1, <1>4, <1>6, <2>1 DEF NotifyInv, Grouped
  <2>3. QED
    BY <1>3, <2>2 DEF Lockable
<1>12. Reading' /\ AwaitedIsActive'
  BY <1>1, <1>3, <1>6, <1>10, <1>11, ReleaseReading
<1>13. failed' = failed
  <2>1. restartAsserts(rs)
    BY <1>4, <1>6, ReleaseAsserts
  <2>2. QED
    BY <1>3, <1>4, <2>1 DEF TypeOK
<1>14. TypeOK'
  <2>1. ppn' \in [Recs -> Notifies \cup {None}] /\ restartList' \in [Recs -> Seq(Notifies)]
    BY <1>3, <1>6, ReleaseTypes
  <2>2. QED
    BY <1>3, <1>4, <1>7, <1>9, <1>13, <2>1 DEF TypeOK, procVars
<1>15. Owners' /\ Waiters'
  <2>1. pnotifyPvt'[n] \in {q, None}
    BY <1>7
  <2>2. QED
    BY <1>1, <1>3, <1>6, <1>10, <2>1, ReleaseOwners, ReleaseWaiters
<1>16. Clean' /\ Grouped'
  <2>1. /\ \A p \in freeList :
             /\ state'[p] = "NotActive" /\ waitList'[p] = {} /\ callback'[p] = "none"
             /\ ~cancelEvent'[p] /\ ~userCallbackEvent'[p]
        /\ \A p \in Pvts : waitList'[p] \subseteq waitList[p]
    BY <1>1, <1>3, <1>6, <1>10, ReleaseClean
  <2>2. Clean'
    BY <1>7, <1>9, <2>1 DEF Clean
  <2>3. Grouped'
    BY <1>3, <1>7, <2>1 DEF NotifyInv, Grouped, LockSet, Closed
  <2>4. QED
    BY <2>2, <2>3
<1>17. Phases'
  <2>1. \A m \in Notifies : m # n => Hands(m)' /\ (pnotifyPvt'[m] # None => Phase(m, pnotifyPvt[m])')
    BY <1>1, <1>3, <1>6, <1>10, ReleasePhases
  <2>2. QED
    BY <1>7, <2>1 DEF Phases
<1>18. QED
  BY <1>4, <1>7, <1>12, <1>13, <1>14, <1>15, <1>16, <1>17 DEF NotifyInv

\* The completion of a record: the notify whose ppn the thread has read still owns it,
\* and in progress waits for it.
LEMMA CompletionFinds ==
  ASSUME NotifyInv, NEW r \in Recs, NEW n, NEW q, proc[r] = "complete", n = readPpn[r],
         q = pnotifyPvt[n]
  PROVE  /\ n \in Notifies /\ ppn[r] = n /\ q # None /\ q \in Pvts /\ user[q] = n
         /\ Hands(n) /\ Phase(n, q)
         /\ InProgress(q) => r \in waitList[q]
         /\ \A p \in Pvts : r \in waitList[p] => p = q
<1>1. ppn[r] = n /\ n # None
  BY DEF NotifyInv, Reading
<1>2. n \in Notifies
  BY <1>1 DEF NotifyInv, TypeOK
<1>3. q # None /\ (InProgress(q) => r \in waitList[q])
  BY <1>1 DEF NotifyInv, Owners, InProgress
<1>4. q \in Pvts /\ user[q] = n /\ Hands(n) /\ Phase(n, q)
  BY <1>2, <1>3, OwnBlock
<1>5. ASSUME NEW p \in Pvts, r \in waitList[p] PROVE p = q
  <2>1. p \notin freeList /\ user[p] = n
    BY <1>1, <1>5 DEF NotifyInv, Clean, Owners
  <2>2. QED
    BY <2>1 DEF NotifyInv, Blocks
<1>6. QED
  BY <1>1, <1>2, <1>3, <1>4, <1>5

\* what the end of the processing of r leaves, when nobody waits for r any more
LEMMA CompletionReading ==
  ASSUME NotifyInv, NEW r \in Recs, proc[r] = "complete",
         proc' = [proc EXCEPT ![r] = "idle"], readPpn' = [readPpn EXCEPT ![r] = None],
         pact' = [pact EXCEPT ![r] = FALSE], flnk' = flnk,
         \A x \in Recs : x # r => ppn'[x] = ppn[x],
         \A p \in Pvts : waitList'[p] \subseteq waitList[p] /\ r \notin waitList'[p]
  PROVE  Reading' /\ AwaitedIsActive'
<1>1. /\ proc \in [Recs -> {"idle", "enter", "target", "add", "call", "child", "test", "complete"}]
      /\ readPpn \in [Recs -> Notifies \cup {None}] /\ pact \in [Recs -> BOOLEAN]
      /\ waitList \in [Pvts -> SUBSET Recs] /\ Reading /\ AwaitedIsActive
  BY DEF NotifyInv, TypeOK
<1>2. /\ proc'[r] = "idle"
      /\ \A x \in Recs : x # r => /\ proc'[x] = proc[x] /\ readPpn'[x] = readPpn[x]
                                  /\ pact'[x] = pact[x]
  BY <1>1
<1>3. Reading'
  BY <1>1, <1>2 DEF Reading
<1>4. AwaitedIsActive'
  <2>1. ASSUME NEW p \in Pvts, NEW x \in waitList'[p]
        PROVE  pact'[x] \/ proc'[x] # "idle" \/ \E s \in Recs : flnk'[s] = x /\ proc'[s] = "call"
    <3>1. x # r /\ x \in waitList[p] /\ x \in Recs
      BY <1>1, <2>1
    <3>2. pact[x] \/ proc[x] # "idle" \/ \E s \in Recs : flnk[s] = x /\ proc[s] = "call"
      BY <1>1, <3>1 DEF AwaitedIsActive
    <3>3. \A s \in Recs : proc[s] = "call" => proc'[s] = "call"
      BY <1>2
    <3>4. QED
      BY <1>2, <3>1, <3>2, <3>3
  <2>2. QED
    BY <2>1 DEF AwaitedIsActive
<1>5. QED
  BY <1>3, <1>4

LEMMA CompleteKeeps ==
  ASSUME NotifyInv, NEW r \in Recs, NEW n, NEW q, proc[r] = "complete", n = readPpn[r],
         q = pnotifyPvt[n], InProgress(q), Complete(n, r),
         proc' = [proc EXCEPT ![r] = "idle"], readPpn' = [readPpn EXCEPT ![r] = None],
         pact' = [pact EXCEPT ![r] = FALSE], UNCHANGED procRest
  PROVE  NotifyInv'
<1>1. /\ n \in Notifies /\ ppn[r] = n /\ q # None /\ q \in Pvts /\ user[q] = n
      /\ Hands(n) /\ Phase(n, q) /\ r \in waitList[q] /\ TypeOK /\ ~failed /\ n # None
      /\ \A p \in Pvts : r \in waitList[p] => p = q
  BY CompletionFinds, NotifyAssumption DEF NotifyInv
<1>2. PICK st, rs : st = Completed(q, r) /\ rs = IF st = "RestartCallbackRequested" THEN {} ELSE {r}
  OBVIOUS
<1>3. /\ waitList' = [waitList EXCEPT ![q] = waitList[q] \ {r}]
      /\ ppn' = restartPpn(rs) /\ restartList' = restartLists(rs)
      /\ state' = StateAfter(n, q, IF st = None THEN state[q] ELSE st, rs)
      /\ callback' = Requested(Restarted(rs) \cup (IF st = None THEN {} ELSE {q}))
      /\ failed' = (failed \/ ~(r \in waitList[q] /\ restartAsserts(rs)))
  BY <1>2 DEF Complete, MustHold
<1>4. UNCHANGED <<flnk, val, pnotifyPvt, wasProcessed, got, user, cancelWait, userCallbackWait,
                  cancelEvent, userCallbackEvent, freeList, client, waitPvt, busy, done, donePvt>>
  BY DEF procRest, notifyVars, eventVars, clientVars, doneVars
<1>5. /\ rs \in SUBSET Recs /\ \A x \in rs : x = r /\ ppn[x] = n
      /\ state[q] \in Progress
  BY <1>1, <1>2 DEF InProgress, Progress
<1>6. q \notin Restarted(rs)
  BY <1>5, RestartedIs DEF Progress
<1>7. /\ waitList' \in [Pvts -> SUBSET Recs] /\ waitList'[q] = waitList[q] \ {r}
      /\ \A p \in Pvts : p # q => waitList'[p] = waitList[p]
  BY <1>1, <1>3 DEF TypeOK
<1>8. \/ st = None /\ waitList'[q] # {} /\ rs = {r} /\ state[q] = "ProcessInProgress"
      \/ /\ st = "UserCallbackRequested" /\ waitList'[q] = {} /\ rs = {r}
         /\ state[q] = "ProcessInProgress"
      \/ /\ st = "RestartCallbackRequested" /\ waitList'[q] = {} /\ rs = {}
         /\ state[q] = "RestartInProgress" /\ r = ChanRec[n]
  <2>1. waitList[q] # {r} <=> waitList'[q] # {}
    BY <1>1, <1>7
  <2>2. state[q] = "RestartInProgress" => waitList[q] = {ChanRec[n]}
    BY <1>1 DEF Phase
  <2>3. CASE waitList[q] # {r}
    <3>1. st = None /\ state[q] = "ProcessInProgress"
      BY <1>1, <1>2, <1>5, <2>2, <2>3 DEF Completed, Progress
    <3>2. st # "RestartCallbackRequested"
      BY <3>1, NotifyAssumption DEF States
    <3>3. QED
      BY <1>2, <2>1, <2>3, <3>1, <3>2
  <2>4. CASE waitList[q] = {r}
    BY <1>1, <1>2, <1>5, <2>1, <2>2, <2>4 DEF Completed, Progress
  <2>5. QED
    BY <2>3, <2>4
<1>9. /\ callback[q] = "none" /\ ~cancelEvent[q] /\ ~userCallbackEvent[q] /\ ~cancelWait[q]
      /\ ~userCallbackWait[q] /\ client[n] \notin {"waitUser", "waitCancel"} /\ busy[n]
  BY <1>1, <1>5 DEF Phase, Progress, Requesting, Hands, TypeOK
<1>10. /\ callback' \in [Pvts -> {"none", "queued", "taken"}]
       /\ callback'[q] = IF st = None THEN "none" ELSE "queued"
       /\ \A p \in Pvts : p # q =>
            callback'[p] = IF p \in Restarted(rs) THEN "queued" ELSE callback[p]
  BY <1>1, <1>3, <1>6, <1>9 DEF Requested, TypeOK
<1>11. /\ state' \in [Pvts -> States]
       /\ state'[q] = IF st = None THEN state[q] ELSE st
       /\ \A p \in Pvts : p # q =>
            state'[p] = IF p \in Restarted(rs) THEN "RestartCallbackRequested" ELSE state[p]
  <2>1. (IF st = None THEN state[q] ELSE st) \in States
    BY <1>1, <1>8 DEF TypeOK, States
  <2>2. QED
    BY <1>1, <1>3, <2>1 DEF StateAfter, TypeOK, States
<1>12. None \notin States
  BY NotifyAssumption
<1>13. Releases(n, q, rs)
  <2>1. Elsewhere(n, q)
    BY <1>4 DEF Elsewhere
  <2>2. state[q] # "WaitForRestart" /\ state'[q] # "WaitForRestart"
    BY <1>5, <1>8, <1>11 DEF Progress
  <2>3. waitList'[q] \subseteq waitList[q] \ rs
    BY <1>5, <1>7
  <2>4. ASSUME NEW x \in Recs \ rs, ppn[x] = n
        PROVE  \/ x \in waitList'[q]
               \/ /\ x = ChanRec[n] /\ callback'[q] # "none"
                  /\ state'[q] = "RestartCallbackRequested"
    <3>1. x \in waitList[q]
      BY <1>1, <1>5, <2>4 DEF NotifyInv, Owners, Progress
    <3>2. CASE x = r
      <4>1. st = "RestartCallbackRequested" /\ r = ChanRec[n] /\ st # None
        BY <1>8, <1>12, <2>4, <3>2 DEF States
      <4>2. QED
        BY <1>10, <1>11, <3>2, <4>1
    <3>3. CASE x # r
      BY <1>7, <3>1, <3>3
    <3>4. QED
      BY <3>2, <3>3
  <2>5. pnotifyPvt'[n] = q
    BY <1>4
  <2>6. QED
    BY <1>3, <1>4, <1>5, <1>7, <1>10, <1>11, <2>1, <2>2, <2>3, <2>4, <2>5 DEF Releases
<1>14. failed' = failed
  <2>1. \A x \in rs : ppn[x] # None
    BY <1>1, <1>5
  <2>2. restartAsserts(rs)
    BY <1>5, <2>1, ReleaseAsserts
  <2>3. QED
    BY <1>1, <1>3, <2>2 DEF TypeOK
<1>15. TypeOK'
  <2>1. ppn' \in [Recs -> Notifies \cup {None}] /\ restartList' \in [Recs -> Seq(Notifies)]
    BY <1>3, <1>5, ReleaseTypes
  <2>2. /\ proc' \in [Recs -> {"idle", "enter", "target", "add", "call", "child", "test", "complete"}]
        /\ readPpn' \in [Recs -> Notifies \cup {None}] /\ pact' \in [Recs -> BOOLEAN]
    BY <1>1 DEF TypeOK
  <2>3. QED
    BY <1>1, <1>4, <1>7, <1>10, <1>11, <1>14, <2>1, <2>2 DEF TypeOK
<1>16. Reading' /\ AwaitedIsActive'
  <2>1. \A x \in Recs : x # r => ppn'[x] = ppn[x]
    BY <1>3, <1>5 DEF restartPpn
  <2>2. \A p \in Pvts : waitList'[p] \subseteq waitList[p] /\ r \notin waitList'[p]
    BY <1>1, <1>7
  <2>3. flnk' = flnk
    BY <1>4
  <2>4. QED
    BY <2>1, <2>2, <2>3, CompletionReading
<1>17. Hands(n)'
  BY <1>1, <1>4, <1>5, <1>9, <1>11 DEF Hands, Progress
<1>18. Phase(n, q)'
  <2>1. done[n] = "none"
    BY <1>1, <1>5 DEF Hands, Progress
  <2>2. CASE st = None
    <3>1. /\ waitList'[q] # {} /\ state'[q] = "ProcessInProgress" /\ callback'[q] = "none"
      BY <1>8, <1>10, <1>11, <1>12, <2>2 DEF States
    <3>2. QED
      BY <1>4, <1>9, <2>1, <3>1 DEF Phase, Progress, Requesting
  <2>3. CASE st # None
    <3>1. /\ waitList'[q] = {} /\ callback'[q] = "queued"
          /\ \/ state'[q] = "UserCallbackRequested"
             \/ /\ state'[q] = "RestartCallbackRequested"
                /\ ppn'[ChanRec[n]] = n
      <4>1. rs = {} => ppn' = ppn
        BY <1>1, <1>3 DEF restartPpn, TypeOK
      <4>2. QED
        BY <1>1, <1>8, <1>10, <1>11, <2>3, <4>1
    <3>2. QED
      BY <1>4, <1>9, <2>1, <3>1 DEF Phase, Progress, Requesting
  <2>4. QED
    BY <2>2, <2>3
<1>19. QED
  <2>1. pnotifyPvt' = pnotifyPvt /\ freeList' = freeList /\ ~failed' /\ pnotifyPvt[n] = q
    BY <1>1, <1>4, <1>14
  <2>2. QED
    BY <1>1, <1>5, <1>13, <1>15, <1>16, <1>17, <1>18, <2>1, ReleaseKeeps

LEMMA dbNotifyCompletionKeeps ==
  ASSUME NotifyInv, NEW r \in Recs, dbNotifyCompletion(r)
  PROVE  NotifyInv'
<1>1. PICK n, q : n = readPpn[r] /\ q = pnotifyPvt[n]
  OBVIOUS
<1>2. /\ proc[r] = "complete" /\ proc' = [proc EXCEPT ![r] = "idle"]
      /\ readPpn' = [readPpn EXCEPT ![r] = None] /\ pact' = [pact EXCEPT ![r] = FALSE]
      /\ UNCHANGED procRest
  BY DEF dbNotifyCompletion, At
<1>3. /\ q # None /\ q \in Pvts /\ Phase(n, q) /\ TypeOK
      /\ \A p \in Pvts : r \in waitList[p] => p = q
  BY <1>1, <1>2, CompletionFinds DEF NotifyInv
<1>4. CASE InProgress(q) /\ Complete(n, r)
  BY <1>1, <1>2, <1>4, CompleteKeeps
<1>5. CASE ~InProgress(q) /\ UNCHANGED <<ppn, restartList, state, waitList, callback, failed>>
  <2>1. UNCHANGED frameRest
    BY <1>2, <1>5 DEF frameRest
  <2>2. /\ proc' \in [Recs -> {"idle", "enter", "target", "add", "call", "child", "test", "complete"}]
        /\ readPpn' \in [Recs -> Notifies \cup {None}] /\ pact' \in [Recs -> BOOLEAN]
    BY <1>2, <1>3 DEF TypeOK
  <2>3. waitList[q] = {}
    BY <1>3, <1>5 DEF Phase, InProgress, Progress
  <2>4. \A p \in Pvts : waitList'[p] \subseteq waitList[p] /\ r \notin waitList'[p]
    BY <1>3, <1>5, <2>3
  <2>5. flnk' = flnk /\ \A x \in Recs : x # r => ppn'[x] = ppn[x]
    BY <1>2, <1>5 DEF procRest
  <2>6. Reading' /\ AwaitedIsActive'
    BY <1>2, <2>4, <2>5, CompletionReading
  <2>7. QED
    BY <2>1, <2>2, <2>6, ProcessingFrame, ProcessingTypes DEF NotifyInv
<1>6. QED
  BY <1>1, <1>3, <1>4, <1>5 DEF dbNotifyCompletion

-----------------------------------------------------------------------------
(* The theorems.  A cancel and a change of the links are not combined: see       *)
(* Grouped.                                                                      *)

LEMMA NotifyStep ==
  ASSUME NotifyInv, ~({"cancel", "relink"} \subseteq Ops), [Next]_vars
  PROVE  NotifyInv'
<1>1. ASSUME NEW r \in Recs,
             Scan(r) \/ AsyncDone(r) \/ dbProcess(r) \/ \E to \in Recs \cup {None} : Relink(r, to)
      PROVE  NotifyInv'
  <2>1. CASE \/ Scan(r) \/ AsyncDone(r) \/ ProcessActive(r) \/ ProcessDisabled(r) \/ Process(r)
             \/ Target(r) \/ Call(r) \/ Child(r) \/ TestPpn(r)
    BY <2>1, ProcessingKeeps
  <2>2. CASE dbNotifyAdd(r)
    BY <2>2, dbNotifyAddKeeps
  <2>3. CASE dbNotifyCompletion(r)
    BY <2>3, dbNotifyCompletionKeeps
  <2>4. CASE \E to \in Recs \cup {None} : Relink(r, to)
    BY <2>4, RelinkKeeps
  <2>5. QED
    BY <1>1, <2>1, <2>2, <2>3, <2>4 DEF dbProcess
<1>2. ASSUME NEW q \in Pvts, TakeCallback(q) \/ notifyCallback(q)
      PROVE  NotifyInv'
  <2>1. CASE TakeCallback(q)
    BY <2>1, TakeCallbackKeeps
  <2>2. CASE CallbackCanceled(q)
    BY <2>2, CallbackCanceledKeeps
  <2>3. CASE CallbackRestart(q)
    BY <2>3, CallbackRestartKeeps
  <2>4. CASE CallbackDone(q)
    BY <2>4, CallbackDoneKeeps
  <2>5. QED
    BY <1>2, <2>1, <2>2, <2>3, <2>4 DEF notifyCallback
<1>3. ASSUME NEW n \in Notifies,
             \/ dbProcessNotify(n) \/ ProcessNotifyWait(n) \/ ProcessNotifyAgain(n)
             \/ doneCallback(n) \/ doneCallbackAgain(n) \/ DoneTail(n)
             \/ dbNotifyCancel(n) \/ CancelWoken(n)
      PROVE  NotifyInv'
  <2>1. CASE dbProcessNotify(n)
    BY <2>1, dbProcessNotifyKeeps
  <2>2. CASE ProcessNotifyWait(n)
    BY <2>2, ProcessNotifyWaitKeeps
  <2>3. CASE ProcessNotifyAgain(n)
    BY <2>3, ProcessNotifyAgainKeeps
  <2>4. CASE doneCallback(n) \/ doneCallbackAgain(n)
    BY <2>4, doneCallbackKeeps
  <2>5. CASE DoneTail(n)
    BY <2>5, DoneTailKeeps
  <2>6. CASE CancelNothing(n) \/ CancelWait(n)
    BY <2>6, CancelWaitKeeps
  <2>7. CASE CancelWaiting(n)
    BY <2>7, CancelWaitingKeeps
  <2>8. CASE CancelInProgress(n)
    BY <2>8, CancelInProgressKeeps
  <2>9. CASE CancelWoken(n)
    BY <2>9, CancelWokenKeeps
  <2>10. QED
    BY <1>3, <2>1, <2>2, <2>3, <2>4, <2>5, <2>6, <2>7, <2>8, <2>9 DEF dbNotifyCancel
<1>4. ASSUME UNCHANGED vars PROVE NotifyInv'
  <2>1. UNCHANGED frameRest /\ UNCHANGED <<pact, procVars>>
    BY <1>4 DEF vars, frameRest, procRest, recVars, pvtVars, procVars
  <2>2. TypeOK' /\ Reading' /\ AwaitedIsActive'
    <3>1. /\ pact' \in [Recs -> BOOLEAN]
          /\ proc' \in [Recs -> {"idle", "enter", "target", "add", "call", "child", "test", "complete"}]
          /\ readPpn' \in [Recs -> Notifies \cup {None}]
      BY <2>1 DEF NotifyInv, TypeOK, procVars
    <3>2. QED
      BY <2>1, <3>1, ProcessingTypes
         DEF NotifyInv, Reading, AwaitedIsActive, frameRest, procRest, procVars
  <2>3. QED
    BY <2>1, <2>2, ProcessingFrame DEF NotifyInv
<1>5. QED
  BY <1>1, <1>2, <1>3, <1>4 DEF Next

\* The part of the inductive invariant the run's property names.
LEMMA NotifyInvOwnership == NotifyInv => Ownership
<1> SUFFICES ASSUME NotifyInv PROVE Ownership
  OBVIOUS
<1>1. \A r \in Recs : ppn[r] # None => ppn[r] \in Notifies
  BY DEF NotifyInv, TypeOK
<1>2. \A r \in Recs : restartList[r] # <<>> => ppn[r] # None
  BY DEF NotifyInv, Waiters
<1>3. QED
  BY <1>1, <1>2 DEF NotifyInv, Owners, Ownership

LEMMA NotifyInvOneSide == NotifyInv => OneSideCleansUp
<1> SUFFICES ASSUME NotifyInv PROVE OneSideCleansUp
  OBVIOUS
<1>1. DoneIsExpected
  BY DEF NotifyInv, Phases, Hands, DoneIsExpected
<1>2. ASSUME NEW q \in freeList, NEW n \in Notifies
      PROVE  q # pnotifyPvt[n] /\ q # waitPvt[n] /\ q # donePvt[n]
  <2>1. q \in Pvts /\ q # None
    BY NotifyAssumption DEF NotifyInv, TypeOK
  <2>2. q # pnotifyPvt[n]
    BY <2>1 DEF NotifyInv, Blocks
  <2>3. Hands(n)
    BY DEF NotifyInv, Phases
  <2>4. waitPvt[n] \in {None, pnotifyPvt[n]} /\ donePvt[n] \in {None, pnotifyPvt[n]}
    BY <2>3 DEF Hands
  <2>5. QED
    BY <2>1, <2>2, <2>4
<1>3. FreeIsUnused
  BY <1>2 DEF NotifyInv, Clean, FreeIsUnused
<1>4. QED
  BY <1>1, <1>3 DEF NotifyInv, NoAssertFails, OneSideCleansUp

\* The invariant holds in every reachable state, whatever records, links and requests
\* there are, as long as links are not changed while requests are cancelled: a cancel
\* holds the lock of the notify's record only, and keeps dbNotifyCompletion off the
\* other records of the group as long as they are of one lock set.
THEOREM NotifyInvariant ==
  ASSUME ~({"cancel", "relink"} \subseteq Ops)
  PROVE  Spec => []NotifyInv
<1>1. NotifyInv /\ [Next]_vars => NotifyInv'
  BY NotifyStep
<1>2. QED
  BY <1>1, NotifyInit, PTL DEF Spec

\* The fields of records, processNotify and notifyPvt have the values dbNotify.c gives
\* them; a restart list is one of notifies.
THEOREM NotifyTyped ==
  ASSUME ~({"cancel", "relink"} \subseteq Ops)
  PROVE  Spec => []TypeOK
<1>1. NotifyInv => TypeOK
  BY DEF NotifyInv
<1>2. QED
  BY <1>1, NotifyInvariant, PTL

\* No assert of dbNotify.c fails and no null or foreign notifyPvt is used, however
\* requests, restarts, completions, callbacks and either cancels or changes of links
\* interleave.
THEOREM NotifyAssertsHold ==
  ASSUME ~({"cancel", "relink"} \subseteq Ops)
  PROVE  Spec => []NoAssertFails
<1>1. NotifyInv => NoAssertFails
  BY DEF NotifyInv, NoAssertFails
<1>2. QED
  BY <1>1, NotifyInvariant, PTL

\* A record's ppn names the notify that waits for it or holds it for its restart, a wait
\* list has only records of its notify, and whoever is on a restartList waits for a
\* record that restartCheck will give on.
THEOREM NotifyOwnership ==
  ASSUME ~({"cancel", "relink"} \subseteq Ops)
  PROVE  Spec => []Ownership
BY NotifyInvOwnership, NotifyInvariant, PTL

\* Every record on a waitList is active, being processed, or about to be by the record
\* whose dbNotifyAdd put it there: dbNotifyCompletion will be called for it.
THEOREM NotifyAwaited ==
  ASSUME ~({"cancel", "relink"} \subseteq Ops)
  PROVE  Spec => []AwaitedIsActive
<1>1. NotifyInv => AwaitedIsActive
  BY DEF NotifyInv
<1>2. QED
  BY <1>1, NotifyInvariant, PTL

\* Of callDone, dbNotifyCancel and a dbProcessNotify that waits, one cleans up: a block
\* on the free list is in nobody's hands and its events are clear, and doneCallback is
\* called only for a request that is outstanding.
THEOREM NotifyOneSide ==
  ASSUME ~({"cancel", "relink"} \subseteq Ops)
  PROVE  Spec => []OneSideCleansUp
BY NotifyInvOneSide, NotifyInvariant, PTL

=============================================================================
