------------------------------ MODULE DbNotify ------------------------------
(***************************************************************************)
(* Process notify, dbNotify.c: a client puts to or processes a record and  *)
(* is called back when every record that was processed in consequence,     *)
(* asynchronous ones included, has completed.                              *)
(*                                                                         *)
(* Steps under dbScanLock and pnotifyGlobal->lock are atomic.  dbProcess   *)
(* holds only the lock of its lock set: proc is where the thread that is   *)
(* processing a record is, one frame per record of a chain of forward      *)
(* links.  doneCallback runs without a lock.  Requests for DBF_LINK fields *)
(* are over before dbProcessNotify returns and change nothing here, and    *)
(* the PUTF and RPRO flags only cause more processing.                     *)
(***************************************************************************)
EXTENDS Integers, SequencesExt

CONSTANTS
  Recs,          \* records
  Async,         \* records with asynchronous device support
  Passive,       \* records whose SCAN is Passive
  Flnk,          \* forward link of each record at the start, or None
  Notifies,      \* processNotify blocks, each with a client
  ChanRec,       \* the record of each one's channel
  requestType,   \* "process", "putProcess", "processGet", "putProcessGet"
  Pvts,          \* notifyPvt blocks
  None,
  Ops            \* optional: "scan", "disable", "cancel", "relink", "again"

\* notifyPvt::state
States == {"NotActive", "WaitForRestart", "RestartCallbackRequested", "RestartInProgress",
           "ProcessInProgress", "UserCallbackRequested", "UserCallbackActive"}

ASSUME NotifyAssumption ==
  /\ Async \subseteq Recs /\ Passive \subseteq Recs
  /\ Flnk \in [Recs -> Recs \cup {None}]
  /\ None \notin Recs \cup Notifies \cup Pvts \cup States
  /\ ChanRec \in [Notifies -> Recs]
  /\ requestType \in [Notifies -> {"process", "putProcess", "processGet", "putProcessGet"}]
  /\ IsFiniteSet(Pvts) /\ Cardinality(Pvts) >= Cardinality(Notifies)
  /\ Ops \subseteq {"scan", "disable", "cancel", "relink", "again"}

VARIABLES
  \* dbCommon: PACT, ppn, ppnr->restartList, FLNK; val is the notify that put last
  pact, ppn, restartList, flnk, val,
  \* the thread processing a record: where it is, and the ppn it has read
  proc, readPpn,
  \* processNotify: pnotifyPvt, wasProcessed, the value its getCallback got
  pnotifyPvt, wasProcessed, got,
  \* notifyPvt
  state, user, waitList, cancelWait, userCallbackWait, cancelEvent, userCallbackEvent,
  \* blocks on pnotifyGlobal->freeList or not allocated yet
  freeList,
  \* the CALLBACK of a block: "none", "queued" or "taken" by a worker
  callback,
  \* clients: what the thread is doing, the block it waits on, request outstanding
  client, waitPvt, busy,
  \* callDone in progress for a notify: position and block
  done, donePvt,
  \* an assert has failed or a null pnotifyPvt was used
  failed

recVars    == <<pact, ppn, restartList, flnk, val>>
procVars   == <<proc, readPpn>>
notifyVars == <<pnotifyPvt, wasProcessed, got>>
pvtVars    == <<state, user, waitList, cancelWait, userCallbackWait>>
eventVars  == <<cancelEvent, userCallbackEvent>>
clientVars == <<client, waitPvt, busy>>
doneVars   == <<done, donePvt>>
vars == <<recVars, procVars, notifyVars, pvtVars, eventVars, freeList, callback,
          clientVars, doneVars, failed>>

TypeOK ==
  /\ pact \in [Recs -> BOOLEAN] /\ ppn \in [Recs -> Notifies \cup {None}]
  /\ restartList \in [Recs -> Seq(Notifies)] /\ flnk \in [Recs -> Recs \cup {None}]
  /\ val \in [Recs -> Notifies \cup {None}]
  /\ proc \in [Recs -> {"idle", "enter", "target", "add", "call", "child", "test", "complete"}]
  /\ readPpn \in [Recs -> Notifies \cup {None}]
  /\ pnotifyPvt \in [Notifies -> Pvts \cup {None}] /\ wasProcessed \in [Notifies -> BOOLEAN]
  /\ got \in [Notifies -> Notifies \cup {None}]
  /\ state \in [Pvts -> States] /\ user \in [Pvts -> Notifies \cup {None}]
  /\ waitList \in [Pvts -> SUBSET Recs]
  /\ cancelWait \in [Pvts -> BOOLEAN] /\ userCallbackWait \in [Pvts -> BOOLEAN]
  /\ cancelEvent \in [Pvts -> BOOLEAN] /\ userCallbackEvent \in [Pvts -> BOOLEAN]
  /\ freeList \subseteq Pvts /\ callback \in [Pvts -> {"none", "queued", "taken"}]
  /\ client \in [Notifies -> {"idle", "inline", "waitUser", "waitCancel"}]
  /\ waitPvt \in [Notifies -> Pvts \cup {None}] /\ busy \in [Notifies -> BOOLEAN]
  /\ done \in [Notifies -> {"none", "call", "again", "tail"}]
  /\ donePvt \in [Notifies -> Pvts \cup {None}]
  /\ failed \in BOOLEAN

Init ==
  /\ pact = [r \in Recs |-> FALSE] /\ ppn = [r \in Recs |-> None]
  /\ restartList = [r \in Recs |-> <<>>] /\ flnk = Flnk /\ val = [r \in Recs |-> None]
  /\ proc = [r \in Recs |-> "idle"] /\ readPpn = [r \in Recs |-> None]
  /\ pnotifyPvt = [n \in Notifies |-> None] /\ wasProcessed = [n \in Notifies |-> FALSE]
  /\ got = [n \in Notifies |-> None]
  /\ state = [q \in Pvts |-> "NotActive"] /\ user = [q \in Pvts |-> None]
  /\ waitList = [q \in Pvts |-> {}]
  /\ cancelWait = [q \in Pvts |-> FALSE] /\ userCallbackWait = [q \in Pvts |-> FALSE]
  /\ cancelEvent = [q \in Pvts |-> FALSE] /\ userCallbackEvent = [q \in Pvts |-> FALSE]
  /\ freeList = Pvts /\ callback = [q \in Pvts |-> "none"]
  /\ client = [n \in Notifies |-> "idle"] /\ waitPvt = [n \in Notifies |-> None]
  /\ busy = [n \in Notifies |-> FALSE]
  /\ done = [n \in Notifies |-> "none"] /\ donePvt = [n \in Notifies |-> None]
  /\ failed = FALSE

-----------------------------------------------------------------------------
(* Locks and helpers *)

\* a set of records no link leaves
Closed(S) == \A r \in Recs : flnk[r] # None => (r \in S <=> flnk[r] \in S)

\* the records that share a lock with r: those linked with it, directly or not
LockSet(r) == {s \in Recs : \A S \in SUBSET Recs : r \in S /\ Closed(S) => s \in S}

\* dbScanLock(r) can be taken: nobody is processing a record of the lock set.
Lockable(r) == \A s \in LockSet(r) : proc[s] = "idle"

MustHold(c) == failed' = (failed \/ ~c)

wantsPut(n) == requestType[n] \in {"putProcess", "putProcessGet"}
wantsGet(n) == requestType[n] \in {"processGet", "putProcessGet"}

\* restartCheck: the record goes to the first notify waiting for it.  Of a set of
\* records: no notify waits for two.
NextOwner(r)  == IF restartList[r] = <<>> THEN None ELSE Head(restartList[r])
Restarted(rs) == {pnotifyPvt[NextOwner(r)] : r \in {x \in rs : restartList[x] # <<>>}}

\* Mutant: the record is given to the block instead of the notify; C accepts both.
restartPpn_Pvt(rs) ==
  [r \in Recs |-> IF r \notin rs THEN ppn[r]
                  ELSE IF NextOwner(r) = None THEN None ELSE pnotifyPvt[NextOwner(r)]]

restartPpn(rs)  == [r \in Recs |-> IF r \in rs THEN NextOwner(r) ELSE ppn[r]]
\* Mutant: the new owner stays on the list.
restartLists_Keep(rs) == restartList

restartLists(rs) ==
  [r \in Recs |-> IF r \in rs /\ restartList[r] # <<>> THEN Tail(restartList[r])
                  ELSE restartList[r]]
restartAsserts(rs) ==
  /\ \A r \in rs : ppn[r] # None
  /\ \A q \in Restarted(rs) : q \in Pvts /\ state[q] = "WaitForRestart"

\* The callbacks of the blocks qs are requested.
Requested(qs) == [q \in Pvts |-> IF q \in qs THEN "queued" ELSE callback[q]]

\* and the callback of q is not, or no longer, in the hands of a worker
Handled(q, rs) == callback' = [Requested(Restarted(rs)) EXCEPT ![q] = "none"]

\* state with block q of n set to st and the restarted blocks of rs set; a block n had
\* before has been cleaned up
StateAfter(n, q, st, rs) ==
  [p \in Pvts |-> IF p = q THEN st
                  ELSE IF p = pnotifyPvt[n] THEN "NotActive"
                  ELSE IF p \in Restarted(rs) THEN "RestartCallbackRequested" ELSE state[p]]

-----------------------------------------------------------------------------
(* processNotifyCommon, for a notify n with block q.  restart: the state is       *)
(* notifyRestartCallbackRequested, n owns the record already.  ok: the asserts of *)
(* the caller.                                                                    *)

\* Another notify owns the record.
WaitForOwner(n, q, restart, ok) ==
  LET r == ChanRec[n]
  IN /\ ppn[r] # None /\ ~restart
     /\ state' = StateAfter(n, q, "WaitForRestart", {})
     /\ restartList' = [restartList EXCEPT ![r] = Append(@, n)]
     /\ waitList' = [waitList EXCEPT ![q] = {}]
     /\ MustHold(ok /\ \A i \in 1 .. Len(restartList[r]) : restartList[r][i] # n)
     /\ Handled(q, {})
     /\ UNCHANGED <<pact, ppn, flnk, val, procVars, got, doneVars>>

Claims(n, restart) == ppn[ChanRec[n]] = None \/ restart

\* nobody waits for the record's completion yet: ellSafeAdd of its only waitNode
NotAwaited(r) == \A p \in Pvts : r \notin waitList[p]

\* The record is being processed for somebody else: wait for that first.
WaitForPact(n, q, restart, ok) ==
  LET r == ChanRec[n]
  IN /\ Claims(n, restart) /\ pact[r]
     /\ ppn' = [ppn EXCEPT ![r] = n]
     /\ waitList' = [waitList EXCEPT ![q] = {r}]
     /\ state' = StateAfter(n, q, "RestartInProgress", {})
     /\ MustHold(ok /\ NotAwaited(r) /\ ppn[r] \in {None, n})
     /\ Handled(q, {})
     /\ UNCHANGED <<pact, restartList, flnk, val, procVars, got, doneVars>>

\* what putCallback may return; it puts nothing if DISP is set
PutResults(n) ==
  IF ~wantsPut(n) THEN {FALSE} ELSE IF "disable" \in Ops THEN BOOLEAN ELSE {TRUE}

\* The channel's field is taken to be process passive.
doProcess(n, didPut) ==
  ChanRec[n] \in Passive /\ (didPut \/ requestType[n] = "processGet")

Put(n, didPut) == val' = IF didPut THEN [val EXCEPT ![ChanRec[n]] = n] ELSE val

PutAndProcess(n, q, restart, ok) ==
  LET r == ChanRec[n]
  IN /\ Claims(n, restart) /\ ~pact[r]
     /\ \E didPut \in PutResults(n) : doProcess(n, didPut) /\ Put(n, didPut)
     /\ ppn' = [ppn EXCEPT ![r] = n]
     /\ waitList' = [waitList EXCEPT ![q] = {r}]
     /\ state' = StateAfter(n, q, "ProcessInProgress", {})
     /\ proc' = [proc EXCEPT ![r] = "enter"]
     /\ MustHold(ok /\ NotAwaited(r) /\ ppn[r] \in {None, n})
     /\ Handled(q, {})
     /\ UNCHANGED <<pact, restartList, flnk, readPpn, got, doneVars>>

\* callDone up to dbScanUnlock: the getCallback is made, doneCallback is next.
callDone(n, q) ==
  /\ got' = IF wantsGet(n) THEN [got EXCEPT ![n] = val'[ChanRec[n]]] ELSE got
  /\ done' = [done EXCEPT ![n] = "call"] /\ donePvt' = [donePvt EXCEPT ![n] = q]

\* Nothing to process.
PutOnly(n, q, restart, ok) ==
  LET r  == ChanRec[n]
      rs == IF restart THEN {r} ELSE {}
  IN /\ Claims(n, restart) /\ ~pact[r]
     /\ \E didPut \in PutResults(n) : ~doProcess(n, didPut) /\ Put(n, didPut)
     /\ ppn' = restartPpn(rs) /\ restartList' = restartLists(rs)
     /\ state' = StateAfter(n, q, "UserCallbackActive", rs)
     /\ Handled(q, rs)
     /\ waitList' = [waitList EXCEPT ![q] = {}]
     /\ callDone(n, q)
     /\ MustHold(ok /\ restartAsserts(rs) /\ ppn[r] \in {None, n} /\ ppn'[r] # n)
     /\ UNCHANGED <<pact, flnk, procVars>>

processNotifyCommon(n, q, restart, ok) ==
  \/ PutAndProcess(n, q, restart, ok) /\ wasProcessed' = [wasProcessed EXCEPT ![n] = TRUE]
  \/ /\ \/ WaitForOwner(n, q, restart, ok) \/ WaitForPact(n, q, restart, ok)
        \/ PutOnly(n, q, restart, ok)
     /\ wasProcessed' = [wasProcessed EXCEPT ![n] = FALSE]

-----------------------------------------------------------------------------
(* dbProcessNotify *)

\* notifyInit with a block q of the free list, and the request
Begin(n, q, fl, ok) ==
  /\ q \in fl
  /\ freeList' = fl \ {q}
  /\ pnotifyPvt' = [pnotifyPvt EXCEPT ![n] = q] /\ user' = [user EXCEPT ![q] = n]
  /\ cancelWait' = [cancelWait EXCEPT ![q] = FALSE]
  /\ userCallbackWait' = [userCallbackWait EXCEPT ![q] = FALSE]
  /\ processNotifyCommon(n, q, FALSE, ok)
  /\ client' = [client EXCEPT ![n] = IF done'[n] = "call" THEN "inline" ELSE "idle"]

\* The client's first request, or one after the last one was cleaned up.
dbProcessNotify(n) ==
  /\ client[n] = "idle" /\ ~busy[n] /\ Lockable(ChanRec[n])
  /\ busy' = [busy EXCEPT ![n] = TRUE]
  /\ pnotifyPvt[n] = None
  /\ \E q \in Pvts : Begin(n, q, freeList, TRUE)
  /\ UNCHANGED <<eventVars, waitPvt>>

\* A request while callDone of the last one has not returned waits for it.
ProcessNotifyWait(n) ==
  LET q == pnotifyPvt[n]
  IN /\ client[n] = "idle" /\ ~busy[n] /\ Lockable(ChanRec[n])
     /\ q # None
     /\ busy' = [busy EXCEPT ![n] = TRUE]
     /\ MustHold(state[q] = "UserCallbackActive")
     /\ userCallbackWait' = [userCallbackWait EXCEPT ![q] = TRUE]
     /\ client' = [client EXCEPT ![n] = "waitUser"]
     /\ waitPvt' = [waitPvt EXCEPT ![n] = q]
     /\ UNCHANGED <<recVars, procVars, notifyVars, state, user, waitList, cancelWait,
                    eventVars, freeList, callback, doneVars>>

\* epicsEventWait(userCallbackEvent), notifyCleanup, notifyInit
ProcessNotifyAgain(n) ==
  LET w == waitPvt[n]
  IN /\ client[n] = "waitUser" /\ userCallbackEvent[w] /\ Lockable(ChanRec[n])
     /\ userCallbackEvent' = [userCallbackEvent EXCEPT ![w] = FALSE]
     /\ waitPvt' = [waitPvt EXCEPT ![n] = None]
     /\ \E q \in Pvts : Begin(n, q, freeList \cup {pnotifyPvt[n]}, pnotifyPvt[n] # None)
     /\ UNCHANGED <<cancelEvent, busy>>

-----------------------------------------------------------------------------
(* Callbacks *)

\* A worker takes the callback off its ring and reads ppn->pnotifyPvt without a lock; it
\* is the block the callback is part of, or the assert on it fails later.
TakeCallback(q) ==
  /\ callback[q] = "queued"
  /\ callback' = [callback EXCEPT ![q] = "taken"]
  /\ MustHold(pnotifyPvt[user[q]] = q)
  /\ UNCHANGED <<recVars, procVars, notifyVars, pvtVars, eventVars, freeList, clientVars,
                 doneVars>>

\* the asserts of notifyCallback
CallbackAsserts(q) ==
  /\ state[q] \in {"RestartCallbackRequested", "UserCallbackRequested"}
  /\ waitList[q] = {}

callbackRest == <<flnk, pnotifyPvt, user, cancelWait, userCallbackWait, userCallbackEvent,
                  freeList, clientVars>>

Taken(q) == callback[q] = "taken" /\ Lockable(ChanRec[user[q]])

\* Mutant: a callback somebody waits for is put off instead.
CallbackCanceled_Retry(q) ==
  /\ Taken(q) /\ cancelWait[q]
  /\ callback' = Requested({q})
  /\ UNCHANGED <<pact, ppn, restartList, val, procVars, wasProcessed, got, state, waitList,
                 cancelEvent, doneVars, failed, callbackRest>>

\* A thread in dbNotifyCancel waits: the record goes to the next one.
CallbackCanceled(q) ==
  LET r  == ChanRec[user[q]]
      rs == IF state[q] = "RestartCallbackRequested" THEN {r} ELSE {}
  IN /\ Taken(q) /\ cancelWait[q]
     /\ ppn' = restartPpn(rs) /\ restartList' = restartLists(rs)
     /\ state' = StateAfter(user[q], q, state[q], rs)
     /\ Handled(q, rs)
     /\ cancelEvent' = [cancelEvent EXCEPT ![q] = TRUE]
     /\ MustHold(CallbackAsserts(q) /\ restartAsserts(rs))
     /\ UNCHANGED <<pact, val, procVars, wasProcessed, got, waitList, doneVars, callbackRest>>

CallbackRestart(q) ==
  /\ Taken(q) /\ ~cancelWait[q] /\ state[q] = "RestartCallbackRequested"
  /\ processNotifyCommon(user[q], q, TRUE, CallbackAsserts(q))
  /\ UNCHANGED <<cancelEvent, callbackRest>>

\* "All done. Clean up and call userCallback"
CallbackDone(q) ==
  /\ Taken(q) /\ ~cancelWait[q] /\ state[q] # "RestartCallbackRequested"
  /\ state' = [state EXCEPT ![q] = "UserCallbackActive"]
  /\ Handled(q, {}) /\ UNCHANGED val
  /\ callDone(user[q], q)
  /\ MustHold(CallbackAsserts(q) /\ ppn[ChanRec[user[q]]] # user[q])
  /\ UNCHANGED <<pact, ppn, restartList, procVars, wasProcessed, waitList, cancelEvent,
                 callbackRest>>

notifyCallback(q) == CallbackCanceled(q) \/ CallbackRestart(q) \/ CallbackDone(q)

\* doneCallback of the client is called and, unless it makes a request, returns.
doneCallback(n) ==
  /\ done[n] = "call"
  /\ done' = [done EXCEPT ![n] = "tail"]
  /\ busy' = [busy EXCEPT ![n] = FALSE]
  /\ UNCHANGED <<recVars, procVars, notifyVars, pvtVars, eventVars, freeList, callback,
                 client, waitPvt, donePvt, failed>>

\* It calls dbProcessNotify, which waits for userCallbackEvent.
doneCallbackAgain(n) ==
  LET q == pnotifyPvt[n]
  IN /\ "again" \in Ops /\ done[n] = "call" /\ Lockable(ChanRec[n])
     /\ done' = [done EXCEPT ![n] = "again"]
     /\ userCallbackWait' = [userCallbackWait EXCEPT ![q] = TRUE]
     /\ MustHold(state[q] = "UserCallbackActive")
     /\ UNCHANGED <<recVars, procVars, notifyVars, state, user, waitList, cancelWait,
                    eventVars, freeList, callback, clientVars, donePvt>>

\* Mutant: the block is freed whoever waits for it.
DoneTail_NoWait(n) ==
  LET q == donePvt[n]
  IN /\ done[n] = "tail"
     /\ done' = [done EXCEPT ![n] = "none"] /\ donePvt' = [donePvt EXCEPT ![n] = None]
     /\ client' = [client EXCEPT ![n] = IF @ = "inline" THEN "idle" ELSE @]
     /\ state' = [state EXCEPT ![q] = "NotActive"]
     /\ freeList' = freeList \cup {q}
     /\ pnotifyPvt' = [pnotifyPvt EXCEPT ![n] = None]
     /\ UNCHANGED <<recVars, procVars, wasProcessed, got, user, waitList, cancelWait,
                    userCallbackWait, eventVars, callback, waitPvt, busy, failed>>

\* callDone after doneCallback, under pnotifyGlobal->lock
DoneTail(n) ==
  LET q    == donePvt[n]
      both == cancelWait[q] /\ userCallbackWait[q]
      end  == both \/ (~cancelWait[q] /\ ~userCallbackWait[q])
  IN /\ done[n] = "tail"
     /\ done' = [done EXCEPT ![n] = "none"] /\ donePvt' = [donePvt EXCEPT ![n] = None]
     /\ client' = [client EXCEPT ![n] = IF @ = "inline" THEN "idle" ELSE @]
     /\ cancelWait' = [cancelWait EXCEPT ![q] = FALSE]
     /\ userCallbackWait' = [userCallbackWait EXCEPT ![q] = FALSE]
     /\ IF end
        THEN /\ state' = [state EXCEPT ![pnotifyPvt[n]] = "NotActive"]
             /\ freeList' = freeList \cup {pnotifyPvt[n]}
             /\ pnotifyPvt' = [pnotifyPvt EXCEPT ![n] = None]
             /\ MustHold(pnotifyPvt[n] # None)
             /\ UNCHANGED eventVars
        ELSE /\ cancelEvent' = [cancelEvent EXCEPT ![q] = @ \/ cancelWait[q]]
             /\ userCallbackEvent' = [userCallbackEvent EXCEPT ![q] = @ \/ ~cancelWait[q]]
             /\ UNCHANGED <<state, freeList, pnotifyPvt, failed>>
     /\ UNCHANGED <<recVars, procVars, wasProcessed, got, user, waitList, callback, waitPvt,
                    busy>>

-----------------------------------------------------------------------------
(* dbNotifyCancel *)

cancelRest == <<pact, flnk, val, procVars, wasProcessed, got, user, userCallbackWait,
                doneVars>>

\* The client's thread cancels, whether or not a request is outstanding.
CancelBegin(n) == "cancel" \in Ops /\ client[n] = "idle" /\ Lockable(ChanRec[n])

CancelNothing(n) ==
  /\ CancelBegin(n) /\ pnotifyPvt[n] = None
  /\ busy' = [busy EXCEPT ![n] = FALSE]
  /\ UNCHANGED <<ppn, restartList, pnotifyPvt, state, waitList, cancelWait, eventVars,
                 freeList, callback, client, waitPvt, failed, cancelRest>>

\* The callback is scheduled or active: wait for it.
CancelWait(n) ==
  LET q == pnotifyPvt[n]
  IN /\ CancelBegin(n) /\ q # None
     /\ state[q] \in {"UserCallbackRequested", "RestartCallbackRequested",
                      "UserCallbackActive"}
     /\ cancelWait' = [cancelWait EXCEPT ![q] = TRUE]
     /\ client' = [client EXCEPT ![n] = "waitCancel"]
     /\ waitPvt' = [waitPvt EXCEPT ![n] = q]
     /\ UNCHANGED <<ppn, restartList, pnotifyPvt, state, waitList, eventVars, freeList,
                    callback, busy, failed, cancelRest>>

\* notifyCleanup of n, and dbNotifyCancel returns
CancelReturns(n) ==
  /\ freeList' = freeList \cup {pnotifyPvt[n]}
  /\ pnotifyPvt' = [pnotifyPvt EXCEPT ![n] = None]
  /\ busy' = [busy EXCEPT ![n] = FALSE]

CancelWoken(n) ==
  LET q == waitPvt[n]
  IN /\ client[n] = "waitCancel" /\ cancelEvent[q]
     /\ cancelEvent' = [cancelEvent EXCEPT ![q] = FALSE]
     /\ state' = [state EXCEPT ![pnotifyPvt[n]] = "NotActive"]
     /\ client' = [client EXCEPT ![n] = "idle"] /\ waitPvt' = [waitPvt EXCEPT ![n] = None]
     /\ CancelReturns(n)
     /\ MustHold(pnotifyPvt[n] # None)
     /\ UNCHANGED <<ppn, restartList, waitList, cancelWait, userCallbackEvent, callback,
                    cancelRest>>

CancelWaiting(n) ==
  LET q == pnotifyPvt[n]
      r == ChanRec[n]
  IN /\ CancelBegin(n) /\ q # None /\ state[q] = "WaitForRestart"
     /\ restartList' = [restartList EXCEPT ![r] = RemoveFirst(@, n)]
     /\ state' = [state EXCEPT ![q] = "NotActive"]
     /\ CancelReturns(n)
     /\ MustHold(/\ ppn[r] \notin {None, n}
               /\ \E i \in 1 .. Len(restartList[r]) : restartList[r][i] = n)
     /\ UNCHANGED <<ppn, waitList, cancelWait, eventVars, callback, client, waitPvt,
                    cancelRest>>

\* Every record it waits for goes to the next one.
CancelInProgress(n) ==
  LET q  == pnotifyPvt[n]
      r  == ChanRec[n]
      rs == waitList[q] \cup (IF ppn[r] = n THEN {r} ELSE {})
  IN /\ CancelBegin(n) /\ q # None
     /\ state[q] \in {"RestartInProgress", "ProcessInProgress"}
     /\ waitList' = [waitList EXCEPT ![q] = {}]
     /\ ppn' = restartPpn(rs) /\ restartList' = restartLists(rs)
     /\ state' = StateAfter(n, q, "NotActive", rs)
     /\ callback' = Requested(Restarted(rs))
     /\ CancelReturns(n)
     /\ MustHold(restartAsserts(rs))
     /\ UNCHANGED <<cancelWait, eventVars, client, waitPvt, cancelRest>>

dbNotifyCancel(n) ==
  CancelNothing(n) \/ CancelWait(n) \/ CancelWaiting(n) \/ CancelInProgress(n)

-----------------------------------------------------------------------------
(* Record processing, under the lock of the lock set only *)

procRest == <<flnk, val, notifyVars, user, cancelWait, userCallbackWait, eventVars, freeList,
              clientVars, doneVars>>
\* the part of the state a step of a thread outside dbNotify.c does not touch
frameRest == <<ppn, restartList, state, waitList, callback, failed, procRest>>

At(r, pc, to) == proc[r] = pc /\ proc' = [proc EXCEPT ![r] = to]

\* A scan thread, or dbPutField of another client, calls dbProcess.
Scan(r) ==
  /\ "scan" \in Ops /\ Lockable(r)
  /\ At(r, "idle", "enter")
  /\ UNCHANGED <<pact, readPpn, frameRest>>

\* "If already active dont process"
ProcessActive(r) ==
  /\ pact[r] /\ At(r, "enter", "idle")
  /\ UNCHANGED <<pact, readPpn, frameRest>>

\* Mutant: a disabled record is silently left out.
ProcessDisabled_Silent(r) ==
  /\ "disable" \in Ops /\ ~pact[r] /\ At(r, "enter", "idle")
  /\ UNCHANGED <<pact, readPpn, frameRest>>

\* DISA equals DISV: the completion of the notify is all that is left to do.
ProcessDisabled(r) ==
  /\ "disable" \in Ops /\ ~pact[r] /\ At(r, "enter", "test")
  /\ UNCHANGED <<pact, readPpn, frameRest>>

\* process(): asynchronous records return and complete later.
Process(r) ==
  /\ ~pact[r] /\ At(r, "enter", IF r \in Async THEN "idle" ELSE "target")
  /\ pact' = [pact EXCEPT ![r] = TRUE]
  /\ UNCHANGED <<readPpn, frameRest>>

\* process() is called again for an asynchronous record.
AsyncDone(r) ==
  /\ pact[r] /\ Lockable(r) /\ At(r, "idle", "target")
  /\ UNCHANGED <<pact, readPpn, frameRest>>

\* recGblFwdLink, dbScanFwdLink, processTarget.  The test of psrc->ppn and dbNotifyAdd's
\* own read of it, both without pnotifyGlobal->lock, are one read.
Target(r) ==
  LET n == ppn[r]
  IN /\ At(r, "target", IF flnk[r] = None \/ flnk[r] \notin Passive THEN "test"
                        ELSE IF n = None THEN "call" ELSE "add")
     /\ readPpn' = [readPpn EXCEPT ![r] = n]
     /\ UNCHANGED <<pact, frameRest>>

Joins(n, pto) ==
  /\ ppn[pto] = None /\ state[pnotifyPvt[n]] = "ProcessInProgress" /\ pto # ChanRec[n]

\* The target joins the group, unless it is active or another notify's.
dbNotifyAdd(r) ==
  LET n   == readPpn[r]
      pto == flnk[r]
  IN /\ At(r, "add", "call") /\ readPpn' = [readPpn EXCEPT ![r] = None]
     /\ \/ pact[pto] /\ UNCHANGED <<ppn, waitList, failed>>
        \/ ~pact[pto] /\ pnotifyPvt[n] = None /\ MustHold(FALSE) /\ UNCHANGED <<ppn, waitList>>
        \/ /\ ~pact[pto] /\ pnotifyPvt[n] # None /\ ~Joins(n, pto)
           /\ UNCHANGED <<ppn, waitList, failed>>
        \/ /\ ~pact[pto] /\ pnotifyPvt[n] # None /\ Joins(n, pto)
           /\ ppn' = [ppn EXCEPT ![pto] = ppn[r]]
           /\ waitList' = [q \in Pvts |-> IF ppn[r] # None /\ q = pnotifyPvt[ppn[r]]
                                         THEN waitList[q] \cup {pto} ELSE waitList[q]]
           /\ MustHold(NotAwaited(pto) /\ ppn[r] # None)
     /\ UNCHANGED <<pact, restartList, state, callback, procRest>>

\* dbProcess of the target; one that is already being processed further up is active.
Call(r) ==
  LET pto == flnk[r]
  IN /\ proc[r] = "call"
     /\ proc' = IF proc[pto] = "idle" THEN [proc EXCEPT ![r] = "child", ![pto] = "enter"]
                ELSE [proc EXCEPT ![r] = "test"]
     /\ readPpn' = [readPpn EXCEPT ![r] = None]
     /\ UNCHANGED <<pact, frameRest>>

Child(r) ==
  /\ At(r, "child", "test") /\ proc[flnk[r]] = "idle"
  /\ UNCHANGED <<pact, readPpn, frameRest>>

\* "if(pdbc->ppn) dbNotifyCompletion(pdbc)", again one read
TestPpn(r) ==
  /\ At(r, "test", IF ppn[r] = None THEN "idle" ELSE "complete")
  /\ pact' = [pact EXCEPT ![r] = @ /\ ppn[r] # None]
  /\ readPpn' = [readPpn EXCEPT ![r] = ppn[r]]
  /\ UNCHANGED frameRest

\* the block's next state, or None if more records have to complete or none is awaited
Completed(q, r) ==
  IF waitList[q] # {r} THEN None
  ELSE IF state[q] = "ProcessInProgress" THEN "UserCallbackRequested"
  ELSE "RestartCallbackRequested"

InProgress(q) == state[q] \in {"RestartInProgress", "ProcessInProgress"}

\* A record of the group has completed.  It is released, except to wait for the restart
\* of its own notify.
Complete(n, r) ==
  LET q  == pnotifyPvt[n]
      st == Completed(q, r)
      rs == IF st = "RestartCallbackRequested" THEN {} ELSE {r}
  IN /\ waitList' = [waitList EXCEPT ![q] = @ \ {r}]
     /\ ppn' = restartPpn(rs) /\ restartList' = restartLists(rs)
     /\ state' = StateAfter(n, q, IF st = None THEN state[q] ELSE st, rs)
     /\ callback' = Requested(Restarted(rs) \cup (IF st = None THEN {} ELSE {q}))
     /\ MustHold(r \in waitList[q] /\ restartAsserts(rs))

\* and the processing of the record is over
dbNotifyCompletion(r) ==
  LET n == readPpn[r]
      q == pnotifyPvt[n]
  IN /\ At(r, "complete", "idle")
     /\ readPpn' = [readPpn EXCEPT ![r] = None] /\ pact' = [pact EXCEPT ![r] = FALSE]
     /\ \/ q = None /\ MustHold(FALSE)
           /\ UNCHANGED <<ppn, restartList, state, waitList, callback>>
        \/ /\ q # None /\ ~InProgress(q)
           /\ UNCHANGED <<ppn, restartList, state, waitList, callback, failed>>
        \/ q # None /\ InProgress(q) /\ Complete(n, r)
     /\ UNCHANGED procRest

\* dbPutField of a link field, with both lock sets locked
Relink(r, to) ==
  /\ "relink" \in Ops /\ Lockable(r) /\ (to = None \/ Lockable(to))
  /\ flnk' = [flnk EXCEPT ![r] = to]
  /\ UNCHANGED <<pact, ppn, restartList, val, procVars, notifyVars, pvtVars, eventVars,
                 freeList, callback, clientVars, doneVars, failed>>

dbProcess(r) ==
  \/ ProcessActive(r) \/ ProcessDisabled(r) \/ Process(r) \/ Target(r) \/ dbNotifyAdd(r)
  \/ Call(r) \/ Child(r) \/ TestPpn(r) \/ dbNotifyCompletion(r)

-----------------------------------------------------------------------------
Next ==
  \/ \E r \in Recs : \/ Scan(r) \/ AsyncDone(r) \/ dbProcess(r)
                     \/ \E to \in Recs \cup {None} : Relink(r, to)
  \/ \E q \in Pvts : TakeCallback(q) \/ notifyCallback(q)
  \/ \E n \in Notifies :
       \/ dbProcessNotify(n) \/ ProcessNotifyWait(n) \/ ProcessNotifyAgain(n)
       \/ doneCallback(n) \/ doneCallbackAgain(n) \/ DoneTail(n)
       \/ dbNotifyCancel(n) \/ CancelWoken(n)

\* Threads that can run do, device support completes what it started, and a thread that
\* waits for a lock others keep taking gets it.
Fairness ==
  /\ \A r \in Recs : WF_vars(dbProcess(r)) /\ SF_vars(AsyncDone(r))
  /\ \A q \in Pvts : WF_vars(TakeCallback(q)) /\ SF_vars(notifyCallback(q))
  /\ \A n \in Notifies : /\ WF_vars(doneCallback(n)) /\ WF_vars(DoneTail(n))
                         /\ SF_vars(ProcessNotifyAgain(n)) /\ WF_vars(CancelWoken(n))

Spec     == Init /\ [][Next]_vars
FairSpec == Spec /\ Fairness

-----------------------------------------------------------------------------
(* Properties *)

\* No assert of dbNotify.c fails and no null or foreign notifyPvt is used, however
\* requests, restarts, completions, callbacks and changes of links interleave, a group
\* spread over several lock sets included, as long as no request is cancelled; or with
\* cancels, as long as no link is changed.  With both it is false of the code:
\* dbNotifyCompletion reads ppn before it takes pnotifyGlobal->lock.
NoAssertFails == ~failed

\* A record that names a notify in ppn is one that notify waits for, or its own record
\* held for a restart that has been requested; and whoever is on a restartList waits
\* for a record that has an owner.  Nobody is left waiting on a record nobody will
\* release.
Ownership ==
  /\ \A r \in Recs : ppn[r] # None =>
       LET q == pnotifyPvt[ppn[r]]
       IN /\ ppn[r] \in Notifies /\ q # None
          /\ \/ r \in waitList[q]
             \/ r = ChanRec[ppn[r]] /\ state[q] = "RestartCallbackRequested"
  /\ \A q \in Pvts : \A r \in waitList[q] : ppn[r] = user[q]
  /\ \A r \in Recs : restartList[r] # <<>> => ppn[r] # None

\* Every record a notify waits for is active, being processed, or about to be by the
\* record that added it: a completion will come.
AwaitedIsActive ==
  \A q \in Pvts : \A r \in waitList[q] :
    \/ pact[r] \/ proc[r] # "idle"
    \/ \E s \in Recs : flnk[s] = r /\ proc[s] = "call"

FreeIsUnused ==
  \A q \in freeList :
    /\ callback[q] = "none" /\ ~cancelEvent[q] /\ ~userCallbackEvent[q]
    /\ \A n \in Notifies : q \notin {pnotifyPvt[n], waitPvt[n], donePvt[n]}

DoneIsExpected == \A n \in Notifies : done[n] = "call" => busy[n]

\* When the race between a completion and a cancel is over, it is over for both:
\* doneCallback is called once for a request and not once dbNotifyCancel has returned,
\* and a block on the free list is in nobody's hands: no worker has its callback, no
\* client waits on its events, no callDone will look at it again, and its events are
\* clear for the next request that gets it.  No assert of dbNotify.c fails.
OneSideCleansUp == NoAssertFails /\ DoneIsExpected /\ FreeIsUnused

RequestEnds == \A n \in Notifies : busy[n] ~> ~busy[n]

CancelEnds == \A n \in Notifies : client[n] = "waitCancel" ~> client[n] # "waitCancel"

\* Every request ends: doneCallback is called or a cancel returns.  And dbNotifyCancel
\* returns, also when the callback it waits for is queued behind others.
CallsEnd == RequestEnds /\ CancelEnds

=============================================================================
