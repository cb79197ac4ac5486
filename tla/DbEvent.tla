------------------------------ MODULE DbEvent ------------------------------
(***************************************************************************)
(* The event (monitor) queues of one event_user, dbEvent.c.                *)
(*                                                                         *)
(* Record processing posts field values to the subscriptions of a record   *)
(* (db_post_events).  Each post is logged in a ring buffer that the        *)
(* subscription shares with others (struct event_que); one event task per  *)
(* event_user drains the rings and calls the subscriptions' callbacks.     *)
(* Client threads add, enable, disable and cancel subscriptions, switch    *)
(* flow control, post extra labor and close the event_user, all while the  *)
(* posters and the task run.                                               *)
(*                                                                         *)
(* A section of code between LOCKEVQUE and UNLOCKEVQUE is one step, except *)
(* in event_read, which keeps the lock from one queue entry to the next:   *)
(* there tpc = "loop" stands for the held lock.  The record lock (mlok)    *)
(* and the scan lock are held by a record's poster while post[r] # Idle.   *)
(***************************************************************************)
EXTENDS Integers, FiniteSets

CONSTANTS
  Subs,          \* subscription blocks of dbevEventSubscriptionFreeList
  ValSubs,       \* those whose values are queued (useValque)
  Recs,          \* records
  Clients,       \* threads that own subscriptions
  EVENTSPERQUE,  \* as in the code: 32
  EVENTENTRIES,  \* as in the code: 4
  MaxQueues,     \* bound: create_ev_que fails beyond this many queues
  MaxVal,        \* bound: values of a record's field, after which it repeats
  Ops            \* which of the optional calls below the users make

\* "flow": flow control; "labor": extra labor; "single": db_post_single_event;
\* "disable": db_event_disable on its own; "suicide": a callback cancels its own
\* subscription; "cancelOther": a callback cancels another one
AllOps == {"flow", "labor", "single", "disable", "suicide", "cancelOther"}

EVENTQUESIZE == EVENTENTRIES * EVENTSPERQUE

ASSUME ConstAssumption ==
  /\ ValSubs \subseteq Subs
  /\ Recs # {}
  /\ EVENTSPERQUE \in Nat \ {0}
  /\ EVENTENTRIES \in Nat \ {0}
  /\ EVENTQUESIZE \in Nat \ {0}
  /\ MaxQueues \in Nat \ {0}
  /\ MaxVal \in Nat \ {0}
  /\ Ops \subseteq AllOps

ASSUME NamesAssumption ==
  /\ Subs \cap {"EVENTQEMPTY", "canceledEvent", "none"} = {}
  /\ Clients \cap {"scan", "none"} = {}

Empty    == "EVENTQEMPTY"
Canceled == "canceledEvent"
NoSub    == "none"
NoClient == "none"

Slots  == 0 .. EVENTQUESIZE - 1
Queues == 1 .. MaxQueues

\* Contents of valque: a value (dbfl_type_val), a reference to the record
\* (dbfl_type_rec) or NULL.
NoLog  == -1
RecLog == 0
Logs   == 0 .. MaxVal

NoSlot == -1

VARIABLES
  \* struct event_que, one per queue
  evque, valque, putix, getix, quota, nDuplicates, nCanceled,
  \* struct event_user: the length of the chain firstque, nextque, ... and the
  \* block
  nque, evUser,
  \* struct evSubscrip
  sub,
  \* the event task: program counter, queue, subscription and log in hand
  tpc, tq, tsub, tlog,
  \* the poster of each record and the records' values
  post, val,
  \* client threads: program counter and subscription
  cpc, csub,
  \* the assert() of dbEvent.c that failed, which stops the process
  assertFailed,
  \* history: last value posted to and last value seen by a subscription; a
  \* db_flush_extra_labor_event has returned since extra labor was turned off
  posted, seen, flushed

queVars  == <<evque, valque, putix, getix, quota, nDuplicates, nCanceled, nque>>
taskVars == <<tpc, tq, tsub, tlog>>
postVars == <<post, val>>
cliVars  == <<cpc, csub>>
histVars == <<posted, seen, flushed>>
vars == <<queVars, evUser, sub, taskVars, postVars, cliVars, assertFailed,
          histVars>>

\* left alone by the event task's own steps, and by calls that only touch the
\* event_user block
taskRest == <<postVars, cliVars, assertFailed, histVars>>
callRest == <<queVars, sub, taskVars, postVars, assertFailed, histVars>>

-----------------------------------------------------------------------------
(* Types *)

\* "free": on the free list; "live": returned by db_add_event;
\* "cancel": inside db_cancel_event
SubState == {"free", "live", "cancel"}

SubRec == [st : SubState, owner : Clients \cup {NoClient},
           rec : Recs, que : Queues, npend : Int,
           pLastLog : Slots \cup {NoSlot}, user_sub : BOOLEAN,
           callBackInProgress : BOOLEAN, enabled : BOOLEAN]

\* the record of a freed block means nothing
FreeSub == [st |-> "free", owner |-> NoClient, rec |-> CHOOSE r \in Recs : TRUE,
            que |-> 1, npend |-> 0, pLastLog |-> NoSlot, user_sub |-> FALSE,
            callBackInProgress |-> FALSE, enabled |-> FALSE]

UserRec == [ppendsem : BOOLEAN, pflush_sem : BOOLEAN, pexitsem : BOOLEAN,
            flowCtrlMode : BOOLEAN, pendexit : BOOLEAN, taskid : BOOLEAN,
            extralabor_sub : BOOLEAN, extra_labor : BOOLEAN,
            extraLaborBusy : BOOLEAN, pSuicideEvent : Subs \cup {NoSub},
            destroyed : BOOLEAN]

\* by: "scan" for db_post_events under the scan and record locks, the client
\* for db_post_single_event; todo: subscriptions still to post to; sig: the
\* event task is still to be signalled for the last one
Idle    == [by |-> "none", todo |-> {}, sig |-> FALSE]
PostRec == [by : Clients \cup {"scan", "none"}, todo : SUBSET Subs, sig : BOOLEAN]

TaskPC   == {"none", "wait", "woken", "labor", "read", "loop", "callback",
             "return", "next", "exit", "done"}
ClientPC == {"idle", "signal", "posting", "purge", "flush", "recheck",
             "closesig", "closewait"}

\* the asserts on counters, and the one on the slot at putix
Asserts == {"none", "counter", "slot"}

QueType ==
  /\ evque \in [Queues -> [Slots -> Subs \cup {Empty, Canceled}]]
  /\ valque \in [Queues -> [Slots -> Logs \cup {NoLog}]]
  /\ putix \in [Queues -> Slots] /\ getix \in [Queues -> Slots]
  /\ quota \in [Queues -> Int]
  /\ nDuplicates \in [Queues -> Int] /\ nCanceled \in [Queues -> Int]
  /\ nque \in Queues

TaskType ==
  /\ tpc \in TaskPC /\ tq \in Queues
  /\ tsub \in Subs \cup {NoSub} /\ tlog \in Logs \cup {NoLog}
  /\ tpc \in {"callback", "return"} => tsub \in Subs

PostType == post \in [Recs -> PostRec] /\ val \in [Recs -> 1 .. MaxVal]

ClientType ==
  /\ cpc \in [Clients -> ClientPC] /\ csub \in [Clients -> Subs \cup {NoSub}]
  /\ \A c \in Clients : cpc[c] \in {"purge", "flush", "recheck"} => csub[c] \in Subs

HistType == posted \in [Subs -> Logs] /\ seen \in [Subs -> Logs \cup {NoLog}]

TypeOK ==
  /\ QueType /\ evUser \in UserRec /\ sub \in [Subs -> SubRec]
  /\ TaskType /\ PostType /\ ClientType /\ HistType
  /\ assertFailed \in Asserts /\ flushed \in BOOLEAN

-----------------------------------------------------------------------------
(* The ring *)

\* Mutant: the wrap comes one slot late.
RNGINC_Late(old) == IF old > EVENTQUESIZE - 1 THEN 0 ELSE old + 1

RNGINC(old) == IF old >= EVENTQUESIZE - 1 THEN 0 ELSE old + 1

ringSpace(q) ==
  IF evque[q][putix[q]] # Empty THEN 0
  ELSE IF getix[q] > putix[q] THEN getix[q] - putix[q]
       ELSE EVENTQUESIZE + getix[q] - putix[q]

\* assert(c) on a counter
Checked(c) == IF c THEN "none" ELSE "counter"

\* event_read holds the queue's writelock between two entries
QueueUnlocked(q) == ~(tpc = "loop" /\ tq = q)

\* j lies on the way from g, forward around the ring, to i
OnTheWay(g, j, i) == IF g <= i THEN g <= j /\ j <= i ELSE g <= j \/ j <= i

\* Mutant: the purge ends with the first entry.
Purged_First(q, s) == {i \in Slots : i = getix[q] /\ evque[q][i] = s}

\* The entries of s that db_cancel_event's loop reaches: it starts at getix and
\* stops at the first empty slot.
Purged(q, s) ==
  {i \in Slots : /\ evque[q][i] = s
                 /\ \A j \in Slots :
                      OnTheWay(getix[q], j, i) => evque[q][j] # Empty}

-----------------------------------------------------------------------------
(* db_init_events *)

EmptyRing == [i \in Slots |-> Empty]
NoLogs    == [i \in Slots |-> NoLog]

\* semaphores are binary; destroyed: the block is freed
FreshUser ==
  [ppendsem |-> FALSE, pflush_sem |-> FALSE, pexitsem |-> FALSE,
   flowCtrlMode |-> FALSE, pendexit |-> TRUE, taskid |-> FALSE,
   extralabor_sub |-> FALSE, extra_labor |-> FALSE, extraLaborBusy |-> FALSE,
   pSuicideEvent |-> NoSub, destroyed |-> FALSE]

Init ==
  /\ evque = [q \in Queues |-> EmptyRing] /\ valque = [q \in Queues |-> NoLogs]
  /\ putix = [q \in Queues |-> 0] /\ getix = [q \in Queues |-> 0]
  /\ quota = [q \in Queues |-> 0]
  /\ nDuplicates = [q \in Queues |-> 0] /\ nCanceled = [q \in Queues |-> 0]
  /\ nque = 1 /\ evUser = FreshUser
  /\ sub = [s \in Subs |-> FreeSub]
  /\ tpc = "none" /\ tq = 1 /\ tsub = NoSub /\ tlog = NoLog
  /\ post = [r \in Recs |-> Idle] /\ val = [r \in Recs |-> 1]
  /\ cpc = [c \in Clients |-> "idle"] /\ csub = [c \in Clients |-> NoSub]
  /\ assertFailed = "none"
  /\ posted = [s \in Subs |-> 0] /\ seen = [s \in Subs |-> 0]
  /\ flushed = FALSE

\* The event_user was closed and a new one is opened.
db_init_events ==
  /\ evUser.destroyed
  /\ evque' = [q \in Queues |-> EmptyRing] /\ valque' = [q \in Queues |-> NoLogs]
  /\ putix' = [q \in Queues |-> 0] /\ getix' = [q \in Queues |-> 0]
  /\ quota' = [q \in Queues |-> 0]
  /\ nDuplicates' = [q \in Queues |-> 0] /\ nCanceled' = [q \in Queues |-> 0]
  /\ nque' = 1 /\ evUser' = FreshUser
  /\ tpc' = "none" /\ tq' = 1 /\ tsub' = NoSub /\ tlog' = NoLog
  /\ flushed' = FALSE
  /\ UNCHANGED <<sub, postVars, cliVars, assertFailed, posted, seen>>

-----------------------------------------------------------------------------
(* Client threads.  They use an event_user until they close it. *)

Free(c) == cpc[c] = "idle" /\ ~evUser.pendexit

\* Users register their extra labor before they start the task...
db_add_extra_labor_event ==
  /\ "labor" \in Ops
  /\ ~evUser.taskid /\ ~evUser.destroyed /\ ~evUser.extralabor_sub
  /\ evUser' = [evUser EXCEPT !.extralabor_sub = TRUE]
  /\ UNCHANGED <<callRest, cliVars>>

\* ... and turn it off (func == NULL) before they close the event_user.
TurnOffExtraLabor(c) ==
  /\ Free(c) /\ evUser.extralabor_sub
  /\ evUser' = [evUser EXCEPT !.extralabor_sub = FALSE]
  /\ UNCHANGED <<callRest, cliVars>>

\* The polling loop on extraLaborBusy returns.
db_flush_extra_labor_event(c) ==
  /\ Free(c) /\ "labor" \in Ops /\ ~evUser.extraLaborBusy
  /\ flushed' = ~evUser.extralabor_sub
  /\ UNCHANGED <<queVars, evUser, sub, taskVars, postVars, cliVars,
                 assertFailed, posted, seen>>

\* The new thread cannot read pendexit before this call has cleared it: both
\* hold evUser->lock.
db_start_events ==
  /\ ~evUser.taskid /\ ~evUser.destroyed
  /\ evUser' = [evUser EXCEPT !.taskid = TRUE, !.pendexit = FALSE]
  /\ tpc' = "wait"
  /\ UNCHANGED <<queVars, sub, tq, tsub, tlog, taskRest>>

\* Room for the quota of one more subscription
HasQuota(q) == quota[q] + nCanceled[q] < EVENTQUESIZE - EVENTENTRIES

NewSub(c, r, q) ==
  [FreeSub EXCEPT !.st = "live", !.owner = c, !.rec = r, !.que = q,
                  !.user_sub = TRUE]

\* The first queue of the chain with room, or a new one at its end; when the
\* new one cannot be allocated the call returns NULL and nothing changes.  The
\* walk along the chain is one step.
db_add_event(c, s, r) ==
  /\ Free(c) /\ sub[s].st = "free"
  /\ \E q \in Queues :
       /\ q <= nque + 1
       /\ \A p \in 1 .. q : QueueUnlocked(p)
       /\ \A p \in 1 .. q - 1 : ~HasQuota(p)
       /\ q <= nque => HasQuota(q)
       /\ nque' = IF q > nque THEN q ELSE nque
       /\ quota' = [quota EXCEPT ![q] = @ + EVENTENTRIES]
       /\ sub' = [sub EXCEPT ![s] = NewSub(c, r, q)]
  /\ UNCHANGED <<evque, valque, putix, getix, nDuplicates, nCanceled, evUser,
                 taskVars, taskRest>>

Owns(c, s) == sub[s].st = "live" /\ sub[s].owner = c

\* LOCKREC is not held by a db_post_events in progress
RecUnlocked(r) == post[r].by # "scan"

db_event_enable(c, s) ==
  /\ Free(c) /\ Owns(c, s) /\ RecUnlocked(sub[s].rec) /\ ~sub[s].enabled
  /\ sub' = [sub EXCEPT ![s].enabled = TRUE]
  /\ UNCHANGED <<queVars, evUser, taskVars, taskRest>>

db_event_disable(c, s) ==
  /\ "disable" \in Ops
  /\ Free(c) /\ Owns(c, s) /\ RecUnlocked(sub[s].rec) /\ sub[s].enabled
  /\ sub' = [sub EXCEPT ![s].enabled = FALSE]
  /\ UNCHANGED <<queVars, evUser, taskVars, taskRest>>

\* Mutant: the event task is not notified.
db_event_flow_ctrl_mode_Silent(c, on) ==
  /\ Free(c) /\ "flow" \in Ops
  /\ evUser' = [evUser EXCEPT !.flowCtrlMode = on]
  /\ UNCHANGED <<callRest, cliVars>>

db_event_flow_ctrl_mode(c, on) ==
  /\ Free(c) /\ "flow" \in Ops
  /\ evUser' = [evUser EXCEPT !.flowCtrlMode = on]
  /\ cpc' = [cpc EXCEPT ![c] = "signal"]
  /\ UNCHANGED <<callRest, csub>>

\* Mutant: the event task is not notified.
db_post_extra_labor_Silent(c) ==
  /\ Free(c) /\ "labor" \in Ops /\ ~evUser.extra_labor
  /\ evUser' = [evUser EXCEPT !.extra_labor = TRUE]
  /\ UNCHANGED <<callRest, cliVars>>

db_post_extra_labor(c) ==
  /\ Free(c) /\ "labor" \in Ops /\ ~evUser.extra_labor
  /\ evUser' = [evUser EXCEPT !.extra_labor = TRUE]
  /\ cpc' = [cpc EXCEPT ![c] = "signal"]
  /\ UNCHANGED <<callRest, csub>>

\* epicsEventSignal(ppendsem), after evUser->lock is released
ClientSignal(c) ==
  /\ cpc[c] \in {"signal", "closesig"}
  /\ evUser' = [evUser EXCEPT !.ppendsem = TRUE]
  /\ cpc' = [cpc EXCEPT ![c] = IF @ = "signal" THEN "idle" ELSE "closewait"]
  /\ UNCHANGED <<callRest, csub>>

-----------------------------------------------------------------------------
(* db_cancel_event *)

\* quota is given back and the block is freed
Release(s) ==
  /\ quota' = [quota EXCEPT ![sub[s].que] = @ - EVENTENTRIES]
  /\ sub' = [sub EXCEPT ![s] = FreeSub]
  /\ posted' = [posted EXCEPT ![s] = 0]
  /\ seen' = [seen EXCEPT ![s] = 0]

\* back from db_cancel_event
CancelReturns(c) ==
  /\ cpc' = [cpc EXCEPT ![c] = "idle"]
  /\ csub' = [csub EXCEPT ![c] = NoSub]

\* Mutant: the disable does not take the record lock.
CancelDisable_Unlocked(c, s) ==
  /\ Free(c) /\ Owns(c, s)
  /\ sub' = [sub EXCEPT ![s].enabled = FALSE, ![s].st = "cancel"]
  /\ cpc' = [cpc EXCEPT ![c] = "purge"]
  /\ csub' = [csub EXCEPT ![c] = s]
  /\ UNCHANGED <<queVars, evUser, taskVars, postVars, assertFailed, histVars>>

\* its first part, db_event_disable
CancelDisable(c, s) ==
  /\ Free(c) /\ Owns(c, s) /\ RecUnlocked(sub[s].rec)
  /\ sub' = [sub EXCEPT ![s].enabled = FALSE, ![s].st = "cancel"]
  /\ cpc' = [cpc EXCEPT ![c] = "purge"]
  /\ csub' = [csub EXCEPT ![c] = s]
  /\ UNCHANGED <<queVars, evUser, taskVars, postVars, assertFailed, histVars>>

\* The purge of queue q from the entries of s, by as many event_remove calls
\* as there are entries; the field logs are dropped.
PurgeQueue(q, s) ==
  LET gone == Purged(q, s)
      k    == Cardinality(gone)
  IN /\ evque' = [evque EXCEPT ![q] =
                    [i \in Slots |-> IF i \in gone THEN Canceled ELSE @[i]]]
     /\ valque' = [valque EXCEPT ![q] =
                    [i \in Slots |-> IF i \in gone THEN NoLog ELSE @[i]]]
     /\ nCanceled' = [nCanceled EXCEPT ![q] = @ + k]
     /\ nDuplicates' = [nDuplicates EXCEPT ![q] =
                          @ - IF k < sub[s].npend THEN k
                              ELSE IF k = 0 THEN 0 ELSE k - 1]
     /\ assertFailed' = Checked(k = sub[s].npend /\ nDuplicates[q] >= k - 1)

PurgedSub(s) == [sub EXCEPT ![s].user_sub = FALSE, ![s].npend = 0,
                            ![s].pLastLog = NoSlot]

\* Mutant: db_cancel_event does not wait for the callback.
MustFlush_Never(s) == FALSE

MustFlush(s) == sub[s].callBackInProgress

CancelPurge(c) ==
  LET s == csub[c]
      q == sub[s].que
  IN /\ cpc[c] = "purge" /\ QueueUnlocked(q)
     /\ PurgeQueue(q, s)
     /\ IF MustFlush(s)
        THEN /\ sub' = PurgedSub(s)
             /\ cpc' = [cpc EXCEPT ![c] = "flush"]
             /\ UNCHANGED <<quota, csub, posted, seen>>
        ELSE Release(s) /\ CancelReturns(c)
     /\ UNCHANGED <<putix, getix, nque, evUser, taskVars, postVars, flushed>>

\* epicsEventMustWait(pflush_sem)
CancelFlush(c) ==
  /\ cpc[c] = "flush" /\ evUser.pflush_sem
  /\ evUser' = [evUser EXCEPT !.pflush_sem = FALSE]
  /\ cpc' = [cpc EXCEPT ![c] = "recheck"]
  /\ UNCHANGED <<callRest, csub>>

CancelRecheck(c) ==
  LET s == csub[c]
  IN /\ cpc[c] = "recheck" /\ QueueUnlocked(sub[s].que)
     /\ IF MustFlush(s)
        THEN /\ cpc' = [cpc EXCEPT ![c] = "flush"]
             /\ UNCHANGED <<quota, sub, csub, posted, seen>>
        ELSE Release(s) /\ CancelReturns(c)
     /\ UNCHANGED <<evque, valque, putix, getix, nDuplicates, nCanceled, nque,
                    evUser, taskVars, postVars, assertFailed, flushed>>

-----------------------------------------------------------------------------
(* db_close_events, once the subscriptions are cancelled *)

\* pendexit is clear only while the task runs
EventTaskRunning == ~evUser.pendexit

db_close_events(c) ==
  /\ cpc[c] = "idle" /\ ~evUser.destroyed
  /\ \A s \in Subs : sub[s].st = "free"
  /\ \A d \in Clients : cpc[d] = "idle"
  /\ IF EventTaskRunning
     THEN /\ evUser' = [evUser EXCEPT !.pendexit = TRUE]
          /\ cpc' = [cpc EXCEPT ![c] = "closesig"]
     ELSE evUser' = [evUser EXCEPT !.destroyed = TRUE] /\ UNCHANGED cpc
  /\ UNCHANGED <<callRest, csub>>

\* The wait for pexitsem, then the locks and semaphores are destroyed.
CloseJoin(c) ==
  /\ cpc[c] = "closewait" /\ evUser.pexitsem
  /\ evUser' = [evUser EXCEPT !.pexitsem = FALSE, !.destroyed = TRUE]
  /\ cpc' = [cpc EXCEPT ![c] = "idle"]
  /\ UNCHANGED <<callRest, csub>>

-----------------------------------------------------------------------------
(* Posting *)

\* Record processing writes the field and calls db_post_events, which posts to
\* the enabled subscriptions whose field and event mask match.
db_post_events(r) ==
  /\ post[r] = Idle
  /\ val' = [val EXCEPT ![r] = IF @ < MaxVal THEN @ + 1 ELSE @]
  /\ \E match \in SUBSET {s \in Subs : sub[s].enabled /\ sub[s].rec = r} :
       post' = IF match = {} THEN post
               ELSE [post EXCEPT ![r] = [by |-> "scan", todo |-> match, sig |-> FALSE]]
  /\ UNCHANGED <<queVars, evUser, sub, taskVars, cliVars, assertFailed,
                 histVars>>

\* The owner posts the current value once, under the scan lock.
db_post_single_event(c, s) ==
  /\ "single" \in Ops
  /\ Free(c) /\ Owns(c, s) /\ post[sub[s].rec] = Idle
  /\ post' = [post EXCEPT ![sub[s].rec] = [by |-> c, todo |-> {s}, sig |-> FALSE]]
  /\ cpc' = [cpc EXCEPT ![c] = "posting"]
  /\ UNCHANGED <<queVars, evUser, sub, taskVars, val, csub, assertFailed,
                 histVars>>

\* The poster goes on with the rest of the list, or it is done and drops its
\* locks; a client is then back from db_post_single_event.
PosterContinues(r, todo, sig) ==
  LET done == todo = {} /\ ~sig
  IN /\ post' = [post EXCEPT ![r] =
                   IF done THEN Idle ELSE [@ EXCEPT !.todo = todo, !.sig = sig]]
     /\ cpc' = [c \in Clients |-> IF done /\ post[r].by = c THEN "idle" ELSE cpc[c]]

\* db_create_event_log
EventLog(s) == IF s \in ValSubs THEN val[sub[s].rec] ELSE RecLog

\* db_queue_event_log drops a second reference to the record
DuplicateRef(s) ==
  /\ sub[s].npend > 0
  /\ valque[sub[s].que][sub[s].pLastLog] = RecLog
  /\ EventLog(s) = RecLog

\* ... and replaces the last log of s when the client is slow
ReplaceLast(s) ==
  /\ sub[s].npend > 0
  /\ evUser.flowCtrlMode \/ ringSpace(sub[s].que) <= EVENTSPERQUE

QueueDuplicate(s) ==
  /\ DuplicateRef(s)
  /\ UNCHANGED <<evque, valque, putix, nDuplicates, sub, assertFailed>>

\* Mutant: the new log is dropped instead of the old one.
QueueReplace_KeepOld(s) ==
  /\ ~DuplicateRef(s) /\ ReplaceLast(s)
  /\ UNCHANGED <<evque, valque, putix, nDuplicates, sub, assertFailed>>

QueueReplace(s) ==
  /\ ~DuplicateRef(s) /\ ReplaceLast(s)
  /\ valque' = [valque EXCEPT ![sub[s].que][sub[s].pLastLog] = EventLog(s)]
  /\ UNCHANGED <<evque, putix, nDuplicates, sub, assertFailed>>

\* "Otherwise, the current entry must be available."
QueueAdd(s) ==
  LET q == sub[s].que
      i == putix[q]
  IN /\ ~DuplicateRef(s) /\ ~ReplaceLast(s)
     /\ IF evque[q][i] # Empty
        THEN assertFailed' = "slot" /\ UNCHANGED <<evque, valque, putix,
                                                   nDuplicates, sub>>
        ELSE /\ evque' = [evque EXCEPT ![q][i] = s]
             /\ valque' = [valque EXCEPT ![q][i] = EventLog(s)]
             /\ putix' = [putix EXCEPT ![q] = RNGINC(i)]
             /\ nDuplicates' = [nDuplicates EXCEPT ![q] =
                                  IF sub[s].npend > 0 THEN @ + 1 ELSE @]
             /\ sub' = [sub EXCEPT ![s].npend = @ + 1, ![s].pLastLog = i]
             /\ UNCHANGED assertFailed

\* Mutant: the space is measured after the entry is added.
FirstEvent_Late(s) ==
  /\ ~DuplicateRef(s) /\ ~ReplaceLast(s)
  /\ ringSpace(sub[s].que) = EVENTQUESIZE + 1

\* firstEventFlag: the ring was empty
FirstEvent(s) ==
  /\ ~DuplicateRef(s) /\ ~ReplaceLast(s)
  /\ ringSpace(sub[s].que) = EVENTQUESIZE

db_queue_event_log(r, s) ==
  /\ s \in post[r].todo /\ ~post[r].sig
  /\ QueueUnlocked(sub[s].que)
  /\ QueueDuplicate(s) \/ QueueReplace(s) \/ QueueAdd(s)
  /\ PosterContinues(r, post[r].todo \ {s}, FirstEvent(s))
  /\ posted' = [posted EXCEPT ![s] = val[r]]
  /\ UNCHANGED <<getix, quota, nCanceled, nque, evUser, taskVars, val, csub,
                 seen, flushed>>

\* epicsEventSignal(ppendsem), after the queue's lock is released
PostSignal(r) ==
  /\ post[r].sig
  /\ evUser' = [evUser EXCEPT !.ppendsem = TRUE]
  /\ PosterContinues(r, post[r].todo, FALSE)
  /\ UNCHANGED <<queVars, sub, taskVars, val, csub, assertFailed, histVars>>

-----------------------------------------------------------------------------
(* The event task: event_task and event_read *)

\* epicsEventMustWait(ppendsem)
TaskWait ==
  /\ tpc = "wait" /\ evUser.ppendsem
  /\ evUser' = [evUser EXCEPT !.ppendsem = FALSE]
  /\ tpc' = "woken"
  /\ UNCHANGED <<queVars, sub, tq, tsub, tlog, taskRest>>

\* Mutant: extraLaborBusy is never set.
TaskWoken_NotBusy ==
  LET doit == evUser.extra_labor /\ evUser.extralabor_sub
  IN /\ tpc = "woken"
     /\ evUser' = [evUser EXCEPT !.extra_labor = @ /\ ~doit]
     /\ tpc' = IF doit THEN "labor" ELSE "read"
     /\ tq' = 1
     /\ UNCHANGED <<queVars, sub, tsub, tlog, taskRest>>

\* Under evUser->lock; without labor to do, extraLaborBusy is clear again
\* before the lock is released.
TaskWoken ==
  LET doit == evUser.extra_labor /\ evUser.extralabor_sub
  IN /\ tpc = "woken"
     /\ evUser' = [evUser EXCEPT !.extra_labor = @ /\ ~doit, !.extraLaborBusy = doit]
     /\ tpc' = IF doit THEN "labor" ELSE "read"
     /\ tq' = 1
     /\ UNCHANGED <<queVars, sub, tsub, tlog, taskRest>>

\* The extra labor function has returned.
TaskLabor ==
  /\ tpc = "labor"
  /\ evUser' = [evUser EXCEPT !.extraLaborBusy = FALSE]
  /\ tpc' = "read"
  /\ UNCHANGED <<queVars, sub, tq, tsub, tlog, taskRest>>

\* LOCKEVQUE; under flow control only a queue with duplicates is read
ReadEnter ==
  /\ tpc = "read"
  /\ tpc' = IF evUser.flowCtrlMode /\ nDuplicates[tq] = 0 THEN "next" ELSE "loop"
  /\ UNCHANGED <<queVars, evUser, sub, tq, tsub, tlog, taskRest>>

HeadEntry(q) == evque[q][getix[q]]

\* Mutant: getix is not advanced.
TakeHead_Stay(q) ==
  /\ evque' = [evque EXCEPT ![q][getix[q]] = Empty]
  /\ valque' = [valque EXCEPT ![q][getix[q]] = NoLog]
  /\ UNCHANGED getix

\* The entry at getix is taken out and getix advances.
TakeHead(q) ==
  /\ evque' = [evque EXCEPT ![q][getix[q]] = Empty]
  /\ valque' = [valque EXCEPT ![q][getix[q]] = NoLog]
  /\ getix' = [getix EXCEPT ![q] = RNGINC(@)]

\* Mutant: the placeholder goes and nCanceled still counts it.
SkipCanceled_Uncounted ==
  /\ tpc = "loop" /\ HeadEntry(tq) = Canceled
  /\ TakeHead(tq)
  /\ UNCHANGED <<putix, quota, nDuplicates, nCanceled, nque, evUser, sub, taskVars,
                 taskRest>>

SkipCanceled ==
  /\ tpc = "loop" /\ HeadEntry(tq) = Canceled
  /\ TakeHead(tq)
  /\ nCanceled' = [nCanceled EXCEPT ![tq] = @ - 1]
  /\ assertFailed' = Checked(nCanceled[tq] > 0)
  /\ UNCHANGED <<putix, quota, nDuplicates, nque, evUser, sub, taskVars,
                 postVars, cliVars, histVars>>

\* event_remove's effect on the subscription
Removed(s) ==
  LET last == IF sub[s].npend = 1 THEN NoSlot ELSE sub[s].pLastLog
  IN [sub EXCEPT ![s].npend = sub[s].npend - 1, ![s].pLastLog = last]

\* event_remove, then the callback runs without the lock; an entry of a
\* cancelled subscription would be dropped.
BeginCallback ==
  LET s == HeadEntry(tq)
  IN /\ tpc = "loop" /\ s \in Subs
     /\ TakeHead(tq)
     /\ nDuplicates' = [nDuplicates EXCEPT ![tq] =
                          IF sub[s].npend = 1 THEN @ ELSE @ - 1]
     /\ assertFailed' = Checked(\/ sub[s].npend = 1
                                \/ sub[s].npend > 1 /\ nDuplicates[tq] >= 1)
     /\ IF sub[s].user_sub
        THEN /\ sub' = [Removed(s) EXCEPT ![s].callBackInProgress = TRUE]
             /\ tpc' = "callback" /\ tsub' = s /\ tlog' = valque[tq][getix[tq]]
        ELSE sub' = Removed(s) /\ UNCHANGED <<tpc, tsub, tlog>>
     /\ UNCHANGED <<putix, quota, nCanceled, nque, evUser, tq, postVars, cliVars,
                    histVars>>

\* The callback delivers the logged value, or reads the record under its scan
\* lock.
UserSub ==
  LET r == sub[tsub].rec
  IN /\ tpc = "callback"
     /\ tlog = RecLog => post[r] = Idle
     /\ seen' = [seen EXCEPT ![tsub] = IF tlog = RecLog THEN val[r] ELSE tlog]
     /\ tpc' = "return"
     /\ tlog' = NoLog
     /\ UNCHANGED <<queVars, evUser, sub, tq, tsub, postVars, cliVars,
                    assertFailed, posted, flushed>>

\* db_cancel_event called by the callback, for a subscription its owner is not
\* using.  Once the event is disabled nothing is posted to it, so the disable
\* and the purge are one step.
CancelInCallback(s) ==
  /\ tpc = "return" /\ sub[s].st = "live"
  /\ IF s = tsub THEN "suicide" \in Ops /\ evUser.pSuicideEvent # s ELSE "cancelOther" \in Ops
  /\ RecUnlocked(sub[s].rec) /\ s \notin post[sub[s].rec].todo
  /\ PurgeQueue(sub[s].que, s)
  /\ evUser' = [evUser EXCEPT !.pSuicideEvent = s]
  /\ Release(s)
  /\ UNCHANGED <<putix, getix, nque, taskVars, postVars, cliVars, flushed>>

\* Mutant: the canceller that waits is not woken.
Return_Silent ==
  /\ tpc = "return"
  /\ IF evUser.pSuicideEvent = tsub
     THEN evUser' = [evUser EXCEPT !.pSuicideEvent = NoSub] /\ UNCHANGED sub
     ELSE /\ sub' = [sub EXCEPT ![tsub].callBackInProgress = FALSE]
          /\ UNCHANGED evUser
  /\ tpc' = "loop"
  /\ tsub' = NoSub
  /\ UNCHANGED <<queVars, tq, tlog, taskRest>>

\* The callback returns and the queue is locked again.
Return ==
  /\ tpc = "return"
  /\ IF evUser.pSuicideEvent = tsub
     THEN evUser' = [evUser EXCEPT !.pSuicideEvent = NoSub] /\ UNCHANGED sub
     ELSE /\ sub' = [sub EXCEPT ![tsub].callBackInProgress = FALSE]
          /\ evUser' = [evUser EXCEPT !.pflush_sem =
                          @ \/ (~sub[tsub].user_sub /\ sub[tsub].npend = 0)]
  /\ tpc' = "loop"
  /\ tsub' = NoSub
  /\ UNCHANGED <<queVars, tq, tlog, taskRest>>

ReadDone ==
  /\ tpc = "loop" /\ HeadEntry(tq) = Empty
  /\ tpc' = "next"
  /\ UNCHANGED <<queVars, evUser, sub, tq, tsub, tlog, taskRest>>

\* Under evUser->lock: the next queue of the chain, or the end of the pass.
TaskNext ==
  /\ tpc = "next"
  /\ IF tq < nque
     THEN tq' = tq + 1 /\ tpc' = "read"
     ELSE tq' = 1 /\ tpc' = IF evUser.pendexit THEN "exit" ELSE "wait"
  /\ UNCHANGED <<queVars, evUser, sub, tsub, tlog, taskRest>>

\* The queues are destroyed and db_close_events is woken.
TaskExit ==
  /\ tpc = "exit"
  /\ evUser' = [evUser EXCEPT !.pexitsem = TRUE]
  /\ tpc' = "done"
  /\ UNCHANGED <<queVars, sub, tq, tsub, tlog, taskRest>>

-----------------------------------------------------------------------------
(* The specification *)

TaskStep ==
  \/ TaskWait \/ TaskWoken \/ TaskLabor \/ ReadEnter \/ SkipCanceled
  \/ BeginCallback \/ UserSub \/ Return \/ ReadDone \/ TaskNext \/ TaskExit

\* Calls in progress go on
ClientStep(c) ==
  ClientSignal(c) \/ CancelPurge(c) \/ CancelFlush(c) \/ CancelRecheck(c) \/ CloseJoin(c)

PosterStep(r) == PostSignal(r) \/ \E s \in Subs : db_queue_event_log(r, s)

\* Users may start a call, or not
Call(c) ==
  \/ TurnOffExtraLabor(c) \/ db_flush_extra_labor_event(c)
  \/ db_post_extra_labor(c) \/ db_close_events(c)
  \/ \E on \in BOOLEAN : db_event_flow_ctrl_mode(c, on)
  \/ \E s \in Subs : \/ \E r \in Recs : db_add_event(c, s, r)
                     \/ db_event_enable(c, s) \/ db_event_disable(c, s)
                     \/ CancelDisable(c, s) \/ db_post_single_event(c, s)

\* A failed assert() stops the process.
Next ==
  /\ assertFailed = "none"
  /\ \/ db_init_events \/ db_add_extra_labor_event \/ db_start_events
     \/ TaskStep
     \/ \E s \in Subs : CancelInCallback(s)
     \/ \E c \in Clients : Call(c) \/ ClientStep(c)
     \/ \E r \in Recs : db_post_events(r) \/ PosterStep(r)

\* Threads that can run do, callbacks return, and a started call goes on: no
\* thread waits for ever for a mutex that others take and release.
Fairness ==
  /\ WF_vars(TaskStep)
  /\ \A c \in Clients : WF_vars(ClientStep(c)) /\ SF_vars(CancelPurge(c) \/ CancelRecheck(c))
  /\ \A r \in Recs : WF_vars(PosterStep(r))

Spec == Init /\ [][Next]_vars
FairSpec == Spec /\ Fairness

-----------------------------------------------------------------------------
(* Safety *)

Occupied(f, i) == f[i] # Empty

\* ring f is occupied from g up to p
Contiguous(f, g, p) ==
  /\ g < p => \A i \in Slots : Occupied(f, i) <=> g <= i /\ i < p
  /\ g > p => \A i \in Slots : Occupied(f, i) <=> g <= i \/ i < p
  /\ g = p => \/ \A i \in Slots : Occupied(f, i)
              \/ \A i \in Slots : ~Occupied(f, i)

\* The occupied slots of a ring are exactly those from getix up to putix,
\* cancelled placeholders included, although posters, cancellers and the task
\* work on them in any order.
RingShape == \A q \in Queues : Contiguous(evque[q], getix[q], putix[q])

Entries(s) == {i \in Slots : evque[sub[s].que][i] = s}

\* The counters agree with the rings: npend, nCanceled and nDuplicates count
\* what they are documented to count, and quota is what the subscriptions that
\* are not freed hold.  So no assert() on a counter fails: none runs below zero.
CountsAgree ==
  /\ assertFailed # "counter"
  /\ \A s \in Subs : sub[s].npend = Cardinality(Entries(s))
  /\ \A q \in Queues :
       LET held == {i \in Slots : evque[q][i] \in Subs}
       IN /\ nCanceled[q] = Cardinality({i \in Slots : evque[q][i] = Canceled})
          /\ nDuplicates[q] = Cardinality(held) - Cardinality({evque[q][i] : i \in held})
          /\ quota[q] = EVENTENTRIES *
                          Cardinality({s \in Subs : sub[s].st # "free" /\ sub[s].que = q})

\* "Otherwise, the current entry must be available": the quota that db_add_event
\* checks leaves a slot for the first entry of every subscription.
EntryAvailable == assertFailed # "slot"

EntriesLive ==
  \A q \in Queues, i \in Slots :
    evque[q][i] \in Subs =>
      LET e == sub[evque[q][i]] IN e.st # "free" /\ e.que = q /\ e.user_sub

CallbackLive ==
  \/ tpc = "callback"
  \/ tpc = "return" /\ evUser.pSuicideEvent # tsub
  => sub[tsub].st # "free" /\ sub[tsub].callBackInProgress

\* The event task's pointers never dangle: a queue entry points to a
\* subscription that is not freed, lives on that queue and has its callback;
\* and while a callback runs db_cancel_event of another thread has not freed
\* its subscription (unless the callback itself cancelled it).
NoDanglingEvent == EntriesLive /\ CallbackLive

\* entry i of queue q is before entry j
Before(q, i, j) == OnTheWay(getix[q], i, j) /\ i # j

\* The log in the task's hands is not delivered yet.
InHand(s) == tpc = "callback" /\ tsub = s

\* No update is lost: what was posted last to a live subscription is the last
\* log queued for it, in the task's hands, or seen by the callback; only older
\* values may have been replaced.
NoLostUpdate ==
  \A s \in Subs : assertFailed = "none" /\ sub[s].st = "live" =>
    LET q == sub[s].que
    IN IF sub[s].npend > 0
       THEN /\ valque[q][sub[s].pLastLog] \in {posted[s], RecLog}
            /\ \A i \in Entries(s) : i = sub[s].pLastLog \/ Before(q, i, sub[s].pLastLog)
       ELSE IF InHand(s) THEN tlog \in {posted[s], RecLog}
       ELSE seen[s] >= posted[s]

\* No wakeup is lost: posts signal ppendsem only when they find the ring empty,
\* and still the task never sleeps on a queue with entries unless it is under
\* flow control or a thread is about to signal it.
NoLostWakeup ==
  /\ tpc = "wait" /\ ~evUser.ppendsem
  /\ \E q \in Queues : HeadEntry(q) # Empty
  => \/ evUser.flowCtrlMode
     \/ \E r \in Recs : post[r].sig
     \/ \E c \in Clients : cpc[c] \in {"signal", "closesig"}

FlushedLaborIsOver == flushed /\ ~evUser.extralabor_sub => tpc # "labor"

ClosedIsUnused ==
  evUser.destroyed => /\ tpc \in {"none", "done"}
               /\ \A r \in Recs : post[r] = Idle
               /\ \A c \in Clients : cpc[c] = "idle"

\* What a client gets back is in nobody's hands: once extra labor is turned off
\* and flushed the labor function (and the client block it uses) does not run,
\* and db_close_events frees the event_user only when neither the task nor a
\* poster nor a client uses it.
GivenBackIsUnused == FlushedLaborIsOver /\ ClosedIsUnused

-----------------------------------------------------------------------------
(* What NoDanglingEvent rests on *)

\* a thread inside db_cancel_event is the only one to cancel its subscription,
\* and has cleared user_sub once the purge is over
CancelsOwn ==
  \A c \in Clients : cpc[c] \in {"purge", "flush", "recheck"} =>
    LET e == sub[csub[c]]
    IN e.st = "cancel" /\ e.owner = c /\ (cpc[c] # "purge" => ~e.user_sub)

\* only live subscriptions are enabled, and they have their callback
LiveSubs ==
  \A s \in Subs : /\ sub[s].st = "live" => sub[s].user_sub
                  /\ sub[s].enabled => sub[s].st = "live"

\* a poster has only live subscriptions of its record ahead of it; a client that
\* posts on its own is inside that one call and owns the subscription
PostersLive ==
  /\ \A r \in Recs :
       LET p == post[r]
       IN /\ \A s \in p.todo : sub[s].st = "live" /\ sub[s].rec = r
          /\ p.by = "none" => p.todo = {}
          /\ p.by \in Clients => /\ cpc[p.by] = "posting"
                                 /\ \A s \in p.todo : sub[s].owner = p.by
  /\ \A q, r \in Recs : post[q].by = post[r].by /\ post[q].by \in Clients => q = r

\* pSuicideEvent is the subscription whose callback is about to return
SuicideIsCurrent ==
  /\ evUser.pSuicideEvent # NoSub => tpc = "return" /\ evUser.pSuicideEvent = tsub
  /\ ~evUser.taskid => tpc = "none"

\* While callbacks cancel no subscription but their own, the owners of
\* subscriptions, the posters and the task never meet on a freed one: each knows
\* from its own position that the subscription it holds is not freed.
CancelDiscipline ==
  /\ RingShape /\ NoDanglingEvent
  /\ CancelsOwn /\ LiveSubs /\ PostersLive /\ SuicideIsCurrent

(* Liveness, under Fairness *)

\* Without flow control a posted value, or a newer one, reaches the callback.
Delivered ==
  \A s \in Subs :
    (sub[s].st = "live" /\ posted[s] > seen[s]) ~>
      (seen[s] >= posted[s] \/ sub[s].st # "live" \/ evUser.flowCtrlMode)

\* Another cancel of the event_user waits for pflush_sem at the same time.
SharesFlush(c) ==
  \E d \in Clients \ {c} : {cpc[c], cpc[d]} \subseteq {"flush", "recheck"}

CancelEnds ==
  \A c \in Clients : cpc[c] = "purge" ~> (cpc[c] = "idle" \/ SharesFlush(c))

CloseEnds ==
  \A c \in Clients : cpc[c] \in {"closesig", "closewait"} ~> cpc[c] = "idle"

\* db_cancel_event returns, even under flow control, unless another cancel of the
\* same event_user waits for pflush_sem at the same time: either may take the
\* other's signal, which is not passed on.  db_close_events returns.
CallsReturn == CancelEnds /\ CloseEnds

\* Extra labor that was posted is done, unless it is turned off, the event_user
\* is closed, or posts keep event_read from ever reaching the end of a queue.
LaborGetsDone ==
  []<>(tpc \in {"next", "wait"}) =>
    (evUser.extra_labor ~>
       (~evUser.extra_labor \/ ~evUser.extralabor_sub \/ evUser.pendexit))

=============================================================================
