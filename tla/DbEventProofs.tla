--------------------------- MODULE DbEventProofs ---------------------------
(***************************************************************************)
(* Proofs about the event queues: type correctness, the shape of the       *)
(* rings, that no freed subscription is ever used, that db_close_events    *)
(* frees an event_user nobody uses, that no wakeup of the event task is    *)
(* lost, that the counters count what they should, that no update is lost, *)
(* and that every subscription gets what Monitor promises, for every value *)
(* of the constants.                                                       *)
(***************************************************************************)
EXTENDS MCDbEvent, FiniteSetTheorems, TLAPS

-----------------------------------------------------------------------------
(* Type correctness *)

\* Facts about the constants: rings and the chain of queues are not empty.
LEMMA SizeFact == EVENTQUESIZE \in Nat /\ EVENTQUESIZE > 0 /\ 0 \in Slots /\ 1 \in Queues
BY ConstAssumption DEF Slots, Queues

\* RNGINC stays in the ring, the wrap included.
LEMMA RNGINCType == ASSUME NEW i \in Slots PROVE RNGINC(i) \in Slots
BY SizeFact DEF RNGINC, Slots

\* A freed subscription block is well typed.
LEMMA FreeSubType == FreeSub \in SubRec
<1>1. (CHOOSE r \in Recs : TRUE) \in Recs
  BY ConstAssumption
<1> QED
  BY <1>1, SizeFact DEF FreeSub, SubRec, SubState

\* An idle poster is well typed.
LEMMA IdleType == Idle \in PostRec
BY DEF Idle, PostRec

\* The block db_init_events fills is well typed.
LEMMA FreshUserType == FreshUser \in UserRec
BY DEF FreshUser, UserRec

\* Steps that leave the queues alone keep their types; the same for the event
\* task, the posters, the clients and the history below.
LEMMA QueFrame == QueType /\ UNCHANGED queVars => QueType'
BY DEF QueType, queVars

\* The event task's variables.
LEMMA TaskFrame == TaskType /\ UNCHANGED taskVars => TaskType'
BY DEF TaskType, taskVars

\* The posters' variables.
LEMMA PostFrame == PostType /\ UNCHANGED postVars => PostType'
BY DEF PostType, postVars

\* The clients' variables.
LEMMA ClientFrame == ClientType /\ UNCHANGED cliVars => ClientType'
BY DEF ClientType, cliVars

\* The history variables.
LEMMA HistFrame == HistType /\ UNCHANGED <<posted, seen>> => HistType'
BY DEF HistType

\* event_read taking the entry at getix keeps the ring's types.
LEMMA TakeHeadType ==
  ASSUME QueType, NEW q \in Queues, TakeHead(q)
  PROVE  /\ evque' \in [Queues -> [Slots -> Subs \cup {Empty, Canceled}]]
         /\ valque' \in [Queues -> [Slots -> Logs \cup {NoLog}]]
         /\ getix' \in [Queues -> Slots]
<1>1. getix[q] \in Slots /\ RNGINC(getix[q]) \in Slots
  BY RNGINCType DEF QueType
<1> QED
  BY <1>1 DEF TakeHead, QueType

\* The fields of a subscription block have their types.
LEMMA SubFields ==
  ASSUME NEW e \in SubRec
  PROVE  /\ e.npend \in Int /\ e.pLastLog \in Slots \cup {NoSlot} /\ e.que \in Queues
         /\ e.rec \in Recs
BY DEF SubRec

\* Setting npend and pLastLog keeps the blocks well typed.
LEMMA PendType ==
  ASSUME sub \in [Subs -> SubRec], NEW s \in Subs,
         NEW n \in Int, NEW x \in Slots \cup {NoSlot}
  PROVE  [sub EXCEPT ![s].npend = n, ![s].pLastLog = x] \in [Subs -> SubRec]
BY ZenonT(60) DEF SubRec

\* event_remove keeps the blocks well typed.
LEMMA RemovedType ==
  ASSUME sub \in [Subs -> SubRec], NEW s \in Subs
  PROVE  Removed(s) \in [Subs -> SubRec]
<1>1. /\ sub[s].npend - 1 \in Int
      /\ (IF sub[s].npend = 1 THEN NoSlot ELSE sub[s].pLastLog) \in Slots \cup {NoSlot}
  BY SubFields
<1> QED
  BY <1>1, PendType DEF Removed

\* db_cancel_event freeing the block keeps the types.
LEMMA ReleaseType ==
  ASSUME TypeOK, NEW s \in Subs, Release(s)
  PROVE  /\ quota' \in [Queues -> Int] /\ sub' \in [Subs -> SubRec] /\ HistType'
<1>1. sub' \in [Subs -> SubRec]
  BY FreeSubType DEF Release, TypeOK
<1>2. HistType'
  BY ConstAssumption DEF Release, TypeOK, HistType, Logs
<1>3. quota' \in [Queues -> Int]
  BY SubFields, ConstAssumption DEF Release, TypeOK, QueType
<1> QED
  BY <1>1, <1>2, <1>3

\* The block db_add_event fills is well typed.
LEMMA NewSubType ==
  ASSUME NEW c \in Clients, NEW r \in Recs, NEW q \in Queues PROVE NewSub(c, r, q) \in SubRec
BY FreeSubType DEF NewSub, SubRec, SubState

\* A poster that goes on or ends keeps the types.
LEMMA PosterType ==
  ASSUME PostType, ClientType, NEW r \in Recs, NEW sig \in BOOLEAN, NEW todo,
         todo \subseteq post[r].todo, PosterContinues(r, todo, sig),
         UNCHANGED <<val, csub>>
  PROVE  PostType' /\ ClientType'
<1>1. post[r] \in PostRec /\ todo \in SUBSET Subs
  BY DEF PostType, PostRec
<1>2. [post[r] EXCEPT !.todo = todo, !.sig = sig] \in PostRec
  BY <1>1 DEF PostRec
<1>3. PostType'
  BY <1>2, IdleType DEF PosterContinues, PostType
<1>4. /\ cpc' \in [Clients -> ClientPC]
      /\ \A c \in Clients : cpc'[c] \in {"idle", cpc[c]}
  BY DEF PosterContinues, ClientType, ClientPC
<1>5. ClientType'
  BY <1>4 DEF ClientType
<1> QED
  BY <1>3, <1>5

\* db_cancel_event's purge meets finitely many entries.
LEMMA PurgedCount ==
  ASSUME NEW q, NEW s PROVE Cardinality(Purged(q, s)) \in Nat
<1>1. IsFiniteSet(Slots)
  BY FS_Interval, SizeFact DEF Slots
<1>2. Purged(q, s) \subseteq Slots
  BY DEF Purged
<1> QED
  BY <1>1, <1>2, FS_Subset, FS_CardinalityType

\* The purge keeps the ring's types.
LEMMA PurgeType ==
  ASSUME TypeOK, NEW s \in Subs, NEW q \in Queues, PurgeQueue(q, s)
  PROVE  /\ evque' \in [Queues -> [Slots -> Subs \cup {Empty, Canceled}]]
         /\ valque' \in [Queues -> [Slots -> Logs \cup {NoLog}]]
         /\ nCanceled' \in [Queues -> Int] /\ nDuplicates' \in [Queues -> Int]
<1> DEFINE k == Cardinality(Purged(q, s))
           d == IF k < sub[s].npend THEN k ELSE IF k = 0 THEN 0 ELSE k - 1
<1>1. evque' \in [Queues -> [Slots -> Subs \cup {Empty, Canceled}]]
  BY DEF PurgeQueue, TypeOK, QueType
<1>2. valque' \in [Queues -> [Slots -> Logs \cup {NoLog}]]
  BY DEF PurgeQueue, TypeOK, QueType
<1>3. k \in Nat /\ d \in Int
  BY PurgedCount
<1>4. nCanceled' = [nCanceled EXCEPT ![q] = @ + k]
  BY DEF PurgeQueue
<1>5. nDuplicates' = [nDuplicates EXCEPT ![q] = @ - d]
  BY DEF PurgeQueue
<1> HIDE DEF k, d
<1>6. nCanceled' \in [Queues -> Int] /\ nDuplicates' \in [Queues -> Int]
  BY <1>3, <1>4, <1>5 DEF TypeOK, QueType
<1> QED
  BY <1>1, <1>2, <1>6

\* db_create_event_log logs a value or a reference to the record.
LEMMA LogType ==
  ASSUME TypeOK, NEW s \in Subs PROVE EventLog(s) \in Logs
BY SubFields, ConstAssumption DEF EventLog, TypeOK, PostType, Logs, RecLog

\* The three outcomes of db_queue_event_log keep the ring's types.
LEMMA AddType ==
  ASSUME TypeOK, NEW s \in Subs,
         QueueDuplicate(s) \/ QueueReplace(s) \/ QueueAdd(s)
  PROVE  /\ evque' \in [Queues -> [Slots -> Subs \cup {Empty, Canceled}]]
         /\ valque' \in [Queues -> [Slots -> Logs \cup {NoLog}]]
         /\ putix' \in [Queues -> Slots]
         /\ nDuplicates' \in [Queues -> Int]
         /\ sub' \in [Subs -> SubRec]
<1> DEFINE q == sub[s].que
           i == putix[q]
<1>1. q \in Queues /\ i \in Slots /\ RNGINC(i) \in Slots /\ EventLog(s) \in Logs
  BY SubFields, RNGINCType, LogType DEF TypeOK, QueType
<1>2. CASE QueueDuplicate(s)
  BY <1>2 DEF QueueDuplicate, TypeOK, QueType
<1>3. CASE QueueReplace(s)
  BY <1>1, <1>3 DEF QueueReplace, TypeOK, QueType
<1>4. CASE QueueAdd(s) /\ evque[q][i] # Empty
  BY <1>4 DEF QueueAdd, TypeOK, QueType
<1>5. CASE QueueAdd(s) /\ evque[q][i] = Empty
  <2>0. /\ evque' = [evque EXCEPT ![q][i] = s]
        /\ valque' = [valque EXCEPT ![q][i] = EventLog(s)]
        /\ putix' = [putix EXCEPT ![q] = RNGINC(i)]
    BY <1>5 DEF QueueAdd
  <2> HIDE DEF q, i
  <2>1. /\ evque' \in [Queues -> [Slots -> Subs \cup {Empty, Canceled}]]
        /\ valque' \in [Queues -> [Slots -> Logs \cup {NoLog}]]
        /\ putix' \in [Queues -> Slots]
    BY <1>1, <2>0 DEF TypeOK, QueType
  <2> USE DEF q, i
  <2>2. nDuplicates' \in [Queues -> Int]
    BY <1>1, <1>5 DEF QueueAdd, TypeOK, QueType
  <2>3. sub[s].npend + 1 \in Int /\ i \in Slots \cup {NoSlot}
    BY <1>1, SubFields DEF TypeOK
  <2>4. sub' = [sub EXCEPT ![s].npend = sub[s].npend + 1, ![s].pLastLog = i]
    BY <1>5 DEF QueueAdd
  <2>5. sub' \in [Subs -> SubRec]
    BY <2>3, <2>4, PendType DEF TypeOK
  <2> QED
    BY <2>1, <2>2, <2>5
<1> QED
  BY <1>2, <1>3, <1>4, <1>5

\* The block of a purged subscription is well typed.
LEMMA PurgedSubType ==
  ASSUME sub \in [Subs -> SubRec], NEW s \in Subs PROVE PurgedSub(s) \in [Subs -> SubRec]
<1> DEFINE g == [sub EXCEPT ![s].npend = 0, ![s].pLastLog = NoSlot]
<1>0. 0 \in Int /\ NoSlot \in Slots \cup {NoSlot}
  OBVIOUS
<1>1. g \in [Subs -> SubRec]
  BY <1>0, PendType
<1>2. ASSUME NEW f \in [Subs -> SubRec] PROVE [f EXCEPT ![s].user_sub = FALSE] \in [Subs -> SubRec]
  BY ZenonT(60) DEF SubRec
<1>3. PurgedSub(s) = [g EXCEPT ![s].user_sub = FALSE]
  BY DEF PurgedSub, SubRec
<1> QED
  BY ZenonT(60), <1>1, <1>2, <1>3

\* Setting callBackInProgress keeps the blocks well typed.
LEMMA CallbackType ==
  ASSUME NEW f \in [Subs -> SubRec], NEW s \in Subs, NEW b \in BOOLEAN
  PROVE  [f EXCEPT ![s].callBackInProgress = b] \in [Subs -> SubRec]
BY DEF SubRec

\* firstEventFlag is a flag.
LEMMA FirstEventType == ASSUME NEW s PROVE FirstEvent(s) \in BOOLEAN
BY DEF FirstEvent

\* db_init_events keeps the types.
LEMMA db_init_events_Type ==
  ASSUME TypeOK, db_init_events PROVE TypeOK'
<1>1. QueType'
  BY SizeFact DEF db_init_events, EmptyRing, NoLogs, TypeOK, QueType
<1>2. evUser' \in UserRec
  BY FreshUserType DEF db_init_events, TypeOK, UserRec
<1>3. TaskType'
  BY SizeFact DEF db_init_events, NoSub, NoLog, TypeOK, TaskType, TaskPC
<1>4. assertFailed' \in Asserts /\ flushed' \in BOOLEAN
  BY DEF db_init_events, TypeOK
<1> QED
  BY <1>1, <1>2, <1>3, <1>4, PostFrame, ClientFrame, HistFrame DEF db_init_events, TypeOK,
     callRest, taskRest, taskVars, postVars, cliVars, histVars

\* SkipCanceled keeps the types.
LEMMA SkipCanceled_Type ==
  ASSUME TypeOK, SkipCanceled PROVE TypeOK'
<1>1. QueType'
  BY TakeHeadType DEF SkipCanceled, TaskType, TypeOK, QueType
<1>2. assertFailed' \in Asserts /\ flushed' \in BOOLEAN
  <2>1. assertFailed' = Checked(nCanceled[tq] > 0)
    BY DEF SkipCanceled
  <2>2. assertFailed' \in Asserts
    BY <2>1 DEF Checked, Asserts
  <2> QED
    BY <2>2 DEF SkipCanceled, histVars, TypeOK
<1> QED
  BY <1>1, <1>2, TaskFrame, PostFrame, ClientFrame, HistFrame DEF SkipCanceled, TypeOK,
     callRest, taskRest, taskVars, postVars, cliVars, histVars

\* BeginCallback keeps the types.
LEMMA BeginCallback_Type ==
  ASSUME TypeOK, BeginCallback PROVE TypeOK'
<1>1. QueType'
  BY TakeHeadType DEF BeginCallback, TaskType, TypeOK, QueType
<1>2. sub' \in [Subs -> SubRec]
  <2> DEFINE s == HeadEntry(tq)
  <2>1. s \in Subs /\ sub' \in {Removed(s), [Removed(s) EXCEPT ![s].callBackInProgress =
     TRUE]}
    BY DEF BeginCallback
  <2>2. Removed(s) \in [Subs -> SubRec]
    BY <2>1, RemovedType DEF TypeOK
  <2>3. [Removed(s) EXCEPT ![s].callBackInProgress = TRUE] \in [Subs -> SubRec]
    BY <2>1, <2>2, CallbackType
  <2> QED
    BY <2>1, <2>2, <2>3
<1>3. TaskType'
  BY DEF BeginCallback, QueType, TypeOK, TaskType, TaskPC
<1>4. assertFailed' \in Asserts /\ flushed' \in BOOLEAN
  <2> DEFINE s == HeadEntry(tq)
  <2>1. assertFailed' = Checked(sub[s].npend = 1 \/ (sub[s].npend > 1 /\ nDuplicates[tq] >= 1))
    BY Zenon DEF BeginCallback
  <2>2. assertFailed' \in Asserts
    BY <2>1 DEF Checked, Asserts
  <2> QED
    BY <2>2 DEF BeginCallback, histVars, TypeOK
<1> QED
  BY <1>1, <1>2, <1>3, <1>4, PostFrame, ClientFrame, HistFrame DEF BeginCallback, TypeOK,
     callRest, taskRest, taskVars, postVars, cliVars, histVars

\* UserSub keeps the types.
LEMMA UserSub_Type ==
  ASSUME TypeOK, UserSub PROVE TypeOK'
<1>1. TaskType'
  BY DEF UserSub, NoLog, TypeOK, TaskType, TaskPC
<1>2. HistType'
  BY SubFields DEF UserSub, TaskType, PostType, Logs, NoLog, TypeOK, HistType
<1> QED
  BY <1>1, <1>2, QueFrame, PostFrame, ClientFrame DEF UserSub, TypeOK, callRest, taskRest,
     taskVars, postVars, cliVars, histVars

\* CancelInCallback keeps the types.
LEMMA CancelInCallback_Type ==
  ASSUME TypeOK, NEW s \in Subs, CancelInCallback(s) PROVE TypeOK'
<1>1. QueType'
  <2>1. sub[s].que \in Queues
    BY SubFields DEF TypeOK
  <2>2. PurgeQueue(sub[s].que, s) /\ Release(s) /\ UNCHANGED <<putix, getix, nque>>
    BY DEF CancelInCallback
  <2>3. quota' \in [Queues -> Int]
    BY <2>2, ReleaseType
  <2> QED
    BY <2>1, <2>2, <2>3, PurgeType DEF TypeOK, QueType
<1>2. evUser' \in UserRec
  BY DEF CancelInCallback, TypeOK, UserRec
<1>3. sub' \in [Subs -> SubRec]
  BY ReleaseType DEF CancelInCallback, TypeOK, SubRec
<1>4. HistType'
  BY ReleaseType DEF CancelInCallback, TypeOK, HistType
<1>5. assertFailed' \in Asserts /\ flushed' \in BOOLEAN
  BY DEF CancelInCallback, PurgeQueue, Checked, Asserts, TypeOK
<1> QED
  BY <1>1, <1>2, <1>3, <1>4, <1>5, TaskFrame, PostFrame, ClientFrame DEF CancelInCallback,
     TypeOK, callRest, taskRest, taskVars, postVars, cliVars, histVars

\* Return keeps the types.
LEMMA Return_Type ==
  ASSUME TypeOK, Return PROVE TypeOK'
<1>1. evUser' \in UserRec
  BY DEF Return, TypeOK, UserRec
<1>2. sub' \in [Subs -> SubRec]
  <2>1. CASE UNCHANGED sub
    BY <2>1 DEF TypeOK
  <2>2. CASE sub' = [sub EXCEPT ![tsub].callBackInProgress = FALSE]
    <3>1. tsub \in Subs
      BY DEF Return, TaskType, TypeOK
    <3> QED
      BY <2>2, <3>1, CallbackType DEF TypeOK
  <2> QED
    BY <2>1, <2>2 DEF Return
<1>3. TaskType'
  BY DEF Return, TypeOK, TaskType, TaskPC
<1> QED
  BY <1>1, <1>2, <1>3, QueFrame, PostFrame, ClientFrame, HistFrame DEF Return, TypeOK,
     callRest, taskRest, taskVars, postVars, cliVars, histVars

\* db_add_event keeps the types.
LEMMA db_add_event_Type ==
  ASSUME TypeOK, NEW c \in Clients, NEW s \in Subs, NEW r \in Recs, db_add_event(c, s, r)
     PROVE TypeOK'
<1>1. QueType'
  BY ConstAssumption, SMTT(30) DEF db_add_event, Queues, TypeOK, QueType
<1>2. sub' \in [Subs -> SubRec]
  BY NewSubType DEF db_add_event, TypeOK, SubRec
<1> QED
  BY <1>1, <1>2, TaskFrame, PostFrame, ClientFrame, HistFrame DEF db_add_event, TypeOK,
     callRest, taskRest, taskVars, postVars, cliVars, histVars

\* db_post_single_event keeps the types.
LEMMA db_post_single_event_Type ==
  ASSUME TypeOK, NEW c \in Clients, NEW s \in Subs, db_post_single_event(c, s) PROVE
     TypeOK'
<1>1. PostType'
  BY DEF db_post_single_event, Owns, TypeOK, PostType, PostRec
<1>2. ClientType'
  BY DEF db_post_single_event, TypeOK, ClientType, ClientPC
<1> QED
  BY <1>1, <1>2, QueFrame, TaskFrame, HistFrame DEF db_post_single_event, TypeOK,
     callRest, taskRest, taskVars, postVars, cliVars, histVars

\* CancelPurge keeps the types.
LEMMA CancelPurge_Type ==
  ASSUME TypeOK, NEW c \in Clients, CancelPurge(c) PROVE TypeOK'
<1>1. QueType'
  <2> DEFINE s == csub[c]
  <2>1. s \in Subs /\ sub[s].que \in Queues
    BY SubFields DEF CancelPurge, ClientType, TypeOK
  <2>2. /\ PurgeQueue(sub[s].que, s) /\ UNCHANGED <<putix, getix, nque>>
        /\ Release(s) \/ UNCHANGED quota
    BY DEF CancelPurge
  <2>3. quota' \in [Queues -> Int]
    BY <2>1, <2>2, ReleaseType DEF TypeOK, QueType
  <2> HIDE DEF s
  <2> QED
    BY <2>1, <2>2, <2>3, PurgeType DEF TypeOK, QueType
<1>2. sub' \in [Subs -> SubRec]
  BY ReleaseType, PurgedSubType DEF CancelPurge, ClientType, TypeOK, SubRec
<1>3. ClientType'
  BY DEF CancelPurge, CancelReturns, NoSub, TypeOK, ClientType, ClientPC
<1>4. HistType'
  BY ReleaseType DEF CancelPurge, ClientType, TypeOK, HistType
<1>5. assertFailed' \in Asserts /\ flushed' \in BOOLEAN
  BY DEF CancelPurge, PurgeQueue, Checked, Asserts, TypeOK
<1> QED
  BY <1>1, <1>2, <1>3, <1>4, <1>5, TaskFrame, PostFrame DEF CancelPurge, TypeOK, callRest,
     taskRest, taskVars, postVars, cliVars, histVars

\* CancelRecheck keeps the types.
LEMMA CancelRecheck_Type ==
  ASSUME TypeOK, NEW c \in Clients, CancelRecheck(c) PROVE TypeOK'
<1>1. QueType'
  BY ReleaseType DEF CancelRecheck, ClientType, TypeOK, QueType
<1>2. sub' \in [Subs -> SubRec]
  BY ReleaseType DEF CancelRecheck, ClientType, TypeOK, SubRec
<1>3. ClientType'
  BY DEF CancelRecheck, CancelReturns, NoSub, TypeOK, ClientType, ClientPC
<1>4. HistType'
  BY ReleaseType DEF CancelRecheck, ClientType, TypeOK, HistType
<1> QED
  BY <1>1, <1>2, <1>3, <1>4, TaskFrame, PostFrame DEF CancelRecheck, TypeOK, callRest,
     taskRest, taskVars, postVars, cliVars, histVars

\* db_post_events keeps the types.
LEMMA db_post_events_Type ==
  ASSUME TypeOK, NEW r \in Recs, db_post_events(r) PROVE TypeOK'
<1>1. PostType'
  BY ConstAssumption DEF db_post_events, TypeOK, PostType, PostRec
<1> QED
  BY <1>1, QueFrame, TaskFrame, ClientFrame, HistFrame DEF db_post_events, TypeOK,
     callRest, taskRest, taskVars, postVars, cliVars, histVars

\* db_queue_event_log keeps the types.
LEMMA db_queue_event_log_Type ==
  ASSUME TypeOK, NEW r \in Recs, NEW s \in Subs, db_queue_event_log(r, s) PROVE TypeOK'
<1>1. QueType'
  BY AddType DEF db_queue_event_log, QueueDuplicate, QueueReplace, TypeOK, QueType
<1>2. sub' \in [Subs -> SubRec]
  BY AddType DEF db_queue_event_log, QueueDuplicate, QueueReplace, TypeOK, SubRec
<1>3. PostType'
  BY PosterType, FirstEventType DEF db_queue_event_log, TypeOK, PostType
<1>4. ClientType'
  BY PosterType, FirstEventType DEF db_queue_event_log, TypeOK, PostType
<1>5. HistType'
  BY ConstAssumption DEF db_queue_event_log, PostType, Logs, TypeOK, HistType
<1>6. assertFailed' \in Asserts /\ flushed' \in BOOLEAN
  BY DEF db_queue_event_log, QueueDuplicate, QueueReplace, QueueAdd, Asserts, TypeOK
<1> QED
  BY <1>1, <1>2, <1>3, <1>4, <1>5, <1>6, TaskFrame DEF db_queue_event_log, TypeOK,
     callRest, taskRest, taskVars, postVars, cliVars, histVars

\* PostSignal keeps the types.
LEMMA PostSignal_Type ==
  ASSUME TypeOK, NEW r \in Recs, PostSignal(r) PROVE TypeOK'
<1>1. evUser' \in UserRec
  BY DEF PostSignal, TypeOK, UserRec
<1>2. PostType'
  BY PosterType DEF PostSignal, TypeOK, PostType
<1>3. ClientType'
  BY PosterType DEF PostSignal, TypeOK, PostType
<1> QED
  BY <1>1, <1>2, <1>3, QueFrame, TaskFrame, HistFrame DEF PostSignal, TypeOK, callRest,
     taskRest, taskVars, postVars, cliVars, histVars

\* db_flush_extra_labor_event keeps the types.
LEMMA db_flush_extra_labor_event_Type ==
  ASSUME TypeOK, NEW c \in Clients, db_flush_extra_labor_event(c) PROVE TypeOK'
<1>1. assertFailed' \in Asserts /\ flushed' \in BOOLEAN
  BY DEF db_flush_extra_labor_event, TypeOK
<1> QED
  BY <1>1, QueFrame, TaskFrame, PostFrame, ClientFrame, HistFrame DEF
     db_flush_extra_labor_event, TypeOK, callRest, taskRest, taskVars, postVars, cliVars,
     histVars

\* CancelDisable keeps the types.
LEMMA CancelDisable_Type ==
  ASSUME TypeOK, NEW c \in Clients, NEW s \in Subs, CancelDisable(c, s) PROVE TypeOK'
<1>1. sub' \in [Subs -> SubRec]
  BY ZenonT(60) DEF CancelDisable, SubState, TypeOK, SubRec
<1>2. ClientType'
  BY DEF CancelDisable, TypeOK, ClientType, ClientPC
<1> QED
  BY <1>1, <1>2, QueFrame, TaskFrame, PostFrame, HistFrame DEF CancelDisable, TypeOK,
     callRest, taskRest, taskVars, postVars, cliVars, histVars

\* Steps of the event task that only move it, and its start, keep the types.
LEMMA TaskMoves_Type ==
  ASSUME TypeOK,
         \/ db_add_extra_labor_event \/ db_start_events \/ TaskWait \/ TaskWoken
         \/ TaskLabor \/ ReadEnter \/ ReadDone \/ TaskNext \/ TaskExit
  PROVE  TypeOK'
<1>1. UNCHANGED <<queVars, sub, cliVars, postVars, assertFailed, histVars, tsub, tlog>>
  BY DEF db_add_extra_labor_event, db_start_events, TaskWait, TaskWoken, TaskLabor, ReadEnter,
     ReadDone, TaskNext, TaskExit, callRest, taskRest, taskVars
<1>2. evUser' \in UserRec
  BY ZenonT(60) DEF db_add_extra_labor_event, db_start_events, TaskWait, TaskWoken, TaskLabor, ReadEnter,
     ReadDone, TaskNext, TaskExit, TypeOK, UserRec
<1>3. tpc' = tpc \/ tpc' \in TaskPC \ {"callback", "return"}
  BY DEF db_add_extra_labor_event, db_start_events, TaskWait, TaskWoken, TaskLabor, ReadEnter,
     ReadDone, TaskNext, TaskExit, callRest, taskVars, TaskPC
<1>4. tq' = tq \/ tq' = 1 \/ (tq < nque /\ tq' = tq + 1)
  BY DEF db_add_extra_labor_event, db_start_events, TaskWait, TaskWoken, TaskLabor, ReadEnter,
     ReadDone, TaskNext, TaskExit, callRest, taskVars
<1>5. tq' \in Queues
  BY <1>4, ConstAssumption DEF TypeOK, TaskType, QueType, Queues
<1>6. TaskType'
  BY <1>1, <1>3, <1>5 DEF TypeOK, TaskType
<1> QED
  BY <1>1, <1>2, <1>6, QueFrame, PostFrame, ClientFrame, HistFrame DEF TypeOK, histVars

\* Calls that only touch the event_user block keep the types.
LEMMA ClientMoves_Type ==
  ASSUME TypeOK, NEW c \in Clients,
         \/ TurnOffExtraLabor(c) \/ db_post_extra_labor(c) \/ db_close_events(c)
         \/ (\E on \in BOOLEAN : db_event_flow_ctrl_mode(c, on))
         \/ ClientSignal(c) \/ CancelFlush(c) \/ CloseJoin(c)
  PROVE  TypeOK'
<1>1. UNCHANGED <<callRest, csub>>
  BY DEF TurnOffExtraLabor, db_post_extra_labor, db_close_events, db_event_flow_ctrl_mode,
     ClientSignal, CancelFlush, CloseJoin, cliVars
<1>2. evUser' \in UserRec
  BY ZenonT(60) DEF TurnOffExtraLabor, db_post_extra_labor, db_close_events, db_event_flow_ctrl_mode,
     ClientSignal, CancelFlush, CloseJoin, TypeOK, UserRec
<1>3. \/ UNCHANGED cpc
      \/ \E x \in {"idle", "signal", "closesig", "closewait"} : cpc' = [cpc EXCEPT ![c] = x]
      \/ cpc[c] = "flush" /\ cpc' = [cpc EXCEPT ![c] = "recheck"]
  BY DEF TurnOffExtraLabor, db_post_extra_labor, db_close_events, db_event_flow_ctrl_mode,
     ClientSignal, CancelFlush, CloseJoin, cliVars
<1>4. ClientType'
  BY <1>1, <1>3 DEF TypeOK, ClientType, ClientPC
<1> QED
  BY <1>1, <1>2, <1>4, QueFrame, TaskFrame, PostFrame, HistFrame DEF TypeOK, callRest, histVars

\* db_event_enable and db_event_disable keep the types.
LEMMA EnableDisable_Type ==
  ASSUME TypeOK, NEW c \in Clients, NEW s \in Subs,
         db_event_enable(c, s) \/ db_event_disable(c, s)
  PROVE  TypeOK'
<1>1. UNCHANGED <<queVars, evUser, taskVars, taskRest>>
  BY DEF db_event_enable, db_event_disable
<1>2. \E b \in BOOLEAN : sub' = [sub EXCEPT ![s].enabled = b]
  BY DEF db_event_enable, db_event_disable
<1>3. sub' \in [Subs -> SubRec]
  BY <1>2 DEF TypeOK, SubRec
<1> QED
  BY <1>1, <1>3, QueFrame, TaskFrame, PostFrame, ClientFrame, HistFrame
     DEF TypeOK, taskRest, histVars

\* A stuttering step keeps the types.
LEMMA TypeStutter == TypeOK /\ UNCHANGED vars => TypeOK'
BY QueFrame, TaskFrame, PostFrame, ClientFrame, HistFrame DEF TypeOK, vars, histVars

\* Every step keeps the types.
LEMMA TypeNext == TypeOK /\ [Next]_vars => TypeOK'
<1> SUFFICES ASSUME TypeOK, [Next]_vars PROVE TypeOK'
  OBVIOUS
<1>1. CASE db_init_events \/ db_add_extra_labor_event \/ db_start_events
  BY <1>1, db_init_events_Type, TaskMoves_Type
<1>2. CASE TaskStep
  BY <1>2, TaskMoves_Type, SkipCanceled_Type, BeginCallback_Type, UserSub_Type, Return_Type
     DEF TaskStep
<1>3. CASE \E s \in Subs : CancelInCallback(s)
  BY <1>3, CancelInCallback_Type
<1>4. ASSUME NEW c \in Clients, Call(c) PROVE TypeOK'
  BY <1>4, ClientMoves_Type, db_flush_extra_labor_event_Type, EnableDisable_Type,
     CancelDisable_Type, db_add_event_Type, db_post_single_event_Type DEF Call
<1>5. ASSUME NEW c \in Clients, ClientStep(c) PROVE TypeOK'
  BY <1>5, ClientMoves_Type, CancelPurge_Type, CancelRecheck_Type DEF ClientStep
<1>6. ASSUME NEW r \in Recs, db_post_events(r) \/ PosterStep(r) PROVE TypeOK'
  BY <1>6, db_post_events_Type, PostSignal_Type, db_queue_event_log_Type DEF PosterStep
<1>7. CASE UNCHANGED vars
  BY <1>7, TypeStutter
<1> QED
  BY <1>1, <1>2, <1>3, <1>4, <1>5, <1>6, <1>7 DEF Next

\* The initial state is well typed.
LEMMA TypeInit == Init => TypeOK
<1> SUFFICES ASSUME Init PROVE TypeOK
  OBVIOUS
<1>1. QueType
  BY SizeFact DEF Init, QueType, EmptyRing, NoLogs
<1>2. sub \in [Subs -> SubRec] /\ evUser \in UserRec
  BY FreeSubType, FreshUserType DEF Init
<1>3. TaskType /\ ClientType
  BY SizeFact DEF Init, TaskType, TaskPC, ClientType, ClientPC
<1>4. PostType /\ HistType
  BY ConstAssumption, IdleType DEF Init, PostType, HistType, Logs
<1> QED
  BY <1>1, <1>2, <1>3, <1>4 DEF Init, TypeOK, Asserts

\* Every variable of dbEvent.c keeps its type in every reachable state, for any
\* number of subscriptions, records, clients and queues, and any ring size.
THEOREM TypeCorrect == Spec => []TypeOK
BY TypeInit, TypeNext, PTL DEF Spec

-----------------------------------------------------------------------------
(* The rings are contiguous *)

\* the contents of a ring
Ring == [Slots -> Subs \cup {Empty, Canceled}]

\* db_queue_event_log: filling the empty slot at putix and advancing putix keeps
\* the ring contiguous, the ring that becomes full included.
LEMMA RingAdd ==
  ASSUME NEW f \in Ring, NEW g \in Slots, NEW p \in Slots, Contiguous(f, g, p),
         NEW s, s # Empty, f[p] = Empty
  PROVE  Contiguous([f EXCEPT ![p] = s], g, RNGINC(p))
<1> DEFINE h == [f EXCEPT ![p] = s]
<1>1. \A i \in Slots : h[i] # Empty <=> f[i] # Empty \/ i = p
  BY DEF Ring
<1> SUFFICES Contiguous(h, g, RNGINC(p))
  OBVIOUS
<1> HIDE DEF h
<1>2. /\ EVENTQUESIZE \in Nat /\ g \in Int /\ p \in Int
      /\ 0 <= g /\ g < EVENTQUESIZE /\ 0 <= p /\ p < EVENTQUESIZE
  BY SizeFact DEF Slots
<1>3. RNGINC(p) = IF p = EVENTQUESIZE - 1 THEN 0 ELSE p + 1
  BY <1>2 DEF RNGINC
<1>4. \A i \in Slots : i \in Int /\ 0 <= i /\ i < EVENTQUESIZE
  BY SizeFact DEF Slots
<1>5. CASE g < p
  BY <1>1, <1>2, <1>3, <1>4, <1>5 DEF Contiguous, Occupied
<1>6. CASE g > p
  BY <1>1, <1>2, <1>3, <1>4, <1>6 DEF Contiguous, Occupied
<1>7. CASE g = p
  BY <1>1, <1>2, <1>3, <1>4, <1>7 DEF Contiguous, Occupied
<1> QED
  BY <1>2, <1>5, <1>6, <1>7

\* event_read: emptying the slot at getix and advancing getix keeps the ring
\* contiguous, the ring that becomes empty included.
LEMMA RingTake ==
  ASSUME NEW f \in Ring, NEW g \in Slots, NEW p \in Slots, Contiguous(f, g, p), f[g] # Empty
  PROVE  Contiguous([f EXCEPT ![g] = Empty], RNGINC(g), p)
<1> DEFINE h == [f EXCEPT ![g] = Empty]
<1>1. \A i \in Slots : h[i] # Empty <=> f[i] # Empty /\ i # g
  BY DEF Ring
<1> SUFFICES Contiguous(h, RNGINC(g), p)
  OBVIOUS
<1> HIDE DEF h
<1>2. /\ EVENTQUESIZE \in Nat /\ g \in Int /\ p \in Int
      /\ 0 <= g /\ g < EVENTQUESIZE /\ 0 <= p /\ p < EVENTQUESIZE
  BY SizeFact DEF Slots
<1>3. RNGINC(g) = IF g = EVENTQUESIZE - 1 THEN 0 ELSE g + 1
  BY <1>2 DEF RNGINC
<1>4. \A i \in Slots : i \in Int /\ 0 <= i /\ i < EVENTQUESIZE
  BY SizeFact DEF Slots
<1>5. CASE g < p
  BY <1>1, <1>2, <1>3, <1>4, <1>5 DEF Contiguous, Occupied
<1>6. CASE g > p
  BY <1>1, <1>2, <1>3, <1>4, <1>6 DEF Contiguous, Occupied
<1>7. CASE g = p
  BY <1>1, <1>2, <1>3, <1>4, <1>7 DEF Contiguous, Occupied
<1> QED
  BY <1>2, <1>5, <1>6, <1>7

\* db_cancel_event: replacing entries by placeholders keeps the ring contiguous.
LEMMA RingSame ==
  ASSUME NEW f \in Ring, NEW h \in Ring, NEW g \in Slots, NEW p \in Slots, Contiguous(f, g, p),
         \A i \in Slots : h[i] # Empty <=> f[i] # Empty
  PROVE  Contiguous(h, g, p)
BY DEF Contiguous, Occupied

\* Steps that leave rings and indices alone keep their shape.
LEMMA RingFrame == RingShape /\ UNCHANGED <<evque, getix, putix>> => RingShape'
BY DEF RingShape, Contiguous, Occupied

\* TakeHead keeps the shape of all rings.
LEMMA RingTakeHead ==
  ASSUME TypeOK, RingShape, NEW q \in Queues, TakeHead(q), HeadEntry(q) # Empty, UNCHANGED putix
  PROVE  RingShape'
<1>1. /\ evque' = [evque EXCEPT ![q] = [evque[q] EXCEPT ![getix[q]] = Empty]]
      /\ getix' = [getix EXCEPT ![q] = RNGINC(getix[q])] /\ putix' = putix
  BY DEF TakeHead
<1>2. evque[q] \in Ring /\ getix[q] \in Slots /\ putix[q] \in Slots
  BY DEF TypeOK, QueType, Ring
<1>3. Contiguous(evque'[q], getix'[q], putix'[q])
  BY <1>1, <1>2, RingTake DEF HeadEntry, RingShape, TypeOK, QueType
<1>4. ASSUME NEW p \in Queues, p # q PROVE Contiguous(evque'[p], getix'[p], putix'[p])
  BY <1>1, <1>4 DEF RingShape, TypeOK, QueType
<1> QED
  BY <1>3, <1>4 DEF RingShape

\* PurgeQueue keeps the shape of all rings.
LEMMA RingPurge ==
  ASSUME TypeOK, TypeOK', RingShape, NEW q \in Queues, NEW s \in Subs, PurgeQueue(q, s),
         UNCHANGED <<putix, getix>>
  PROVE  RingShape'
<1> SUFFICES ASSUME NEW p \in Queues PROVE Contiguous(evque'[p], getix'[p], putix'[p])
  BY DEF RingShape
<1>1. \A i \in Slots : evque'[p][i] # Empty <=> evque[p][i] # Empty
  BY NamesAssumption DEF PurgeQueue, Purged, TypeOK, QueType, Empty, Canceled
<1>2. evque[p] \in Ring /\ evque'[p] \in Ring /\ getix[p] \in Slots /\ putix[p] \in Slots
  BY DEF TypeOK, QueType, Ring
<1> QED
  BY <1>1, <1>2, RingSame DEF RingShape

\* QueueAdd keeps the shape of all rings.
LEMMA RingQueueAdd ==
  ASSUME TypeOK, RingShape, NEW s \in Subs, QueueAdd(s), UNCHANGED getix
  PROVE  RingShape'
<1> DEFINE q == sub[s].que
<1>1. q \in Queues
  BY SubFields DEF TypeOK
<1>2. CASE evque[q][putix[q]] # Empty
  BY <1>2, RingFrame DEF QueueAdd
<1>3. CASE evque[q][putix[q]] = Empty
  <2>1. /\ evque' = [evque EXCEPT ![q] = [evque[q] EXCEPT ![putix[q]] = s]]
        /\ putix' = [putix EXCEPT ![q] = RNGINC(putix[q])] /\ getix' = getix
    BY <1>3 DEF QueueAdd
  <2> HIDE DEF q
  <2>2. evque[q] \in Ring /\ getix[q] \in Slots /\ putix[q] \in Slots /\ s # Empty
    BY <1>1, NamesAssumption DEF TypeOK, QueType, Ring, Empty
  <2>3. Contiguous(evque'[q], getix'[q], putix'[q])
    BY <1>1, <1>3, <2>1, <2>2, RingAdd DEF RingShape, TypeOK, QueType
  <2>4. ASSUME NEW p \in Queues, p # q PROVE Contiguous(evque'[p], getix'[p], putix'[p])
    BY <1>1, <2>1, <2>4 DEF RingShape, TypeOK, QueType
  <2> QED
    BY <2>3, <2>4 DEF RingShape
<1> QED
  BY <1>2, <1>3

\* Every step keeps the shape of all rings.
LEMMA RingNext == TypeOK /\ TypeOK' /\ RingShape /\ [Next]_vars => RingShape'
<1> SUFFICES ASSUME TypeOK, TypeOK', RingShape, [Next]_vars PROVE RingShape'
  OBVIOUS
<1>1. CASE db_init_events
  BY <1>1, SizeFact DEF db_init_events, RingShape, Contiguous, Occupied, EmptyRing
<1>2. CASE SkipCanceled \/ BeginCallback
  <2>1. TakeHead(tq) /\ HeadEntry(tq) # Empty /\ UNCHANGED putix /\ tq \in Queues
    BY <1>2, NamesAssumption DEF SkipCanceled, BeginCallback, TypeOK, TaskType, Empty, Canceled
  <2> QED
    BY <2>1, RingTakeHead
<1>3. ASSUME NEW s \in Subs, CancelInCallback(s) PROVE RingShape'
  BY <1>3, RingPurge, SubFields DEF CancelInCallback, TypeOK
<1>4. ASSUME NEW c \in Clients, CancelPurge(c) PROVE RingShape'
  <2>1. csub[c] \in Subs /\ sub[csub[c]].que \in Queues
    BY <1>4, SubFields DEF CancelPurge, TypeOK, ClientType
  <2> QED
    BY <1>4, <2>1, RingPurge DEF CancelPurge
<1>5. ASSUME NEW r \in Recs, NEW s \in Subs, db_queue_event_log(r, s) PROVE RingShape'
  BY <1>5, RingQueueAdd, RingFrame DEF db_queue_event_log, QueueDuplicate, QueueReplace
<1>6. CASE db_add_extra_labor_event \/ db_start_events
  BY <1>6, RingFrame DEF db_add_extra_labor_event, db_start_events, callRest, queVars
<1>7. CASE TaskStep
  BY <1>2, <1>7, RingFrame DEF TaskStep, TaskWait, TaskWoken, TaskLabor, ReadEnter, UserSub,
     Return, ReadDone, TaskNext, TaskExit, queVars
<1>8. ASSUME NEW c \in Clients, Call(c) PROVE RingShape'
  BY <1>8, RingFrame DEF Call, TurnOffExtraLabor, db_flush_extra_labor_event,
     db_post_extra_labor, db_close_events, db_event_flow_ctrl_mode, db_add_event,
     db_event_enable, db_event_disable, CancelDisable, db_post_single_event, callRest, queVars
<1>9. ASSUME NEW c \in Clients, ClientStep(c) PROVE RingShape'
  BY <1>4, <1>9, RingFrame DEF ClientStep, ClientSignal, CancelFlush, CancelRecheck, CloseJoin,
     callRest, queVars
<1>10. ASSUME NEW r \in Recs, db_post_events(r) \/ PosterStep(r) PROVE RingShape'
  BY <1>5, <1>10, RingFrame DEF db_post_events, PosterStep, PostSignal, queVars
<1>11. CASE UNCHANGED vars
  BY <1>11, RingFrame DEF vars, queVars
<1> QED
  BY <1>1, <1>3, <1>6, <1>7, <1>8, <1>9, <1>10, <1>11 DEF Next

\* The occupied slots of every ring are those from getix up to putix, for any
\* number of posters, cancellers and subscriptions and any ring size: so a purge that stops
\* at the first empty slot meets every entry, and ringSpace is the free space.
THEOREM RingContiguous == Spec => []RingShape
<1>1. Init => RingShape
  BY SizeFact DEF Init, RingShape, Contiguous, Occupied, EmptyRing
<1> QED
  BY <1>1, TypeCorrect, RingNext, PTL DEF Spec

-----------------------------------------------------------------------------
(* No freed subscription is used *)

\* no field changes but npend, pLastLog and callBackInProgress
SameSubs ==
  \A s \in Subs : /\ sub'[s].st = sub[s].st /\ sub'[s].owner = sub[s].owner
                  /\ sub'[s].rec = sub[s].rec /\ sub'[s].que = sub[s].que
                  /\ sub'[s].user_sub = sub[s].user_sub /\ sub'[s].enabled = sub[s].enabled

\* Steps that leave the subscription blocks alone.
LEMMA SameSubsFrame == UNCHANGED sub => SameSubs
BY DEF SameSubs

\* Steps that add no entry keep EntriesLive.
LEMMA EntriesFrame ==
  ASSUME EntriesLive, SameSubs,
         \A q \in Queues, i \in Slots : evque'[q][i] \in Subs => evque'[q][i] = evque[q][i]
  PROVE  EntriesLive'
BY DEF EntriesLive, SameSubs

\* Steps of others keep CancelsOwn.
LEMMA CancelsFrame == TypeOK /\ CancelsOwn /\ SameSubs /\ UNCHANGED cliVars => CancelsOwn'
BY DEF CancelsOwn, SameSubs, cliVars, TypeOK, ClientType

\* Steps that keep the fields keep LiveSubs.
LEMMA LiveFrame == LiveSubs /\ SameSubs => LiveSubs'
BY DEF LiveSubs, SameSubs

\* Steps of others keep PostersLive.
LEMMA PostersFrame ==
  TypeOK /\ PostersLive /\ SameSubs /\ UNCHANGED <<post, cliVars>> => PostersLive'
BY DEF PostersLive, SameSubs, cliVars, TypeOK, PostType, PostRec

\* Steps of others keep CallbackLive.
LEMMA CallbackFrame ==
  CallbackLive /\ UNCHANGED <<tpc, tsub, sub, evUser.pSuicideEvent>> => CallbackLive'
BY DEF CallbackLive

\* Steps of others keep SuicideIsCurrent.
LEMMA SuicideFrame ==
  SuicideIsCurrent /\ UNCHANGED <<tpc, tsub, evUser.pSuicideEvent, evUser.taskid>>
    => SuicideIsCurrent'
BY DEF SuicideIsCurrent

\* the part of the discipline that is not about the shape of the rings
Discipline ==
  EntriesLive /\ CallbackLive /\ CancelsOwn /\ LiveSubs /\ PostersLive /\ SuicideIsCurrent

\* Steps of the event task that only move it, and the start of the task.
LEMMA TaskMoves_Disc ==
  ASSUME TypeOK, Discipline,
         \/ db_add_extra_labor_event \/ db_start_events \/ TaskWait \/ TaskWoken
         \/ TaskLabor \/ ReadEnter \/ ReadDone \/ TaskNext \/ TaskExit
  PROVE  Discipline'
<1>1. UNCHANGED <<evque, sub, cliVars, post>>
  BY DEF db_add_extra_labor_event, db_start_events, TaskWait, TaskWoken, TaskLabor, ReadEnter,
     ReadDone, TaskNext, TaskExit, callRest, taskRest, queVars, postVars
<1>2. evUser'.pSuicideEvent = evUser.pSuicideEvent /\ tsub' = tsub
  BY DEF db_add_extra_labor_event, db_start_events, TaskWait, TaskWoken, TaskLabor, ReadEnter,
     ReadDone, TaskNext, TaskExit, callRest, taskVars, TypeOK, UserRec
<1>3. \/ tpc' = tpc /\ evUser'.taskid = evUser.taskid
      \/ tpc # "return" /\ tpc' \notin {"callback", "return"} /\ evUser'.taskid
  BY DEF db_add_extra_labor_event, db_start_events, TaskWait, TaskWoken, TaskLabor, ReadEnter,
     ReadDone, TaskNext, TaskExit, callRest, taskVars, TypeOK, UserRec, Discipline, SuicideIsCurrent
<1>4. CallbackLive' /\ SuicideIsCurrent'
  BY <1>1, <1>2, <1>3 DEF Discipline, CallbackLive, SuicideIsCurrent
<1> QED
  BY <1>1, <1>4, SameSubsFrame, EntriesFrame, CancelsFrame, LiveFrame, PostersFrame DEF Discipline

\* Steps of clients that only touch the event_user block.
LEMMA ClientMoves_Disc ==
  ASSUME TypeOK, Discipline, NEW c \in Clients,
         \/ TurnOffExtraLabor(c) \/ db_flush_extra_labor_event(c) \/ db_post_extra_labor(c)
         \/ db_close_events(c) \/ (\E on \in BOOLEAN : db_event_flow_ctrl_mode(c, on))
         \/ ClientSignal(c) \/ CancelFlush(c) \/ CloseJoin(c)
  PROVE  Discipline'
<1>1. UNCHANGED <<evque, sub, post, taskVars, csub>>
  BY DEF TurnOffExtraLabor, db_flush_extra_labor_event, db_post_extra_labor, db_close_events,
     db_event_flow_ctrl_mode, ClientSignal, CancelFlush, CloseJoin, callRest, queVars, postVars,
     cliVars
<1>2. evUser'.pSuicideEvent = evUser.pSuicideEvent /\ evUser'.taskid = evUser.taskid
  BY DEF TurnOffExtraLabor, db_flush_extra_labor_event, db_post_extra_labor, db_close_events,
     db_event_flow_ctrl_mode, ClientSignal, CancelFlush, CloseJoin, TypeOK, UserRec
<1>3. \/ UNCHANGED cpc
      \/ /\ \E x \in {"idle", "signal", "closesig", "closewait"} : cpc' = [cpc EXCEPT ![c] = x]
         /\ cpc[c] # "posting"
      \/ cpc[c] = "flush" /\ cpc' = [cpc EXCEPT ![c] = "recheck"]
  BY DEF TurnOffExtraLabor, db_flush_extra_labor_event, db_post_extra_labor, db_close_events,
     db_event_flow_ctrl_mode, ClientSignal, CancelFlush, CloseJoin, Free, cliVars
<1>4. CancelsOwn'
  BY <1>1, <1>3 DEF Discipline, CancelsOwn, TypeOK, ClientType
<1>5. PostersLive'
  BY <1>1, <1>3 DEF Discipline, PostersLive, TypeOK, ClientType
<1> QED
  BY <1>1, <1>2, <1>4, <1>5, SameSubsFrame, EntriesFrame, LiveFrame, CallbackFrame, SuicideFrame
     DEF Discipline, taskVars

\* The callback runs.
LEMMA UserSub_Disc == ASSUME TypeOK, Discipline, UserSub PROVE Discipline'
<1>1. UNCHANGED <<evque, sub, cliVars, post, evUser, tsub>> /\ tpc = "callback" /\ tpc' = "return"
  BY DEF UserSub, queVars, postVars
<1>2. CallbackLive' /\ SuicideIsCurrent'
  BY <1>1 DEF Discipline, CallbackLive, SuicideIsCurrent
<1> QED
  BY <1>1, <1>2, SameSubsFrame, EntriesFrame, CancelsFrame, LiveFrame, PostersFrame DEF Discipline

\* A placeholder is skipped.
LEMMA SkipCanceled_Disc == ASSUME TypeOK, Discipline, SkipCanceled PROVE Discipline'
<1>1. UNCHANGED <<sub, cliVars, post, taskVars, evUser>>
  BY DEF SkipCanceled, postVars
<1>2. EntriesLive'
  BY <1>1, NamesAssumption
     DEF SkipCanceled, TakeHead, EntriesLive, Discipline, TypeOK, QueType, Empty
<1> QED
  BY <1>1, <1>2, SameSubsFrame, CancelsFrame, LiveFrame, PostersFrame, CallbackFrame, SuicideFrame
     DEF Discipline, taskVars

\* A new event_user is opened.
LEMMA init_Disc == ASSUME TypeOK, Discipline, db_init_events PROVE Discipline'
<1>1. UNCHANGED <<sub, cliVars, post>> /\ tpc' = "none" /\ evUser' = FreshUser
  BY DEF db_init_events, postVars
<1>2. EntriesLive'
  BY NamesAssumption DEF db_init_events, EntriesLive, EmptyRing, Empty
<1>3. CallbackLive' /\ SuicideIsCurrent'
  BY <1>1 DEF CallbackLive, SuicideIsCurrent, FreshUser
<1> QED
  BY <1>1, <1>2, <1>3, SameSubsFrame, CancelsFrame, LiveFrame, PostersFrame DEF Discipline

\* An entry is taken: EntriesLive says its subscription is not freed.
LEMMA BeginCallback_Disc == ASSUME TypeOK, Discipline, BeginCallback PROVE Discipline'
<1> DEFINE s == HeadEntry(tq)
<1>1. s \in Subs /\ sub[s].st # "free" /\ sub[s].user_sub /\ tpc = "loop"
  BY DEF BeginCallback, HeadEntry, Discipline, EntriesLive, TypeOK, TaskType, QueType
<1>2. /\ sub' = [Removed(s) EXCEPT ![s].callBackInProgress = TRUE]
      /\ tpc' = "callback" /\ tsub' = s /\ UNCHANGED <<cliVars, post, evUser>>
  BY <1>1 DEF BeginCallback, postVars
<1>3. SameSubs /\ sub'[s].callBackInProgress
  BY <1>1, <1>2 DEF SameSubs, Removed, TypeOK, SubRec
<1>4. EntriesLive'
  <2>1. \A q \in Queues, i \in Slots : evque'[q][i] \in Subs => evque'[q][i] = evque[q][i]
    BY NamesAssumption DEF BeginCallback, TakeHead, TypeOK, QueType, Empty
  <2> QED
    BY <1>3, <2>1, EntriesFrame DEF Discipline
<1>5. CallbackLive' /\ SuicideIsCurrent'
  <2>1. sub'[s].st # "free"
    BY <1>1, <1>3 DEF SameSubs
  <2> QED
    BY <1>1, <1>2, <1>3, <2>1 DEF CallbackLive, SuicideIsCurrent, Discipline
<1> QED
  BY <1>2, <1>3, <1>4, <1>5, CancelsFrame, LiveFrame, PostersFrame DEF Discipline

\* The callback returns.
LEMMA Return_Disc == ASSUME TypeOK, Discipline, Return PROVE Discipline'
<1>1. UNCHANGED <<evque, cliVars, post>> /\ tpc = "return" /\ tpc' = "loop"
  BY DEF Return, queVars, taskRest, postVars
<1>2. SameSubs
  BY DEF Return, SameSubs, TypeOK, SubRec, TaskType
<1>3. evUser'.pSuicideEvent = NoSub /\ evUser'.taskid = evUser.taskid
  BY DEF Return, SuicideIsCurrent, Discipline, TypeOK, UserRec
<1>4. CallbackLive' /\ SuicideIsCurrent'
  BY <1>1, <1>3 DEF CallbackLive, SuicideIsCurrent, Discipline
<1> QED
  BY <1>1, <1>2, <1>4, EntriesFrame, CancelsFrame, LiveFrame, PostersFrame DEF Discipline

\* A poster that goes on, or ends, keeps what is known of it and of the cancellers.
LEMMA PosterMoves ==
  ASSUME TypeOK, Discipline, SameSubs, NEW r \in Recs, NEW todo, NEW sig \in BOOLEAN,
         todo \subseteq post[r].todo, PosterContinues(r, todo, sig), UNCHANGED csub
  PROVE  CancelsOwn' /\ PostersLive'
<1>1. post[r] \in PostRec
  BY DEF TypeOK, PostType
<1>2. CASE todo = {} /\ ~sig
  <2>1. post' = [post EXCEPT ![r] = Idle]
    BY <1>2 DEF PosterContinues
  <2>2. cpc' = [c \in Clients |-> IF post[r].by = c THEN "idle" ELSE cpc[c]]
    BY <1>2 DEF PosterContinues
  <2>3. CancelsOwn'
    BY <2>2 DEF CancelsOwn, SameSubs, Discipline, TypeOK, ClientType
  <2>4. \A q \in Recs : post'[q] = IF q = r THEN Idle ELSE post[q]
    BY <2>1 DEF TypeOK, PostType
  <2>5. PostersLive'
    BY SMTT(30), <2>2, <2>4, NamesAssumption
       DEF PostersLive, SameSubs, Discipline, TypeOK, ClientType, PostType, PostRec, Idle
  <2> QED
    BY <2>3, <2>5
<1>3. CASE ~(todo = {} /\ ~sig)
  <2>1. /\ post' = [post EXCEPT ![r] = [post[r] EXCEPT !.todo = todo, !.sig = sig]]
        /\ \A c \in Clients : cpc'[c] = cpc[c]
    BY <1>3 DEF PosterContinues
  <2>2. CancelsOwn'
    BY <2>1 DEF CancelsOwn, SameSubs, Discipline, TypeOK, ClientType
  <2>3. \A q \in Recs : /\ post'[q].by = post[q].by
                        /\ post'[q].todo = IF q = r THEN todo ELSE post[q].todo
    BY <1>1, <2>1 DEF TypeOK, PostType, PostRec
  <2>4. PostersLive'
    BY <2>1, <2>3 DEF PostersLive, SameSubs, Discipline, TypeOK, ClientType, PostType, PostRec
  <2> QED
    BY <2>2, <2>4
<1> QED
  BY <1>2, <1>3

\* A poster signals the task.
LEMMA PostSignal_Disc == ASSUME TypeOK, Discipline, NEW r \in Recs, PostSignal(r) PROVE Discipline'
<1>1. UNCHANGED <<evque, sub, taskVars, csub>>
  BY DEF PostSignal, queVars
<1>2. evUser'.pSuicideEvent = evUser.pSuicideEvent /\ evUser'.taskid = evUser.taskid
  BY DEF PostSignal, TypeOK, UserRec
<1>3. CancelsOwn' /\ PostersLive'
  BY <1>1, PosterMoves, SameSubsFrame DEF PostSignal
<1> QED
  BY <1>1, <1>2, <1>3, SameSubsFrame, EntriesFrame, LiveFrame, CallbackFrame, SuicideFrame
     DEF Discipline, taskVars

\* A poster queues a log: PostersLive says the subscription is live.
LEMMA Log_Disc ==
  ASSUME TypeOK, Discipline, NEW r \in Recs, NEW s \in Subs, db_queue_event_log(r, s)
  PROVE  Discipline'
<1>1. UNCHANGED <<evUser, taskVars, csub>> /\ s \in post[r].todo
  BY DEF db_queue_event_log
<1>2. sub[s].st = "live" /\ sub[s].user_sub /\ sub[s].que \in Queues
  BY <1>1, SubFields DEF Discipline, PostersLive, LiveSubs, TypeOK
<1>3. /\ SameSubs /\ \A t \in Subs : sub'[t].callBackInProgress = sub[t].callBackInProgress
      /\ \/ UNCHANGED evque
         \/ evque' = [evque EXCEPT ![sub[s].que][putix[sub[s].que]] = s]
  <2>1. CASE QueueDuplicate(s) \/ QueueReplace(s)
    BY <2>1 DEF QueueDuplicate, QueueReplace, SameSubs
  <2>2. CASE QueueAdd(s)
    <3> DEFINE q == sub[s].que
    <3>1. \/ UNCHANGED <<sub, evque>>
          \/ /\ evque' = [evque EXCEPT ![q][putix[q]] = s]
             /\ sub' = [sub EXCEPT ![s].npend = @ + 1, ![s].pLastLog = putix[q]]
      BY <2>2 DEF QueueAdd
    <3> HIDE DEF q
    <3>2. SameSubs /\ \A t \in Subs : sub'[t].callBackInProgress = sub[t].callBackInProgress
      BY <3>1 DEF SameSubs, TypeOK, SubRec
    <3> QED
      BY <3>1, <3>2 DEF q
  <2> QED
    BY <2>1, <2>2 DEF db_queue_event_log
<1>4. CancelsOwn' /\ PostersLive'
  <2>1. PosterContinues(r, post[r].todo \ {s}, FirstEvent(s))
    BY DEF db_queue_event_log
  <2> QED
    BY <1>1, <1>3, <2>1, PosterMoves, FirstEventType
<1>5. EntriesLive'
  <2>1. CASE UNCHANGED evque
    BY <1>3, <2>1, EntriesFrame DEF Discipline
  <2>2. CASE evque' = [evque EXCEPT ![sub[s].que][putix[sub[s].que]] = s]
    <3> SUFFICES ASSUME NEW q \in Queues, NEW i \in Slots, evque'[q][i] \in Subs
                 PROVE  LET e == sub[evque'[q][i]] IN e.st # "free" /\ e.que = q /\ e.user_sub
      BY <1>3 DEF EntriesLive, SameSubs
    <3>1. CASE q = sub[s].que /\ i = putix[q]
      BY <1>2, <2>2, <3>1 DEF TypeOK, QueType
    <3>2. CASE ~(q = sub[s].que /\ i = putix[q])
      BY <1>2, <2>2, <3>2 DEF EntriesLive, Discipline, TypeOK, QueType
    <3> QED
      BY <3>1, <3>2
  <2> QED
    BY <1>3, <2>1, <2>2
<1>6. CallbackLive'
  BY <1>1, <1>3 DEF CallbackLive, SameSubs, Discipline, TypeOK, TaskType, taskVars
<1> QED
  BY <1>1, <1>3, <1>4, <1>5, <1>6, LiveFrame, SuicideFrame DEF Discipline, taskVars

\* A post begins: only enabled, hence live, subscriptions are matched.
LEMMA db_post_events_Disc ==
  ASSUME TypeOK, Discipline, NEW r \in Recs, db_post_events(r) PROVE Discipline'
<1>1. UNCHANGED <<evque, sub, taskVars, cliVars, evUser>>
  BY DEF db_post_events, queVars
<1>2. PostersLive'
  <2>1. PICK match \in SUBSET {s \in Subs : sub[s].enabled /\ sub[s].rec = r} :
          post' = IF match = {} THEN post
                  ELSE [post EXCEPT ![r] = [by |-> "scan", todo |-> match, sig |-> FALSE]]
    BY DEF db_post_events
  <2>2. \A s \in match : sub[s].st = "live" /\ sub[s].rec = r
    BY DEF Discipline, LiveSubs
  <2> QED
    BY <1>1, <2>1, <2>2, NamesAssumption
       DEF PostersLive, Discipline, TypeOK, PostType, PostRec, cliVars
<1> QED
  BY <1>1, <1>2, SameSubsFrame, EntriesFrame, CancelsFrame, LiveFrame, CallbackFrame, SuicideFrame
     DEF Discipline, taskVars

\* An owner posts to its own subscription.
LEMMA db_post_single_event_Disc ==
  ASSUME TypeOK, Discipline, NEW c \in Clients, NEW s \in Subs, db_post_single_event(c, s)
  PROVE  Discipline'
<1> DEFINE r == sub[s].rec
<1>1. UNCHANGED <<evque, sub, taskVars, csub, evUser>> /\ r \in Recs /\ cpc[c] = "idle"
  BY SubFields DEF db_post_single_event, queVars, TypeOK, Free
<1>2. /\ sub[s].st = "live" /\ sub[s].owner = c /\ post[r] = Idle
      /\ post' = [post EXCEPT ![r] = [by |-> c, todo |-> {s}, sig |-> FALSE]]
      /\ cpc' = [cpc EXCEPT ![c] = "posting"]
  BY DEF db_post_single_event, Owns
<1> HIDE DEF r
<1>3. PostersLive'
  <2>1. \A q \in Recs : post[q].by # c
    BY <1>1 DEF PostersLive, Discipline
  <2>2. sub[s].rec = r
    BY DEF r
  <2> QED
    BY <1>1, <1>2, <2>1, <2>2, NamesAssumption
       DEF PostersLive, Discipline, TypeOK, PostType, PostRec, ClientType
<1>4. CancelsOwn'
  BY <1>1, <1>2 DEF CancelsOwn, Discipline, TypeOK, ClientType
<1> QED
  BY <1>1, <1>3, <1>4, SameSubsFrame, EntriesFrame, LiveFrame, CallbackFrame, SuicideFrame
     DEF Discipline, taskVars

\* An owner enables or disables its subscription.
LEMMA db_event_enable_Disc ==
  ASSUME TypeOK, Discipline, NEW c \in Clients, NEW s \in Subs,
         db_event_enable(c, s) \/ db_event_disable(c, s)
  PROVE  Discipline'
<1>1. UNCHANGED <<evque, cliVars, post, taskVars, evUser>>
  BY DEF db_event_enable, db_event_disable, queVars, taskRest, postVars
<1>2. sub[s].st = "live" /\ \E b \in BOOLEAN : sub' = [sub EXCEPT ![s].enabled = b]
  BY DEF db_event_enable, db_event_disable, Owns
<1>3. EntriesLive'
  BY <1>1, <1>2 DEF EntriesLive, Discipline, TypeOK, SubRec
<1>4. CallbackLive' /\ SuicideIsCurrent'
  BY <1>1, <1>2 DEF CallbackLive, SuicideIsCurrent, Discipline, TypeOK, SubRec, TaskType, taskVars
<1>5. CancelsOwn' /\ LiveSubs'
  BY <1>1, <1>2 DEF CancelsOwn, LiveSubs, Discipline, TypeOK, SubRec, ClientType, cliVars
<1>6. PostersLive'
  BY <1>1, <1>2 DEF PostersLive, Discipline, TypeOK, SubRec, PostType, PostRec, cliVars
<1> QED
  BY <1>3, <1>4, <1>5, <1>6 DEF Discipline

\* A freed block is used again: no entry, poster or callback refers to it.
LEMMA db_add_event_Disc ==
  ASSUME TypeOK, Discipline, NEW c \in Clients, NEW s \in Subs, NEW r \in Recs, db_add_event(c, s, r)
  PROVE  Discipline'
<1>1. UNCHANGED <<evque, cliVars, post, taskVars, evUser>> /\ sub[s].st = "free"
  BY DEF db_add_event, taskRest, postVars
<1>2. PICK q \in Queues : sub' = [sub EXCEPT ![s] = NewSub(c, r, q)]
  BY DEF db_add_event
<1>3. NewSub(c, r, q).st = "live" /\ NewSub(c, r, q).user_sub
  BY DEF NewSub, FreeSub
<1>4. \A t \in Subs : sub'[t] = IF t = s THEN NewSub(c, r, q) ELSE sub[t]
  BY <1>2 DEF TypeOK
<1>5. EntriesLive'
  BY <1>1, <1>4 DEF EntriesLive, Discipline
<1>6. CallbackLive' /\ SuicideIsCurrent'
  BY <1>1, <1>4 DEF CallbackLive, SuicideIsCurrent, Discipline, TypeOK, TaskType, taskVars
<1>7. CancelsOwn' /\ LiveSubs'
  BY <1>1, <1>3, <1>4 DEF CancelsOwn, LiveSubs, Discipline, TypeOK, ClientType, cliVars
<1>8. PostersLive'
  BY <1>1, <1>4 DEF PostersLive, Discipline, TypeOK, PostType, PostRec, cliVars
<1> QED
  BY <1>5, <1>6, <1>7, <1>8 DEF Discipline

\* A cancel begins: with the record lock held no poster has the subscription
\* ahead of it.
LEMMA CancelDisable_Disc ==
  ASSUME TypeOK, Discipline, NEW c \in Clients, NEW s \in Subs, CancelDisable(c, s)
  PROVE  Discipline'
<1>1. UNCHANGED <<evque, post, taskVars, evUser>> /\ sub[s].st = "live" /\ cpc[c] = "idle"
  BY DEF CancelDisable, queVars, postVars, Owns, Free
<1>2. /\ cpc' = [cpc EXCEPT ![c] = "purge"] /\ csub' = [csub EXCEPT ![c] = s]
      /\ sub' = [sub EXCEPT ![s].enabled = FALSE, ![s].st = "cancel"]
      /\ sub[s].owner = c
  BY DEF CancelDisable, Owns
<1>3. /\ \A t \in Subs \ {s} : sub'[t] = sub[t]
      /\ sub'[s].st = "cancel" /\ sub'[s].enabled = FALSE
      /\ sub'[s].owner = c /\ sub'[s].que = sub[s].que /\ sub'[s].user_sub = sub[s].user_sub
      /\ sub'[s].callBackInProgress = sub[s].callBackInProgress
  BY <1>2 DEF TypeOK, SubRec
<1>4. \A r \in Recs : s \notin post[r].todo
  BY <1>1, <1>2, NamesAssumption DEF CancelDisable, RecUnlocked, PostersLive, Discipline, TypeOK, PostType, PostRec
<1>5. EntriesLive'
  BY <1>1, <1>3 DEF EntriesLive, Discipline
<1>6. CallbackLive' /\ SuicideIsCurrent'
  BY <1>1, <1>3 DEF CallbackLive, SuicideIsCurrent, Discipline, TypeOK, TaskType, taskVars
<1>7. CancelsOwn' /\ LiveSubs'
  BY <1>1, <1>2, <1>3 DEF CancelsOwn, LiveSubs, Discipline, TypeOK, ClientType
<1>8. PostersLive'
  BY <1>1, <1>2, <1>3, <1>4 DEF PostersLive, Discipline, TypeOK, PostType, PostRec, ClientType
<1> QED
  BY <1>5, <1>6, <1>7, <1>8 DEF Discipline

\* In a contiguous ring every slot on the way from getix to an entry is occupied.
LEMMA Reached ==
  ASSUME NEW f, NEW g \in Slots, NEW p \in Slots, Contiguous(f, g, p),
         NEW i \in Slots, f[i] # Empty, NEW j \in Slots, OnTheWay(g, j, i)
  PROVE  f[j] # Empty
BY SizeFact DEF Contiguous, Occupied, OnTheWay, Slots

\* After the purge no entry of any queue points to the subscription.
LEMMA PurgeAll ==
  ASSUME TypeOK, RingShape, EntriesLive, NEW s \in Subs, PurgeQueue(sub[s].que, s)
  PROVE  \A q \in Queues, i \in Slots :
           evque'[q][i] # s /\ (evque'[q][i] \in Subs => evque'[q][i] = evque[q][i])
<1> DEFINE p == sub[s].que
<1>1. p \in Queues
  BY SubFields DEF TypeOK
<1>2. ASSUME NEW i \in Slots, evque[p][i] = s PROVE i \in Purged(p, s)
  <2>1. Contiguous(evque[p], getix[p], putix[p]) /\ getix[p] \in Slots /\ putix[p] \in Slots
    BY <1>1 DEF RingShape, TypeOK, QueType
  <2>2. evque[p][i] # Empty
    BY <1>2, NamesAssumption DEF Empty
  <2> QED
    BY <1>2, <2>1, <2>2, Reached DEF Purged
<1>3. evque' = [evque EXCEPT ![p] =
                  [i \in Slots |-> IF i \in Purged(p, s) THEN Canceled ELSE evque[p][i]]]
  BY DEF PurgeQueue
<1>4. ASSUME NEW q \in Queues, q # p, NEW i \in Slots PROVE evque[q][i] # s
  BY <1>4 DEF EntriesLive
<1> HIDE DEF p
<1> QED
  BY <1>1, <1>2, <1>3, <1>4, NamesAssumption DEF TypeOK, QueType, Canceled

\* db_cancel_event gives the subscription up: no entry points to it any more
LEMMA Release_Disc ==
  ASSUME TypeOK, Discipline, NEW s \in Subs, Release(s),
         \A q \in Queues, i \in Slots :
           evque'[q][i] # s /\ (evque'[q][i] \in Subs => evque'[q][i] = evque[q][i])
  PROVE  /\ \A t \in Subs : sub'[t] = IF t = s THEN FreeSub ELSE sub[t]
         /\ EntriesLive' /\ LiveSubs'
<1>1. \A t \in Subs : sub'[t] = IF t = s THEN FreeSub ELSE sub[t]
  BY DEF Release, TypeOK
<1>2. EntriesLive'
  BY <1>1 DEF EntriesLive, Discipline
<1>3. LiveSubs'
  <2>1. FreeSub.st = "free" /\ FreeSub.enabled = FALSE
    BY DEF FreeSub
  <2> QED
    BY <1>1, <2>1 DEF LiveSubs, Discipline
<1> QED
  BY <1>1, <1>2, <1>3

\* db_cancel_event frees the block and returns.
LEMMA CancelEnds_Disc ==
  ASSUME TypeOK, Discipline, NEW c \in Clients, NEW s, s = csub[c], Release(s), CancelReturns(c),
         cpc[c] \in {"purge", "flush", "recheck"}, ~sub[s].callBackInProgress,
         \A q \in Queues, i \in Slots :
           evque'[q][i] # s /\ (evque'[q][i] \in Subs => evque'[q][i] = evque[q][i]),
         UNCHANGED <<post, taskVars, evUser>>
  PROVE  Discipline'
<1>1. s \in Subs /\ sub[s].st = "cancel" /\ sub[s].owner = c
  BY DEF TypeOK, ClientType, Discipline, CancelsOwn
<1>2. /\ \A t \in Subs : sub'[t] = IF t = s THEN FreeSub ELSE sub[t]
      /\ EntriesLive' /\ LiveSubs'
  BY <1>1, Release_Disc
<1>3. CallbackLive' /\ SuicideIsCurrent'
  BY <1>1, <1>2 DEF CallbackLive, SuicideIsCurrent, Discipline, TypeOK, TaskType, taskVars
<1>4. CancelsOwn'
  BY <1>1, <1>2 DEF CancelsOwn, CancelReturns, Discipline, TypeOK, ClientType
<1>5. PostersLive'
  <2>1. \A r \in Recs : s \notin post[r].todo
    BY <1>1 DEF PostersLive, Discipline
  <2>2. \A d \in Clients : cpc[d] = "posting" => cpc'[d] = "posting"
    BY DEF CancelReturns, TypeOK, ClientType
  <2> QED
    BY <1>2, <2>1, <2>2, SMTT(30) DEF PostersLive, Discipline, TypeOK, PostType, PostRec
<1> QED
  BY <1>2, <1>3, <1>4, <1>5 DEF Discipline

\* The purge, and the release when no callback is in progress.
LEMMA CancelPurge_Disc ==
  ASSUME TypeOK, RingShape, Discipline, NEW c \in Clients, CancelPurge(c)
  PROVE  Discipline'
<1> DEFINE s == csub[c]
<1>1. s \in Subs /\ sub[s].st = "cancel" /\ sub[s].owner = c /\ cpc[c] = "purge"
  BY DEF CancelPurge, TypeOK, ClientType, Discipline, CancelsOwn
<1>2. UNCHANGED <<post, taskVars, evUser>>
  BY DEF CancelPurge, postVars
<1>3. \A q \in Queues, i \in Slots :
        evque'[q][i] # s /\ (evque'[q][i] \in Subs => evque'[q][i] = evque[q][i])
  BY <1>1, PurgeAll DEF CancelPurge, Discipline
<1>4. CASE ~sub[s].callBackInProgress
  BY <1>1, <1>2, <1>3, <1>4, CancelEnds_Disc DEF CancelPurge, MustFlush
<1>5. CASE sub[s].callBackInProgress
  <2>1. sub' = PurgedSub(s) /\ cpc' = [cpc EXCEPT ![c] = "flush"] /\ csub' = csub
    BY <1>5 DEF CancelPurge, MustFlush
  <2> HIDE DEF s
  <2>2. /\ \A t \in Subs \ {s} : sub'[t] = sub[t]
        /\ sub'[s].st = sub[s].st /\ sub'[s].owner = sub[s].owner /\ ~sub'[s].user_sub
        /\ sub'[s].enabled = sub[s].enabled
        /\ sub'[s].callBackInProgress = sub[s].callBackInProgress
    BY <1>1, <2>1 DEF PurgedSub, TypeOK, SubRec
  <2>3. EntriesLive'
    BY <1>3, <2>2 DEF EntriesLive, Discipline
  <2>4. CallbackLive' /\ SuicideIsCurrent'
    BY <1>2, <2>2 DEF CallbackLive, SuicideIsCurrent, Discipline, TypeOK, TaskType, taskVars
  <2>5. LiveSubs'
    BY <1>1, <2>2 DEF LiveSubs, Discipline
  <2>6. CancelsOwn'
    BY <1>1, <2>1, <2>2 DEF CancelsOwn, Discipline, TypeOK, ClientType, s
  <2>7. PostersLive'
    <3>1. \A r \in Recs : post[r].todo \subseteq Subs
      BY DEF TypeOK, PostType, PostRec
    <3>2. \A d \in Clients : cpc[d] = "posting" => cpc'[d] = "posting"
      BY <1>1, <2>1 DEF TypeOK, ClientType
    <3>3. \A t \in Subs : /\ sub[t].st = "live" /\ t # s => sub'[t].st = "live" /\ sub'[t].rec = sub[t].rec
                          /\ sub'[t].owner = sub[t].owner
      BY <2>2
    <3>4. sub[s].st # "live"
      BY <1>1 DEF Discipline, CancelsOwn, s
    <3> QED
      BY <1>2, <3>1, <3>2, <3>3, <3>4 DEF PostersLive, Discipline
  <2> QED
    BY <2>3, <2>4, <2>5, <2>6, <2>7 DEF Discipline
<1> QED
  BY <1>4, <1>5

\* The check after the wait, and the release.
LEMMA CancelRecheck_Disc ==
  ASSUME TypeOK, Discipline, NEW c \in Clients, CancelRecheck(c) PROVE Discipline'
<1> DEFINE s == csub[c]
<1>1. s \in Subs /\ ~sub[s].user_sub /\ cpc[c] = "recheck"
  BY DEF CancelRecheck, TypeOK, ClientType, Discipline, CancelsOwn
<1>2. UNCHANGED <<evque, post, taskVars, evUser>>
  BY DEF CancelRecheck, postVars
<1>3. CASE ~sub[s].callBackInProgress
  <2>1. \A q \in Queues, i \in Slots :
          evque'[q][i] # s /\ (evque'[q][i] \in Subs => evque'[q][i] = evque[q][i])
    BY <1>1, <1>2 DEF EntriesLive, Discipline
  <2> QED
    BY <1>1, <1>2, <1>3, <2>1, CancelEnds_Disc DEF CancelRecheck, MustFlush
<1>4. CASE sub[s].callBackInProgress
  <2>1. cpc' = [cpc EXCEPT ![c] = "flush"] /\ UNCHANGED <<sub, csub>>
    BY <1>4 DEF CancelRecheck, MustFlush
  <2>2. CancelsOwn'
    BY <1>1, <2>1 DEF CancelsOwn, Discipline, TypeOK, ClientType
  <2>3. PostersLive'
    BY <1>1, <1>2, <2>1 DEF PostersLive, Discipline, TypeOK, ClientType
  <2> QED
    BY <1>2, <2>1, <2>2, <2>3, SameSubsFrame, EntriesFrame, LiveFrame, CallbackFrame, SuicideFrame
       DEF Discipline, taskVars
<1> QED
  BY <1>3, <1>4

\* A callback cancels its own subscription.
LEMMA CancelInCallback_Disc ==
  ASSUME TypeOK, RingShape, Discipline, "cancelOther" \notin Ops,
         NEW s \in Subs, CancelInCallback(s)
  PROVE  Discipline'
<1>1. /\ s = tsub /\ tpc = "return" /\ sub[s].st = "live" /\ UNCHANGED <<post, taskVars, cliVars>>
      /\ s \notin post[sub[s].rec].todo
  BY DEF CancelInCallback, postVars
<1>2. \A q \in Queues, i \in Slots :
        evque'[q][i] # s /\ (evque'[q][i] \in Subs => evque'[q][i] = evque[q][i])
  BY PurgeAll DEF CancelInCallback, Discipline
<1>3. /\ \A t \in Subs : sub'[t] = IF t = s THEN FreeSub ELSE sub[t]
      /\ EntriesLive' /\ LiveSubs'
  BY <1>2, Release_Disc DEF CancelInCallback
<1>4. evUser'.pSuicideEvent = s /\ evUser'.taskid = evUser.taskid
  BY DEF CancelInCallback, TypeOK, UserRec
<1>5. CallbackLive' /\ SuicideIsCurrent'
  BY <1>1, <1>4 DEF CallbackLive, SuicideIsCurrent, Discipline, taskVars
<1>6. CancelsOwn'
  BY <1>1, <1>3 DEF CancelsOwn, Discipline, TypeOK, ClientType, cliVars
<1>7. PostersLive'
  BY <1>1, <1>3 DEF PostersLive, Discipline, TypeOK, PostType, PostRec, cliVars
<1> QED
  BY <1>3, <1>5, <1>6, <1>7 DEF Discipline

\* Every step keeps the discipline.
LEMMA DisciplineNext ==
  ASSUME "cancelOther" \notin Ops, TypeOK, RingShape, Discipline, [Next]_vars
  PROVE  Discipline'
<1>1. CASE db_init_events \/ db_add_extra_labor_event \/ db_start_events
  BY <1>1, init_Disc, TaskMoves_Disc
<1>2. CASE TaskStep
  BY <1>2, TaskMoves_Disc, SkipCanceled_Disc, BeginCallback_Disc, UserSub_Disc, Return_Disc
     DEF TaskStep
<1>3. CASE \E s \in Subs : CancelInCallback(s)
  BY <1>3, CancelInCallback_Disc
<1>4. ASSUME NEW c \in Clients, Call(c) PROVE Discipline'
  BY <1>4, ClientMoves_Disc, db_add_event_Disc, db_event_enable_Disc, CancelDisable_Disc,
     db_post_single_event_Disc DEF Call
<1>5. ASSUME NEW c \in Clients, ClientStep(c) PROVE Discipline'
  BY <1>5, ClientMoves_Disc, CancelPurge_Disc, CancelRecheck_Disc DEF ClientStep
<1>6. ASSUME NEW r \in Recs, db_post_events(r) \/ PosterStep(r) PROVE Discipline'
  BY <1>6, db_post_events_Disc, PostSignal_Disc, Log_Disc DEF PosterStep
<1>7. CASE UNCHANGED vars
  BY <1>7, SameSubsFrame, EntriesFrame, CancelsFrame, LiveFrame, PostersFrame, CallbackFrame,
     SuicideFrame DEF Discipline, vars, queVars, taskVars, postVars
<1> QED
  BY <1>1, <1>2, <1>3, <1>4, <1>5, <1>6, <1>7 DEF Next

\* The discipline holds at first.
LEMMA DisciplineInit == Init => Discipline
<1> SUFFICES ASSUME Init PROVE Discipline
  OBVIOUS
<1>1. EntriesLive /\ LiveSubs
  BY NamesAssumption DEF Init, EntriesLive, LiveSubs, EmptyRing, Empty, FreeSub
<1>2. CallbackLive /\ SuicideIsCurrent /\ CancelsOwn
  BY DEF Init, CallbackLive, SuicideIsCurrent, CancelsOwn, FreshUser
<1>3. PostersLive
  BY NamesAssumption DEF Init, PostersLive, Idle
<1> QED
  BY <1>1, <1>2, <1>3 DEF Discipline

\* If callbacks cancel no subscription but their own, CancelDiscipline, the
\* inductive strengthening of NoDanglingEvent, holds in every reachable state.
THEOREM CancelSafe ==
  ASSUME "cancelOther" \notin Ops
  PROVE  Spec => []CancelDiscipline
<1>1. TypeOK /\ RingShape /\ Discipline /\ [Next]_vars => Discipline'
  BY DisciplineNext
<1>2. RingShape /\ Discipline => CancelDiscipline
  BY DEF Discipline, CancelDiscipline, NoDanglingEvent
<1> QED
  BY <1>1, <1>2, DisciplineInit, TypeCorrect, RingContiguous, PTL DEF Spec

\* If callbacks cancel no subscription but their own, db_cancel_event never leaves
\* the event task or a queue entry with a freed subscription, whatever the number of
\* subscriptions, clients, records, queues and slots.
THEOREM NoDangling ==
  ASSUME "cancelOther" \notin Ops
  PROVE  Spec => []NoDanglingEvent
<1>1. CancelDiscipline => NoDanglingEvent
  BY DEF CancelDiscipline
<1> QED
  BY <1>1, CancelSafe, PTL

-----------------------------------------------------------------------------
(* Closing.  Nothing here depends on which optional calls are made. *)

\* the clients inside db_close_events
Closers == {c \in Clients : cpc[c] \in {"closesig", "closewait"}}

\* db_close_events and the end of the event task: one client closes, alone, and
\* pexitsem says that the task is over
UserLife ==
  /\ evUser.destroyed => evUser.pendexit /\ tpc \in {"none", "done"}
  /\ evUser.destroyed => \A c \in Clients : cpc[c] = "idle"
  /\ ~evUser.taskid => tpc = "none" /\ evUser.pendexit
  /\ evUser.pexitsem => tpc = "done"
  /\ \A c \in Closers : evUser.pendexit /\ evUser.taskid /\ ~evUser.destroyed
  /\ \A c \in Closers, d \in Clients : d # c => cpc[d] = "idle"
  /\ evUser.pendexit /\ evUser.taskid /\ ~evUser.destroyed => Closers # {}

\* db_flush_extra_labor_event and the labor function
LaborLife ==
  /\ tpc = "labor" => evUser.extraLaborBusy /\ ~flushed
  /\ flushed => evUser.taskid /\ ~evUser.extralabor_sub

\* an event_user that is closed, or not started, has no subscriptions
SubLife ==
  /\ evUser.pendexit => \A s \in Subs : sub[s].st = "free"
  /\ \A s \in Subs : sub[s].st = "free" => sub[s].que = 1
  /\ \A s \in Subs : sub[s].enabled => sub[s].st = "live"
  /\ \A c \in Clients : cpc[c] \in {"purge", "flush", "recheck"} =>
       sub[csub[c]].st = "cancel" /\ sub[csub[c]].owner = c

\* a poster works for a live subscription, or inside its client's one call
PostLife ==
  /\ \A r \in Recs : post[r] # Idle =>
       \/ post[r].by = "scan" /\ \E s \in Subs : sub[s].st = "live" /\ sub[s].rec = r
       \/ post[r].by \in Clients /\ cpc[post[r].by] = "posting"
  /\ \A q, r \in Recs : post[q].by = post[r].by /\ post[q].by \in Clients => q = r

\* Steps that touch neither the flags of the event_user nor the clients.
LEMMA UserFrame ==
  ASSUME UserLife, UNCHANGED cpc,
         evUser'.destroyed = evUser.destroyed, evUser'.pendexit = evUser.pendexit,
         evUser'.taskid = evUser.taskid,
         evUser'.pexitsem => tpc' = "done",
         tpc' = tpc \/ (tpc \notin {"none", "done"} /\ evUser.taskid)
  PROVE  UserLife'
BY DEF UserLife, Closers

\* A client goes on in a call that does not close, or starts one.
LEMMA UserCall ==
  ASSUME TypeOK, UserLife, UNCHANGED tpc, NEW c \in Clients,
         evUser'.destroyed = evUser.destroyed, evUser'.pendexit = evUser.pendexit,
         evUser'.taskid = evUser.taskid, evUser'.pexitsem = evUser.pexitsem,
         \A d \in Clients : d # c => cpc'[d] = cpc[d],
         ~evUser.pendexit \/ cpc[c] \notin {"idle", "closesig", "closewait"},
         cpc'[c] \notin {"closesig", "closewait"}
  PROVE  UserLife'
<1>1. ~evUser.pendexit => Closers = {} /\ Closers' = {} /\ evUser.taskid /\ ~evUser.destroyed
  BY DEF UserLife, Closers
<1>2. evUser.pendexit /\ evUser.taskid /\ ~evUser.destroyed => FALSE
  BY DEF UserLife, Closers
<1> QED
  BY <1>1, <1>2 DEF UserLife, Closers

\* The event task's steps.
LEMMA Task_UserLife == ASSUME TypeOK, UserLife, TaskStep PROVE UserLife'
<1>1. /\ evUser'.destroyed = evUser.destroyed /\ evUser'.pendexit = evUser.pendexit
      /\ evUser'.taskid = evUser.taskid /\ (evUser'.pexitsem => evUser.pexitsem \/ tpc' = "done")
  BY DEF TaskStep, TaskWait, TaskWoken, TaskLabor, ReadEnter, SkipCanceled, BeginCallback,
         UserSub, Return, ReadDone, TaskNext, TaskExit, TypeOK, UserRec
<1>2. tpc \notin {"none", "done"} /\ UNCHANGED cpc
  BY DEF TaskStep, TaskWait, TaskWoken, TaskLabor, ReadEnter, SkipCanceled, BeginCallback,
         UserSub, Return, ReadDone, TaskNext, TaskExit, taskRest, cliVars
<1> QED
  BY <1>1, <1>2, UserFrame DEF UserLife

\* A poster that takes a step has something to do.
LEMMA PosterBusy == ASSUME NEW r \in Recs, PosterStep(r) PROVE post[r] # Idle
<1>1. post[r].sig \/ post[r].todo # {}
  BY DEF PosterStep, PostSignal, db_queue_event_log
<1>2. ~Idle.sig /\ Idle.todo = {}
  BY DEF Idle
<1> QED
  BY <1>1, <1>2

\* A poster that ends inside db_post_single_event lets its client go.
LEMMA Poster_UserLife ==
  ASSUME TypeOK, UserLife, PostLife, NEW r \in Recs, PosterStep(r)
  PROVE  UserLife'
<1>1. /\ UNCHANGED tpc
      /\ evUser'.destroyed = evUser.destroyed /\ evUser'.pendexit = evUser.pendexit
      /\ evUser'.taskid = evUser.taskid /\ evUser'.pexitsem = evUser.pexitsem
  BY DEF PosterStep, PostSignal, db_queue_event_log, taskVars, TypeOK, UserRec
<1>2. post[r] # Idle
  BY PosterBusy
<1>3. \A d \in Clients : cpc'[d] = cpc[d] \/ (d = post[r].by /\ cpc'[d] = "idle")
  BY DEF PosterStep, PostSignal, db_queue_event_log, PosterContinues
<1>4. CASE post[r].by \in Clients
  BY <1>1, <1>2, <1>3, <1>4, UserCall, NamesAssumption DEF PostLife
<1>5. CASE post[r].by \notin Clients
  <2>1. cpc' = cpc
    <3>1. \A d \in Clients : cpc'[d] = cpc[d]
      BY <1>3, <1>5
    <3>2. cpc' = [d \in Clients |-> cpc'[d]]
      BY DEF PosterStep, PostSignal, db_queue_event_log, PosterContinues
    <3> QED
      BY <3>1, <3>2 DEF TypeOK, ClientType
  <2> QED
    BY <1>1, <2>1, UserFrame DEF UserLife
<1> QED
  BY <1>4, <1>5

\* Every step keeps it.
LEMMA UserLifeNext ==
  ASSUME TypeOK, UserLife, PostLife, [Next]_vars PROVE UserLife'
<1>1. CASE db_init_events
  BY <1>1 DEF db_init_events, cliVars, FreshUser, UserLife, Closers
<1>2. CASE db_add_extra_labor_event
  <2>1. UNCHANGED <<cpc, tpc>>
    BY <1>2 DEF db_add_extra_labor_event, callRest, cliVars, taskVars
  <2>2. /\ evUser'.destroyed = evUser.destroyed /\ evUser'.pendexit = evUser.pendexit
        /\ evUser'.taskid = evUser.taskid /\ evUser'.pexitsem = evUser.pexitsem
    BY <1>2 DEF db_add_extra_labor_event, TypeOK, UserRec
  <2> QED
    BY <2>1, <2>2, UserFrame DEF UserLife
<1>3. CASE db_start_events
  BY <1>3 DEF db_start_events, taskRest, cliVars, UserLife, Closers, TypeOK, UserRec
<1>4. CASE TaskStep
  BY <1>4, Task_UserLife
<1>5. ASSUME NEW s \in Subs, CancelInCallback(s) PROVE UserLife'
  <2>1. UNCHANGED <<cpc, tpc>>
    BY <1>5 DEF CancelInCallback, taskVars, cliVars
  <2>2. /\ evUser'.destroyed = evUser.destroyed /\ evUser'.pendexit = evUser.pendexit
        /\ evUser'.taskid = evUser.taskid /\ evUser'.pexitsem = evUser.pexitsem
    BY <1>5 DEF CancelInCallback, TypeOK, UserRec
  <2> QED
    BY <2>1, <2>2, UserFrame DEF UserLife
<1>6. ASSUME NEW c \in Clients, Call(c) PROVE UserLife'
  <2>1. CASE db_close_events(c)
    BY <2>1 DEF db_close_events, EventTaskRunning, callRest, taskVars, UserLife, Closers, TypeOK,
       UserRec, ClientType
  <2>2. CASE ~db_close_events(c)
    <3>1. /\ UNCHANGED tpc /\ ~evUser.pendexit
          /\ \A d \in Clients : d # c => cpc'[d] = cpc[d]
          /\ cpc'[c] \in {"idle", "signal", "purge", "posting"}
      BY <1>6, <2>2 DEF Call, TurnOffExtraLabor, db_flush_extra_labor_event, db_post_extra_labor,
         db_event_flow_ctrl_mode, db_add_event, db_event_enable, db_event_disable, CancelDisable,
         db_post_single_event, Free, callRest, cliVars, taskRest, taskVars, TypeOK, ClientType
    <3>2. /\ evUser'.destroyed = evUser.destroyed /\ evUser'.pendexit = evUser.pendexit
          /\ evUser'.taskid = evUser.taskid /\ evUser'.pexitsem = evUser.pexitsem
      BY <1>6, <2>2 DEF Call, TurnOffExtraLabor, db_flush_extra_labor_event, db_post_extra_labor,
         db_event_flow_ctrl_mode, db_add_event, db_event_enable, db_event_disable, CancelDisable,
         db_post_single_event, TypeOK, UserRec
    <3> QED
      BY <3>1, <3>2, UserCall
  <2> QED
    BY <2>1, <2>2
<1>7. ASSUME NEW c \in Clients, ClientStep(c) PROVE UserLife'
  <2>1. CASE CloseJoin(c)
    BY <2>1 DEF CloseJoin, callRest, taskVars, UserLife, Closers, TypeOK, UserRec, ClientType
  <2>2. CASE ClientSignal(c) /\ cpc[c] = "closesig"
    BY <2>2 DEF ClientSignal, callRest, taskVars, UserLife, Closers, TypeOK, UserRec, ClientType
  <2>3. CASE \/ ClientSignal(c) /\ cpc[c] = "signal"
             \/ CancelPurge(c) \/ CancelFlush(c) \/ CancelRecheck(c)
    <3>1. /\ UNCHANGED tpc /\ cpc[c] \in {"signal", "purge", "flush", "recheck"}
          /\ \A d \in Clients : d # c => cpc'[d] = cpc[d]
          /\ cpc'[c] \in {"idle", "flush", "recheck"}
      BY <2>3 DEF ClientSignal, CancelPurge, CancelFlush, CancelRecheck, CancelReturns, callRest,
         taskVars, TypeOK, ClientType
    <3>2. /\ evUser'.destroyed = evUser.destroyed /\ evUser'.pendexit = evUser.pendexit
          /\ evUser'.taskid = evUser.taskid /\ evUser'.pexitsem = evUser.pexitsem
      BY <2>3 DEF ClientSignal, CancelPurge, CancelFlush, CancelRecheck, TypeOK, UserRec
    <3> QED
      BY <3>1, <3>2, UserCall
  <2> QED
    BY <1>7, <2>1, <2>2, <2>3 DEF ClientStep, ClientSignal
<1>8. ASSUME NEW r \in Recs, db_post_events(r) PROVE UserLife'
  BY <1>8, UserFrame DEF db_post_events, cliVars, taskVars, UserLife
<1>9. CASE UNCHANGED vars
  BY <1>9, UserFrame DEF vars, cliVars, taskVars, UserLife
<1> QED
  BY <1>1, <1>2, <1>3, <1>4, <1>5, <1>6, <1>7, <1>8, <1>9, Poster_UserLife DEF Next

\* What a step of a client, a poster or a cancelling callback does to extra labor: it
\* may turn it off, or see it flushed.
LaborCall ==
  /\ UNCHANGED tpc
  /\ evUser'.taskid = evUser.taskid /\ evUser'.extraLaborBusy = evUser.extraLaborBusy
  /\ evUser'.extralabor_sub => evUser.extralabor_sub
  /\ \/ UNCHANGED flushed
     \/ flushed' /\ ~evUser.extralabor_sub /\ ~evUser.extraLaborBusy /\ ~evUser.pendexit
     \/ ~flushed'

\* The clients' calls.
LEMMA Call_Labor == ASSUME TypeOK, NEW c \in Clients, Call(c) PROVE LaborCall
<1>1. CASE UNCHANGED <<evUser, tpc, flushed>>
  BY <1>1 DEF LaborCall
<1>2. CASE TurnOffExtraLabor(c)
  BY <1>2 DEF TurnOffExtraLabor, LaborCall, callRest, taskVars, histVars, TypeOK, UserRec
<1>3. CASE db_flush_extra_labor_event(c)
  BY <1>3 DEF db_flush_extra_labor_event, LaborCall, Free, taskVars, TypeOK, UserRec
<1>4. CASE db_post_extra_labor(c) \/ db_close_events(c)
  BY <1>4 DEF db_post_extra_labor, db_close_events, LaborCall, callRest, taskVars, histVars, TypeOK,
     UserRec
<1>5. CASE \E on \in BOOLEAN : db_event_flow_ctrl_mode(c, on)
  BY <1>5 DEF db_event_flow_ctrl_mode, LaborCall, callRest, taskVars, histVars, TypeOK, UserRec
<1> QED
  BY <1>1, <1>2, <1>3, <1>4, <1>5 DEF Call, db_add_event, db_event_enable, db_event_disable,
     CancelDisable, db_post_single_event, taskRest, taskVars, histVars

\* The calls in progress, the posters and a callback that cancels.
LEMMA Others_Labor ==
  ASSUME TypeOK,
         \/ \E s \in Subs : CancelInCallback(s)
         \/ \E c \in Clients : ClientStep(c)
         \/ \E r \in Recs : db_post_events(r) \/ PosterStep(r)
  PROVE  LaborCall
<1>1. UNCHANGED <<tpc, flushed>>
  BY DEF CancelInCallback, ClientStep, ClientSignal, CancelPurge, CancelFlush, CancelRecheck,
     CloseJoin, db_post_events, PosterStep, PostSignal, db_queue_event_log, callRest, taskVars,
     histVars
<1>2. /\ evUser'.taskid = evUser.taskid /\ evUser'.extraLaborBusy = evUser.extraLaborBusy
      /\ evUser'.extralabor_sub = evUser.extralabor_sub
  BY ZenonT(60) DEF CancelInCallback, ClientStep, ClientSignal, CancelPurge, CancelFlush, CancelRecheck,
     CloseJoin, db_post_events, PosterStep, PostSignal, db_queue_event_log, TypeOK, UserRec
<1> QED
  BY <1>1, <1>2 DEF LaborCall

\* The labor function starts only while extra labor is on, and a flush returns only
\* when it is over.
LEMMA LaborLifeNext ==
  ASSUME TypeOK, UserLife, LaborLife, [Next]_vars PROVE LaborLife'
<1>1. CASE db_init_events \/ db_add_extra_labor_event \/ db_start_events
  BY <1>1 DEF db_init_events, db_add_extra_labor_event, db_start_events, LaborLife, TypeOK, UserRec,
     callRest, taskRest, histVars, taskVars, FreshUser
<1>2. CASE TaskStep
  <2>1. CASE TaskWoken
    <3>1. CASE evUser.extra_labor /\ evUser.extralabor_sub
      BY <2>1, <3>1 DEF TaskWoken, LaborLife, taskRest, histVars, TypeOK, UserRec
    <3>2. CASE ~(evUser.extra_labor /\ evUser.extralabor_sub)
      BY <2>1, <3>2 DEF TaskWoken, LaborLife, taskRest, histVars, TypeOK, UserRec
    <3> QED
      BY <3>1, <3>2
  <2>2. CASE ~TaskWoken
    <3>1. UNCHANGED flushed /\ tpc' # "labor"
      BY <1>2, <2>2 DEF TaskStep, TaskWait, TaskLabor, ReadEnter, SkipCanceled, BeginCallback,
         UserSub, Return, ReadDone, TaskNext, TaskExit, taskRest, taskVars, histVars
    <3>2. evUser'.taskid = evUser.taskid /\ evUser'.extralabor_sub = evUser.extralabor_sub
      BY <1>2, <2>2 DEF TaskStep, TaskWait, TaskLabor, ReadEnter, SkipCanceled, BeginCallback,
         UserSub, Return, ReadDone, TaskNext, TaskExit, TypeOK, UserRec
    <3> QED
      BY <3>1, <3>2 DEF LaborLife
  <2> QED
    BY <2>1, <2>2
<1>3. CASE LaborCall
  BY <1>3 DEF LaborCall, LaborLife, UserLife
<1>4. CASE UNCHANGED vars
  BY <1>4 DEF LaborLife, vars, taskVars, histVars
<1> QED
  BY <1>1, <1>2, <1>3, <1>4, Call_Labor, Others_Labor DEF Next

\* Steps that neither open, free nor enable a subscription.
LEMMA SubLifeFrame ==
  ASSUME TypeOK, SubLife, UNCHANGED csub, evUser'.pendexit => evUser.pendexit,
         \A s \in Subs : /\ sub'[s].st = sub[s].st /\ sub'[s].owner = sub[s].owner
                         /\ sub'[s].que = sub[s].que
                         /\ (sub'[s].enabled => sub[s].enabled),
         \A c \in Clients : cpc'[c] \in {"purge", "flush", "recheck"} =>
                              cpc[c] \in {"purge", "flush", "recheck"}
  PROVE  SubLife'
BY DEF SubLife, TypeOK, ClientType

\* db_cancel_event frees the subscription it has in hand, and that one only.
LEMMA SubLifeRelease ==
  ASSUME TypeOK, SubLife, NEW s \in Subs, Release(s), evUser'.pendexit = evUser.pendexit,
         \A c \in Clients : cpc'[c] \in {"purge", "flush", "recheck"} =>
            csub[c] # s /\ cpc'[c] = cpc[c] /\ csub'[c] = csub[c]
  PROVE  SubLife'
<1>1. \A t \in Subs : sub'[t] = IF t = s THEN FreeSub ELSE sub[t]
  BY DEF Release, TypeOK
<1>2. FreeSub.st = "free" /\ FreeSub.que = 1 /\ ~FreeSub.enabled
  BY DEF FreeSub
<1> QED
  BY <1>1, <1>2 DEF SubLife, TypeOK, ClientType

\* A subscription in a cancel has one canceller.
LEMMA OneCanceller ==
  ASSUME SubLife, NEW c \in Clients, NEW d \in Clients, c # d,
         cpc[c] \in {"purge", "flush", "recheck"}, cpc[d] \in {"purge", "flush", "recheck"}
  PROVE  csub[c] # csub[d]
BY DEF SubLife

\* A poster's step changes its own entry only, and the pending counts of a subscription.
LEMMA PosterSubs ==
  ASSUME TypeOK, NEW r \in Recs, PosterStep(r)
  PROVE  \A t \in Subs : /\ sub'[t].st = sub[t].st /\ sub'[t].rec = sub[t].rec
                         /\ sub'[t].owner = sub[t].owner
                         /\ sub'[t].que = sub[t].que /\ sub'[t].enabled = sub[t].enabled
<1>1. CASE UNCHANGED sub
  BY <1>1
<1>2. ASSUME NEW s \in Subs, QueueAdd(s), sub' # sub
      PROVE  \A t \in Subs : /\ sub'[t].st = sub[t].st /\ sub'[t].rec = sub[t].rec
                             /\ sub'[t].owner = sub[t].owner
                             /\ sub'[t].que = sub[t].que /\ sub'[t].enabled = sub[t].enabled
  <2>1. sub' = [sub EXCEPT ![s].npend = sub[s].npend + 1, ![s].pLastLog = putix[sub[s].que]]
    BY <1>2 DEF QueueAdd
  <2> QED
    BY <2>1 DEF TypeOK, SubRec
<1> QED
  BY <1>1, <1>2 DEF PosterStep, PostSignal, db_queue_event_log, QueueDuplicate, QueueReplace

\* Every step keeps it.
LEMMA SubLifeNext ==
  ASSUME TypeOK, UserLife, SubLife, [Next]_vars PROVE SubLife'
<1>1. CASE db_init_events
  BY <1>1 DEF db_init_events, SubLife, UserLife, cliVars
<1>2. CASE db_add_extra_labor_event \/ db_start_events
  <2>1. UNCHANGED <<sub, cpc, csub>> /\ (evUser'.pendexit => evUser.pendexit)
    BY <1>2 DEF db_add_extra_labor_event, db_start_events, callRest, taskRest, cliVars, TypeOK,
       UserRec
  <2> QED
    BY <2>1, SubLifeFrame
<1>3. CASE TaskStep
  <2>1. UNCHANGED <<cpc, csub>> /\ evUser'.pendexit = evUser.pendexit
    BY <1>3 DEF TaskStep, TaskWait, TaskWoken, TaskLabor, ReadEnter, SkipCanceled, BeginCallback,
       UserSub, Return, ReadDone, TaskNext, TaskExit, TypeOK, UserRec, taskRest, cliVars
  <2>2. \A s \in Subs : /\ sub'[s].st = sub[s].st /\ sub'[s].owner = sub[s].owner
                        /\ sub'[s].que = sub[s].que /\ sub'[s].enabled = sub[s].enabled
    <3>1. CASE BeginCallback
      BY <3>1 DEF BeginCallback, Removed, TypeOK, SubRec
    <3>2. CASE Return
      BY <3>2 DEF Return, TypeOK, SubRec
    <3>3. CASE UNCHANGED sub
      BY <3>3
    <3> QED
      BY <1>3, <3>1, <3>2, <3>3 DEF TaskStep, TaskWait, TaskWoken, TaskLabor, ReadEnter,
         SkipCanceled, UserSub, ReadDone, TaskNext, TaskExit
  <2> QED
    BY <2>1, <2>2, SubLifeFrame
<1>4. ASSUME NEW s \in Subs, CancelInCallback(s) PROVE SubLife'
  <2>1. /\ UNCHANGED <<cpc, csub>> /\ evUser'.pendexit = evUser.pendexit
        /\ Release(s) /\ sub[s].st = "live"
    BY <1>4 DEF CancelInCallback, cliVars, TypeOK, UserRec
  <2> QED
    BY <2>1, SubLifeRelease DEF SubLife
<1>5. ASSUME NEW c \in Clients, Call(c) PROVE SubLife'
  <2>1. CASE \/ TurnOffExtraLabor(c) \/ db_flush_extra_labor_event(c) \/ db_post_extra_labor(c)
             \/ \E on \in BOOLEAN : db_event_flow_ctrl_mode(c, on)
             \/ \E s \in Subs : db_post_single_event(c, s)
    <3>1. /\ UNCHANGED <<sub, csub>> /\ evUser'.pendexit = evUser.pendexit
          /\ \A d \in Clients : cpc'[d] = cpc[d] \/ cpc'[d] \in {"signal", "posting"}
      BY <2>1 DEF TurnOffExtraLabor, db_flush_extra_labor_event, db_post_extra_labor,
         db_event_flow_ctrl_mode, db_post_single_event, callRest, cliVars, TypeOK, UserRec,
         ClientType
    <3> QED
      BY <3>1, SubLifeFrame
  <2>2. CASE db_close_events(c)
    BY <2>2 DEF db_close_events, callRest, SubLife, TypeOK, ClientType
  <2>3. ASSUME NEW s \in Subs, NEW r \in Recs, db_add_event(c, s, r) PROVE SubLife'
    <3>1. ~evUser.pendexit /\ UNCHANGED <<evUser, cpc, csub>> /\ sub[s].st = "free"
      BY <2>3 DEF db_add_event, Free, taskRest, cliVars
    <3>2. PICK q \in Queues : sub' = [sub EXCEPT ![s] = NewSub(c, r, q)]
      BY <2>3 DEF db_add_event
    <3>3. /\ sub'[s].st = "live" /\ ~sub'[s].enabled
          /\ \A t \in Subs : t # s => sub'[t] = sub[t]
      BY <3>2 DEF NewSub, FreeSub, TypeOK
    <3> QED
      BY <3>1, <3>3 DEF SubLife, TypeOK, ClientType
  <2>4. ASSUME NEW s \in Subs,
               db_event_enable(c, s) \/ db_event_disable(c, s) \/ CancelDisable(c, s)
        PROVE  SubLife'
    <3>1. UNCHANGED evUser /\ cpc[c] = "idle" /\ sub[s].st = "live" /\ sub[s].owner = c
      BY <2>4 DEF db_event_enable, db_event_disable, CancelDisable, Free, Owns
    <3>2. CASE db_event_enable(c, s) \/ db_event_disable(c, s)
      <4>1. /\ UNCHANGED <<cpc, csub>>
            /\ \E b \in BOOLEAN : sub' = [sub EXCEPT ![s].enabled = b]
        BY <3>2 DEF db_event_enable, db_event_disable, taskRest, cliVars
      <4>2. \A t \in Subs : /\ sub'[t].st = sub[t].st /\ sub'[t].owner = sub[t].owner
                            /\ sub'[t].que = sub[t].que
                            /\ t # s => sub'[t].enabled = sub[t].enabled
        BY <4>1 DEF TypeOK, SubRec
      <4> QED
        BY <3>1, <4>1, <4>2 DEF SubLife, TypeOK, ClientType
    <3>3. CASE CancelDisable(c, s)
      <4>1. /\ sub' = [sub EXCEPT ![s].enabled = FALSE, ![s].st = "cancel"]
            /\ cpc' = [cpc EXCEPT ![c] = "purge"] /\ csub' = [csub EXCEPT ![c] = s]
        BY <3>3 DEF CancelDisable
      <4>2. /\ \A t \in Subs : t # s => sub'[t] = sub[t]
            /\ sub'[s].st = "cancel" /\ sub'[s].owner = c /\ sub'[s].que = sub[s].que
            /\ ~sub'[s].enabled
        BY <3>1, <4>1 DEF TypeOK, SubRec
      <4> QED
        BY <3>1, <4>1, <4>2 DEF SubLife, TypeOK, ClientType
    <3> QED
      BY <2>4, <3>2, <3>3
  <2> QED
    BY <1>5, <2>1, <2>2, <2>3, <2>4 DEF Call
<1>6. ASSUME NEW c \in Clients, ClientStep(c) PROVE SubLife'
  <2>1. CASE CancelPurge(c) \/ CancelRecheck(c)
    <3>1. csub[c] \in Subs /\ cpc[c] \in {"purge", "flush", "recheck"} /\ UNCHANGED evUser
      BY <2>1 DEF CancelPurge, CancelRecheck, TypeOK, ClientType
    <3>2. CASE Release(csub[c]) /\ CancelReturns(c)
      <4>1. \A d \in Clients : cpc'[d] \in {"purge", "flush", "recheck"} =>
               d # c /\ cpc'[d] = cpc[d] /\ csub'[d] = csub[d]
        BY <3>2 DEF CancelReturns, TypeOK, ClientType
      <4> QED
        BY <3>1, <3>2, <4>1, SubLifeRelease, OneCanceller
    <3>3. CASE (sub' = PurgedSub(csub[c]) \/ UNCHANGED sub) /\ cpc' = [cpc EXCEPT ![c] = "flush"]
               /\ UNCHANGED csub
      <4>1. \A s \in Subs : /\ sub'[s].st = sub[s].st /\ sub'[s].owner = sub[s].owner
                            /\ sub'[s].que = sub[s].que /\ sub'[s].enabled = sub[s].enabled
        BY <3>3 DEF PurgedSub, TypeOK, SubRec
      <4>2. \A d \in Clients : cpc'[d] = cpc[d] \/ d = c
        BY <3>3 DEF TypeOK, ClientType
      <4> QED
        BY <3>1, <3>3, <4>1, <4>2, SubLifeFrame
    <3> QED
      BY <2>1, <3>2, <3>3 DEF CancelPurge, CancelRecheck
  <2>2. CASE ClientSignal(c) \/ CancelFlush(c) \/ CloseJoin(c)
    <3>1. /\ UNCHANGED <<sub, csub>> /\ evUser'.pendexit = evUser.pendexit
          /\ \A d \in Clients : \/ cpc'[d] = cpc[d] \/ cpc'[d] \in {"idle", "closewait"}
                                \/ cpc'[d] = "recheck" /\ cpc[d] = "flush"
      BY <2>2 DEF ClientSignal, CancelFlush, CloseJoin, callRest, TypeOK, UserRec, ClientType
    <3> QED
      BY <3>1, SubLifeFrame
  <2> QED
    BY <1>6, <2>1, <2>2 DEF ClientStep
<1>7. ASSUME NEW r \in Recs, db_post_events(r) PROVE SubLife'
  BY <1>7, SubLifeFrame DEF db_post_events, cliVars
<1>8. ASSUME NEW r \in Recs, PosterStep(r) PROVE SubLife'
  <2>1. /\ UNCHANGED csub /\ evUser'.pendexit = evUser.pendexit
        /\ \A d \in Clients : cpc'[d] = cpc[d] \/ cpc'[d] = "idle"
    BY <1>8 DEF PosterStep, PostSignal, db_queue_event_log, PosterContinues, TypeOK, UserRec
  <2> QED
    BY <1>8, <2>1, PosterSubs, SubLifeFrame
<1>9. CASE UNCHANGED vars
  BY <1>9, SubLifeFrame DEF vars, cliVars
<1> QED
  BY <1>1, <1>2, <1>3, <1>4, <1>5, <1>6, <1>7, <1>8, <1>9 DEF Next

\* Steps that leave the posters alone, free no live subscription and let no client out
\* of db_post_single_event.
LEMMA PostLifeFrame ==
  ASSUME TypeOK, PostLife, UNCHANGED post,
         \A s \in Subs : sub[s].st = "live" =>
            \/ sub'[s].st = "live" /\ sub'[s].rec = sub[s].rec
            \/ post[sub[s].rec].by # "scan",
         \A c \in Clients : cpc[c] = "posting" => cpc'[c] = "posting"
  PROVE  PostLife'
BY DEF PostLife

\* A poster goes on or ends.
LEMMA Poster_PostLife ==
  ASSUME TypeOK, PostLife, NEW r \in Recs, PosterStep(r) PROVE PostLife'
<1>1. PICK todo, sig : PosterContinues(r, todo, sig)
  BY DEF PosterStep, PostSignal, db_queue_event_log
<1>2. \A q \in Recs : q # r => post'[q] = post[q]
  BY <1>1 DEF PosterContinues, TypeOK, PostType
<1>3. \/ post'[r] = Idle
      \/ post'[r].by = post[r].by /\ \A c \in Clients : cpc'[c] = cpc[c]
  BY <1>1 DEF PosterContinues, TypeOK, PostType, PostRec
<1>4. \A c \in Clients : c # post[r].by => cpc'[c] = cpc[c]
  BY <1>1 DEF PosterContinues
<1>5. post[r] # Idle /\ \A t \in Subs : sub'[t].st = sub[t].st /\ sub'[t].rec = sub[t].rec
  BY PosterBusy, PosterSubs
<1>6. Idle.by \notin Clients
  BY NamesAssumption DEF Idle
<1>7. ASSUME NEW q \in Recs, post'[q] # Idle
      PROVE  \/ post'[q].by = "scan" /\ \E s \in Subs : sub'[s].st = "live" /\ sub'[s].rec = q
             \/ post'[q].by \in Clients /\ cpc'[post'[q].by] = "posting"
  <2>1. CASE q = r
    BY <1>3, <1>5, <1>7, <2>1 DEF PostLife
  <2>2. CASE q # r
    BY <1>2, <1>4, <1>5, <1>7, <2>2 DEF PostLife
  <2> QED
    BY <2>1, <2>2
<1>8. \A p, q \in Recs : post'[p].by = post'[q].by /\ post'[p].by \in Clients => p = q
  BY <1>2, <1>3, <1>6 DEF PostLife
<1> QED
  BY <1>7, <1>8 DEF PostLife

\* Every step keeps it: a cancel waits for the record lock, which the poster holds.
LEMMA PostLifeNext ==
  ASSUME TypeOK, SubLife, PostLife, [Next]_vars PROVE PostLife'
<1>1. CASE db_init_events \/ db_add_extra_labor_event \/ db_start_events \/ UNCHANGED vars
  BY <1>1, PostLifeFrame DEF db_init_events, db_add_extra_labor_event, db_start_events, callRest,
     taskRest, vars, postVars, cliVars
<1>2. CASE TaskStep
  <2>1. UNCHANGED <<post, cpc>>
    BY <1>2 DEF TaskStep, TaskWait, TaskWoken, TaskLabor, ReadEnter, SkipCanceled, BeginCallback,
       UserSub, Return, ReadDone, TaskNext, TaskExit, taskRest, postVars, cliVars
  <2>2. \A s \in Subs : sub'[s].st = sub[s].st /\ sub'[s].rec = sub[s].rec
    <3>1. CASE BeginCallback
      BY <3>1 DEF BeginCallback, Removed, TypeOK, SubRec
    <3>2. CASE Return
      BY <3>2 DEF Return, TypeOK, SubRec
    <3>3. CASE UNCHANGED sub
      BY <3>3
    <3> QED
      BY <1>2, <3>1, <3>2, <3>3 DEF TaskStep, TaskWait, TaskWoken, TaskLabor, ReadEnter,
         SkipCanceled, UserSub, ReadDone, TaskNext, TaskExit
  <2> QED
    BY <2>1, <2>2, PostLifeFrame
<1>3. ASSUME NEW s \in Subs, CancelInCallback(s) PROVE PostLife'
  <2>1. UNCHANGED <<post, cpc>> /\ Release(s) /\ post[sub[s].rec].by # "scan"
    BY <1>3 DEF CancelInCallback, postVars, cliVars, RecUnlocked
  <2>2. \A t \in Subs : t # s => sub'[t] = sub[t]
    BY <2>1 DEF Release, TypeOK
  <2> QED
    BY <2>1, <2>2, PostLifeFrame
<1>4. ASSUME NEW c \in Clients, Call(c) PROVE PostLife'
  <2>1. CASE \/ TurnOffExtraLabor(c) \/ db_flush_extra_labor_event(c) \/ db_post_extra_labor(c)
             \/ db_close_events(c) \/ \E on \in BOOLEAN : db_event_flow_ctrl_mode(c, on)
    <3>1. UNCHANGED <<sub, post>> /\ \A d \in Clients : cpc[d] = "posting" => cpc'[d] = "posting"
      BY <2>1 DEF TurnOffExtraLabor, db_flush_extra_labor_event, db_post_extra_labor,
         db_close_events, db_event_flow_ctrl_mode, Free, callRest, postVars, cliVars, TypeOK,
         ClientType
    <3> QED
      BY <3>1, PostLifeFrame
  <2>2. ASSUME NEW s \in Subs,
               \/ \E r \in Recs : db_add_event(c, s, r)
               \/ db_event_enable(c, s) \/ db_event_disable(c, s) \/ CancelDisable(c, s)
        PROVE  PostLife'
    <3>1. UNCHANGED post /\ cpc[c] = "idle" /\ \A d \in Clients : d # c => cpc'[d] = cpc[d]
      BY <2>2 DEF db_add_event, db_event_enable, db_event_disable, CancelDisable, Free, taskRest,
         postVars, cliVars, TypeOK, ClientType
    <3>2. \A t \in Subs : t # s => sub'[t] = sub[t]
      BY <2>2 DEF db_add_event, db_event_enable, db_event_disable, CancelDisable, TypeOK
    <3>3. sub[s].st = "live" => \/ sub'[s].st = "live" /\ sub'[s].rec = sub[s].rec
                                \/ post[sub[s].rec].by # "scan"
      BY <2>2 DEF db_add_event, db_event_enable, db_event_disable, CancelDisable, RecUnlocked
    <3> QED
      BY <3>1, <3>2, <3>3, PostLifeFrame
  <2>3. ASSUME NEW s \in Subs, db_post_single_event(c, s) PROVE PostLife'
    <3>1. /\ cpc[c] = "idle" /\ sub[s].rec \in Recs /\ UNCHANGED sub
          /\ post' = [post EXCEPT ![sub[s].rec] = [by |-> c, todo |-> {s}, sig |-> FALSE]]
          /\ cpc' = [cpc EXCEPT ![c] = "posting"]
      BY <2>3, SubFields DEF db_post_single_event, Free, TypeOK
    <3>2. /\ post'[sub[s].rec].by = c /\ cpc'[c] = "posting"
          /\ \A q \in Recs : q # sub[s].rec => post'[q] = post[q]
          /\ \A d \in Clients : d # c => cpc'[d] = cpc[d]
      BY <3>1 DEF TypeOK, PostType, ClientType
    <3>3. \A q \in Recs : post[q].by # c
      <4>1. Idle.by # c
        BY NamesAssumption DEF Idle
      <4> QED
        BY <3>1, <4>1, NamesAssumption DEF PostLife
    <3> QED
      BY <3>1, <3>2, <3>3 DEF PostLife
  <2> QED
    BY <1>4, <2>1, <2>2, <2>3 DEF Call
<1>5. ASSUME NEW c \in Clients, ClientStep(c) PROVE PostLife'
  <2>1. UNCHANGED post /\ \A d \in Clients : cpc[d] = "posting" => cpc'[d] = "posting"
    BY <1>5 DEF ClientStep, ClientSignal, CancelPurge, CancelFlush, CancelRecheck, CancelReturns,
       CloseJoin, callRest, postVars, TypeOK, ClientType
  <2>2. CASE UNCHANGED sub
    BY <2>1, <2>2, PostLifeFrame
  <2>3. CASE CancelPurge(c) \/ CancelRecheck(c)
    <3>1. csub[c] \in Subs /\ sub[csub[c]].st = "cancel"
      BY <2>3 DEF CancelPurge, CancelRecheck, TypeOK, ClientType, SubLife
    <3>2. \A t \in Subs : t # csub[c] => sub'[t] = sub[t]
      BY <2>3, <3>1 DEF CancelPurge, CancelRecheck, Release, PurgedSub, TypeOK
    <3> QED
      BY <2>1, <3>1, <3>2, PostLifeFrame
  <2> QED
    BY <1>5, <2>2, <2>3 DEF ClientStep, ClientSignal, CancelFlush, CloseJoin, callRest
<1>6. ASSUME NEW r \in Recs, db_post_events(r) PROVE PostLife'
  <2>1. UNCHANGED <<sub, cpc>>
    BY <1>6 DEF db_post_events, cliVars
  <2>2. CASE UNCHANGED post
    BY <2>1, <2>2, PostLifeFrame
  <2>3. CASE \E match \in SUBSET {s \in Subs : sub[s].enabled /\ sub[s].rec = r} :
               /\ match # {}
               /\ post' = [post EXCEPT ![r] = [by |-> "scan", todo |-> match, sig |-> FALSE]]
    <3>1. PICK s \in Subs : sub[s].enabled /\ sub[s].rec = r
      BY <2>3
    <3>2. post'[r].by = "scan" /\ \A q \in Recs : q # r => post'[q] = post[q]
      BY <2>3 DEF TypeOK, PostType
    <3> QED
      BY <2>1, <3>1, <3>2, NamesAssumption DEF PostLife, SubLife
  <2> QED
    BY <1>6, <2>2, <2>3 DEF db_post_events
<1> QED
  BY <1>1, <1>2, <1>3, <1>4, <1>5, <1>6, Poster_PostLife DEF Next

\* At first there is an event_user that is not started, and nothing else.
LEMMA LifeInit == Init => UserLife /\ LaborLife /\ SubLife /\ PostLife
<1> SUFFICES ASSUME Init PROVE UserLife /\ LaborLife /\ SubLife /\ PostLife
  OBVIOUS
<1>1. UserLife /\ LaborLife
  BY DEF Init, UserLife, LaborLife, Closers, FreshUser
<1>2. SubLife
  BY DEF Init, SubLife, FreeSub
<1>3. PostLife
  BY NamesAssumption DEF Init, PostLife, Idle
<1> QED
  BY <1>1, <1>2, <1>3

\* what is known of the life of an event_user and of those who use it
Life == UserLife /\ LaborLife /\ SubLife /\ PostLife

\* It holds in every reachable state, whatever the optional calls.
THEOREM LifeOfUser == Spec => []Life
<1>1. Init => Life
  BY LifeInit DEF Life
<1>2. TypeOK /\ Life /\ [Next]_vars => Life'
  BY UserLifeNext, LaborLifeNext, SubLifeNext, PostLifeNext DEF Life
<1> QED
  BY <1>1, <1>2, TypeCorrect, PTL DEF Spec

\* Once extra labor is turned off and flushed the labor function does not run again
\* until extra labor is added, and db_close_events frees the event_user when neither the
\* task nor a poster nor a client uses it, whatever calls the clients and callbacks make.
THEOREM GivenBack == Spec => []GivenBackIsUnused
<1>1. Life => GivenBackIsUnused
  <2> SUFFICES ASSUME Life PROVE FlushedLaborIsOver /\ ClosedIsUnused
    BY DEF GivenBackIsUnused
  <2>1. FlushedLaborIsOver
    BY DEF FlushedLaborIsOver, Life, LaborLife
  <2>2. ASSUME evUser.destroyed, NEW r \in Recs PROVE post[r] = Idle
    BY <2>2 DEF Life, UserLife, SubLife, PostLife
  <2> QED
    BY <2>1, <2>2 DEF ClosedIsUnused, Life, UserLife
<1> QED
  BY <1>1, LifeOfUser, PTL

-----------------------------------------------------------------------------
(* Wakeups *)

\* subscriptions live on queues of the chain
OnChain == \A s \in Subs : sub[s].que <= nque

\* the event task will not look at queue q before it waits for ppendsem
Asleep(q) ==
  \/ tpc \in {"none", "wait"}
  \/ tpc = "next" /\ q <= tq
  \/ tpc \in {"read", "loop", "callback", "return"} /\ q < tq

\* the wait will end, or flow control holds the events back
Roused ==
  \/ evUser.ppendsem \/ evUser.flowCtrlMode
  \/ \E r \in Recs : post[r].sig
  \/ \E c \in Clients : cpc[c] \in {"signal", "closesig"}

\* the inductive strengthening of NoLostWakeup
Wakeful ==
  /\ OnChain
  /\ tpc = "labor" => tq = 1
  /\ \A q \in Queues : HeadEntry(q) # Empty => q <= nque /\ (Asleep(q) => Roused)

\* It implies what the run checks.
LEMMA WakefulSuffices == Wakeful => NoLostWakeup
BY DEF Wakeful, Asleep, Roused, NoLostWakeup

\* A step that fills no empty queue keeps every queue with entries on the task's mind
\* if it does not send the task to sleep on one that nothing will rouse it for.
LEMMA WakefulFrame ==
  ASSUME TypeOK, TypeOK', Wakeful, OnChain', nque' >= nque,
         tpc' = "labor" => tq' = 1,
         \A q \in Queues : HeadEntry(q)' # Empty => HeadEntry(q) # Empty,
         \A q \in Queues : HeadEntry(q) # Empty /\ Asleep(q)' /\ (Asleep(q) => Roused) => Roused'
  PROVE  Wakeful'
<1>1. nque \in Int /\ nque' \in Int /\ Queues \subseteq Int
  BY DEF TypeOK, QueType, Queues
<1> HIDE DEF TypeOK
<1>2. \A q \in Queues : q <= nque => q <= nque'
  BY <1>1
<1> QED
  BY <1>2 DEF Wakeful

\* A step that leaves alone all that Wakeful speaks of but the clients' calls and the
\* event_user block, and does not drop a signal.
LEMMA WakefulCalls ==
  ASSUME TypeOK, TypeOK', Wakeful, UNCHANGED <<evque, getix, nque, sub, tpc, tq, post>>,
         Roused => Roused'
  PROVE  Wakeful'
<1>1. OnChain'
  BY DEF Wakeful, OnChain
<1>2. \A q \in Queues : HeadEntry(q)' = HeadEntry(q) /\ (Asleep(q)' <=> Asleep(q))
  BY DEF HeadEntry, Asleep
<1>3. nque' >= nque /\ (tpc' = "labor" => tq' = 1)
  BY DEF Wakeful, TypeOK, QueType, Queues
<1> QED
  BY <1>1, <1>2, <1>3, WakefulFrame

\* The event task's steps that take no entry: it sleeps only with no entry left on the
\* queues it has passed, unless flow control made it pass one.
LEMMA TaskMoves_Wake ==
  ASSUME TypeOK, TypeOK', Wakeful,
         \/ TaskWait \/ TaskWoken \/ TaskLabor \/ ReadEnter \/ UserSub \/ Return
         \/ ReadDone \/ TaskNext \/ TaskExit
  PROVE  Wakeful'
<1>1. UNCHANGED <<evque, getix, nque, post, cpc>>
  BY DEF TaskWait, TaskWoken, TaskLabor, ReadEnter, UserSub, Return, ReadDone, TaskNext,
         TaskExit, queVars, taskRest, postVars, cliVars
<1>2. OnChain'
  <2>1. \A s \in Subs : sub'[s].que = sub[s].que
    BY DEF TaskWait, TaskWoken, TaskLabor, ReadEnter, UserSub, Return, ReadDone, TaskNext,
           TaskExit, TypeOK, SubRec
  <2> QED
    BY <1>1, <2>1 DEF Wakeful, OnChain
<1>3. \A q \in Queues : HeadEntry(q)' = HeadEntry(q)
  BY <1>1 DEF HeadEntry
<1>4. /\ evUser'.flowCtrlMode = evUser.flowCtrlMode
      /\ evUser.ppendsem /\ tpc # "wait" => evUser'.ppendsem
  BY DEF TaskWait, TaskWoken, TaskLabor, ReadEnter, UserSub, Return, ReadDone, TaskNext,
         TaskExit, TypeOK, UserRec
<1>5. Roused /\ tpc # "wait" => Roused'
  BY <1>1, <1>4 DEF Roused
<1>6. tpc' = "labor" => tq' = 1
  BY DEF TaskWait, TaskWoken, TaskLabor, ReadEnter, UserSub, Return, ReadDone, TaskNext, TaskExit
<1>7. ASSUME NEW q \in Queues, HeadEntry(q) # Empty, Asleep(q)', Asleep(q) => Roused
      PROVE  Roused'
  <2>1. q \in Nat /\ q >= 1 /\ q <= nque /\ tq \in Nat /\ nque \in Nat
    BY <1>7 DEF Wakeful, TypeOK, QueType, TaskType, Queues
  <2>2. CASE TaskWait
    BY <1>7, <2>2 DEF TaskWait, Asleep
  <2>3. CASE TaskWoken
    BY <1>7, <2>1, <2>3 DEF TaskWoken, Asleep
  <2>4. CASE TaskLabor
    BY <1>7, <2>1, <2>4 DEF TaskLabor, Asleep, Wakeful
  <2>5. CASE ReadEnter
    <3>1. CASE evUser.flowCtrlMode
      BY <1>4, <3>1 DEF Roused
    <3>2. CASE ~evUser.flowCtrlMode
      BY <1>5, <1>7, <2>5, <3>2 DEF ReadEnter, Asleep
    <3> QED
      BY <3>1, <3>2
  <2>6. CASE UserSub \/ Return
    BY <1>5, <1>7, <2>6 DEF UserSub, Return, Asleep
  <2>7. CASE ReadDone
    <3>1. q # tq
      BY <1>7, <2>7 DEF ReadDone
    <3> QED
      BY <1>5, <1>7, <2>1, <2>7, <3>1 DEF ReadDone, Asleep
  <2>8. CASE TaskNext
    <3>1. tpc = "next"
      BY <2>8 DEF TaskNext
    <3>2. q <= tq
      BY <1>7, <2>1, <2>8 DEF TaskNext, Asleep
    <3> QED
      BY <1>5, <1>7, <3>1, <3>2 DEF Asleep
  <2>9. CASE TaskExit
    BY <1>7, <2>9 DEF TaskExit, Asleep
  <2> QED
    BY <2>2, <2>3, <2>4, <2>5, <2>6, <2>7, <2>8, <2>9
<1>8. nque' >= nque
  BY <1>1 DEF TypeOK, QueType, Queues
<1> QED
  BY <1>2, <1>3, <1>6, <1>7, <1>8, WakefulFrame

\* Taking the entry at getix: the task is on that queue and will look again.
LEMMA TakeHead_Wake ==
  ASSUME TypeOK, TypeOK', Wakeful, SkipCanceled \/ BeginCallback
  PROVE  Wakeful'
<1>1. /\ tpc = "loop" /\ tpc' \in {"loop", "callback"} /\ TakeHead(tq)
      /\ UNCHANGED <<evUser, nque, post, cpc, tq>>
  BY DEF SkipCanceled, BeginCallback, taskVars, postVars, cliVars
<1>2. OnChain'
  <2>1. \A s \in Subs : sub'[s].que = sub[s].que
    <3>1. CASE SkipCanceled
      BY <3>1 DEF SkipCanceled
    <3>2. CASE BeginCallback
      BY <3>2 DEF BeginCallback, Removed, TypeOK, SubRec
    <3> QED
      BY <3>1, <3>2
  <2> QED
    BY <1>1, <2>1 DEF Wakeful, OnChain
<1>3. \A q \in Queues : q # tq => HeadEntry(q)' = HeadEntry(q)
  BY <1>1 DEF HeadEntry, TakeHead, TypeOK, QueType, TaskType
<1>4. HeadEntry(tq) # Empty
  BY NamesAssumption DEF SkipCanceled, BeginCallback, Empty, Canceled
<1>5. Roused' <=> Roused
  BY <1>1 DEF Roused
<1>6. \A q \in Queues : Asleep(q)' <=> Asleep(q)
  BY <1>1 DEF Asleep
<1>7. nque' >= nque
  BY <1>1 DEF TypeOK, QueType, Queues
<1>8. \A q \in Queues : HeadEntry(q)' # Empty => HeadEntry(q) # Empty
  BY <1>3, <1>4
<1> QED
  BY <1>1, <1>2, <1>5, <1>6, <1>7, <1>8, WakefulFrame

\* The purge of a cancelled subscription leaves placeholders: no queue is emptied or
\* filled by it.
LEMMA PurgeHead ==
  ASSUME TypeOK, NEW s \in Subs, NEW p \in Queues, PurgeQueue(p, s), UNCHANGED getix
  PROVE  \A q \in Queues : HeadEntry(q)' # Empty => HeadEntry(q) # Empty
<1>1. \A q \in Queues, i \in Slots : evque'[q][i] # evque[q][i] => evque[q][i] = s
  BY DEF PurgeQueue, Purged, TypeOK, QueType
<1> QED
  BY <1>1, NamesAssumption DEF HeadEntry, Empty, TypeOK, QueType

\* A freed block is given back with the chain's first queue in it.
LEMMA Release_Chain ==
  ASSUME TypeOK, OnChain, UNCHANGED nque, NEW s \in Subs, Release(s)
  PROVE  OnChain'
BY DEF Release, OnChain, FreeSub, TypeOK, QueType, Queues

\* The purge of db_cancel_event.
LEMMA Cancel_Wake ==
  ASSUME TypeOK, TypeOK', Wakeful, NEW c \in Clients, CancelPurge(c) \/ CancelRecheck(c)
  PROVE  Wakeful'
<1>1. UNCHANGED <<getix, nque, post, tpc, tq, evUser>> /\ cpc[c] \in {"purge", "recheck"}
  BY DEF CancelPurge, CancelRecheck, taskVars, postVars
<1>2. csub[c] \in Subs /\ sub[csub[c]].que \in Queues
  BY <1>1, SubFields DEF TypeOK, ClientType
<1>3. \A q \in Queues : HeadEntry(q)' # Empty => HeadEntry(q) # Empty
  <2>1. CASE CancelPurge(c)
    BY <1>1, <1>2, <2>1, PurgeHead DEF CancelPurge
  <2>2. CASE CancelRecheck(c)
    BY <1>1, <2>2 DEF CancelRecheck, HeadEntry
  <2> QED
    BY <2>1, <2>2
<1>4. OnChain'
  <2>1. CASE Release(csub[c])
    BY <1>1, <1>2, <2>1, Release_Chain DEF Wakeful
  <2>2. CASE sub' = PurgedSub(csub[c]) \/ UNCHANGED sub
    <3>1. \A s \in Subs : sub'[s].que = sub[s].que
      BY <2>2 DEF PurgedSub, TypeOK, SubRec
    <3> QED
      BY <1>1, <3>1 DEF Wakeful, OnChain
  <2> QED
    BY <2>1, <2>2 DEF CancelPurge, CancelRecheck
<1>5. \A d \in Clients : d # c => cpc'[d] = cpc[d]
  BY DEF CancelPurge, CancelRecheck, CancelReturns, TypeOK, ClientType
<1>7. Roused => Roused'
  BY <1>1, <1>5 DEF Roused
<1>8. (\A q \in Queues : Asleep(q)' <=> Asleep(q)) /\ nque' >= nque /\ (tpc' = "labor" => tq' = 1)
  BY <1>1 DEF Asleep, Wakeful, TypeOK, QueType, Queues
<1> QED
  BY <1>3, <1>4, <1>7, <1>8, WakefulFrame

\* A callback cancels a subscription.
LEMMA CancelInCallback_Wake ==
  ASSUME TypeOK, TypeOK', Wakeful, NEW s \in Subs, CancelInCallback(s)
  PROVE  Wakeful'
<1>1. /\ UNCHANGED <<getix, nque, post, tpc, tq, cpc>> /\ PurgeQueue(sub[s].que, s) /\ Release(s)
      /\ evUser' = [evUser EXCEPT !.pSuicideEvent = s]
  BY DEF CancelInCallback, taskVars, postVars, cliVars
<1>2. \A q \in Queues : HeadEntry(q)' # Empty => HeadEntry(q) # Empty
  BY <1>1, PurgeHead, SubFields DEF TypeOK
<1>3. OnChain'
  BY <1>1, Release_Chain DEF Wakeful
<1>4. Roused => Roused'
  BY <1>1 DEF Roused, TypeOK, UserRec
<1>5. (\A q \in Queues : Asleep(q)' <=> Asleep(q)) /\ nque' >= nque /\ (tpc' = "labor" => tq' = 1)
  BY <1>1 DEF Asleep, Wakeful, TypeOK, QueType, Queues
<1> QED
  BY <1>2, <1>3, <1>4, <1>5, WakefulFrame

\* The clients' calls that leave queues, subscriptions, posters and the task alone.
\* A change of flow control leaves a signal behind it.
LEMMA ClientMoves_Wake ==
  ASSUME TypeOK, TypeOK', Wakeful, NEW c \in Clients,
         \/ TurnOffExtraLabor(c) \/ db_flush_extra_labor_event(c) \/ db_post_extra_labor(c)
         \/ db_close_events(c) \/ ClientSignal(c) \/ CancelFlush(c) \/ CloseJoin(c)
         \/ \E on \in BOOLEAN : db_event_flow_ctrl_mode(c, on)
  PROVE  Wakeful'
<1>1. UNCHANGED <<evque, getix, nque, sub, tpc, tq, post>>
  BY DEF TurnOffExtraLabor, db_flush_extra_labor_event, db_post_extra_labor, db_close_events,
         ClientSignal, CancelFlush, CloseJoin, db_event_flow_ctrl_mode, callRest, queVars,
         taskVars, postVars
<1>2. \A d \in Clients : d # c => cpc'[d] = cpc[d]
  BY DEF TurnOffExtraLabor, db_flush_extra_labor_event, db_post_extra_labor, db_close_events,
         ClientSignal, CancelFlush, CloseJoin, db_event_flow_ctrl_mode, Free, cliVars, TypeOK,
         ClientType
<1>3. /\ evUser.ppendsem => evUser'.ppendsem
      /\ cpc[c] \in {"signal", "closesig"} => evUser'.ppendsem \/ cpc'[c] = cpc[c]
      /\ evUser.flowCtrlMode => evUser'.flowCtrlMode \/ cpc'[c] = "signal"
  BY ZenonT(60) DEF TurnOffExtraLabor, db_flush_extra_labor_event, db_post_extra_labor, db_close_events,
         ClientSignal, CancelFlush, CloseJoin, db_event_flow_ctrl_mode, Free, cliVars, TypeOK,
         ClientType, UserRec
<1>4. Roused => Roused'
  BY <1>1, <1>2, <1>3 DEF Roused
<1> QED
  BY <1>1, <1>2, <1>4, WakefulCalls

\* The user's calls before the task runs.
LEMMA StartMoves_Wake ==
  ASSUME TypeOK, TypeOK', Wakeful, db_add_extra_labor_event \/ db_start_events, UserLife
  PROVE  Wakeful'
<1>1. /\ UNCHANGED <<evque, getix, nque, sub, tq, post, cpc>>
      /\ tpc' = tpc \/ (tpc = "none" /\ tpc' = "wait")
  BY DEF db_add_extra_labor_event, db_start_events, UserLife, callRest, taskRest, queVars,
         taskVars, postVars, cliVars
<1>2. Roused => Roused'
  BY <1>1 DEF db_add_extra_labor_event, db_start_events, Roused, TypeOK, UserRec
<1>3. OnChain'
  BY <1>1 DEF Wakeful, OnChain
<1>4. \A q \in Queues : HeadEntry(q)' = HeadEntry(q) /\ (Asleep(q)' <=> Asleep(q))
  BY <1>1 DEF HeadEntry, Asleep
<1>5. nque' >= nque /\ (tpc' = "labor" => tq' = 1)
  BY <1>1 DEF Wakeful, TypeOK, QueType, Queues
<1> QED
  BY <1>2, <1>3, <1>4, <1>5, WakefulFrame

\* A fresh event_user has no entries, and no subscription is left of the old one.
LEMMA init_Wake ==
  ASSUME TypeOK, TypeOK', UserLife, SubLife, Wakeful, db_init_events PROVE Wakeful'
<1>1. /\ evque' = [q \in Queues |-> EmptyRing] /\ getix' = [q \in Queues |-> 0] /\ nque' = 1
      /\ tpc' = "none" /\ UNCHANGED sub /\ evUser.destroyed
  BY DEF db_init_events
<1>2. \A q \in Queues : HeadEntry(q)' = Empty
  BY <1>1, SizeFact DEF HeadEntry, EmptyRing
<1>3. OnChain'
  BY <1>1 DEF OnChain, UserLife, SubLife
<1> QED
  BY <1>1, <1>2, <1>3 DEF Wakeful

\* The other calls of clients: db_add_event may make the chain longer.
LEMMA SubCalls_Wake ==
  ASSUME TypeOK, TypeOK', Wakeful, NEW c \in Clients, NEW s \in Subs,
         \/ \E r \in Recs : db_add_event(c, s, r)
         \/ db_event_enable(c, s) \/ db_event_disable(c, s) \/ CancelDisable(c, s)
  PROVE  Wakeful'
<1>1. UNCHANGED <<evque, getix, tpc, tq, evUser, post>> /\ cpc[c] = "idle"
  BY DEF db_add_event, db_event_enable, db_event_disable, CancelDisable, Free, queVars, taskRest,
     taskVars, postVars
<1>2. Roused => Roused'
  <2>1. \A d \in Clients : d # c => cpc'[d] = cpc[d]
    BY DEF db_add_event, db_event_enable, db_event_disable, CancelDisable, taskRest, cliVars,
       TypeOK, ClientType
  <2> QED
    BY <1>1, <2>1 DEF Roused
<1>3. OnChain' /\ nque' >= nque
  <2>1. CASE \E r \in Recs : db_add_event(c, s, r)
    <3>1. PICK r \in Recs, q \in Queues : /\ nque' = IF q > nque THEN q ELSE nque
                                          /\ sub' = [sub EXCEPT ![s] = NewSub(c, r, q)]
      BY <2>1 DEF db_add_event
    <3>2. sub'[s].que = q /\ \A t \in Subs : t # s => sub'[t] = sub[t]
      BY <3>1 DEF NewSub, FreeSub, TypeOK
    <3>3. q \in Int /\ nque \in Int /\ \A t \in Subs : sub[t].que \in Int
      BY SubFields DEF TypeOK, QueType, Queues
    <3> QED
      BY <3>1, <3>2, <3>3 DEF Wakeful, OnChain
  <2>2. CASE db_event_enable(c, s) \/ db_event_disable(c, s) \/ CancelDisable(c, s)
    <3>1. UNCHANGED nque /\ \A t \in Subs : sub'[t].que = sub[t].que
      BY <2>2 DEF db_event_enable, db_event_disable, CancelDisable, queVars, TypeOK, SubRec
    <3> QED
      BY <3>1 DEF Wakeful, OnChain, TypeOK, QueType, Queues
  <2> QED
    BY <2>1, <2>2
<1>4. \A q \in Queues : HeadEntry(q)' = HeadEntry(q) /\ (Asleep(q)' <=> Asleep(q))
  BY <1>1 DEF HeadEntry, Asleep
<1>5. tpc' = "labor" => tq' = 1
  BY <1>1 DEF Wakeful
<1> QED
  BY <1>2, <1>3, <1>4, <1>5, WakefulFrame

\* A post begins.
LEMMA PostBegins_Wake ==
  ASSUME TypeOK, TypeOK', Wakeful,
         \/ \E r \in Recs : db_post_events(r)
         \/ \E c \in Clients, s \in Subs : db_post_single_event(c, s)
  PROVE  Wakeful'
<1>1. UNCHANGED <<evque, getix, nque, sub, tpc, tq, evUser>>
  BY DEF db_post_events, db_post_single_event, queVars, taskVars
<1>2. \A r \in Recs : post[r].sig => post'[r].sig
  <2>1. ~Idle.sig
    BY DEF Idle
  <2>2. \A r \in Recs : post'[r] # post[r] => post[r] = Idle
    BY DEF db_post_events, db_post_single_event, TypeOK, PostType
  <2> QED
    BY <2>1, <2>2
<1>3. \A c \in Clients : cpc[c] \in {"signal", "closesig"} => cpc'[c] = cpc[c]
  BY DEF db_post_events, db_post_single_event, Free, cliVars, TypeOK, ClientType
<1>4. Roused => Roused'
  BY <1>1, <1>2, <1>3 DEF Roused
<1>5. OnChain' /\ nque' >= nque /\ (tpc' = "labor" => tq' = 1)
  BY <1>1 DEF Wakeful, OnChain, TypeOK, QueType, Queues
<1>6. \A q \in Queues : HeadEntry(q)' = HeadEntry(q) /\ (Asleep(q)' <=> Asleep(q))
  BY <1>1 DEF HeadEntry, Asleep
<1> QED
  BY <1>4, <1>5, <1>6, WakefulFrame

\* A poster that ends lets go only a client that is in no other call.
LEMMA PosterSignals ==
  ASSUME TypeOK, PostLife, NEW r \in Recs, PosterStep(r)
  PROVE  \A c \in Clients : cpc[c] \in {"signal", "closesig"} => cpc'[c] = cpc[c]
<1>1. PICK todo, sig : PosterContinues(r, todo, sig)
  BY DEF PosterStep, PostSignal, db_queue_event_log
<1>2. \A c \in Clients : c # post[r].by => cpc'[c] = cpc[c]
  BY <1>1 DEF PosterContinues
<1>3. post[r].by \in Clients => cpc[post[r].by] = "posting"
  BY PosterBusy, NamesAssumption DEF PostLife
<1> QED
  BY <1>2, <1>3

\* A poster signals the task.
LEMMA PostSignal_Wake ==
  ASSUME TypeOK, TypeOK', Wakeful, NEW r \in Recs, PostSignal(r) PROVE Wakeful'
<1>1. UNCHANGED <<evque, getix, nque, sub, tpc, tq>> /\ evUser'.ppendsem
  BY DEF PostSignal, queVars, taskVars, TypeOK, UserRec
<1>2. Roused'
  BY <1>1 DEF Roused
<1>3. OnChain' /\ nque' >= nque /\ (tpc' = "labor" => tq' = 1)
  BY <1>1 DEF Wakeful, OnChain, TypeOK, QueType, Queues
<1>4. \A q \in Queues : HeadEntry(q)' = HeadEntry(q)
  BY <1>1 DEF HeadEntry
<1> QED
  BY <1>2, <1>3, <1>4, WakefulFrame

\* A log is added to an empty ring: db_queue_event_log finds all of its slots free,
\* since getix and putix are the same, and will signal.
LEMMA AddToEmpty ==
  ASSUME TypeOK, NEW s \in Subs, QueueAdd(s), NEW q, q = sub[s].que,
         HeadEntry(q) = Empty, evque'[q][getix[q]] # Empty
  PROVE  FirstEvent(s)
<1>1. q \in Queues /\ putix[q] \in Slots /\ getix[q] \in Slots
  BY SubFields DEF TypeOK, QueType
<1>2. evque' = evque \/ evque' = [evque EXCEPT ![q][putix[q]] = s]
  BY DEF QueueAdd
<1>3. getix[q] = putix[q]
  BY <1>1, <1>2 DEF HeadEntry, TypeOK, QueType
<1>4. evque[q][putix[q]] = Empty
  BY <1>3 DEF HeadEntry
<1>5. ringSpace(q) = EVENTQUESIZE
  BY <1>1, <1>3, <1>4, SizeFact DEF ringSpace, Slots
<1> QED
  BY <1>5 DEF FirstEvent, QueueAdd

\* A poster queues a log.
LEMMA Log_Wake ==
  ASSUME TypeOK, TypeOK', PostLife, Wakeful, NEW r \in Recs, NEW s \in Subs,
         db_queue_event_log(r, s)
  PROVE  Wakeful'
<1>0. PICK q : q = sub[s].que
  OBVIOUS
<1>1. UNCHANGED <<getix, nque, tpc, tq, evUser>> /\ PosterStep(r)
  BY DEF db_queue_event_log, taskVars, PosterStep
<1>2. OnChain'
  BY <1>1, PosterSubs DEF Wakeful, OnChain
<1>3. \A t \in Recs : post[t].sig => post'[t].sig
  BY DEF db_queue_event_log, PosterContinues, TypeOK, PostType
<1>4. Roused => Roused'
  BY <1>1, <1>3, PosterSignals DEF Roused
<1>5. q \in Queues /\ q <= nque
  BY <1>0, SubFields DEF TypeOK, Wakeful, OnChain
<1>6. \A p \in Queues : p # q => HeadEntry(p)' = HeadEntry(p)
  BY <1>0, <1>1, <1>5 DEF db_queue_event_log, QueueDuplicate, QueueReplace, QueueAdd, HeadEntry, TypeOK,
     QueType
<1>7. ASSUME HeadEntry(q) = Empty, evque'[q][getix[q]] # Empty PROVE Roused'
  <2>1. QueueAdd(s)
    BY <1>1, <1>7 DEF db_queue_event_log, QueueDuplicate, QueueReplace, HeadEntry
  <2>2. FirstEvent(s)
    BY <1>0, <1>7, <2>1, AddToEmpty
  <2>3. post' = [post EXCEPT ![r] = [@ EXCEPT !.todo = post[r].todo \ {s}, !.sig = FirstEvent(s)]]
    BY <2>2 DEF db_queue_event_log, PosterContinues
  <2>4. post'[r].sig
    BY <2>2, <2>3 DEF TypeOK, PostType, PostRec
  <2> QED
    BY <2>4 DEF Roused
<1>8. \A p \in Queues : Asleep(p)' <=> Asleep(p)
  BY <1>1 DEF Asleep
<1>9. ASSUME NEW p \in Queues, HeadEntry(p)' # Empty
      PROVE  p <= nque' /\ (Asleep(p)' => Roused')
  <2>1. CASE HeadEntry(p) # Empty
    BY <1>1, <1>4, <1>8, <2>1 DEF Wakeful
  <2>2. CASE HeadEntry(p) = Empty
    <3>1. p = q /\ evque'[q][getix[q]] # Empty
      BY <1>1, <1>6, <1>9, <2>2 DEF HeadEntry
    <3> QED
      BY <1>1, <1>5, <1>7, <2>2, <3>1
  <2> QED
    BY <2>1, <2>2
<1> QED
  BY <1>1, <1>2, <1>9 DEF Wakeful

\* Every step keeps the task on its toes.
LEMMA WakefulNext == ASSUME TypeOK, TypeOK', Life, Wakeful, [Next]_vars PROVE Wakeful'
<1> USE DEF Life
<1>1. CASE db_init_events \/ db_add_extra_labor_event \/ db_start_events
  BY <1>1, init_Wake, StartMoves_Wake
<1>2. CASE TaskStep
  BY <1>2, TaskMoves_Wake, TakeHead_Wake DEF TaskStep
<1>3. CASE \E s \in Subs : CancelInCallback(s)
  BY <1>3, CancelInCallback_Wake
<1>4. ASSUME NEW c \in Clients, Call(c) PROVE Wakeful'
  BY <1>4, ClientMoves_Wake, SubCalls_Wake, PostBegins_Wake DEF Call
<1>5. ASSUME NEW c \in Clients, ClientStep(c) PROVE Wakeful'
  BY <1>5, ClientMoves_Wake, Cancel_Wake DEF ClientStep
<1>6. ASSUME NEW r \in Recs, db_post_events(r) \/ PosterStep(r) PROVE Wakeful'
  BY <1>6, PostBegins_Wake, PostSignal_Wake, Log_Wake DEF PosterStep
<1>7. CASE UNCHANGED vars
  BY <1>7, WakefulCalls DEF vars, queVars, taskVars, postVars, cliVars, Roused
<1> QED
  BY <1>1, <1>2, <1>3, <1>4, <1>5, <1>6, <1>7 DEF Next

\* The rings are empty at first.
LEMMA WakefulInit == Init => Wakeful
<1> SUFFICES ASSUME Init PROVE Wakeful
  OBVIOUS
<1>1. \A q \in Queues : HeadEntry(q) = Empty
  BY SizeFact DEF Init, HeadEntry, EmptyRing
<1>2. OnChain
  BY DEF Init, OnChain, FreeSub
<1> QED
  BY <1>1, <1>2 DEF Init, Wakeful

\* The event task never sleeps on a queue with entries unless it is under flow control
\* or a thread is about to signal it, whatever calls the clients and callbacks make and
\* however many queues the task drains in a pass.
THEOREM WakeupNotLost == Spec => []NoLostWakeup
<1>1. TypeOK /\ TypeOK' /\ Life /\ Wakeful /\ [Next]_vars => Wakeful'
  BY WakefulNext
<1> QED
  BY <1>1, WakefulInit, WakefulSuffices, TypeCorrect, LifeOfUser, PTL DEF Spec

-----------------------------------------------------------------------------
(* Counters *)

\* the slots of ring f with entry x, those with an entry of some subscription, and the
\* subscriptions that have one
SlotsOf(f, x) == {i \in Slots : f[i] = x}
Held(f)       == {i \in Slots : f[i] \in Subs}
Kinds(f)      == {f[i] : i \in Held(f)}
Dups(f)       == Cardinality(Held(f)) - Cardinality(Kinds(f))

\* g is f with x in slot i
Put(g, f, i, x) == g = [f EXCEPT ![i] = x]

\* The sets are finite.
LEMMA CountsFinite ==
  ASSUME NEW f
  PROVE  /\ \A x : IsFiniteSet(SlotsOf(f, x)) /\ Cardinality(SlotsOf(f, x)) \in Nat
         /\ IsFiniteSet(Held(f)) /\ Cardinality(Held(f)) \in Nat
         /\ IsFiniteSet(Kinds(f)) /\ Cardinality(Kinds(f)) \in Nat
         /\ Cardinality(Kinds(f)) <= Cardinality(Held(f))
<1>1. IsFiniteSet(Slots)
  BY FS_Interval, SizeFact DEF Slots
<1>2. \A x : SlotsOf(f, x) \in SUBSET Slots
  BY DEF SlotsOf
<1>3. Held(f) \in SUBSET Slots
  BY DEF Held
<1>4. \A x : IsFiniteSet(SlotsOf(f, x)) /\ Cardinality(SlotsOf(f, x)) \in Nat
  BY <1>1, <1>2, FS_Subset, FS_CardinalityType
<1>5. IsFiniteSet(Held(f)) /\ Cardinality(Held(f)) \in Nat
  BY <1>1, <1>3, FS_Subset, FS_CardinalityType
<1>6. [i \in Held(f) |-> f[i]] \in Surjection(Held(f), Kinds(f))
  BY DEF Surjection, Kinds
<1>7. IsFiniteSet(Kinds(f)) /\ Cardinality(Kinds(f)) <= Cardinality(Held(f))
  BY <1>5, <1>6, FS_Surjection
<1> QED
  BY <1>4, <1>5, <1>7, FS_CardinalityType

\* An entry is one of the subscription's slots, and one of the queue's.
LEMMA KindsOf ==
  ASSUME NEW f, NEW s \in Subs
  PROVE  /\ s \in Kinds(f) <=> SlotsOf(f, s) # {}
         /\ s \in Kinds(f) <=> Cardinality(SlotsOf(f, s)) # 0
<1>1. s \in Kinds(f) <=> SlotsOf(f, s) # {}
  BY DEF Kinds, Held, SlotsOf
<1> QED
  BY <1>1, CountsFinite, FS_EmptySet

\* Only subscriptions are counted as kinds.
LEMMA KindsInSubs == ASSUME NEW f PROVE Kinds(f) \subseteq Subs
BY DEF Kinds, Held

\* The counts are numbers.
LEMMA CountTypes ==
  ASSUME NEW f
  PROVE  /\ Cardinality(Held(f)) \in Nat /\ Cardinality(Kinds(f)) \in Nat
         /\ Dups(f) \in Nat /\ Dups(f) = Cardinality(Held(f)) - Cardinality(Kinds(f))
<1>1. /\ Cardinality(Held(f)) \in Nat /\ Cardinality(Kinds(f)) \in Nat
      /\ Cardinality(Kinds(f)) <= Cardinality(Held(f))
  BY CountsFinite
<1> QED
  BY <1>1 DEF Dups

\* The union of two disjoint finite sets has the sum of their cardinalities.
LEMMA DisjointUnion ==
  ASSUME NEW S, NEW T, IsFiniteSet(S), IsFiniteSet(T), S \cap T = {}
  PROVE  Cardinality(S \cup T) = Cardinality(S) + Cardinality(T)
<1>1. Cardinality(S \cup T) = Cardinality(S) + Cardinality(T) - Cardinality({})
  BY FS_Union
<1>2. Cardinality({}) = 0 /\ Cardinality(S) \in Nat /\ Cardinality(T) \in Nat
  BY FS_EmptySet, FS_CardinalityType
<1> QED
  BY <1>1, <1>2

\* Adding an entry of s to a free slot: one more duplicate if s has one already.
LEMMA AddCounts ==
  ASSUME NEW f \in Ring, NEW i \in Slots, f[i] = Empty, NEW s \in Subs,
         NEW g, Put(g, f, i, s)
  PROVE  /\ Cardinality(SlotsOf(g, s)) = Cardinality(SlotsOf(f, s)) + 1
         /\ \A x \in (Subs \cup {Canceled}) \ {s} : SlotsOf(g, x) = SlotsOf(f, x)
         /\ Dups(g) = IF Cardinality(SlotsOf(f, s)) > 0 THEN Dups(f) + 1 ELSE Dups(f)
<1>1. /\ s # Empty /\ s # Canceled /\ Empty # Canceled /\ Empty \notin Subs
  BY NamesAssumption DEF Empty, Canceled
<1>2. g \in Ring /\ \A j \in Slots : g[j] = IF j = i THEN s ELSE f[j]
  BY DEF Ring, Put
<1>3. SlotsOf(g, s) = SlotsOf(f, s) \cup {i} /\ i \notin SlotsOf(f, s)
  BY <1>1, <1>2 DEF SlotsOf
<1>4. Held(g) = Held(f) \cup {i} /\ i \notin Held(f)
  BY <1>1, <1>2 DEF Held
<1>6. \A x \in (Subs \cup {Canceled}) \ {s} : SlotsOf(g, x) = SlotsOf(f, x)
  BY <1>1, <1>2 DEF SlotsOf
<1>5. Kinds(g) = Kinds(f) \cup {s}
  <2>1. \A t \in Subs \ {s} : t \in Kinds(g) <=> t \in Kinds(f)
    BY <1>6, KindsOf
  <2>2. s \in Kinds(g)
    BY <1>3, KindsOf
  <2> QED
    BY <2>1, <2>2, KindsInSubs
<1>7. Cardinality(SlotsOf(g, s)) = Cardinality(SlotsOf(f, s)) + 1
  BY <1>3, CountsFinite, FS_AddElement
<1>8. Cardinality(Held(g)) = Cardinality(Held(f)) + 1
  BY <1>4, CountsFinite, FS_AddElement
<1>9. Cardinality(Kinds(g)) = IF s \in Kinds(f) THEN Cardinality(Kinds(f)) ELSE Cardinality(Kinds(f)) + 1
  BY <1>5, CountsFinite, FS_AddElement
<1>10. s \in Kinds(f) <=> Cardinality(SlotsOf(f, s)) > 0
  BY KindsOf, CountsFinite
<1>11. /\ Cardinality(Held(f)) \in Nat /\ Cardinality(Kinds(f)) \in Nat
       /\ Dups(f) = Cardinality(Held(f)) - Cardinality(Kinds(f))
       /\ Dups(g) = Cardinality(Held(g)) - Cardinality(Kinds(g))
  BY CountTypes
<1>12. Dups(g) = IF Cardinality(SlotsOf(f, s)) > 0 THEN Dups(f) + 1 ELSE Dups(f)
  BY <1>8, <1>9, <1>10, <1>11
<1> QED
  BY <1>6, <1>7, <1>12

\* Taking an entry of s: one duplicate less unless it was the only one.
LEMMA TakeCounts ==
  ASSUME NEW f \in Ring, NEW i \in Slots, NEW s \in Subs, f[i] = s,
         NEW g, Put(g, f, i, Empty)
  PROVE  /\ Cardinality(SlotsOf(f, s)) \in Nat \ {0}
         /\ Cardinality(SlotsOf(g, s)) = Cardinality(SlotsOf(f, s)) - 1
         /\ \A x \in (Subs \cup {Canceled}) \ {s} : SlotsOf(g, x) = SlotsOf(f, x)
         /\ Dups(g) = IF Cardinality(SlotsOf(f, s)) = 1 THEN Dups(f) ELSE Dups(f) - 1
         /\ Dups(g) >= 0
<1>1. /\ s # Empty /\ s # Canceled /\ Empty # Canceled /\ Empty \notin Subs
  BY NamesAssumption DEF Empty, Canceled
<1>2. g \in Ring /\ \A j \in Slots : g[j] = IF j = i THEN Empty ELSE f[j]
  BY DEF Ring, Put
<1>3. SlotsOf(g, s) = SlotsOf(f, s) \ {i} /\ i \in SlotsOf(f, s)
  BY <1>1, <1>2 DEF SlotsOf
<1>4. Held(g) = Held(f) \ {i} /\ i \in Held(f)
  BY <1>1, <1>2 DEF Held
<1>5. \A x \in (Subs \cup {Canceled}) \ {s} : SlotsOf(g, x) = SlotsOf(f, x)
  BY <1>1, <1>2 DEF SlotsOf
<1>6. /\ Cardinality(SlotsOf(f, s)) \in Nat \ {0}
      /\ Cardinality(SlotsOf(g, s)) = Cardinality(SlotsOf(f, s)) - 1
  <2>1. IsFiniteSet(SlotsOf(f, s)) /\ Cardinality(SlotsOf(f, s)) \in Nat
    BY CountsFinite
  <2>2. Cardinality(SlotsOf(f, s)) # 0
    BY <1>3, <2>1, FS_EmptySet
  <2>3. Cardinality(SlotsOf(g, s)) = Cardinality(SlotsOf(f, s)) - 1
    BY <1>3, <2>1, FS_RemoveElement
  <2> QED
    BY <2>1, <2>2, <2>3
<1>7. Cardinality(Held(g)) = Cardinality(Held(f)) - 1
  BY ZenonT(60), <1>4, CountsFinite, FS_RemoveElement
<1>8. s \in Kinds(f) /\ \A t \in Subs \ {s} : t \in Kinds(g) <=> t \in Kinds(f)
  <2>1. s \in Kinds(f)
    BY <1>3, KindsOf
  <2>2. ASSUME NEW t \in Subs \ {s} PROVE t \in Kinds(g) <=> t \in Kinds(f)
    <3>1. SlotsOf(g, t) = SlotsOf(f, t)
      BY <1>5
    <3> QED
      BY <3>1, KindsOf
  <2> QED
    BY <2>1, <2>2
<1>9. Kinds(f) \subseteq Subs /\ Kinds(g) \subseteq Subs
  BY DEF Kinds, Held
<1>10. s \in Kinds(g) <=> Cardinality(SlotsOf(f, s)) # 1
  BY <1>6, KindsOf
<1>13. /\ Cardinality(Held(f)) \in Nat /\ Cardinality(Kinds(f)) \in Nat
       /\ Dups(f) = Cardinality(Held(f)) - Cardinality(Kinds(f))
       /\ Dups(g) = Cardinality(Held(g)) - Cardinality(Kinds(g)) /\ Dups(g) \in Nat
  BY CountTypes
<1>11. CASE Cardinality(SlotsOf(f, s)) = 1
  <2>1. Kinds(g) = Kinds(f) \ {s}
    BY <1>8, <1>9, <1>10, <1>11
  <2>2. Cardinality(Kinds(g)) = Cardinality(Kinds(f)) - 1
    BY ZenonT(60), <1>8, <2>1, CountsFinite, FS_RemoveElement
  <2> QED
    <3>1. Dups(g) = Dups(f) /\ Dups(g) >= 0
      BY <1>7, <1>13, <2>2
    <3> QED
      BY <1>5, <1>6, <1>11, <3>1
<1>12. CASE Cardinality(SlotsOf(f, s)) # 1
  <2>1. Kinds(g) = Kinds(f)
    <3>1. s \in Kinds(g)
      BY <1>10, <1>12
    <3>2. \A t \in Subs : t \in Kinds(g) <=> t \in Kinds(f)
      BY <1>8, <3>1
    <3> QED
      BY <1>9, <3>2
  <2> QED
    <3>1. Dups(g) = Dups(f) - 1 /\ Dups(g) >= 0
      BY <1>7, <1>13, <2>1
    <3> QED
      BY <1>5, <1>6, <1>12, <3>1
<1> QED
  BY <1>11, <1>12

\* Taking a placeholder.
LEMMA SkipCounts ==
  ASSUME NEW f \in Ring, NEW i \in Slots, f[i] = Canceled, NEW g, Put(g, f, i, Empty)
  PROVE  /\ Cardinality(SlotsOf(f, Canceled)) \in Nat \ {0}
         /\ Cardinality(SlotsOf(g, Canceled)) = Cardinality(SlotsOf(f, Canceled)) - 1
         /\ \A x \in Subs : SlotsOf(g, x) = SlotsOf(f, x)
         /\ Dups(g) = Dups(f)
<1>1. Empty # Canceled /\ Empty \notin Subs /\ Canceled \notin Subs
  BY NamesAssumption DEF Empty, Canceled
<1>2. g \in Ring /\ \A j \in Slots : g[j] = IF j = i THEN Empty ELSE f[j]
  BY DEF Ring, Put
<1>3. SlotsOf(g, Canceled) = SlotsOf(f, Canceled) \ {i} /\ i \in SlotsOf(f, Canceled)
  BY <1>1, <1>2 DEF SlotsOf
<1>4. Held(g) = Held(f) /\ \A x \in Subs : SlotsOf(g, x) = SlotsOf(f, x)
  BY <1>1, <1>2 DEF Held, SlotsOf
<1>5. Kinds(g) = Kinds(f)
  BY <1>1, <1>2, <1>4 DEF Kinds, Held
<1>6. /\ Cardinality(SlotsOf(f, Canceled)) \in Nat \ {0}
      /\ Cardinality(SlotsOf(g, Canceled)) = Cardinality(SlotsOf(f, Canceled)) - 1
  BY ZenonT(60), <1>3, CountsFinite, FS_RemoveElement, FS_EmptySet
<1> QED
  BY <1>4, <1>5, <1>6 DEF Dups

\* The purge of all entries of s.
LEMMA PurgeCounts ==
  ASSUME NEW f \in Ring, NEW s \in Subs,
         NEW g, g = [i \in Slots |-> IF i \in SlotsOf(f, s) THEN Canceled ELSE f[i]],
         NEW k, k = Cardinality(SlotsOf(f, s))
  PROVE  /\ k \in Nat /\ SlotsOf(g, s) = {} /\ Cardinality(SlotsOf(g, s)) = 0
         /\ Cardinality(SlotsOf(g, Canceled)) = Cardinality(SlotsOf(f, Canceled)) + k
         /\ \A x \in Subs \ {s} : SlotsOf(g, x) = SlotsOf(f, x)
         /\ Dups(g) = IF k = 0 THEN Dups(f) ELSE Dups(f) - (k - 1)
         /\ Dups(g) >= 0
<1>1. s # Canceled /\ Canceled \notin Subs
  BY NamesAssumption DEF Empty, Canceled
<1>2. \A j \in Slots : g[j] = IF f[j] = s THEN Canceled ELSE f[j]
  BY DEF SlotsOf
<1>3. SlotsOf(g, s) = {} /\ \A x \in Subs \ {s} : SlotsOf(g, x) = SlotsOf(f, x)
  BY <1>1, <1>2 DEF SlotsOf
<1>4. SlotsOf(g, Canceled) = SlotsOf(f, Canceled) \cup SlotsOf(f, s)
  BY <1>1, <1>2 DEF SlotsOf
<1>5. SlotsOf(f, Canceled) \cap SlotsOf(f, s) = {}
  BY <1>1 DEF SlotsOf
<1>6. Cardinality(SlotsOf(g, Canceled)) = Cardinality(SlotsOf(f, Canceled)) + k
  BY <1>4, <1>5, CountsFinite, DisjointUnion
<1>7. Held(f) = Held(g) \cup SlotsOf(f, s) /\ Held(g) \cap SlotsOf(f, s) = {}
  BY <1>1, <1>2 DEF Held, SlotsOf
<1>8. Cardinality(Held(f)) = Cardinality(Held(g)) + k
  BY <1>7, CountsFinite, DisjointUnion
<1>9. Kinds(f) \subseteq Subs /\ Kinds(g) \subseteq Subs
  BY DEF Kinds, Held
<1>10. s \notin Kinds(g) /\ \A t \in Subs \ {s} : t \in Kinds(g) <=> t \in Kinds(f)
  BY <1>3, KindsOf
<1>11. Kinds(g) = Kinds(f) \ {s}
  BY <1>9, <1>10
<1>12. Cardinality(Kinds(g)) = IF s \in Kinds(f) THEN Cardinality(Kinds(f)) - 1 ELSE Cardinality(Kinds(f))
  BY <1>11, CountsFinite, FS_RemoveElement
<1>13. k \in Nat /\ (s \in Kinds(f) <=> k # 0)
  BY CountsFinite, KindsOf
<1>14. /\ Cardinality(Held(f)) \in Nat /\ Cardinality(Kinds(f)) \in Nat
       /\ Dups(f) = Cardinality(Held(f)) - Cardinality(Kinds(f))
       /\ Dups(g) = Cardinality(Held(g)) - Cardinality(Kinds(g)) /\ Dups(g) \in Nat
       /\ Cardinality({}) = 0
  BY CountTypes, FS_EmptySet
<1>15. Dups(g) = (IF k = 0 THEN Dups(f) ELSE Dups(f) - (k - 1)) /\ Dups(g) >= 0
  <2>1. CASE k = 0
    <3>1. Cardinality(Kinds(g)) = Cardinality(Kinds(f))
      BY <1>12, <1>13, <2>1
    <3>2. Cardinality(Held(g)) \in Nat
      BY CountTypes
    <3> QED
      BY <1>8, <1>14, <2>1, <3>1, <3>2
  <2>2. CASE k # 0
    <3>1. Cardinality(Kinds(g)) = Cardinality(Kinds(f)) - 1
      BY <1>12, <1>13, <2>2
    <3>2. Cardinality(Held(g)) \in Nat
      BY CountTypes
    <3> QED
      BY <1>8, <1>13, <1>14, <2>2, <3>1, <3>2
  <2> QED
    BY <2>1, <2>2
<1> QED
  BY <1>3, <1>6, <1>13, <1>14, <1>15

\* the subscriptions that hold a quota of queue q
Holders(q) == {s \in Subs : sub[s].st # "free" /\ sub[s].que = q}

PendAgree  == \A s \in Subs : sub[s].npend = Cardinality(SlotsOf(evque[sub[s].que], s))
RingAgree  == \A q \in Queues : /\ nCanceled[q] = Cardinality(SlotsOf(evque[q], Canceled))
                                /\ nDuplicates[q] = Dups(evque[q])
QuotaAgree == \A q \in Queues : quota[q] = EVENTENTRIES * Cardinality(Holders(q))

\* the parts of CountsAgree
Counts == assertFailed # "counter" /\ PendAgree /\ RingAgree /\ QuotaAgree

\* CountsAgree says the same in terms of the rings.
LEMMA CountsSame == Counts => CountsAgree
<1> SUFFICES ASSUME Counts PROVE CountsAgree
  OBVIOUS
<1>1. \A s \in Subs : Entries(s) = SlotsOf(evque[sub[s].que], s)
  BY DEF Entries, SlotsOf
<1>2. \A s \in Subs : sub[s].npend = Cardinality(Entries(s))
  BY <1>1 DEF Counts, PendAgree
<1>3. ASSUME NEW q \in Queues
      PROVE  LET held == {i \in Slots : evque[q][i] \in Subs}
             IN /\ nCanceled[q] = Cardinality({i \in Slots : evque[q][i] = Canceled})
                /\ nDuplicates[q] = Cardinality(held) - Cardinality({evque[q][i] : i \in held})
                /\ quota[q] = EVENTENTRIES *
                       Cardinality({s \in Subs : sub[s].st # "free" /\ sub[s].que = q})
  BY DEF Counts, RingAgree, QuotaAgree, SlotsOf, Dups, Held, Kinds, Holders
<1> QED
  BY <1>2, <1>3 DEF Counts, CountsAgree

\* Steps that leave the rings and their counters alone.
LEMMA PendFrame ==
  ASSUME PendAgree, UNCHANGED evque,
         \A s \in Subs : sub'[s].npend = sub[s].npend /\ sub'[s].que = sub[s].que
  PROVE  PendAgree'
BY DEF PendAgree

\* The same for the counters of a queue...
LEMMA RingAgreeFrame ==
  ASSUME RingAgree, UNCHANGED <<evque, nCanceled, nDuplicates>> PROVE RingAgree'
BY DEF RingAgree

\* ... and its quota.
LEMMA QuotaFrame ==
  ASSUME QuotaAgree, UNCHANGED quota,
         \A s \in Subs : sub'[s].que = sub[s].que /\ (sub'[s].st = "free" <=> sub[s].st = "free")
  PROVE  QuotaAgree'
<1>1. \A q \in Queues : Holders(q)' = Holders(q)
  BY DEF Holders
<1> QED
  BY <1>1 DEF QuotaAgree

\* A subscription without entries, or freed, has none pending.
LEMMA NoEntries ==
  ASSUME TypeOK, EntriesLive, NEW s \in Subs, sub[s].st = "free" \/ ~sub[s].user_sub
  PROVE  \A q \in Queues : SlotsOf(evque[q], s) = {}
BY DEF EntriesLive, SlotsOf

\* The purge takes all entries of its queue.
LEMMA PurgedIsAll ==
  ASSUME TypeOK, RingShape, NEW s \in Subs, NEW q \in Queues
  PROVE  Purged(q, s) = SlotsOf(evque[q], s)
<1>1. ASSUME NEW i \in Slots, evque[q][i] = s PROVE i \in Purged(q, s)
  <2>1. Contiguous(evque[q], getix[q], putix[q]) /\ getix[q] \in Slots /\ putix[q] \in Slots
    BY DEF RingShape, TypeOK, QueType
  <2>2. evque[q][i] # Empty
    BY <1>1, NamesAssumption DEF Empty
  <2> QED
    BY <1>1, <2>1, <2>2, Reached DEF Purged
<1> QED
  BY <1>1 DEF Purged, SlotsOf

\* What the purge does to the counters: the asserts in event_remove hold.
LEMMA Purge_Counts ==
  ASSUME TypeOK, RingShape, EntriesLive, Counts, NEW s \in Subs, NEW p, p = sub[s].que,
         PurgeQueue(p, s)
  PROVE  /\ assertFailed' = "none" /\ RingAgree'
         /\ \A q \in Queues : SlotsOf(evque'[q], s) = {}
         /\ \A q \in Queues, t \in Subs \ {s} : SlotsOf(evque'[q], t) = SlotsOf(evque[q], t)
<1>1. p \in Queues /\ evque \in [Queues -> Ring]
  BY SubFields DEF TypeOK, QueType, Ring
<1>2. PICK f \in Ring : f = evque[p]
  BY <1>1
<1>3. PICK k : k = Cardinality(SlotsOf(f, s))
  OBVIOUS
<1>4. PICK g : g = [i \in Slots |-> IF i \in SlotsOf(f, s) THEN Canceled ELSE f[i]]
  OBVIOUS
<1>5. Purged(p, s) = SlotsOf(f, s) /\ sub[s].npend = k
  BY <1>1, <1>2, <1>3, PurgedIsAll DEF Counts, PendAgree
<1>6. /\ k \in Nat /\ SlotsOf(g, s) = {}
      /\ Cardinality(SlotsOf(g, Canceled)) = Cardinality(SlotsOf(f, Canceled)) + k
      /\ \A x \in Subs \ {s} : SlotsOf(g, x) = SlotsOf(f, x)
      /\ Dups(g) = IF k = 0 THEN Dups(f) ELSE Dups(f) - (k - 1)
      /\ Dups(g) >= 0
  BY <1>3, <1>4, PurgeCounts
<1>7. evque' = [evque EXCEPT ![p] = g]
  BY <1>2, <1>4, <1>5 DEF PurgeQueue
<1>8. /\ nCanceled' = [nCanceled EXCEPT ![p] = nCanceled[p] + k]
      /\ nDuplicates' = [nDuplicates EXCEPT ![p] =
                           nDuplicates[p] - IF k < k THEN k ELSE IF k = 0 THEN 0 ELSE k - 1]
      /\ assertFailed' = Checked(k = k /\ nDuplicates[p] >= k - 1)
  BY <1>3, <1>5 DEF PurgeQueue
<1>9. Dups(f) \in Nat /\ nDuplicates[p] = Dups(f) /\ nCanceled[p] = Cardinality(SlotsOf(f, Canceled))
  BY <1>1, <1>2, CountTypes DEF Counts, RingAgree
<1>10. assertFailed' = "none"
  BY <1>6, <1>8, <1>9 DEF Checked
<1>11. nDuplicates'[p] = Dups(g) /\ nCanceled'[p] = Cardinality(SlotsOf(g, Canceled))
  BY <1>1, <1>6, <1>8, <1>9 DEF TypeOK, QueType
<1>12. \A q \in Queues : q # p => /\ evque'[q] = evque[q] /\ nDuplicates'[q] = nDuplicates[q]
                                  /\ nCanceled'[q] = nCanceled[q]
  BY <1>1, <1>7, <1>8 DEF TypeOK, QueType
<1>13. evque'[p] = g
  BY <1>1, <1>7
<1>14. RingAgree'
  BY <1>11, <1>12, <1>13 DEF Counts, RingAgree
<1>15. \A q \in Queues : SlotsOf(evque'[q], s) = {}
  <2>1. \A q \in Queues : q # p => SlotsOf(evque[q], s) = {}
    BY DEF EntriesLive, SlotsOf
  <2> QED
    BY <1>6, <1>12, <1>13, <2>1
<1>16. \A q \in Queues, t \in Subs \ {s} : SlotsOf(evque'[q], t) = SlotsOf(evque[q], t)
  BY <1>2, <1>6, <1>12, <1>13
<1> QED
  BY <1>10, <1>14, <1>15, <1>16

\* One holder more, or less, is one quota more, or less.
LEMMA QuotaStep ==
  ASSUME NEW n \in Nat
  PROVE  /\ EVENTENTRIES * (n + 1) = EVENTENTRIES * n + EVENTENTRIES
         /\ EVENTENTRIES * n \in Int
BY ConstAssumption

\* Giving up a subscription gives its quota back.
LEMMA Release_Quota ==
  ASSUME IsFiniteSet(Subs), TypeOK, QuotaAgree, NEW s \in Subs, sub[s].st # "free", Release(s)
  PROVE  QuotaAgree'
<1>1. PICK p : p = sub[s].que
  OBVIOUS
<1>2. p \in Queues /\ FreeSub.st = "free"
  BY <1>1, SubFields DEF TypeOK, FreeSub
<1>3. \A t \in Subs : sub'[t] = IF t = s THEN FreeSub ELSE sub[t]
  BY DEF Release, TypeOK
<1>4. Holders(p)' = Holders(p) \ {s} /\ s \in Holders(p)
  BY <1>1, <1>2, <1>3 DEF Holders
<1>5. \A q \in Queues : q # p => Holders(q)' = Holders(q)
  BY <1>1, <1>2, <1>3 DEF Holders
<1>6. IsFiniteSet(Holders(p))
  <2>1. Holders(p) \in SUBSET Subs
    BY DEF Holders
  <2> QED
    BY <2>1, FS_Subset
<1>7. PICK n \in Nat : Cardinality(Holders(p)') = n /\ Cardinality(Holders(p)) = n + 1
  <2>1. Cardinality(Holders(p)') = Cardinality(Holders(p)) - 1 /\ IsFiniteSet(Holders(p)')
    BY <1>4, <1>6, FS_RemoveElement
  <2>2. Cardinality(Holders(p)) \in Nat /\ Cardinality(Holders(p)') \in Nat
    BY <1>6, <2>1, FS_CardinalityType
  <2> QED
    BY <2>1, <2>2
<1>8. quota' = [quota EXCEPT ![p] = quota[p] - EVENTENTRIES]
  BY <1>1 DEF Release
<1>9. quota'[p] = EVENTENTRIES * n /\ \A q \in Queues : q # p => quota'[q] = quota[q]
  <2>1. quota[p] = EVENTENTRIES * n + EVENTENTRIES
    BY <1>2, <1>7, QuotaStep DEF QuotaAgree
  <2>2. EVENTENTRIES * n \in Int /\ EVENTENTRIES \in Int
    BY QuotaStep, ConstAssumption
  <2> QED
    BY <1>2, <1>8, <2>1, <2>2 DEF TypeOK, QueType
<1> QED
  BY <1>5, <1>7, <1>9 DEF QuotaAgree

\* A purged subscription is freed.
LEMMA Release_Counts ==
  ASSUME IsFiniteSet(Subs), TypeOK, Counts, NEW s \in Subs, sub[s].st # "free", Release(s),
         assertFailed' # "counter", RingAgree',
         \A q \in Queues : SlotsOf(evque'[q], s) = {},
         \A q \in Queues, t \in Subs \ {s} : SlotsOf(evque'[q], t) = SlotsOf(evque[q], t)
  PROVE  Counts'
<1>1. \A t \in Subs : sub'[t] = IF t = s THEN FreeSub ELSE sub[t]
  BY DEF Release, TypeOK
<1>2. FreeSub.npend = 0 /\ FreeSub.que \in Queues /\ \A t \in Subs : sub[t].que \in Queues
  BY SizeFact, SubFields DEF FreeSub, TypeOK
<1>3. PendAgree'
  BY <1>1, <1>2, FS_EmptySet, SMTT(30) DEF PendAgree, Counts
<1> QED
  BY <1>3, Release_Quota DEF Counts

\* db_cancel_event's purge.
LEMMA CancelPurge_Counts ==
  ASSUME IsFiniteSet(Subs), TypeOK, RingShape, Discipline, Counts, NEW c \in Clients,
         CancelPurge(c)
  PROVE  Counts'
<1>1. PICK s : s = csub[c]
  OBVIOUS
<1>2. s \in Subs /\ sub[s].st = "cancel" /\ PurgeQueue(sub[s].que, s) /\ EntriesLive
  BY <1>1 DEF CancelPurge, TypeOK, ClientType, Discipline, CancelsOwn
<1>3. /\ assertFailed' = "none" /\ RingAgree'
      /\ \A q \in Queues : SlotsOf(evque'[q], s) = {}
      /\ \A q \in Queues, t \in Subs \ {s} : SlotsOf(evque'[q], t) = SlotsOf(evque[q], t)
  BY <1>2, Purge_Counts
<1>4. CASE Release(s)
  BY <1>2, <1>3, <1>4, Release_Counts
<1>5. CASE sub' = PurgedSub(s) /\ UNCHANGED quota
  <2>1. /\ \A t \in Subs : t # s => sub'[t] = sub[t]
        /\ sub'[s].npend = 0 /\ sub'[s].que = sub[s].que /\ sub'[s].st = sub[s].st
    BY <1>2, <1>5 DEF PurgedSub, TypeOK, SubRec
  <2>2. \A t \in Subs : sub[t].que \in Queues
    BY SubFields DEF TypeOK
  <2>3. PendAgree'
    BY <1>3, <2>1, <2>2, FS_EmptySet DEF PendAgree, Counts
  <2>4. QuotaAgree'
    BY <1>5, <2>1, QuotaFrame DEF Counts
  <2> QED
    BY <1>3, <2>3, <2>4 DEF Counts
<1> QED
  BY <1>1, <1>4, <1>5 DEF CancelPurge

\* The end of a cancel that had to wait: the purge left no entry.
LEMMA CancelRecheck_Counts ==
  ASSUME IsFiniteSet(Subs), TypeOK, Discipline, Counts, NEW c \in Clients, CancelRecheck(c)
  PROVE  Counts'
<1>1. PICK s : s = csub[c]
  OBVIOUS
<1>2. s \in Subs /\ sub[s].st = "cancel" /\ ~sub[s].user_sub /\ EntriesLive
  BY <1>1 DEF CancelRecheck, TypeOK, ClientType, Discipline, CancelsOwn
<1>3. UNCHANGED <<evque, nCanceled, nDuplicates, assertFailed>>
  BY DEF CancelRecheck
<1>4. RingAgree'
  BY <1>3, RingAgreeFrame DEF Counts
<1>5. CASE Release(s)
  BY <1>2, <1>3, <1>4, <1>5, NoEntries, Release_Counts DEF Counts
<1>6. CASE UNCHANGED <<sub, quota>>
  BY <1>3, <1>4, <1>6, PendFrame, QuotaFrame DEF Counts
<1> QED
  BY <1>1, <1>5, <1>6 DEF CancelRecheck

\* A callback cancels its own subscription.
LEMMA CancelInCallback_Counts ==
  ASSUME IsFiniteSet(Subs), TypeOK, RingShape, Discipline, Counts, NEW s \in Subs,
         CancelInCallback(s)
  PROVE  Counts'
<1>1. sub[s].st = "live" /\ PurgeQueue(sub[s].que, s) /\ Release(s) /\ EntriesLive
  BY DEF CancelInCallback, Discipline
<1>2. /\ assertFailed' = "none" /\ RingAgree'
      /\ \A q \in Queues : SlotsOf(evque'[q], s) = {}
      /\ \A q \in Queues, t \in Subs \ {s} : SlotsOf(evque'[q], t) = SlotsOf(evque[q], t)
  BY <1>1, Purge_Counts
<1> QED
  BY <1>1, <1>2, Release_Counts

\* db_add_event takes a quota for a subscription that has no entries.
LEMMA Add_Counts ==
  ASSUME IsFiniteSet(Subs), TypeOK, Discipline, Counts, NEW c \in Clients, NEW s \in Subs,
         NEW r \in Recs, db_add_event(c, s, r)
  PROVE  Counts'
<1>1. /\ UNCHANGED <<evque, nCanceled, nDuplicates, assertFailed>> /\ sub[s].st = "free"
  BY DEF db_add_event, taskRest
<1>2. PICK p \in Queues : /\ sub' = [sub EXCEPT ![s] = NewSub(c, r, p)]
                          /\ quota' = [quota EXCEPT ![p] = @ + EVENTENTRIES]
  BY DEF db_add_event
<1>3. /\ \A t \in Subs : t # s => sub'[t] = sub[t]
      /\ sub'[s].st = "live" /\ sub'[s].que = p /\ sub'[s].npend = 0
  BY <1>2 DEF NewSub, FreeSub, TypeOK
<1>4. PendAgree'
  BY <1>1, <1>3, NoEntries, FS_EmptySet DEF PendAgree, Counts, Discipline
<1>5. Holders(p)' = Holders(p) \cup {s} /\ s \notin Holders(p)
  BY <1>1, <1>3 DEF Holders
<1>6. \A q \in Queues : q # p => Holders(q)' = Holders(q)
  BY <1>1, <1>3 DEF Holders
<1>7. IsFiniteSet(Holders(p))
  <2>1. Holders(p) \in SUBSET Subs
    BY DEF Holders
  <2> QED
    BY <2>1, FS_Subset
<1>8. PICK n \in Nat : Cardinality(Holders(p)') = n + 1 /\ Cardinality(Holders(p)) = n
  BY <1>5, <1>7, FS_AddElement, FS_CardinalityType
<1>9. quota'[p] = EVENTENTRIES * (n + 1) /\ \A q \in Queues : q # p => quota'[q] = quota[q]
  <2>1. quota[p] = EVENTENTRIES * n
    BY <1>8 DEF QuotaAgree, Counts
  <2> QED
    BY <1>2, <2>1, QuotaStep DEF TypeOK, QueType
<1>10. QuotaAgree'
  BY <1>6, <1>8, <1>9 DEF QuotaAgree, Counts
<1> QED
  BY <1>1, <1>4, <1>10, RingAgreeFrame DEF Counts

\* A fresh event_user: no subscription of the old one is left.
LEMMA init_Counts ==
  ASSUME TypeOK, Discipline, Life, Counts, db_init_events PROVE Counts'
<1>1. /\ evque' = [q \in Queues |-> EmptyRing] /\ quota' = [q \in Queues |-> 0]
      /\ nDuplicates' = [q \in Queues |-> 0] /\ nCanceled' = [q \in Queues |-> 0]
      /\ UNCHANGED <<sub, assertFailed>>
  BY DEF db_init_events
<1>2. \A s \in Subs : sub[s].st = "free" /\ sub[s].que \in Queues /\ sub[s].npend = 0
  <2>1. \A s \in Subs : sub[s].st = "free" /\ sub[s].que \in Queues
    BY SubFields DEF db_init_events, Life, UserLife, SubLife, TypeOK
  <2> QED
    BY <2>1, NoEntries, FS_EmptySet DEF Counts, PendAgree, Discipline
<1>3. \A x \in Subs \cup {Canceled} : SlotsOf(EmptyRing, x) = {}
  BY NamesAssumption DEF SlotsOf, EmptyRing, Empty, Canceled
<1>4. Dups(EmptyRing) = 0
  <2>1. Held(EmptyRing) = {} /\ Kinds(EmptyRing) = {}
    BY NamesAssumption DEF Held, Kinds, EmptyRing, Empty
  <2> QED
    BY <2>1, FS_EmptySet DEF Dups
<1>5. PendAgree'
  BY <1>1, <1>2, <1>3, FS_EmptySet DEF PendAgree
<1>6. RingAgree'
  BY <1>1, <1>3, <1>4, FS_EmptySet DEF RingAgree
<1>7. QuotaAgree'
  <2>1. \A q \in Queues : Holders(q)' = {}
    BY <1>1, <1>2 DEF Holders
  <2> QED
    BY <1>1, <2>1, FS_EmptySet, ConstAssumption DEF QuotaAgree
<1> QED
  BY <1>1, <1>5, <1>6, <1>7 DEF Counts

\* The counters of one ring change, and the pending count of one subscription on it.
LEMMA OneRing ==
  ASSUME TypeOK, Counts, EntriesLive, NEW p \in Queues, NEW g,
         evque'[p] = g, \A q \in Queues : q # p => evque'[q] = evque[q],
         \A q \in Queues : q # p => nCanceled'[q] = nCanceled[q] /\ nDuplicates'[q] = nDuplicates[q],
         nCanceled'[p] = Cardinality(SlotsOf(g, Canceled)), nDuplicates'[p] = Dups(g),
         \A t \in Subs : sub'[t].que = sub[t].que /\ sub'[t].st = sub[t].st,
         \A t \in Subs : \/ SlotsOf(g, t) = SlotsOf(evque[p], t) /\ sub'[t].npend = sub[t].npend
                         \/ sub[t].que = p /\ sub'[t].npend = Cardinality(SlotsOf(g, t)),
         UNCHANGED quota, assertFailed' # "counter"
  PROVE  Counts'
<1>2. RingAgree'
  BY DEF RingAgree, Counts
<1>3. \A t \in Subs : sub[t].que \in Queues
  BY SubFields DEF TypeOK
<1>4. PendAgree'
  BY <1>3 DEF PendAgree, Counts
<1>5. QuotaAgree'
  BY QuotaFrame DEF Counts
<1> QED
  BY <1>2, <1>4, <1>5 DEF Counts

\* A poster queues a log.
LEMMA Log_Counts ==
  ASSUME TypeOK, Discipline, Counts, NEW r \in Recs, NEW s \in Subs, db_queue_event_log(r, s)
  PROVE  Counts'
<1>1. UNCHANGED <<quota, nCanceled>>
  BY DEF db_queue_event_log
<1>2. CASE UNCHANGED <<evque, nDuplicates, sub>> /\ assertFailed' # "counter"
  BY <1>1, <1>2, PendFrame, RingAgreeFrame, QuotaFrame DEF Counts
<1>3. CASE QueueAdd(s) /\ evque[sub[s].que][putix[sub[s].que]] = Empty
  <2>1. PICK p, f, i : p = sub[s].que /\ f = evque[p] /\ i = putix[p]
    OBVIOUS
  <2>2. PICK g : Put(g, f, i, s)
    BY DEF Put
  <2>3. p \in Queues /\ f \in Ring /\ i \in Slots /\ f[i] = Empty
    BY <1>3, <2>1, SubFields DEF TypeOK, QueType, Ring
  <2>4. /\ Cardinality(SlotsOf(g, s)) = Cardinality(SlotsOf(f, s)) + 1
        /\ \A x \in (Subs \cup {Canceled}) \ {s} : SlotsOf(g, x) = SlotsOf(f, x)
        /\ Dups(g) = IF Cardinality(SlotsOf(f, s)) > 0 THEN Dups(f) + 1 ELSE Dups(f)
    BY <2>2, <2>3, AddCounts
  <2>5. /\ evque' = [evque EXCEPT ![p] = g]
        /\ nDuplicates' = [nDuplicates EXCEPT ![p] =
                             IF sub[s].npend > 0 THEN nDuplicates[p] + 1 ELSE nDuplicates[p]]
        /\ sub' = [sub EXCEPT ![s].npend = sub[s].npend + 1, ![s].pLastLog = i]
        /\ assertFailed' = assertFailed
    BY <1>3, <2>1, <2>2 DEF QueueAdd, Put
  <2>6. /\ sub[s].npend = Cardinality(SlotsOf(f, s)) /\ nDuplicates[p] = Dups(f)
        /\ nCanceled[p] = Cardinality(SlotsOf(f, Canceled)) /\ assertFailed # "counter"
    BY <2>1, <2>3 DEF Counts, PendAgree, RingAgree
  <2>7. /\ nDuplicates'[p] = Dups(g)
        /\ \A q \in Queues : q # p => nDuplicates'[q] = nDuplicates[q]
    BY <2>3, <2>4, <2>5, <2>6 DEF TypeOK, QueType
  <2>8. nCanceled'[p] = Cardinality(SlotsOf(g, Canceled))
    <3>1. Canceled \in (Subs \cup {Canceled}) \ {s}
      BY NamesAssumption DEF Canceled
    <3> QED
      BY <1>1, <2>4, <2>6, <3>1
  <2>9. /\ sub'[s].npend = Cardinality(SlotsOf(g, s))
        /\ \A t \in Subs : t # s => sub'[t] = sub[t]
        /\ \A t \in Subs : sub'[t].que = sub[t].que /\ sub'[t].st = sub[t].st
    BY <2>4, <2>5, <2>6 DEF TypeOK, SubRec
  <2>10. evque'[p] = g /\ \A q \in Queues : q # p => evque'[q] = evque[q]
    BY <2>3, <2>5 DEF TypeOK, QueType
  <2>11. \A t \in Subs : \/ SlotsOf(g, t) = SlotsOf(evque[p], t) /\ sub'[t].npend = sub[t].npend
                         \/ sub[t].que = p /\ sub'[t].npend = Cardinality(SlotsOf(g, t))
    BY <2>1, <2>4, <2>9
  <2>12. assertFailed' # "counter" /\ EntriesLive
    BY <2>5, <2>6 DEF Discipline
  <2> QED
    BY <1>1, <2>3, <2>7, <2>8, <2>9, <2>10, <2>11, <2>12, OneRing
<1> QED
  BY <1>2, <1>3 DEF db_queue_event_log, QueueDuplicate, QueueReplace, QueueAdd, Counts

\* The task takes a placeholder: the assert on nCanceled holds.
LEMMA Skip_Counts ==
  ASSUME TypeOK, Discipline, Counts, SkipCanceled PROVE Counts'
<1>1. PICK p, f, i : p = tq /\ f = evque[p] /\ i = getix[p]
  OBVIOUS
<1>2. PICK g : Put(g, f, i, Empty)
  BY DEF Put
<1>3. p \in Queues /\ f \in Ring /\ i \in Slots /\ f[i] = Canceled
  BY <1>1 DEF SkipCanceled, HeadEntry, TypeOK, QueType, TaskType, Ring
<1>4. /\ Cardinality(SlotsOf(f, Canceled)) \in Nat \ {0}
      /\ Cardinality(SlotsOf(g, Canceled)) = Cardinality(SlotsOf(f, Canceled)) - 1
      /\ \A x \in Subs : SlotsOf(g, x) = SlotsOf(f, x)
      /\ Dups(g) = Dups(f)
  BY <1>2, <1>3, SkipCounts
<1>5. /\ evque' = [evque EXCEPT ![p] = g] /\ UNCHANGED <<quota, nDuplicates, sub>>
      /\ nCanceled' = [nCanceled EXCEPT ![p] = nCanceled[p] - 1]
      /\ assertFailed' = Checked(nCanceled[p] > 0)
  BY <1>1, <1>2 DEF SkipCanceled, TakeHead, Put
<1>6. nDuplicates[p] = Dups(f) /\ nCanceled[p] = Cardinality(SlotsOf(f, Canceled))
  BY <1>1, <1>3 DEF Counts, RingAgree
<1>7. assertFailed' # "counter"
  BY <1>4, <1>5, <1>6 DEF Checked
<1>8. /\ nCanceled'[p] = Cardinality(SlotsOf(g, Canceled)) /\ nDuplicates'[p] = Dups(g)
      /\ \A q \in Queues : q # p => nCanceled'[q] = nCanceled[q] /\ nDuplicates'[q] = nDuplicates[q]
  BY <1>3, <1>4, <1>5, <1>6 DEF TypeOK, QueType
<1>9. evque'[p] = g /\ \A q \in Queues : q # p => evque'[q] = evque[q]
  BY <1>3, <1>5 DEF TypeOK, QueType
<1>10. \A t \in Subs : SlotsOf(g, t) = SlotsOf(evque[p], t) /\ sub'[t] = sub[t]
  BY <1>1, <1>4, <1>5
<1>11. UNCHANGED quota /\ EntriesLive
  BY <1>5 DEF Discipline
<1> QED
  BY <1>3, <1>7, <1>8, <1>9, <1>10, <1>11, OneRing

\* The task takes an entry: event_remove's asserts hold.
LEMMA Begin_Counts ==
  ASSUME TypeOK, Discipline, Counts, BeginCallback PROVE Counts'
<1>1. PICK p, f, i : p = tq /\ f = evque[p] /\ i = getix[p]
  OBVIOUS
<1>2. PICK g, s : Put(g, f, i, Empty) /\ s = f[i]
  BY DEF Put
<1>3. p \in Queues /\ f \in Ring /\ i \in Slots /\ s \in Subs
  BY <1>1, <1>2 DEF BeginCallback, HeadEntry, TypeOK, QueType, TaskType, Ring
<1>4. sub[s].que = p
  BY <1>1, <1>2, <1>3 DEF Discipline, EntriesLive
<1>5. /\ Cardinality(SlotsOf(f, s)) \in Nat \ {0}
      /\ Cardinality(SlotsOf(g, s)) = Cardinality(SlotsOf(f, s)) - 1
      /\ \A x \in (Subs \cup {Canceled}) \ {s} : SlotsOf(g, x) = SlotsOf(f, x)
      /\ Dups(g) = IF Cardinality(SlotsOf(f, s)) = 1 THEN Dups(f) ELSE Dups(f) - 1
      /\ Dups(g) >= 0
  BY <1>2, <1>3, TakeCounts
<1>6. /\ evque' = [evque EXCEPT ![p] = g] /\ UNCHANGED <<quota, nCanceled>>
      /\ nDuplicates' = [nDuplicates EXCEPT ![p] =
                           IF sub[s].npend = 1 THEN nDuplicates[p] ELSE nDuplicates[p] - 1]
      /\ assertFailed' = Checked(\/ sub[s].npend = 1
                                 \/ sub[s].npend > 1 /\ nDuplicates[p] >= 1)
      /\ sub' = Removed(s) \/ sub' = [Removed(s) EXCEPT ![s].callBackInProgress = TRUE]
  BY <1>1, <1>2 DEF BeginCallback, TakeHead, HeadEntry, Put
<1>7. /\ sub[s].npend = Cardinality(SlotsOf(f, s)) /\ nDuplicates[p] = Dups(f)
      /\ nCanceled[p] = Cardinality(SlotsOf(f, Canceled)) /\ Dups(f) \in Nat
  BY <1>1, <1>3, <1>4, CountTypes DEF Counts, PendAgree, RingAgree
<1>8. assertFailed' # "counter"
  BY <1>5, <1>6, <1>7 DEF Checked
<1>9. /\ nDuplicates'[p] = Dups(g)
      /\ \A q \in Queues : q # p => nCanceled'[q] = nCanceled[q] /\ nDuplicates'[q] = nDuplicates[q]
  BY <1>3, <1>5, <1>6, <1>7 DEF TypeOK, QueType
<1>10. nCanceled'[p] = Cardinality(SlotsOf(g, Canceled))
  <2>1. Canceled \in (Subs \cup {Canceled}) \ {s}
    BY <1>3, NamesAssumption DEF Canceled
  <2> QED
    BY <1>5, <1>6, <1>7, <2>1
<1>11. /\ sub'[s].npend = Cardinality(SlotsOf(g, s))
       /\ \A t \in Subs : t # s => sub'[t] = sub[t]
       /\ \A t \in Subs : sub'[t].que = sub[t].que /\ sub'[t].st = sub[t].st
  BY <1>3, <1>5, <1>6, <1>7 DEF Removed, TypeOK, SubRec
<1>12. evque'[p] = g /\ \A q \in Queues : q # p => evque'[q] = evque[q]
  BY <1>3, <1>6 DEF TypeOK, QueType
<1>13. \A t \in Subs : \/ SlotsOf(g, t) = SlotsOf(evque[p], t) /\ sub'[t].npend = sub[t].npend
                       \/ sub[t].que = p /\ sub'[t].npend = Cardinality(SlotsOf(g, t))
  BY <1>1, <1>4, <1>5, <1>11
<1>14. UNCHANGED quota /\ EntriesLive
  BY <1>6 DEF Discipline
<1> QED
  BY <1>3, <1>8, <1>9, <1>10, <1>11, <1>12, <1>13, <1>14, OneRing

\* The other steps touch no counter.
LEMMA Others_Counts ==
  ASSUME TypeOK, Counts,
         UNCHANGED <<evque, nCanceled, nDuplicates, quota, assertFailed>>,
         \A t \in Subs : /\ sub'[t].que = sub[t].que /\ sub'[t].npend = sub[t].npend
                         /\ (sub'[t].st = "free" <=> sub[t].st = "free")
  PROVE  Counts'
BY PendFrame, RingAgreeFrame, QuotaFrame DEF Counts

\* The event task's steps.
LEMMA Task_Counts == ASSUME TypeOK, Discipline, Counts, TaskStep PROVE Counts'
<1>1. CASE SkipCanceled \/ BeginCallback
  BY <1>1, Skip_Counts, Begin_Counts
<1>2. CASE ~(SkipCanceled \/ BeginCallback)
  <2>1. UNCHANGED <<evque, nCanceled, nDuplicates, quota, assertFailed>>
    BY <1>2 DEF TaskStep, TaskWait, TaskWoken, TaskLabor, ReadEnter, UserSub, Return, ReadDone,
       TaskNext, TaskExit, queVars, taskRest
  <2>2. CASE UNCHANGED sub
    BY <2>1, <2>2, Others_Counts
  <2>3. CASE Return
    <3>1. \A t \in Subs : /\ sub'[t].que = sub[t].que /\ sub'[t].npend = sub[t].npend
                          /\ sub'[t].st = sub[t].st
      BY <2>3 DEF Return, TypeOK, SubRec
    <3> QED
      BY <2>1, <3>1, Others_Counts
  <2> QED
    BY <1>2, <2>2, <2>3 DEF TaskStep, TaskWait, TaskWoken, TaskLabor, ReadEnter, UserSub, ReadDone,
       TaskNext, TaskExit
<1> QED
  BY <1>1, <1>2

\* Every step keeps the counters right.
LEMMA CountsNext ==
  ASSUME IsFiniteSet(Subs), TypeOK, RingShape, Discipline, Life, Counts, [Next]_vars
  PROVE  Counts'
<1>1. CASE db_add_extra_labor_event \/ db_start_events \/ UNCHANGED vars
  BY <1>1, Others_Counts DEF db_add_extra_labor_event, db_start_events, callRest, taskRest, queVars,
     vars
<1>2. ASSUME NEW c \in Clients, Call(c) PROVE Counts'
  <2>1. ASSUME NEW s \in Subs, NEW r \in Recs, db_add_event(c, s, r) PROVE Counts'
    BY <2>1, Add_Counts
  <2>2. CASE \/ TurnOffExtraLabor(c) \/ db_flush_extra_labor_event(c) \/ db_post_extra_labor(c)
             \/ db_close_events(c) \/ \E on \in BOOLEAN : db_event_flow_ctrl_mode(c, on)
             \/ \E s \in Subs : db_post_single_event(c, s)
    BY <2>2, Others_Counts DEF TurnOffExtraLabor, db_flush_extra_labor_event, db_post_extra_labor,
       db_close_events, db_event_flow_ctrl_mode, db_post_single_event, callRest, queVars
  <2>3. ASSUME NEW s \in Subs,
               db_event_enable(c, s) \/ db_event_disable(c, s) \/ CancelDisable(c, s)
        PROVE  Counts'
    <3>1. UNCHANGED <<evque, nCanceled, nDuplicates, quota, assertFailed>>
      BY <2>3 DEF db_event_enable, db_event_disable, CancelDisable, queVars, taskRest
    <3>2. \A t \in Subs : /\ sub'[t].que = sub[t].que /\ sub'[t].npend = sub[t].npend
                          /\ (sub'[t].st = "free" <=> sub[t].st = "free")
      BY <2>3 DEF db_event_enable, db_event_disable, CancelDisable, Owns, TypeOK, SubRec
    <3> QED
      BY <3>1, <3>2, Others_Counts
  <2> QED
    BY <1>2, <2>1, <2>2, <2>3 DEF Call
<1>3. ASSUME NEW c \in Clients, ClientStep(c) PROVE Counts'
  <2>1. CASE ClientSignal(c) \/ CancelFlush(c) \/ CloseJoin(c)
    BY <2>1, Others_Counts DEF ClientSignal, CancelFlush, CloseJoin, callRest, queVars
  <2> QED
    BY <1>3, <2>1, CancelPurge_Counts, CancelRecheck_Counts DEF ClientStep
<1>4. ASSUME NEW r \in Recs, db_post_events(r) \/ PosterStep(r) PROVE Counts'
  <2>1. CASE db_post_events(r) \/ PostSignal(r)
    BY <2>1, Others_Counts DEF db_post_events, PostSignal, queVars
  <2> QED
    BY <1>4, <2>1, Log_Counts DEF PosterStep
<1> QED
  BY <1>1, <1>2, <1>3, <1>4, init_Counts, Task_Counts, CancelInCallback_Counts DEF Next

\* All counters are zero at first.
LEMMA CountsInit == Init => Counts
<1> SUFFICES ASSUME Init PROVE Counts
  OBVIOUS
<1>1. \A x \in Subs \cup {Canceled} : SlotsOf(EmptyRing, x) = {}
  BY NamesAssumption DEF SlotsOf, EmptyRing, Empty, Canceled
<1>2. Dups(EmptyRing) = 0
  <2>1. Held(EmptyRing) = {} /\ Kinds(EmptyRing) = {}
    BY NamesAssumption DEF Held, Kinds, EmptyRing, Empty
  <2> QED
    BY <2>1, FS_EmptySet DEF Dups
<1>3. \A s \in Subs : sub[s].st = "free" /\ sub[s].que = 1 /\ sub[s].npend = 0
  BY DEF Init, FreeSub
<1>4. PendAgree
  BY <1>1, <1>3, FS_EmptySet, SizeFact DEF Init, PendAgree
<1>5. RingAgree
  BY <1>1, <1>2, FS_EmptySet DEF Init, RingAgree
<1>6. QuotaAgree
  <2>1. \A q \in Queues : Holders(q) = {}
    BY <1>3 DEF Holders
  <2>2. EVENTENTRIES * 0 = 0
    BY ConstAssumption
  <2>3. quota = [q \in Queues |-> 0]
    BY DEF Init
  <2> QED
    BY <2>1, <2>2, <2>3, FS_EmptySet DEF QuotaAgree
<1> QED
  BY <1>4, <1>5, <1>6 DEF Init, Counts

\* With finitely many subscription blocks, and if callbacks cancel no subscription but
\* their own, npend, nCanceled, nDuplicates and quota always count what they are
\* documented to count, so none of the asserts on them in event_remove, event_read and
\* db_cancel_event can fail.
THEOREM CountersRight ==
  ASSUME "cancelOther" \notin Ops, IsFiniteSet(Subs)
  PROVE  Spec => []CountsAgree
<1>1. TypeOK /\ RingShape /\ Discipline /\ Life /\ Counts /\ [Next]_vars => Counts'
  BY CountsNext
<1>2. TypeOK /\ RingShape /\ Discipline /\ [Next]_vars => Discipline'
  BY DisciplineNext
<1> QED
  BY <1>1, <1>2, CountsInit, CountsSame, DisciplineInit, TypeCorrect, RingContiguous, LifeOfUser,
     PTL DEF Spec

-----------------------------------------------------------------------------
(* Updates *)

\* the last log of s is what was posted to it last, and no entry of s is after it
LastIsLatest(s) ==
  LET q == sub[s].que
      l == sub[s].pLastLog
  IN /\ l \in Slots /\ evque[q][l] = s /\ valque[q][l] \in {posted[s], RecLog}
     /\ \A i \in Slots : evque[q][i] = s => OnTheWay(getix[q], i, l)

\* the inductive strengthening of NoLostUpdate: a record never goes back behind what
\* was posted of it, and a freed subscription starts again from nothing
UpToDate(s) ==
  /\ sub[s].st = "free" => posted[s] = 0 /\ seen[s] = 0
  /\ sub[s].st = "live" =>
       /\ posted[s] <= val[sub[s].rec]
       /\ sub[s].npend > 0 => LastIsLatest(s)
       /\ ~(sub[s].npend > 0) => IF InHand(s) THEN tlog \in {posted[s], RecLog}
                                 ELSE seen[s] >= posted[s]

Fresh == \A s \in Subs : UpToDate(s)

\* a failed assert stops the process
Updates == assertFailed = "none" => Fresh

\* It implies what the run checks.
LEMMA UpdatesSuffice == ASSUME TypeOK, Updates PROVE NoLostUpdate
<1> SUFFICES ASSUME NEW s \in Subs, assertFailed = "none", sub[s].st = "live"
             PROVE  LET q == sub[s].que
                    IN IF sub[s].npend > 0
                       THEN /\ valque[q][sub[s].pLastLog] \in {posted[s], RecLog}
                            /\ \A i \in Entries(s) :
                                 i = sub[s].pLastLog \/ Before(q, i, sub[s].pLastLog)
                       ELSE IF InHand(s) THEN tlog \in {posted[s], RecLog}
                       ELSE seen[s] >= posted[s]
  BY DEF NoLostUpdate
<1>1. UpToDate(s)
  BY DEF Updates, Fresh
<1>2. CASE sub[s].npend > 0
  BY <1>1, <1>2 DEF UpToDate, LastIsLatest, Entries, Before
<1>3. CASE ~(sub[s].npend > 0)
  BY <1>1, <1>3 DEF UpToDate
<1> QED
  BY <1>2, <1>3

\* Every entry of a ring with room is on the way from getix to putix.
LEMMA BeforePut ==
  ASSUME NEW f, NEW g \in Slots, NEW p \in Slots, Contiguous(f, g, p), f[p] = Empty,
         NEW j \in Slots, f[j] # Empty
  PROVE  OnTheWay(g, j, p) /\ j # p
BY SizeFact DEF Contiguous, Occupied, OnTheWay, Slots

\* Taking the entry at getix keeps the order of the others.
LEMMA WayAdvances ==
  ASSUME NEW g \in Slots, NEW j \in Slots, NEW l \in Slots, OnTheWay(g, j, l), j # g, l # g
  PROVE  OnTheWay(RNGINC(g), j, l)
BY SizeFact DEF OnTheWay, RNGINC, Slots

\* Nothing is before the entry at getix.
LEMMA WayToHead ==
  ASSUME NEW g \in Slots, NEW j \in Slots, OnTheWay(g, j, g) PROVE j = g
BY DEF OnTheWay, Slots

\* A step leaves s alone: its block, its entries and their logs, and the task's hand.
\* Entries of others may be added, taken or cancelled.
Untouched(s) ==
  LET q == sub[s].que
  IN /\ sub'[s].st = sub[s].st /\ sub'[s].rec = sub[s].rec /\ sub'[s].que = q
     /\ sub'[s].npend = sub[s].npend /\ sub'[s].pLastLog = sub[s].pLastLog
     /\ posted'[s] = posted[s] /\ seen'[s] = seen[s]
     /\ val'[sub[s].rec] >= val[sub[s].rec]
     /\ \A i \in Slots : evque'[q][i] = s <=> evque[q][i] = s
     /\ \A i \in Slots : evque[q][i] = s => valque'[q][i] = valque[q][i]
     /\ \/ getix'[q] = getix[q]
        \/ getix'[q] = RNGINC(getix[q]) /\ evque[q][getix[q]] # s
     /\ tpc' = "callback" /\ tsub' = s <=> InHand(s)
     /\ InHand(s) => tlog' = tlog

\* Then what was known of s still holds.
LEMMA UntouchedKeeps ==
  ASSUME TypeOK, TypeOK', NEW s \in Subs, UpToDate(s), Untouched(s) PROVE UpToDate(s)'
<1>1. PICK q, l : q = sub[s].que /\ l = sub[s].pLastLog
  OBVIOUS
<1>2. /\ sub'[s].st = sub[s].st /\ sub'[s].rec = sub[s].rec /\ sub'[s].que = q
      /\ sub'[s].npend = sub[s].npend /\ sub'[s].pLastLog = l
      /\ posted'[s] = posted[s] /\ seen'[s] = seen[s]
      /\ val'[sub[s].rec] >= val[sub[s].rec]
      /\ InHand(s)' <=> InHand(s)
      /\ InHand(s) => tlog' = tlog
  BY <1>1 DEF Untouched, InHand
<1>3. sub[s].rec \in Recs /\ q \in Queues /\ getix[q] \in Slots
  BY <1>1, SubFields DEF TypeOK, QueType
<1>4. posted[s] \in Int /\ val[sub[s].rec] \in Int /\ val'[sub[s].rec] \in Int
  BY <1>3, ConstAssumption DEF TypeOK, HistType, PostType, Logs
<1>5. posted[s] <= val[sub[s].rec] => posted'[s] <= val'[sub'[s].rec]
  BY <1>2, <1>4
<1>6. ASSUME LastIsLatest(s) PROVE LastIsLatest(s)'
  <2>1. /\ l \in Slots /\ evque[q][l] = s /\ valque[q][l] \in {posted[s], RecLog}
        /\ \A i \in Slots : evque[q][i] = s => OnTheWay(getix[q], i, l)
    BY <1>1, <1>6 DEF LastIsLatest
  <2>2. evque'[q][l] = s /\ valque'[q][l] \in {posted[s], RecLog}
    BY <1>1, <2>1 DEF Untouched
  <2>3. \A i \in Slots : evque'[q][i] = s => OnTheWay(getix'[q], i, l)
    <3>1. CASE getix'[q] = getix[q]
      BY <1>1, <2>1, <3>1 DEF Untouched
    <3>2. CASE getix'[q] = RNGINC(getix[q]) /\ evque[q][getix[q]] # s
      BY <1>1, <1>3, <2>1, <3>2, WayAdvances DEF Untouched
    <3> QED
      BY <1>1, <3>1, <3>2 DEF Untouched
  <2> QED
    BY <1>2, <2>1, <2>2, <2>3 DEF LastIsLatest
<1> QED
  BY <1>2, <1>5, <1>6 DEF UpToDate

\* the fields of s that matter here
SameBlock(s) ==
  /\ sub'[s].st = sub[s].st /\ sub'[s].rec = sub[s].rec /\ sub'[s].que = sub[s].que
  /\ sub'[s].npend = sub[s].npend /\ sub'[s].pLastLog = sub[s].pLastLog

\* Steps that only move the task, a client or a poster, or raise a record's value.
LEMMA Quiet_Upd ==
  ASSUME TypeOK, TypeOK', Fresh, UNCHANGED <<evque, valque, getix, posted, seen>>,
         \A r \in Recs : val'[r] >= val[r], \A s \in Subs : SameBlock(s),
         \A s \in Subs : InHand(s)' <=> InHand(s), tpc = "callback" => UNCHANGED tlog
  PROVE  Fresh'
<1> SUFFICES ASSUME NEW s \in Subs PROVE UpToDate(s)'
  BY DEF Fresh
<1>1. sub[s].rec \in Recs
  BY SubFields DEF TypeOK
<1>2. Untouched(s)
  BY <1>1 DEF Untouched, SameBlock, InHand
<1> QED
  BY <1>2, UntouchedKeeps DEF Fresh

\* Values are numbers.
LEMMA ValType == ASSUME TypeOK PROVE \A r \in Recs : val[r] \in Int /\ val[r] >= val[r] /\ val[r] >= 1
BY ConstAssumption DEF TypeOK, PostType

\* The task moves without an entry in its hand.
LEMMA TaskMoves_Upd ==
  ASSUME TypeOK, TypeOK', Discipline, Fresh,
         \/ TaskWait \/ TaskWoken \/ TaskLabor \/ ReadEnter \/ ReadDone \/ TaskNext \/ TaskExit
         \/ db_start_events \/ Return
  PROVE  Fresh'
<1>1. UNCHANGED <<evque, valque, getix, posted, seen, val>>
  BY DEF TaskWait, TaskWoken, TaskLabor, ReadEnter, ReadDone, TaskNext, TaskExit, db_start_events,
     Return, queVars, taskRest, histVars, postVars
<1>2. tpc' # "callback"
  BY DEF TaskWait, TaskWoken, TaskLabor, ReadEnter, ReadDone, TaskNext, TaskExit, db_start_events,
     Return
<1>3. tpc # "callback"
  BY DEF TaskWait, TaskWoken, TaskLabor, ReadEnter, ReadDone, TaskNext, TaskExit, db_start_events,
     Return, Discipline, SuicideIsCurrent
<1>4. \A s \in Subs : SameBlock(s)
  <2>1. CASE Return
    BY <2>1 DEF Return, SameBlock, TypeOK, SubRec
  <2>2. CASE ~Return
    BY <2>2 DEF TaskWait, TaskWoken, TaskLabor, ReadEnter, ReadDone, TaskNext, TaskExit,
       db_start_events, SameBlock
  <2> QED
    BY <2>1, <2>2
<1>5. \A s \in Subs : InHand(s)' <=> InHand(s)
  BY <1>2, <1>3 DEF InHand
<1> QED
  BY <1>1, <1>3, <1>4, <1>5, ValType, Quiet_Upd

\* Calls that touch neither queues nor logs.
LEMMA Calls_Upd ==
  ASSUME TypeOK, TypeOK', Fresh, NEW c \in Clients,
         \/ TurnOffExtraLabor(c) \/ db_flush_extra_labor_event(c) \/ db_post_extra_labor(c)
         \/ db_close_events(c)
         \/ (\E on \in BOOLEAN : db_event_flow_ctrl_mode(c, on))
         \/ (\E s \in Subs : \/ db_post_single_event(c, s) \/ db_event_enable(c, s)
                             \/ db_event_disable(c, s))
         \/ ClientSignal(c) \/ CancelFlush(c) \/ CloseJoin(c)
  PROVE  Fresh'
<1>1. UNCHANGED <<evque, valque, getix, posted, seen, val, tpc, tsub, tlog>>
  BY DEF TurnOffExtraLabor, db_flush_extra_labor_event,
     db_post_extra_labor, db_close_events, db_event_flow_ctrl_mode, db_post_single_event,
     db_event_enable, db_event_disable, ClientSignal, CancelFlush, CloseJoin, callRest, queVars,
     taskRest, histVars, postVars, taskVars
<1>2. CASE UNCHANGED sub
  <2>1. \A s \in Subs : SameBlock(s)
    BY <1>2 DEF SameBlock
  <2>2. \A s \in Subs : InHand(s)' <=> InHand(s)
    BY <1>1 DEF InHand
  <2> QED
    BY <1>1, <2>1, <2>2, ValType, Quiet_Upd
<1>3. ASSUME NEW s \in Subs, db_event_enable(c, s) \/ db_event_disable(c, s) PROVE Fresh'
  <2>1. \A t \in Subs : SameBlock(t)
    BY <1>3 DEF db_event_enable, db_event_disable, SameBlock, TypeOK, SubRec
  <2>2. \A t \in Subs : InHand(t)' <=> InHand(t)
    BY <1>1 DEF InHand
  <2> QED
    BY <1>1, <2>1, <2>2, ValType, Quiet_Upd
<1> QED
  BY <1>2, <1>3 DEF TurnOffExtraLabor, db_flush_extra_labor_event,
     db_post_extra_labor, db_close_events, db_event_flow_ctrl_mode, db_post_single_event,
     ClientSignal, CancelFlush, CloseJoin, callRest

\* A post begins, and a poster signals.
LEMMA Posts_Upd ==
  ASSUME TypeOK, TypeOK', Fresh, NEW r \in Recs, db_post_events(r) \/ PostSignal(r)
  PROVE  Fresh'
<1>1. UNCHANGED <<evque, valque, getix, posted, seen, tpc, tsub, tlog, sub>>
  BY DEF db_post_events, PostSignal, queVars, histVars, taskVars
<1>2. \A q \in Recs : val'[q] >= val[q]
  <2>1. CASE PostSignal(r)
    BY <2>1, ValType DEF PostSignal
  <2>2. CASE db_post_events(r)
    <3>1. val' = [val EXCEPT ![r] = IF val[r] < MaxVal THEN val[r] + 1 ELSE val[r]]
      BY <2>2 DEF db_post_events
    <3>2. \A q \in Recs : val'[q] = IF q = r /\ val[r] < MaxVal THEN val[r] + 1 ELSE val[q]
      BY <3>1 DEF TypeOK, PostType
    <3> QED
      BY <3>2, ValType
  <2> QED
    BY <2>1, <2>2
<1>3. \A s \in Subs : SameBlock(s) /\ (InHand(s)' <=> InHand(s))
  BY <1>1 DEF SameBlock, InHand
<1> QED
  BY <1>1, <1>2, <1>3, Quiet_Upd

\* A cancel begins: nothing is claimed of the subscription any more.
LEMMA CancelDisable_Upd ==
  ASSUME TypeOK, TypeOK', Fresh, NEW c \in Clients, NEW s \in Subs, CancelDisable(c, s)
  PROVE  Fresh'
<1>1. UNCHANGED <<evque, valque, getix, posted, seen, val, tpc, tsub, tlog>>
  BY DEF CancelDisable, queVars, histVars, postVars, taskVars
<1>2. \A t \in Subs : t # s => sub'[t] = sub[t]
  BY DEF CancelDisable, TypeOK
<1>3. ASSUME NEW t \in Subs, t # s PROVE Untouched(t)
  <2>1. sub[t].rec \in Recs
    BY SubFields DEF TypeOK
  <2> QED
    BY <1>1, <1>2, <1>3, <2>1, ValType DEF Untouched, InHand
<1>4. UpToDate(s)'
  <2>1. sub'[s].st = "cancel"
    BY DEF CancelDisable, TypeOK, SubRec
  <2> QED
    BY <2>1 DEF UpToDate
<1> QED
  BY <1>3, <1>4, UntouchedKeeps DEF Fresh

\* A fresh event_user has no subscription yet.
LEMMA init_Upd == ASSUME TypeOK, Life, Fresh, db_init_events PROVE Fresh'
<1>1. UNCHANGED <<sub, posted, seen>> /\ evUser.destroyed
  BY DEF db_init_events
<1>2. \A s \in Subs : sub[s].st = "free"
  BY <1>1 DEF Life, UserLife, SubLife
<1> QED
  BY <1>1, <1>2 DEF Fresh, UpToDate

\* A new subscription has nothing to deliver.
LEMMA Add_Upd ==
  ASSUME TypeOK, TypeOK', Discipline, Fresh, NEW c \in Clients, NEW s \in Subs, NEW r \in Recs,
         db_add_event(c, s, r)
  PROVE  Fresh'
<1>1. /\ UNCHANGED <<evque, valque, getix, posted, seen, val, tpc, tsub, tlog>>
      /\ sub[s].st = "free"
  BY DEF db_add_event, taskVars, taskRest, histVars, postVars
<1>2. PICK p \in Queues : sub' = [sub EXCEPT ![s] = NewSub(c, r, p)]
  BY DEF db_add_event
<1>3. \A t \in Subs : t # s => sub'[t] = sub[t]
  BY <1>2 DEF TypeOK
<1>4. sub'[s].st = "live" /\ sub'[s].rec = r /\ sub'[s].npend = 0
  BY <1>2 DEF NewSub, FreeSub, TypeOK
<1>5. posted[s] = 0 /\ seen[s] = 0
  BY <1>1 DEF Fresh, UpToDate
<1>6. ~InHand(s)
  BY <1>1 DEF InHand, Discipline, CallbackLive
<1>7. UpToDate(s)'
  <2>1. posted'[s] <= val'[r]
    BY <1>1, <1>5, ValType
  <2>2. ~InHand(s)'
    BY <1>1, <1>6 DEF InHand
  <2> QED
    BY <1>1, <1>4, <1>5, <2>1, <2>2 DEF UpToDate
<1>8. ASSUME NEW t \in Subs, t # s PROVE Untouched(t)
  <2>1. sub[t].rec \in Recs
    BY SubFields DEF TypeOK
  <2> QED
    BY <1>1, <1>3, <1>8, <2>1, ValType DEF Untouched, InHand
<1> QED
  BY <1>7, <1>8, UntouchedKeeps DEF Fresh

\* The purge leaves the entries of the others, and their logs.
LEMMA PurgeOthers ==
  ASSUME TypeOK, NEW s \in Subs, NEW t \in Subs, t # s, NEW p \in Queues, PurgeQueue(p, s)
  PROVE  \A q \in Queues, i \in Slots : /\ evque'[q][i] = t <=> evque[q][i] = t
                                        /\ evque[q][i] = t => valque'[q][i] = valque[q][i]
<1>1. PICK gone : gone = Purged(p, s)
  OBVIOUS
<1>2. /\ evque' = [evque EXCEPT ![p] = [i \in Slots |-> IF i \in gone THEN Canceled ELSE evque[p][i]]]
      /\ valque' = [valque EXCEPT ![p] = [i \in Slots |-> IF i \in gone THEN NoLog ELSE valque[p][i]]]
  BY <1>1 DEF PurgeQueue
<1>3. \A i \in gone : evque[p][i] = s
  BY <1>1 DEF Purged
<1>4. t # Canceled
  BY NamesAssumption DEF Canceled
<1>5. ASSUME NEW q \in Queues, NEW i \in Slots
      PROVE  \/ evque'[q][i] = evque[q][i] /\ valque'[q][i] = valque[q][i]
             \/ evque[q][i] = s /\ evque'[q][i] = Canceled
  BY <1>2, <1>3 DEF TypeOK, QueType
<1> QED
  BY <1>4, <1>5

\* The purge and the release of s.
LEMMA Gone_Upd ==
  ASSUME TypeOK, TypeOK', Fresh, NEW s \in Subs,
         PurgeQueue(sub[s].que, s) \/ UNCHANGED <<evque, valque>>,
         UNCHANGED <<getix, val, tpc, tsub, tlog>>,
         \/ Release(s)
         \/ sub[s].st = "cancel" /\ sub' = PurgedSub(s) /\ UNCHANGED <<posted, seen>>
  PROVE  Fresh'
<1>1. \A t \in Subs : t # s => sub'[t] = sub[t] /\ posted'[t] = posted[t] /\ seen'[t] = seen[t]
  BY DEF Release, PurgedSub, TypeOK, HistType
<1>2. ASSUME NEW t \in Subs, t # s PROVE Untouched(t)
  <2>1. sub[t].rec \in Recs /\ sub[t].que \in Queues /\ sub[s].que \in Queues
    BY SubFields DEF TypeOK
  <2>2. \A i \in Slots : /\ evque'[sub[t].que][i] = t <=> evque[sub[t].que][i] = t
                         /\ evque[sub[t].que][i] = t => valque'[sub[t].que][i] = valque[sub[t].que][i]
    BY <1>2, <2>1, PurgeOthers
  <2> QED
    BY <1>1, <1>2, <2>1, <2>2, ValType DEF Untouched, InHand
<1>3. UpToDate(s)'
  <2>1. CASE Release(s)
    <3>1. sub'[s].st = "free" /\ posted'[s] = 0 /\ seen'[s] = 0
      BY <2>1 DEF Release, FreeSub, TypeOK, HistType
    <3> QED
      BY <3>1 DEF UpToDate
  <2>2. CASE sub[s].st = "cancel" /\ sub' = PurgedSub(s)
    <3>1. sub'[s].st = "cancel"
      BY <2>2 DEF PurgedSub, TypeOK, SubRec
    <3> QED
      BY <3>1 DEF UpToDate
  <2> QED
    BY <2>1, <2>2
<1> QED
  BY <1>2, <1>3, UntouchedKeeps DEF Fresh

\* The steps of db_cancel_event.
LEMMA Cancel_Upd ==
  ASSUME TypeOK, TypeOK', Discipline, Fresh, NEW c \in Clients, CancelPurge(c) \/ CancelRecheck(c)
  PROVE  Fresh'
<1>1. PICK s : s = csub[c]
  OBVIOUS
<1>2. s \in Subs /\ sub[s].st = "cancel"
  BY <1>1 DEF CancelPurge, CancelRecheck, TypeOK, ClientType, Discipline, CancelsOwn
<1>3. UNCHANGED <<getix, val, tpc, tsub, tlog>>
  BY DEF CancelPurge, CancelRecheck, taskVars, postVars
<1>4. PurgeQueue(sub[s].que, s) \/ UNCHANGED <<evque, valque>>
  BY <1>1 DEF CancelPurge, CancelRecheck
<1>5. CASE \/ Release(s)
           \/ sub' = PurgedSub(s) /\ UNCHANGED <<posted, seen>>
  BY <1>2, <1>3, <1>4, <1>5, Gone_Upd
<1>6. CASE UNCHANGED <<evque, valque, sub, posted, seen>>
  <2>1. \A t \in Subs : SameBlock(t) /\ (InHand(t)' <=> InHand(t))
    BY <1>3, <1>6 DEF SameBlock, InHand
  <2> QED
    BY <1>3, <1>6, <2>1, ValType, Quiet_Upd
<1> QED
  BY <1>1, <1>5, <1>6 DEF CancelPurge, CancelRecheck

\* A callback cancels its own subscription.
LEMMA CancelInCallback_Upd ==
  ASSUME TypeOK, TypeOK', Fresh, NEW s \in Subs, CancelInCallback(s) PROVE Fresh'
BY Gone_Upd DEF CancelInCallback, taskVars, postVars

\* The callback delivers the log in hand, or what the record holds now.
LEMMA UserSub_Upd ==
  ASSUME TypeOK, TypeOK', Discipline, Fresh, UserSub PROVE Fresh'
<1>1. PICK s, r : s = tsub /\ r = sub[s].rec
  OBVIOUS
<1>2. /\ tpc = "callback" /\ tpc' = "return"
      /\ UNCHANGED <<evque, valque, getix, sub, tsub, val, posted>>
      /\ seen' = [seen EXCEPT ![s] = IF tlog = RecLog THEN val[r] ELSE tlog]
  BY <1>1 DEF UserSub, queVars, postVars
<1>3. s \in Subs /\ r \in Recs
  BY <1>1, <1>2, SubFields DEF TypeOK, TaskType
<1>4. ASSUME NEW t \in Subs, t # s PROVE Untouched(t)
  <2>1. sub[t].rec \in Recs
    BY SubFields DEF TypeOK
  <2>2. seen'[t] = seen[t]
    BY <1>2, <1>4 DEF TypeOK, HistType
  <2> QED
    BY <1>1, <1>2, <1>4, <2>1, <2>2, ValType DEF Untouched, InHand
<1>5. UpToDate(s)'
  <2>1. seen'[s] = IF tlog = RecLog THEN val[r] ELSE tlog
    BY <1>2, <1>3 DEF TypeOK, HistType
  <2>2. InHand(s) /\ ~InHand(s)'
    BY <1>1, <1>2 DEF InHand
  <2>3. LastIsLatest(s)' <=> LastIsLatest(s)
    BY <1>2 DEF LastIsLatest
  <2>4. CASE sub[s].st = "live"
    <3>1. /\ posted[s] <= val[r]
          /\ sub[s].npend > 0 => LastIsLatest(s)
          /\ ~(sub[s].npend > 0) => tlog \in {posted[s], RecLog}
      BY <1>1, <1>3, <2>2, <2>4 DEF Fresh, UpToDate
    <3>2. posted[s] \in Int /\ val[r] \in Int
      BY <1>3, ValType DEF TypeOK, HistType, Logs
    <3>3. ~(sub[s].npend > 0) => seen'[s] >= posted[s]
      BY <2>1, <3>1, <3>2
    <3> QED
      BY <1>1, <1>2, <2>2, <2>3, <2>4, <3>1, <3>3 DEF UpToDate
  <2>5. CASE sub[s].st # "live"
    <3>1. sub[s].st # "free"
      BY <1>1, <1>2 DEF Discipline, CallbackLive
    <3> QED
      BY <1>2, <2>5, <3>1 DEF UpToDate
  <2> QED
    BY <2>4, <2>5
<1> QED
  BY <1>4, <1>5, UntouchedKeeps DEF Fresh

\* A log refers to the record or holds its value.
LEMMA LogIsLatest ==
  ASSUME NEW s \in Subs, NEW r, sub[s].rec = r PROVE EventLog(s) \in {val[r], RecLog}
BY DEF EventLog

\* A poster queues a log for s, in one of three ways.
LEMMA Log_Upd ==
  ASSUME TypeOK, TypeOK', RingShape, Discipline, Counts, Fresh, NEW r \in Recs, NEW s \in Subs,
         db_queue_event_log(r, s), assertFailed' = "none"
  PROVE  Fresh'
<1>1. /\ UNCHANGED <<getix, tpc, tsub, tlog, val, seen>>
      /\ posted' = [posted EXCEPT ![s] = val[r]]
      /\ QueueDuplicate(s) \/ QueueReplace(s) \/ QueueAdd(s)
      /\ s \in post[r].todo
  BY DEF db_queue_event_log, taskVars
<1>2. sub[s].st = "live" /\ sub[s].rec = r
  BY <1>1 DEF Discipline, PostersLive
<1>3. /\ posted'[s] = val[r] /\ val[r] \in Int /\ posted'[s] <= val'[r]
      /\ \A t \in Subs : t # s => posted'[t] = posted[t]
  BY <1>1, ValType DEF TypeOK, HistType
<1>4. PICK q, l, g : q = sub[s].que /\ l = sub[s].pLastLog /\ g = getix[q]
  OBVIOUS
<1>5. q \in Queues /\ g \in Slots /\ l \in Slots \cup {NoSlot}
  BY <1>4, SubFields DEF TypeOK, QueType, SubRec
<1>6. sub[s].npend > 0 =>
        /\ l \in Slots /\ evque[q][l] = s
        /\ \A i \in Slots : evque[q][i] = s => OnTheWay(g, i, l)
  BY <1>2, <1>4 DEF Fresh, UpToDate, LastIsLatest
<1>7. CASE QueueDuplicate(s)
  <2>1. UNCHANGED <<evque, valque, sub>> /\ sub[s].npend > 0 /\ valque[q][l] = RecLog
    BY <1>4, <1>7 DEF QueueDuplicate, DuplicateRef
  <2>2. LastIsLatest(s)'
    BY <1>1, <1>4, <1>6, <2>1 DEF LastIsLatest
  <2>3. UpToDate(s)'
    BY <1>2, <1>3, <2>1, <2>2 DEF UpToDate
  <2>4. ASSUME NEW t \in Subs, t # s PROVE Untouched(t)
    <3>1. sub[t].rec \in Recs
      BY SubFields DEF TypeOK
    <3> QED
      BY <1>1, <1>3, <2>1, <2>4, <3>1, ValType DEF Untouched, InHand
  <2> QED
    BY <2>3, <2>4, UntouchedKeeps DEF Fresh
<1>8. CASE QueueReplace(s)
  <2>1. /\ UNCHANGED <<evque, sub>> /\ sub[s].npend > 0
        /\ valque' = [valque EXCEPT ![q][l] = EventLog(s)]
    BY <1>4, <1>8 DEF QueueReplace, ReplaceLast
  <2>2. /\ valque'[q][l] = EventLog(s)
        /\ \A p \in Queues, i \in Slots : ~(p = q /\ i = l) => valque'[p][i] = valque[p][i]
    BY <1>5, <1>6, <2>1 DEF TypeOK, QueType
  <2>3. LastIsLatest(s)'
    BY <1>1, <1>2, <1>3, <1>4, <1>6, <2>1, <2>2, LogIsLatest DEF LastIsLatest
  <2>4. UpToDate(s)'
    BY <1>2, <1>3, <2>1, <2>3 DEF UpToDate
  <2>5. ASSUME NEW t \in Subs, t # s PROVE Untouched(t)
    <3>1. sub[t].rec \in Recs /\ sub[t].que \in Queues
      BY SubFields DEF TypeOK
    <3>2. \A i \in Slots : evque[sub[t].que][i] = t => valque'[sub[t].que][i] = valque[sub[t].que][i]
      BY <1>6, <2>1, <2>2, <2>5, <3>1
    <3> QED
      BY <1>1, <1>3, <2>1, <2>5, <3>1, <3>2, ValType DEF Untouched, InHand
  <2> QED
    BY <2>4, <2>5, UntouchedKeeps DEF Fresh
<1>9. CASE QueueAdd(s)
  <2>1. PICK i : i = putix[q]
    OBVIOUS
  <2>2. /\ evque[q][i] = Empty /\ i \in Slots /\ s # Empty
        /\ evque' = [evque EXCEPT ![q][i] = s]
        /\ valque' = [valque EXCEPT ![q][i] = EventLog(s)]
        /\ sub' = [sub EXCEPT ![s].npend = sub[s].npend + 1, ![s].pLastLog = i]
    BY <1>4, <1>5, <1>9, <2>1, NamesAssumption DEF QueueAdd, TypeOK, QueType, Empty
  <2>3. /\ evque'[q][i] = s /\ valque'[q][i] = EventLog(s)
        /\ \A p \in Queues, j \in Slots : ~(p = q /\ j = i) =>
             evque'[p][j] = evque[p][j] /\ valque'[p][j] = valque[p][j]
    BY <1>5, <2>2 DEF TypeOK, QueType
  <2>4. sub[s].npend \in Nat
    BY CountsFinite DEF Counts, PendAgree
  <2>5. /\ sub'[s].npend > 0 /\ sub'[s].pLastLog = i /\ sub'[s].st = "live" /\ sub'[s].rec = r
        /\ sub'[s].que = q /\ \A t \in Subs : t # s => sub'[t] = sub[t]
    BY <1>2, <1>4, <2>2, <2>4 DEF TypeOK, SubRec
  <2>6. \A j \in Slots : evque'[q][j] = s => OnTheWay(g, j, i)
    <3>1. Contiguous(evque[q], g, i)
      BY <1>4, <1>5, <2>1 DEF RingShape
    <3>2. OnTheWay(g, i, i)
      BY <1>5, <2>2, SizeFact DEF OnTheWay, Slots
    <3>3. ASSUME NEW j \in Slots, evque'[q][j] = s, j # i PROVE OnTheWay(g, j, i)
      <4>1. evque[q][j] # Empty
        BY <1>5, <2>2, <2>3, <3>3
      <4> QED
        BY <1>5, <2>2, <3>1, <4>1, BeforePut
    <3> QED
      BY <3>2, <3>3
  <2>7. LastIsLatest(s)'
    BY <1>1, <1>2, <1>3, <1>4, <2>2, <2>3, <2>5, <2>6, LogIsLatest, ZenonT(60) DEF LastIsLatest
  <2>8. UpToDate(s)'
    BY <1>3, <2>5, <2>7 DEF UpToDate
  <2>9. ASSUME NEW t \in Subs, t # s PROVE Untouched(t)
    <3>1. sub[t].rec \in Recs /\ sub[t].que \in Queues /\ t # Empty
      BY SubFields, NamesAssumption DEF TypeOK, Empty
    <3>2. \A j \in Slots : /\ evque'[sub[t].que][j] = t <=> evque[sub[t].que][j] = t
                           /\ evque[sub[t].que][j] = t => valque'[sub[t].que][j] = valque[sub[t].que][j]
      BY <2>2, <2>3, <2>9, <3>1
    <3> QED
      BY <1>1, <1>3, <2>5, <2>9, <3>1, <3>2, ValType DEF Untouched, InHand
  <2> QED
    BY <2>8, <2>9, UntouchedKeeps DEF Fresh
<1> QED
  BY <1>1, <1>7, <1>8, <1>9

\* The slots of a ring that TakeHead leaves alone.
LEMMA TakeOthers ==
  ASSUME TypeOK, NEW p \in Queues, TakeHead(p), NEW t \in Subs, evque[p][getix[p]] # t
  PROVE  \A q \in Queues : /\ \A j \in Slots : evque'[q][j] = t <=> evque[q][j] = t
                           /\ \A j \in Slots : evque[q][j] = t => valque'[q][j] = valque[q][j]
                           /\ \/ getix'[q] = getix[q]
                              \/ getix'[q] = RNGINC(getix[q]) /\ evque[q][getix[q]] # t
<1>1. t # Empty /\ getix[p] \in Slots
  BY NamesAssumption DEF Empty, TypeOK, QueType
<1>2. /\ evque' = [evque EXCEPT ![p][getix[p]] = Empty]
      /\ valque' = [valque EXCEPT ![p][getix[p]] = NoLog]
      /\ getix' = [getix EXCEPT ![p] = RNGINC(getix[p])]
  BY DEF TakeHead
<1>3. /\ evque'[p][getix[p]] = Empty
      /\ \A q \in Queues, j \in Slots : ~(q = p /\ j = getix[p]) =>
           evque'[q][j] = evque[q][j] /\ valque'[q][j] = valque[q][j]
  BY <1>1, <1>2 DEF TypeOK, QueType
<1>4. \A q \in Queues : getix'[q] = IF q = p THEN RNGINC(getix[p]) ELSE getix[q]
  BY <1>2 DEF TypeOK, QueType
<1> QED
  BY <1>1, <1>3, <1>4

\* The task takes a placeholder.
LEMMA Skip_Upd == ASSUME TypeOK, TypeOK', Fresh, SkipCanceled PROVE Fresh'
<1>1. /\ UNCHANGED <<sub, tpc, tsub, tlog, val, posted, seen>> /\ TakeHead(tq)
      /\ evque[tq][getix[tq]] = Canceled /\ tq \in Queues
  BY DEF SkipCanceled, HeadEntry, taskVars, postVars, histVars, TypeOK, TaskType
<1>2. ASSUME NEW t \in Subs PROVE Untouched(t)
  <2>1. sub[t].rec \in Recs /\ sub[t].que \in Queues /\ t # Canceled
    BY SubFields, NamesAssumption DEF TypeOK, Canceled
  <2>2. PICK q : q = sub[t].que
    OBVIOUS
  <2>3. /\ \A j \in Slots : evque'[q][j] = t <=> evque[q][j] = t
        /\ \A j \in Slots : evque[q][j] = t => valque'[q][j] = valque[q][j]
        /\ \/ getix'[q] = getix[q]
           \/ getix'[q] = RNGINC(getix[q]) /\ evque[q][getix[q]] # t
    BY <1>1, <2>1, <2>2, TakeOthers
  <2> QED
    BY <1>1, <2>1, <2>2, <2>3, ValType DEF Untouched, InHand
<1> QED
  BY <1>2, UntouchedKeeps DEF Fresh

\* The task takes an entry of s: it was the last log, or the last log is still queued.
LEMMA Begin_Upd ==
  ASSUME TypeOK, TypeOK', Discipline, Counts, Fresh, BeginCallback PROVE Fresh'
<1>1. PICK q, i, s : q = tq /\ i = getix[q] /\ s = evque[q][i]
  OBVIOUS
<1>2. s \in Subs /\ q \in Queues /\ i \in Slots
  BY <1>1 DEF BeginCallback, HeadEntry, TypeOK, QueType, TaskType
<1>3. sub[s].que = q /\ sub[s].user_sub /\ sub[s].st # "free"
  BY <1>1, <1>2 DEF Discipline, EntriesLive
<1>4. /\ tpc = "loop" /\ tpc' = "callback" /\ tsub' = s /\ tlog' = valque[q][i] /\ TakeHead(q)
      /\ sub' = [Removed(s) EXCEPT ![s].callBackInProgress = TRUE]
      /\ UNCHANGED <<val, posted, seen>>
  BY <1>1, <1>3 DEF BeginCallback, HeadEntry, postVars, histVars
<1>5. /\ sub'[s].st = sub[s].st /\ sub'[s].rec = sub[s].rec /\ sub'[s].que = q
      /\ sub'[s].npend = sub[s].npend - 1
      /\ sub[s].npend # 1 => sub'[s].pLastLog = sub[s].pLastLog
      /\ \A t \in Subs : t # s => sub'[t] = sub[t]
  BY <1>2, <1>3, <1>4 DEF Removed, TypeOK, SubRec
<1>6. ASSUME NEW t \in Subs, t # s PROVE Untouched(t)
  <2>1. sub[t].rec \in Recs /\ sub[t].que \in Queues
    BY SubFields DEF TypeOK
  <2>2. PICK p : p = sub[t].que
    OBVIOUS
  <2>3. /\ \A j \in Slots : evque'[p][j] = t <=> evque[p][j] = t
        /\ \A j \in Slots : evque[p][j] = t => valque'[p][j] = valque[p][j]
        /\ \/ getix'[p] = getix[p]
           \/ getix'[p] = RNGINC(getix[p]) /\ evque[p][getix[p]] # t
    BY <1>1, <1>2, <1>4, <1>6, <2>1, <2>2, TakeOthers
  <2> QED
    BY <1>4, <1>5, <1>6, <2>1, <2>2, <2>3, ValType DEF Untouched, InHand
<1>7. UpToDate(s)'
  <2>1. CASE sub[s].st # "live"
    BY <1>3, <1>5, <2>1 DEF UpToDate
  <2>2. CASE sub[s].st = "live"
    <3>1. PICK l, mine : l = sub[s].pLastLog /\ mine = SlotsOf(evque[q], s)
      OBVIOUS
    <3>2. i \in mine /\ IsFiniteSet(mine) /\ sub[s].npend = Cardinality(mine)
      <4>1. i \in mine
        BY <1>1, <1>2, <3>1 DEF SlotsOf
      <4>2. IsFiniteSet(mine)
        BY <3>1, CountsFinite
      <4>3. sub[s].npend = Cardinality(mine)
        BY <1>2, <1>3, <3>1 DEF Counts, PendAgree
      <4> QED
        BY <4>1, <4>2, <4>3
    <3>3. sub[s].npend \in Nat /\ sub[s].npend > 0
      BY <3>2, FS_CardinalityType, FS_EmptySet
    <3>4. posted[s] <= val[sub[s].rec] /\ LastIsLatest(s)
      BY <1>2, <2>2, <3>3 DEF Fresh, UpToDate
    <3>5. /\ l \in Slots /\ evque[q][l] = s /\ valque[q][l] \in {posted[s], RecLog}
          /\ \A j \in mine : OnTheWay(i, j, l)
      <4>1. /\ l \in Slots /\ evque[q][l] = s /\ valque[q][l] \in {posted[s], RecLog}
            /\ \A j \in Slots : evque[q][j] = s => OnTheWay(getix[q], j, l)
        BY <1>3, <3>1, <3>4 DEF LastIsLatest
      <4>2. \A j \in mine : j \in Slots /\ evque[q][j] = s
        BY <3>1 DEF SlotsOf
      <4> QED
        BY <1>1, <4>1, <4>2
    <3>6. CASE sub[s].npend = 1
      <4>1. l = i
        BY <3>1, <3>2, <3>5, <3>6, FS_Singleton DEF SlotsOf
      <4>2. InHand(s)' /\ tlog' \in {posted'[s], RecLog}
        BY <1>4, <3>5, <4>1 DEF InHand
      <4>3. ~(sub'[s].npend > 0) /\ posted'[s] <= val'[sub'[s].rec]
        BY <1>4, <1>5, <3>4, <3>6
      <4> QED
        BY <1>5, <2>2, <4>2, <4>3 DEF UpToDate
    <3>7. CASE sub[s].npend # 1
      <4>1. l # i
        <5>1. SUFFICES ASSUME l = i PROVE FALSE
          OBVIOUS
        <5>2. mine \subseteq Slots
          BY <3>1 DEF SlotsOf
        <5>3. mine = {i}
          BY <1>2, <3>2, <3>5, <5>1, <5>2, WayToHead
        <5> QED
          BY <3>2, <3>7, <5>3, FS_Singleton
      <4>2. /\ getix'[q] = RNGINC(i) /\ s # Empty
            /\ \A j \in Slots : evque'[q][j] = IF j = i THEN Empty ELSE evque[q][j]
            /\ valque'[q][l] = valque[q][l]
        BY <1>1, <1>2, <1>4, <3>5, <4>1, NamesAssumption DEF TakeHead, TypeOK, QueType, Empty
      <4>3. ASSUME NEW j \in Slots, evque'[q][j] = s PROVE OnTheWay(RNGINC(i), j, l)
        <5>1. j # i /\ evque[q][j] = s
          BY <4>2, <4>3
        <5>2. OnTheWay(i, j, l)
          BY <3>1, <3>5, <5>1 DEF SlotsOf
        <5> QED
          BY <1>2, <3>5, <4>1, <5>1, <5>2, WayAdvances
      <4>4. LastIsLatest(s)'
        BY <1>4, <1>5, <3>1, <3>5, <3>7, <4>1, <4>2, <4>3 DEF LastIsLatest
      <4>5. sub'[s].npend > 0 /\ posted'[s] <= val'[sub'[s].rec]
        BY <1>4, <1>5, <3>3, <3>4, <3>7
      <4> QED
        BY <1>5, <2>2, <4>4, <4>5 DEF UpToDate
    <3> QED
      BY <3>6, <3>7
  <2> QED
    BY <2>1, <2>2
<1> QED
  BY <1>6, <1>7, UntouchedKeeps DEF Fresh

\* Every step keeps the updates, until an assert fails.
LEMMA UpdatesNext ==
  ASSUME TypeOK, TypeOK', RingShape, Discipline, Life, Counts, Updates, [Next]_vars
  PROVE  Updates'
<1> SUFFICES ASSUME assertFailed' = "none" PROVE Fresh'
  BY DEF Updates, Fresh
<1>1. CASE UNCHANGED vars
  <2>1. Fresh /\ UNCHANGED <<evque, valque, getix, posted, seen, val, tpc, tsub, tlog, sub>>
    BY <1>1 DEF Updates, Fresh, vars, queVars, histVars, postVars, taskVars
  <2>2. \A s \in Subs : SameBlock(s) /\ (InHand(s)' <=> InHand(s))
    BY <2>1 DEF SameBlock, InHand
  <2> QED
    BY <2>1, <2>2, ValType, Quiet_Upd
<1>2. CASE Next
  <2>1. Fresh
    BY <1>2 DEF Next, Updates, Fresh
  <2>2. CASE TaskStep \/ db_start_events
    BY <2>1, <2>2, TaskMoves_Upd, Skip_Upd, Begin_Upd, UserSub_Upd DEF TaskStep
  <2>3. ASSUME NEW c \in Clients, Call(c) PROVE Fresh'
    BY <2>1, <2>3, Calls_Upd, Add_Upd, CancelDisable_Upd DEF Call
  <2>4. ASSUME NEW c \in Clients, ClientStep(c) PROVE Fresh'
    BY <2>1, <2>4, Calls_Upd, Cancel_Upd DEF ClientStep
  <2>5. ASSUME NEW r \in Recs, db_post_events(r) \/ PosterStep(r) PROVE Fresh'
    BY <2>1, <2>5, Posts_Upd, Log_Upd DEF PosterStep
  <2>6. CASE db_add_extra_labor_event
    <3>1. UNCHANGED <<evque, valque, getix, posted, seen, val, tpc, tsub, tlog, sub>>
      BY <2>6 DEF db_add_extra_labor_event, callRest, queVars, histVars, postVars, taskVars
    <3>2. \A s \in Subs : SameBlock(s) /\ (InHand(s)' <=> InHand(s))
      BY <3>1 DEF SameBlock, InHand
    <3> QED
      BY <2>1, <3>1, <3>2, ValType, Quiet_Upd
  <2> QED
    BY <1>2, <2>1, <2>2, <2>3, <2>4, <2>5, <2>6, init_Upd, CancelInCallback_Upd DEF Next
<1> QED
  BY <1>1, <1>2

\* Nothing is posted at first.
LEMMA UpdatesInit == Init => Updates
BY DEF Init, Updates, Fresh, UpToDate, FreeSub

\* With finitely many subscription blocks, and if callbacks cancel no subscription but
\* their own, no update is lost: posters may drop a second reference, replace the last
\* log or add one, and the event task may take entries in between, but the value posted
\* last to a live subscription is its last log, in the task's hands, or seen.
THEOREM UpdateNotLost ==
  ASSUME "cancelOther" \notin Ops, IsFiniteSet(Subs)
  PROVE  Spec => []NoLostUpdate
<1>1. TypeOK /\ RingShape /\ Discipline /\ Life /\ Counts /\ [Next]_vars => Counts'
  BY CountsNext
<1>2. TypeOK /\ RingShape /\ Discipline /\ [Next]_vars => Discipline'
  BY DisciplineNext
<1>3. TypeOK /\ TypeOK' /\ RingShape /\ Discipline /\ Life /\ Counts /\ Updates /\ [Next]_vars
        => Updates'
  BY UpdatesNext
<1>4. TypeOK /\ Updates => NoLostUpdate
  BY UpdatesSuffice
<1> QED
  BY <1>1, <1>2, <1>3, <1>4, CountsInit, DisciplineInit, UpdatesInit, TypeCorrect, RingContiguous,
     LifeOfUser, PTL DEF Spec

-----------------------------------------------------------------------------
(* Monitor.  The order of the entries of a subscription in the ring *)

\* The way around the ring from g is a linear order.
LEMMA WayOrder ==
  ASSUME NEW g \in Slots
  PROVE  /\ \A i \in Slots : OnTheWay(g, i, i)
         /\ \A i, j \in Slots : OnTheWay(g, i, j) \/ OnTheWay(g, j, i)
         /\ \A i, j \in Slots : OnTheWay(g, i, j) /\ OnTheWay(g, j, i) => i = j
         /\ \A i, j, k \in Slots : OnTheWay(g, i, j) /\ OnTheWay(g, j, k) => OnTheWay(g, i, k)
<1>1. \A i \in Slots : i \in Int /\ 0 <= i
  BY SizeFact DEF Slots
<1>2. QED
  BY <1>1 DEF OnTheWay

\* Advancing getix keeps it for the slots that remain.
LEMMA WaySame ==
  ASSUME NEW g \in Slots, NEW i \in Slots, NEW j \in Slots, i # g, j # g
  PROVE  OnTheWay(RNGINC(g), i, j) <=> OnTheWay(g, i, j)
BY SizeFact DEF OnTheWay, RNGINC, Slots

\* A set of slots is finite, and so is what lies before one of them.
LEMMA RankType ==
  ASSUME NEW E \in SUBSET Slots, NEW g \in Slots
  PROVE  /\ IsFiniteSet(E) /\ Cardinality(E) \in Nat
         /\ \A i : /\ {j \in E : OnTheWay(g, j, i)} \in SUBSET E
                   /\ IsFiniteSet({j \in E : OnTheWay(g, j, i)}) /\ Rank(E, g, i) \in Nat
                   /\ Rank(E, g, i) <= Cardinality(E)
         /\ \A i \in E : Rank(E, g, i) \in 1 .. Cardinality(E)
<1>1. IsFiniteSet(Slots)
  BY FS_Interval, SizeFact DEF Slots
<1>2. IsFiniteSet(E) /\ Cardinality(E) \in Nat
  BY <1>1, FS_Subset, FS_CardinalityType
<1>3. ASSUME NEW i
      PROVE  /\ {j \in E : OnTheWay(g, j, i)} \in SUBSET E
             /\ IsFiniteSet({j \in E : OnTheWay(g, j, i)}) /\ Rank(E, g, i) \in Nat
             /\ Rank(E, g, i) <= Cardinality(E)
  <2>1. PICK T : T = {j \in E : OnTheWay(g, j, i)}
    OBVIOUS
  <2>2. T \in SUBSET E
    BY <2>1
  <2>3. IsFiniteSet(T) /\ Cardinality(T) \in Nat /\ Cardinality(T) <= Cardinality(E)
    BY <1>2, <2>2, FS_Subset, FS_CardinalityType
  <2>4. QED
    BY <2>1, <2>2, <2>3 DEF Rank
<1>4. ASSUME NEW i \in E PROVE Rank(E, g, i) # 0
  <2>1. i \in {j \in E : OnTheWay(g, j, i)}
    BY WayOrder
  <2>2. QED
    BY <1>3, <2>1, FS_EmptySet DEF Rank
<1>5. ASSUME NEW i \in E PROVE Rank(E, g, i) \in 1 .. Cardinality(E)
  <2>1. PICK n, m : n = Rank(E, g, i) /\ m = Cardinality(E)
    OBVIOUS
  <2>2. n \in Nat /\ n # 0 /\ m \in Nat /\ n <= m
    BY <1>2, <1>3, <1>4, <2>1
  <2>3. QED
    BY <2>1, <2>2
<1>6. QED
  BY <1>2, <1>3, <1>5

\* Different slots have different ranks.
LEMMA RankInjective ==
  ASSUME NEW E \in SUBSET Slots, NEW g \in Slots, NEW i \in E, NEW j \in E,
         Rank(E, g, i) = Rank(E, g, j)
  PROVE  i = j
<1>1. ASSUME NEW a \in E, NEW b \in E, OnTheWay(g, a, b), Rank(E, g, a) = Rank(E, g, b) PROVE a = b
  <2>1. PICK A, B : A = {k \in E : OnTheWay(g, k, a)} /\ B = {k \in E : OnTheWay(g, k, b)}
    OBVIOUS
  <2>2. A \in SUBSET B
    BY <1>1, <2>1, WayOrder
  <2>3. IsFiniteSet(B) /\ Cardinality(A) = Cardinality(B)
    BY <1>1, <2>1, RankType DEF Rank
  <2>4. A = B
    BY <2>2, <2>3, FS_Subset
  <2>5. b \in B
    BY <2>1, WayOrder
  <2>6. OnTheWay(g, b, a)
    BY <2>1, <2>4, <2>5
  <2>7. QED
    BY <1>1, <2>6, WayOrder
<1>2. OnTheWay(g, i, j) \/ OnTheWay(g, j, i)
  BY WayOrder
<1>3. QED
  BY <1>1, <1>2

\* So every position has its slot.
LEMMA NthIs ==
  ASSUME NEW E \in SUBSET Slots, NEW g \in Slots
  PROVE  /\ \A k \in 1 .. Cardinality(E) : Nth(E, g, k) \in E /\ Rank(E, g, Nth(E, g, k)) = k
         /\ \A i \in E : Nth(E, g, Rank(E, g, i)) = i
<1>1. PICK n : n = Cardinality(E)
  OBVIOUS
<1>2. n \in Nat /\ IsFiniteSet(E)
  BY <1>1, RankType
<1>3. IsFiniteSet(1 .. n) /\ Cardinality(1 .. n) = n
  BY <1>2, FS_Interval
<1>4. PICK f : f = [i \in E |-> Rank(E, g, i)]
  OBVIOUS
<1>5. f \in Injection(E, 1 .. n)
  <2>1. f \in [E -> 1 .. n]
    BY <1>1, <1>4, RankType
  <2>2. \A i, j \in E : f[i] = f[j] => i = j
    BY <1>4, RankInjective
  <2>3. QED
    BY <2>1, <2>2 DEF Injection, IsInjective
<1>6. f \in Surjection(E, 1 .. n)
  BY <1>1, <1>3, <1>5, FS_Injection
<1>7. ASSUME NEW k \in 1 .. n PROVE \E i \in E : Rank(E, g, i) = k
  BY <1>4, <1>6 DEF Surjection
<1>8. ASSUME NEW k \in 1 .. n PROVE Nth(E, g, k) \in E /\ Rank(E, g, Nth(E, g, k)) = k
  BY <1>7, <1>8 DEF Nth
<1>9. ASSUME NEW i \in E PROVE Nth(E, g, Rank(E, g, i)) = i
  <2>1. PICK k : k = Rank(E, g, i)
    OBVIOUS
  <2>2. k \in 1 .. n
    BY <1>1, <2>1, RankType
  <2>3. Nth(E, g, k) \in E /\ Rank(E, g, Nth(E, g, k)) = Rank(E, g, i)
    BY <1>8, <2>1, <2>2
  <2>4. QED
    BY <2>1, <2>3, RankInjective
<1>10. QED
  BY <1>1, <1>8, <1>9

\* If the ranks of some of the slots change by d, so do their positions.
LEMMA NthMoves ==
  ASSUME NEW E \in SUBSET Slots, NEW g \in Slots, NEW F \in SUBSET Slots, NEW h \in Slots, NEW d \in Int,
         \A i \in F : i \in E /\ Rank(E, g, i) = Rank(F, h, i) + d,
         NEW k \in 1 .. Cardinality(F)
  PROVE  Nth(F, h, k) = Nth(E, g, k + d)
<1>1. PICK i : i = Nth(F, h, k)
  OBVIOUS
<1>2. i \in F /\ Rank(F, h, i) = k
  BY <1>1, NthIs
<1>3. i \in E /\ Rank(E, g, i) = k + d
  BY <1>2
<1>4. Nth(E, g, Rank(E, g, i)) = i
  BY <1>3, NthIs, ZenonT(60)
<1>5. QED
  BY <1>1, <1>3, <1>4

\* The entry at getix comes first, and is taken.
LEMMA RankTake ==
  ASSUME NEW E \in SUBSET Slots, NEW g \in E, NEW F, F = E \ {g}
  PROVE  /\ Rank(E, g, g) = 1
         /\ Cardinality(F) = Cardinality(E) - 1
         /\ \A i \in F : Rank(E, g, i) = Rank(F, RNGINC(g), i) + 1
<1>1. IsFiniteSet(E) /\ Cardinality(E) \in Nat /\ g \in Slots
  BY RankType
<1>2. Cardinality(F) = Cardinality(E) - 1
  BY <1>1, FS_RemoveElement
<1>3. Rank(E, g, g) = 1
  <2>1. {j \in E : OnTheWay(g, j, g)} = {g}
    BY <1>1, WayOrder, WayToHead
  <2>2. QED
    BY <2>1, FS_Singleton DEF Rank
<1>4. ASSUME NEW i \in F PROVE Rank(E, g, i) = Rank(F, RNGINC(g), i) + 1
  <2>1. PICK A, B : A = {j \in E : OnTheWay(g, j, i)} /\ B = {j \in F : OnTheWay(RNGINC(g), j, i)}
    OBVIOUS
  <2>2. OnTheWay(g, g, i)
    BY <1>1, SizeFact DEF OnTheWay, Slots
  <2>3. B = A \ {g} /\ g \in A
    BY <1>4, <2>1, <2>2, WaySame
  <2>4. IsFiniteSet(A) /\ Cardinality(A) \in Nat
    BY <1>1, <2>1, RankType DEF Rank
  <2>5. Cardinality(B) = Cardinality(A) - 1
    BY <2>3, <2>4, FS_RemoveElement
  <2>6. QED
    BY <2>1, <2>4, <2>5 DEF Rank
<1>5. QED
  BY <1>2, <1>3, <1>4

\* An entry of another subscription at getix is taken.
LEMMA RankSkip ==
  ASSUME NEW E \in SUBSET Slots, NEW g \in Slots, g \notin E
  PROVE  \A i \in E : Rank(E, g, i) = Rank(E, RNGINC(g), i)
<1>1. ASSUME NEW i \in E
      PROVE  {j \in E : OnTheWay(g, j, i)} = {j \in E : OnTheWay(RNGINC(g), j, i)}
  BY WaySame
<1>2. QED
  BY <1>1 DEF Rank

\* The entry behind all others has the last rank.
LEMMA RankLast ==
  ASSUME NEW E \in SUBSET Slots, NEW g, NEW p, \A i \in E : OnTheWay(g, i, p)
  PROVE  Rank(E, g, p) = Cardinality(E)
<1>1. {j \in E : OnTheWay(g, j, p)} = E
  OBVIOUS
<1>2. QED
  BY <1>1 DEF Rank

-----------------------------------------------------------------------------
(* The backlog *)

\* The logs of a ring: one for every slot, or none.
LogRing == [Slots -> Logs \cup {NoLog}]

\* The logs in order are a sequence, with one log per entry.
LEMMA OrderIsSeq ==
  ASSUME NEW E \in SUBSET Slots, NEW g \in Slots, NEW v \in LogRing
  PROVE  /\ InOrder(E, g, v) \in Seq(Logs \cup {NoLog})
         /\ Len(InOrder(E, g, v)) = Cardinality(E) /\ Cardinality(E) \in Nat
         /\ DOMAIN InOrder(E, g, v) = 1 .. Cardinality(E)
         /\ \A k \in 1 .. Cardinality(E) : InOrder(E, g, v)[k] = v[Nth(E, g, k)]
<1>1. PICK n, b : n = Cardinality(E) /\ b = [k \in 1 .. n |-> v[Nth(E, g, k)]]
  OBVIOUS
<1>2. n \in Nat
  BY <1>1, RankType
<1>3. ASSUME NEW k \in 1 .. n PROVE v[Nth(E, g, k)] \in Logs \cup {NoLog}
  <2>1. Nth(E, g, k) \in Slots
    BY <1>1, NthIs
  <2>2. QED
    BY <2>1 DEF LogRing
<1>4. b \in [1 .. n -> Logs \cup {NoLog}]
  BY <1>1, <1>3
<1>5. b \in Seq(Logs \cup {NoLog}) /\ Len(b) = n
  BY <1>2, <1>4
<1>6. b = InOrder(E, g, v)
  BY <1>1 DEF InOrder
<1>7. QED
  BY <1>1, <1>2, <1>5, <1>6

\* Two sequences with the same elements are equal.
LEMMA SameSeq ==
  ASSUME NEW S, NEW a \in Seq(S), NEW b \in Seq(S), Len(a) = Len(b),
         \A k \in 1 .. Len(a) : a[k] = b[k]
  PROVE  a = b
OBVIOUS

\* What happens to others leaves it alone.
LEMMA OrderSame ==
  ASSUME NEW E \in SUBSET Slots, NEW g \in Slots, NEW h, NEW v \in LogRing, NEW w \in LogRing,
         h = g \/ (h = RNGINC(g) /\ g \notin E), \A i \in E : w[i] = v[i]
  PROVE  InOrder(E, h, w) = InOrder(E, g, v)
<1>1. h \in Slots
  BY RNGINCType
<1>2. \A i \in E : i \in E /\ Rank(E, g, i) = Rank(E, h, i) + 0
  <2>1. \A i \in E : Rank(E, g, i) = Rank(E, h, i)
    BY RankSkip
  <2>2. \A i \in E : Rank(E, h, i) \in Nat
    BY <1>1, RankType
  <2>3. QED
    BY <2>1, <2>2
<1>3. ASSUME NEW k \in 1 .. Cardinality(E) PROVE w[Nth(E, h, k)] = v[Nth(E, g, k)]
  <2>1. Nth(E, h, k) = Nth(E, g, k + 0)
    BY <1>1, <1>2, NthMoves
  <2>2. k + 0 = k
    BY RankType
  <2>3. Nth(E, h, k) \in E
    BY <1>1, NthIs
  <2>4. QED
    BY <2>1, <2>2, <2>3
<1>4. QED
  BY <1>3 DEF InOrder

\* Its head is taken.
LEMMA OrderTake ==
  ASSUME NEW E \in SUBSET Slots, NEW g \in E,
         NEW v \in LogRing, NEW w \in LogRing, \A i \in E \ {g} : w[i] = v[i]
  PROVE  /\ InOrder(E, g, v) # <<>> /\ Head(InOrder(E, g, v)) = v[g]
         /\ InOrder(E \ {g}, RNGINC(g), w) = Tail(InOrder(E, g, v))
<1>0. PICK F, h : F = E \ {g} /\ h = RNGINC(g)
  OBVIOUS
<1>1. PICK a, b : a = InOrder(E, g, v) /\ b = InOrder(F, h, w)
  OBVIOUS
<1>2. PICK n : n = Cardinality(E)
  OBVIOUS
<1>3. g \in Slots /\ h \in Slots /\ F \in SUBSET Slots
  BY <1>0, RNGINCType
<1>4. /\ a \in Seq(Logs \cup {NoLog}) /\ Len(a) = n /\ n \in Nat
      /\ \A k \in 1 .. n : a[k] = v[Nth(E, g, k)]
  BY <1>0, <1>1, <1>2, <1>3, OrderIsSeq
<1>5. /\ b \in Seq(Logs \cup {NoLog}) /\ Len(b) = Cardinality(F)
      /\ \A k \in 1 .. Cardinality(F) : b[k] = w[Nth(F, h, k)]
  BY <1>0, <1>1, <1>3, OrderIsSeq
<1>6. /\ Rank(E, g, g) = 1 /\ Cardinality(F) = n - 1
      /\ \A i \in F : i \in E /\ Rank(E, g, i) = Rank(F, h, i) + 1
  BY <1>0, <1>2, RankTake
<1>7. n >= 1
  BY <1>0, <1>2, <1>3, <1>6, RankType
<1>8. Nth(E, g, 1) = g
  BY <1>0, <1>3, <1>6, NthIs
<1>9. a # <<>> /\ Head(a) = v[g]
  BY <1>0, <1>4, <1>7, <1>8
<1>10. ASSUME NEW k \in 1 .. n - 1 PROVE b[k] = a[k + 1]
  <2>1. k \in 1 .. Cardinality(F) /\ k + 1 \in 1 .. n
    BY <1>0, <1>4, <1>6
  <2>2. Nth(F, h, k) \in F
    BY <1>0, <1>3, <2>1, NthIs
  <2>3. Nth(F, h, k) = Nth(E, g, k + 1)
    BY <1>3, <1>6, <2>1, NthMoves
  <2>4. QED
    BY <1>0, <1>4, <1>5, <2>1, <2>2, <2>3
<1>11. b = Tail(a)
  <2>1. Tail(a) \in Seq(Logs \cup {NoLog}) /\ Len(Tail(a)) = n - 1
        /\ \A k \in 1 .. n - 1 : Tail(a)[k] = a[k + 1]
    BY <1>0, <1>4, <1>9
  <2>2. PICK c : c = Tail(a)
    OBVIOUS
  <2>3. \A k \in 1 .. Len(b) : b[k] = c[k]
    BY <1>0, <1>5, <1>6, <1>10, <2>1, <2>2
  <2>4. QED
    BY <1>0, <1>5, <1>6, <2>1, <2>2, <2>3, SameSeq
<1>12. QED
  BY <1>0, <1>1, <1>9, <1>11

\* A log is added behind the others.
LEMMA OrderAdd ==
  ASSUME NEW E \in SUBSET Slots, NEW g \in Slots, NEW p \in Slots, p \notin E,
         \A i \in E : OnTheWay(g, i, p),
         NEW v \in LogRing, NEW w \in LogRing, \A i \in E : w[i] = v[i]
  PROVE  InOrder(E \cup {p}, g, w) = Append(InOrder(E, g, v), w[p])
<1>0. PICK F : F = E \cup {p}
  OBVIOUS
<1>1. PICK a, b : a = InOrder(E, g, v) /\ b = InOrder(F, g, w)
  OBVIOUS
<1>2. PICK n : n = Cardinality(E)
  OBVIOUS
<1>3. /\ a \in Seq(Logs \cup {NoLog}) /\ Len(a) = n /\ n \in Nat
      /\ \A k \in 1 .. n : a[k] = v[Nth(E, g, k)]
  BY <1>0, <1>1, <1>2, OrderIsSeq
<1>4. /\ b \in Seq(Logs \cup {NoLog}) /\ Len(b) = Cardinality(F)
      /\ \A k \in 1 .. Cardinality(F) : b[k] = w[Nth(F, g, k)]
  BY <1>0, <1>1, OrderIsSeq
<1>5. /\ Rank(F, g, p) = n + 1 /\ Cardinality(F) = n + 1
      /\ \A i \in E : Rank(F, g, i) = Rank(E, g, i)
  <2>1. Cardinality(F) = n + 1
    BY <1>0, <1>2, RankType, FS_AddElement
  <2>2. \A i \in F : OnTheWay(g, i, p)
    BY <1>0, WayOrder
  <2>3. Rank(F, g, p) = n + 1
    BY <1>0, <2>1, <2>2, RankLast
  <2>4. ASSUME NEW i \in E PROVE Rank(F, g, i) = Rank(E, g, i)
    <3>1. ~OnTheWay(g, p, i)
      BY <1>0, <2>4, WayOrder
    <3>2. {j \in F : OnTheWay(g, j, i)} = {j \in E : OnTheWay(g, j, i)}
      BY <1>0, <3>1
    <3>3. QED
      BY <1>0, <3>2 DEF Rank
  <2>5. QED
    BY <1>0, <2>1, <2>3, <2>4
<1>6. b[n + 1] = w[p]
  <2>1. Nth(F, g, n + 1) = p
    BY <1>0, <1>5, NthIs
  <2>2. n + 1 \in 1 .. Cardinality(F)
    BY <1>0, <1>3, <1>5
  <2>3. QED
    BY <1>0, <1>4, <2>1, <2>2
<1>7. ASSUME NEW k \in 1 .. n PROVE b[k] = a[k]
  <2>1. \A i \in E : i \in F /\ Rank(F, g, i) = Rank(E, g, i) + 0
    <3>1. ASSUME NEW i \in E PROVE i \in F /\ Rank(F, g, i) = Rank(E, g, i) + 0
      <4>1. Rank(E, g, i) \in Nat /\ Rank(F, g, i) = Rank(E, g, i)
        BY <1>5, RankType
      <4> QED
        BY <1>0, <4>1
    <3> QED
      BY <3>1
  <2>2. k \in 1 .. Cardinality(E) /\ F \in SUBSET Slots
    BY <1>0, <1>2
  <2>5. Nth(E, g, k) \in E
    BY <1>0, <2>2, NthIs
  <2>6. Nth(E, g, k) = Nth(F, g, k + 0)
    BY <1>0, <2>1, <2>2, NthMoves
  <2>3. k + 0 = k /\ k \in 1 .. Cardinality(F)
    BY <1>0, <1>3, <1>5
  <2>4. QED
    BY <1>0, <1>3, <1>4, <2>5, <2>6, <2>3
<1>8. w[p] \in Logs \cup {NoLog}
  BY DEF LogRing
<1>9. Append(a, w[p]) \in Seq(Logs \cup {NoLog}) /\ Len(Append(a, w[p])) = n + 1
      /\ \A k \in 1 .. n + 1 : Append(a, w[p])[k] = IF k = n + 1 THEN w[p] ELSE a[k]
  BY <1>0, <1>3, <1>8
<1>10. \A k \in 1 .. n + 1 : b[k] = Append(a, w[p])[k]
  BY <1>0, <1>3, <1>6, <1>7, <1>9
<1>11. QED
  BY <1>0, <1>1, <1>4, <1>5, <1>9, <1>10, SameSeq, ZenonT(60)

\* The last log is replaced.
LEMMA OrderReplace ==
  ASSUME NEW E \in SUBSET Slots, NEW g \in Slots, NEW p \in E, \A i \in E : OnTheWay(g, i, p),
         NEW v \in LogRing, NEW w \in LogRing, \A i \in E \ {p} : w[i] = v[i]
  PROVE  /\ InOrder(E, g, v) # <<>>
         /\ InOrder(E, g, w) = [InOrder(E, g, v) EXCEPT ![Len(InOrder(E, g, v))] = w[p]]
<1>1. PICK a, b : a = InOrder(E, g, v) /\ b = InOrder(E, g, w)
  OBVIOUS
<1>2. PICK n : n = Cardinality(E)
  OBVIOUS
<1>3. /\ a \in Seq(Logs \cup {NoLog}) /\ Len(a) = n /\ n \in Nat
      /\ \A k \in 1 .. n : a[k] = v[Nth(E, g, k)]
  BY <1>1, <1>2, OrderIsSeq
<1>4. /\ b \in Seq(Logs \cup {NoLog}) /\ Len(b) = n
      /\ \A k \in 1 .. n : b[k] = w[Nth(E, g, k)]
  BY <1>1, <1>2, OrderIsSeq
<1>5. Rank(E, g, p) = n /\ n \in 1 .. n
  BY <1>2, RankLast, RankType
<1>6. Nth(E, g, n) = p
  BY <1>5, NthIs
<1>7. ASSUME NEW k \in 1 .. n PROVE b[k] = IF k = n THEN w[p] ELSE a[k]
  <2>1. Nth(E, g, k) \in E /\ Rank(E, g, Nth(E, g, k)) = k
    BY <1>2, NthIs
  <2>2. k # n => Nth(E, g, k) # p
    BY <1>5, <2>1
  <2>3. QED
    BY <1>3, <1>4, <1>6, <2>1, <2>2
<1>8. a # <<>>
  BY <1>3, <1>5
<1>9. b = [a EXCEPT ![n] = w[p]]
  BY <1>3, <1>4, <1>5, <1>7
<1>10. QED
  BY <1>1, <1>3, <1>8, <1>9

\* Without entries it is empty.
LEMMA OrderNone == ASSUME NEW g, NEW v PROVE InOrder({}, g, v) = <<>>
BY FS_EmptySet DEF InOrder

-----------------------------------------------------------------------------
(* Steps of Monitor, told one subscription at a time *)

\* the step is none of t's
Kept(t) ==
  /\ St'[t] = St[t] /\ Pend'[t] = Pend[t] /\ Busy'[t] = Busy[t] /\ Hand'[t] = Hand[t]
  /\ seen'[t] = seen[t]

\* f and g are functions of the subscriptions that differ at s at most, where g is v
Changed(f, g, s, v) ==
  /\ f = [t \in Subs |-> f[t]] /\ g = [t \in Subs |-> g[t]]
  /\ \A t \in Subs : g[t] = IF t = s THEN v ELSE f[t]

\* So g is f with s changed.
LEMMA ChangedIs ==
  ASSUME NEW f, NEW g, NEW s, NEW v, Changed(f, g, s, v)
  PROVE  g = [f EXCEPT ![s] = v]
<1>1. PICK h : h = [f EXCEPT ![s] = v]
  OBVIOUS
<1>2. h = [t \in Subs |-> h[t]] /\ \A t \in Subs : h[t] = IF t = s THEN v ELSE f[t]
  BY <1>1 DEF Changed
<1>3. \A t \in Subs : h[t] = g[t]
  BY <1>2 DEF Changed
<1>4. g = [t \in Subs |-> g[t]]
  BY DEF Changed
<1>5. QED
  BY <1>1, <1>2, <1>3, <1>4

\* Or f, when nothing changes at s.
LEMMA ChangedNot ==
  ASSUME NEW f, NEW g, NEW s, Changed(f, g, s, f[s])
  PROVE  g = f
<1>1. \A t \in Subs : g[t] = f[t]
  BY DEF Changed
<1>2. QED
  BY <1>1 DEF Changed

\* What the mapping is made of are functions of the subscriptions.
LEMMA MapFunctions ==
  ASSUME TypeOK
  PROVE  /\ St = [t \in Subs |-> St[t]] /\ Pend = [t \in Subs |-> Pend[t]]
         /\ Busy = [t \in Subs |-> Busy[t]] /\ Hand = [t \in Subs |-> Hand[t]]
         /\ seen = [t \in Subs |-> seen[t]]
<1>1. St = [t \in Subs |-> St[t]]
  BY DEF St
<1>2. Pend = [t \in Subs |-> Pend[t]]
  BY DEF Pend
<1>3. Busy = [t \in Subs |-> Busy[t]]
  BY DEF Busy
<1>4. Hand = [t \in Subs |-> Hand[t]]
  BY DEF Hand
<1>5. seen = [t \in Subs |-> seen[t]]
  BY DEF TypeOK, HistType
<1>6. QED
  BY <1>1, <1>2, <1>3, <1>4, <1>5

\* They still are after a step.
LEMMA MapPrimes ==
  ASSUME TypeOK'
  PROVE  /\ St' = [t \in Subs |-> St'[t]] /\ Pend' = [t \in Subs |-> Pend'[t]]
         /\ Busy' = [t \in Subs |-> Busy'[t]] /\ Hand' = [t \in Subs |-> Hand'[t]]
         /\ seen' = [t \in Subs |-> seen'[t]]
<1>1. St' = [t \in Subs |-> St'[t]]
  BY DEF St
<1>2. Pend' = [t \in Subs |-> Pend'[t]]
  BY DEF Pend
<1>3. Busy' = [t \in Subs |-> Busy'[t]]
  BY DEF Busy
<1>4. Hand' = [t \in Subs |-> Hand'[t]]
  BY DEF Hand
<1>5. seen' = [t \in Subs |-> seen'[t]]
  BY DEF TypeOK, HistType
<1>6. QED
  BY <1>1, <1>2, <1>3, <1>4, <1>5

\* A step of s alone, pointwise.
LEMMA OnlyOne ==
  ASSUME TypeOK, TypeOK', NEW s \in Subs, \A t \in Subs : t # s => Kept(t)
  PROVE  /\ Changed(St, St', s, St'[s]) /\ Changed(Pend, Pend', s, Pend'[s])
         /\ Changed(Busy, Busy', s, Busy'[s]) /\ Changed(Hand, Hand', s, Hand'[s])
         /\ Changed(seen, seen', s, seen'[s])
BY MapFunctions, MapPrimes DEF Kept, Changed

\* So the step is the one that changes these functions at s.
LEMMA OnlyOneIs ==
  ASSUME TypeOK, TypeOK', NEW s \in Subs, \A t \in Subs : t # s => Kept(t)
  PROVE  /\ St' = [St EXCEPT ![s] = St'[s]] /\ (St'[s] = St[s] => St' = St)
         /\ Pend' = [Pend EXCEPT ![s] = Pend'[s]] /\ (Pend'[s] = Pend[s] => Pend' = Pend)
         /\ Busy' = [Busy EXCEPT ![s] = Busy'[s]] /\ (Busy'[s] = Busy[s] => Busy' = Busy)
         /\ Hand' = [Hand EXCEPT ![s] = Hand'[s]] /\ (Hand'[s] = Hand[s] => Hand' = Hand)
         /\ seen' = [seen EXCEPT ![s] = seen'[s]] /\ (seen'[s] = seen[s] => seen' = seen)
<1>1. ASSUME NEW f, NEW g, NEW v, Changed(f, g, s, v), g[s] = v
      PROVE  g = [f EXCEPT ![s] = v] /\ (v = f[s] => g = f)
  BY <1>1, ChangedIs, ChangedNot
<1>2. QED
  BY <1>1, OnlyOne

\* Nobody's step is a stutter.
LEMMA MonitorStutters ==
  ASSUME TypeOK, TypeOK', \A t \in Subs : Kept(t) PROVE UNCHANGED M!mvars
<1>1. /\ St' = St /\ Pend' = Pend /\ Busy' = Busy /\ Hand' = Hand /\ seen' = seen
  BY MapFunctions, MapPrimes DEF Kept
<1>2. QED
  BY <1>1 DEF M!mvars

\* A closed subscription opens.
LEMMA MonitorOpens ==
  ASSUME TypeOK, TypeOK', NEW s \in Subs, \A t \in Subs : t # s => Kept(t),
         St[s] = "closed", St'[s] = "open", Pend'[s] = Pend[s], Busy'[s] = Busy[s],
         Hand'[s] = Hand[s], seen'[s] = seen[s]
  PROVE  M!MNext
<1>1. M!Open(s)
  BY OnlyOneIs DEF M!Open
<1>2. QED
  BY <1>1 DEF M!MNext

\* A log is appended to an open queue, or replaces its last one, unless it is the same.
LEMMA MonitorPosts ==
  ASSUME TypeOK, TypeOK', NEW s \in Subs, \A t \in Subs : t # s => Kept(t),
         NEW v \in (1 .. MaxVal) \cup {RecLog},
         St[s] = "open", St'[s] = St[s], Busy'[s] = Busy[s], Hand'[s] = Hand[s], seen'[s] = seen[s],
         \/ Pend'[s] = Append(Pend[s], v)
         \/ Pend[s] # <<>> /\ Pend'[s] = [Pend[s] EXCEPT ![Len(Pend[s])] = v]
  PROVE  [M!MNext]_(M!mvars)
<1>1. /\ St' = St /\ Busy' = Busy /\ Hand' = Hand /\ seen' = seen
      /\ Pend' = [Pend EXCEPT ![s] = Pend'[s]]
  BY OnlyOneIs
<1>2. CASE Pend' = Pend
  BY <1>1, <1>2 DEF M!mvars
<1>3. CASE Pend' # Pend /\ Pend'[s] = Append(Pend[s], v)
  <2>1. Pend' = [Pend EXCEPT ![s] = Append(Pend[s], v)]
    BY <1>1, <1>3
  <2>2. M!Post(s)
    BY <1>1, <1>3, <2>1 DEF M!Post
  <2>3. QED
    BY <2>2 DEF M!MNext
<1>4. CASE Pend' # Pend /\ Pend[s] # <<>> /\ Pend'[s] = [Pend[s] EXCEPT ![Len(Pend[s])] = v]
  <2>1. Pend' = [Pend EXCEPT ![s][Len(Pend[s])] = v]
    BY <1>1, <1>4
  <2>2. M!Post(s)
    BY <1>1, <1>4, <2>1 DEF M!Post
  <2>3. QED
    BY <2>2 DEF M!MNext
<1>5. QED
  BY <1>2, <1>3, <1>4

\* A callback takes the first log.
LEMMA MonitorStarts ==
  ASSUME TypeOK, TypeOK', NEW s \in Subs, \A t \in Subs : t # s => Kept(t),
         St[s] = "open", St'[s] = St[s], Pend[s] # <<>>, Busy[s] = FALSE, Busy'[s] = TRUE,
         Hand'[s] = Head(Pend[s]), Pend'[s] = Tail(Pend[s]), seen'[s] = seen[s]
  PROVE  M!MNext
<1>1. M!StartCallback(s)
  BY OnlyOneIs DEF M!StartCallback
<1>2. QED
  BY <1>1 DEF M!MNext

\* It reads the log it holds, or the record in its place.
LEMMA MonitorDelivers ==
  ASSUME TypeOK, TypeOK', NEW s \in Subs, \A t \in Subs : t # s => Kept(t),
         NEW v \in 1 .. MaxVal, Hand[s] \in {v, RecLog}, Hand[s] # NoLog,
         Busy[s] = TRUE, Busy'[s] = Busy[s], Hand'[s] = NoLog, seen'[s] = v, St'[s] = St[s],
         Pend'[s] = Pend[s]
  PROVE  M!MNext
<1>1. M!Deliver(s)
  BY OnlyOneIs DEF M!Deliver
<1>2. QED
  BY <1>1 DEF M!MNext

\* It returns.
LEMMA MonitorEnds ==
  ASSUME TypeOK, TypeOK', NEW s \in Subs, \A t \in Subs : t # s => Kept(t),
         Busy[s] = TRUE, Hand[s] = NoLog, Busy'[s] = FALSE, Hand'[s] = Hand[s], seen'[s] = seen[s],
         St'[s] = St[s], Pend'[s] = Pend[s]
  PROVE  M!MNext
<1>1. M!EndCallback(s)
  BY OnlyOneIs DEF M!EndCallback
<1>2. QED
  BY <1>1 DEF M!MNext

\* A cancel that finds a callback running empties the queue.
LEMMA MonitorDrains ==
  ASSUME TypeOK, TypeOK', NEW s \in Subs, \A t \in Subs : t # s => Kept(t),
         St[s] = "open", Busy[s] = TRUE, St'[s] = "draining", Pend'[s] = <<>>,
         Busy'[s] = Busy[s], Hand'[s] = Hand[s], seen'[s] = seen[s]
  PROVE  M!MNext
<1>1. M!Drain(s)
  BY OnlyOneIs DEF M!Drain
<1>2. QED
  BY <1>1 DEF M!MNext

\* A cancel ends.
LEMMA MonitorCloses ==
  ASSUME TypeOK, TypeOK', NEW s \in Subs, \A t \in Subs : t # s => Kept(t),
         St[s] # "closed", Busy[s] = TRUE => St[s] = "open" /\ Hand[s] = NoLog, Busy[s] \in BOOLEAN,
         St'[s] = "closed", Pend'[s] = <<>>, Busy'[s] = FALSE, seen'[s] = 0, Hand'[s] = Hand[s]
  PROVE  M!MNext
<1>1. M!Close(s)
  BY OnlyOneIs DEF M!Close
<1>2. QED
  BY <1>1 DEF M!MNext

-----------------------------------------------------------------------------
(* The mapping at one subscription *)

\* What the mapping says of s.
LEMMA MapAt ==
  ASSUME NEW s \in Subs
  PROVE  /\ St[s] = IF sub[s].st = "free" THEN "closed"
                    ELSE IF sub[s].user_sub THEN "open" ELSE "draining"
         /\ Pend[s] = Backlog(s) /\ Busy[s] = Running(s)
         /\ Hand[s] = IF InHand(s) THEN tlog ELSE NoLog
<1>1. Pend[s] = Backlog(s)
  BY DEF Pend
<1>2. Busy[s] = Running(s)
  BY DEF Busy
<1>3. Hand[s] = IF InHand(s) THEN tlog ELSE NoLog
  BY DEF Hand
<1>4. QED
  BY <1>1, <1>2, <1>3 DEF St

\* And what it says after the step.
LEMMA MapAtNext ==
  ASSUME NEW s \in Subs
  PROVE  /\ St'[s] = IF sub'[s].st = "free" THEN "closed"
                     ELSE IF sub'[s].user_sub THEN "open" ELSE "draining"
         /\ Pend'[s] = Backlog(s)' /\ Busy'[s] = Running(s)'
         /\ Hand'[s] = IF InHand(s)' THEN tlog' ELSE NoLog
<1>1. Pend'[s] = Backlog(s)'
  BY DEF Pend
<1>2. Busy'[s] = Running(s)'
  BY DEF Busy
<1>3. Hand'[s] = IF InHand(s)' THEN tlog' ELSE NoLog
  BY DEF Hand
<1>4. QED
  BY <1>1, <1>2, <1>3 DEF St

\* The backlog of s in ring q, by the slots of its entries.
LEMMA BacklogIs ==
  ASSUME TypeOK, NEW s \in Subs, NEW q, q = sub[s].que
  PROVE  /\ q \in Queues /\ getix[q] \in Slots /\ valque[q] \in LogRing
         /\ SlotsOf(evque[q], s) \in SUBSET Slots
         /\ Backlog(s) = InOrder(SlotsOf(evque[q], s), getix[q], valque[q])
<1>1. q \in Queues
  BY SubFields DEF TypeOK
<1>2. getix[q] \in Slots /\ valque[q] \in LogRing
  BY <1>1 DEF TypeOK, QueType, LogRing
<1>3. Entries(s) = SlotsOf(evque[q], s)
  BY DEF Entries, SlotsOf
<1>4. Backlog(s) = InOrder(SlotsOf(evque[q], s), getix[q], valque[q])
  BY <1>3 DEF Backlog
<1>5. QED
  BY <1>1, <1>2, <1>4 DEF SlotsOf

\* The same after the step.
LEMMA BacklogNext ==
  ASSUME TypeOK', NEW s \in Subs, NEW q, q = sub'[s].que
  PROVE  /\ q \in Queues /\ getix'[q] \in Slots /\ valque'[q] \in LogRing
         /\ SlotsOf(evque'[q], s) \in SUBSET Slots
         /\ Backlog(s)' = InOrder(SlotsOf(evque'[q], s), getix'[q], valque'[q])
<1>1. q \in Queues
  BY DEF TypeOK, SubRec
<1>2. getix'[q] \in Slots /\ valque'[q] \in LogRing
  BY <1>1 DEF TypeOK, QueType, LogRing
<1>3. Entries(s)' = SlotsOf(evque'[q], s)
  BY DEF Entries, SlotsOf
<1>4. Backlog(s)' = InOrder(SlotsOf(evque'[q], s), getix'[q], valque'[q])
  BY <1>3 DEF Backlog
<1>5. QED
  BY <1>1, <1>2, <1>4 DEF SlotsOf

\* A step leaves the queue of s alone; entries of others may be added, taken or cancelled.
SameQueue(s) ==
  LET q == sub[s].que
  IN /\ sub'[s].que = q
     /\ \A i \in Slots : evque'[q][i] = s <=> evque[q][i] = s
     /\ \A i \in Slots : evque[q][i] = s => valque'[q][i] = valque[q][i]
     /\ \/ getix'[q] = getix[q]
        \/ getix'[q] = RNGINC(getix[q]) /\ evque[q][getix[q]] # s

\* Then its backlog stays.
LEMMA SameBacklog ==
  ASSUME TypeOK, TypeOK', NEW s \in Subs, SameQueue(s)
  PROVE  Pend'[s] = Pend[s]
<1>1. PICK q : q = sub[s].que
  OBVIOUS
<1>2. /\ sub'[s].que = q
      /\ \A i \in Slots : evque'[q][i] = s <=> evque[q][i] = s
      /\ \A i \in Slots : evque[q][i] = s => valque'[q][i] = valque[q][i]
      /\ \/ getix'[q] = getix[q]
         \/ getix'[q] = RNGINC(getix[q]) /\ evque[q][getix[q]] # s
  BY <1>1 DEF SameQueue
<1>3. PICK E, g, h, v, w : /\ E = SlotsOf(evque[q], s) /\ g = getix[q] /\ h = getix'[q]
                           /\ v = valque[q] /\ w = valque'[q]
  OBVIOUS
<1>4. SlotsOf(evque'[q], s) = E
  BY <1>2, <1>3 DEF SlotsOf
<1>5. /\ E \in SUBSET Slots /\ g \in Slots /\ v \in LogRing /\ Backlog(s) = InOrder(E, g, v)
  BY <1>1, <1>3, BacklogIs
<1>6. w \in LogRing /\ Backlog(s)' = InOrder(E, h, w)
  BY <1>2, <1>3, <1>4, BacklogNext
<1>7. h = g \/ (h = RNGINC(g) /\ g \notin E)
  BY <1>2, <1>3 DEF SlotsOf
<1>8. \A i \in E : w[i] = v[i]
  BY <1>2, <1>3 DEF SlotsOf
<1>9. InOrder(E, h, w) = InOrder(E, g, v)
  BY <1>5, <1>6, <1>7, <1>8, OrderSame
<1>10. QED
  BY <1>5, <1>6, <1>9, MapAt, MapAtNext

\* A step shows s nothing new.
View(s) ==
  /\ SameQueue(s) /\ sub'[s].user_sub = sub[s].user_sub
  /\ sub'[s].st = "free" <=> sub[s].st = "free"
  /\ seen'[s] = seen[s] /\ Running(s)' = Running(s)
  /\ InHand(s)' = InHand(s) /\ (InHand(s) => tlog' = tlog)

\* Such a step is none of s's.
LEMMA ViewKept == ASSUME TypeOK, TypeOK', NEW s \in Subs, View(s) PROVE Kept(s)
<1>1. Pend'[s] = Pend[s]
  BY SameBacklog DEF View
<1>2. St'[s] = St[s] /\ Busy'[s] = Busy[s] /\ seen'[s] = seen[s]
  BY MapAt, MapAtNext DEF View
<1>3. Hand'[s] = Hand[s]
  BY MapAt, MapAtNext DEF View
<1>4. QED
  BY <1>1, <1>2, <1>3 DEF Kept

\* A subscription without entries has no backlog.
LEMMA NoBacklog ==
  ASSUME TypeOK, NEW s \in Subs, \A q \in Queues, i \in Slots : evque[q][i] # s
  PROVE  Pend[s] = <<>>
<1>1. PICK q : q = sub[s].que
  OBVIOUS
<1>2. q \in Queues /\ Backlog(s) = InOrder(SlotsOf(evque[q], s), getix[q], valque[q])
  BY <1>1, BacklogIs
<1>3. SlotsOf(evque[q], s) = {}
  BY <1>2 DEF SlotsOf
<1>4. QED
  BY <1>2, <1>3, OrderNone, MapAt

\* The same after the step.
LEMMA NoBacklogNext ==
  ASSUME TypeOK', NEW s \in Subs, \A q \in Queues, i \in Slots : evque'[q][i] # s
  PROVE  Pend'[s] = <<>>
<1>1. PICK q : q = sub'[s].que
  OBVIOUS
<1>2. q \in Queues /\ Backlog(s)' = InOrder(SlotsOf(evque'[q], s), getix'[q], valque'[q])
  BY <1>1, BacklogNext
<1>3. SlotsOf(evque'[q], s) = {}
  BY <1>2 DEF SlotsOf
<1>4. QED
  BY <1>2, <1>3, OrderNone, MapAtNext

-----------------------------------------------------------------------------
(* What the refinement needs beyond the invariants above *)

\* a queued entry has its log, and so has the callback that is to deliver it
LogsThere ==
  /\ \A q \in Queues, i \in Slots : evque[q][i] \in Subs => valque[q][i] # NoLog
  /\ tpc = "callback" => tlog # NoLog

\* user_sub is cleared by the purge, not before
PurgesOpen == \A c \in Clients : cpc[c] = "purge" => sub[csub[c]].user_sub

\* callBackInProgress is cleared when the callback ends
RunsIfMarked == \A s \in Subs : sub[s].callBackInProgress => Running(s)

\* Together: what the refinement needs.
Service == LogsThere /\ PurgesOpen /\ RunsIfMarked

\* Before the purge nobody else clears user_sub.
LEMMA PurgesFrame ==
  ASSUME TypeOK, PurgesOpen,
         \A c \in Clients : cpc'[c] = "purge" =>
           /\ cpc[c] = "purge" /\ csub'[c] = csub[c]
           /\ sub'[csub[c]].user_sub = sub[csub[c]].user_sub
  PROVE  PurgesOpen'
BY DEF PurgesOpen

\* The block that is released is not one that is about to be purged.
LEMMA PurgesRelease ==
  ASSUME TypeOK, Discipline, PurgesOpen, NEW s \in Subs, \A t \in Subs : t # s => sub'[t] = sub[t],
         \A c \in Clients : cpc'[c] = "purge" => /\ cpc[c] = "purge" /\ csub'[c] = csub[c]
                                                 /\ csub[c] # s
  PROVE  PurgesOpen'
BY DEF PurgesOpen, TypeOK, ClientType

\* A poster leaves the fields that the mapping uses alone.
LEMMA PosterMarks ==
  ASSUME TypeOK, NEW r \in Recs, PosterStep(r)
  PROVE  \A t \in Subs : /\ sub'[t].user_sub = sub[t].user_sub /\ sub'[t].st = sub[t].st
                         /\ sub'[t].callBackInProgress = sub[t].callBackInProgress
                         /\ sub'[t].que = sub[t].que
<1>1. CASE UNCHANGED sub
  BY <1>1
<1>2. ASSUME NEW s \in Subs, QueueAdd(s), sub' # sub
      PROVE  \A t \in Subs : /\ sub'[t].user_sub = sub[t].user_sub /\ sub'[t].st = sub[t].st
                             /\ sub'[t].callBackInProgress = sub[t].callBackInProgress
                             /\ sub'[t].que = sub[t].que
  <2>1. sub' = [sub EXCEPT ![s].npend = sub[s].npend + 1, ![s].pLastLog = putix[sub[s].que]]
    BY <1>2 DEF QueueAdd
  <2> QED
    BY <2>1 DEF TypeOK, SubRec
<1> QED
  BY <1>1, <1>2 DEF PosterStep, PostSignal, db_queue_event_log, QueueDuplicate, QueueReplace

\* Every step keeps that.
LEMMA PurgesNext ==
  ASSUME "cancelOther" \notin Ops, TypeOK, Discipline, PurgesOpen, [Next]_vars PROVE PurgesOpen'
<1>1. CASE UNCHANGED vars
  BY <1>1 DEF PurgesOpen, vars, cliVars
<1>2. CASE db_init_events \/ db_add_extra_labor_event \/ db_start_events
  BY <1>2 DEF PurgesOpen, db_init_events, db_add_extra_labor_event, db_start_events, callRest,
     taskRest, cliVars
<1>3. CASE TaskStep
  <2>1. UNCHANGED <<cpc, csub>>
    BY <1>3 DEF TaskStep, TaskWait, TaskWoken, TaskLabor, ReadEnter, SkipCanceled, BeginCallback,
       UserSub, Return, ReadDone, TaskNext, TaskExit, taskRest, cliVars
  <2>2. \A s \in Subs : sub'[s].user_sub = sub[s].user_sub
    <3>1. CASE BeginCallback
      BY <3>1 DEF BeginCallback, Removed, TypeOK, SubRec
    <3>2. CASE Return
      BY <3>2 DEF Return, TypeOK, SubRec
    <3>3. CASE UNCHANGED sub
      BY <3>3
    <3> QED
      BY <1>3, <3>1, <3>2, <3>3 DEF TaskStep, TaskWait, TaskWoken, TaskLabor, ReadEnter,
         SkipCanceled, UserSub, ReadDone, TaskNext, TaskExit
  <2> QED
    BY <2>1, <2>2 DEF PurgesOpen, TypeOK, ClientType
<1>4. ASSUME NEW s \in Subs, CancelInCallback(s) PROVE PurgesOpen'
  <2>1. UNCHANGED <<cpc, csub>> /\ sub[s].st = "live" /\ sub' = [sub EXCEPT ![s] = FreeSub]
    BY <1>4 DEF CancelInCallback, Release, cliVars
  <2>2. \A t \in Subs : t # s => sub'[t] = sub[t]
    BY <2>1 DEF TypeOK
  <2>3. \A c \in Clients : cpc[c] = "purge" => csub[c] # s
    BY <2>1 DEF Discipline, CancelsOwn
  <2> QED
    BY <2>1, <2>2, <2>3, PurgesRelease
<1>5. ASSUME NEW c \in Clients, Call(c) PROVE PurgesOpen'
  <2>1. ASSUME NEW s \in Subs, CancelDisable(c, s) PROVE PurgesOpen'
    <3>1. /\ sub' = [sub EXCEPT ![s].enabled = FALSE, ![s].st = "cancel"] /\ sub[s].st = "live"
          /\ cpc' = [cpc EXCEPT ![c] = "purge"] /\ csub' = [csub EXCEPT ![c] = s]
      BY <2>1 DEF CancelDisable, Owns
    <3>2. sub[s].user_sub /\ \A t \in Subs : sub'[t].user_sub = sub[t].user_sub
      BY <3>1 DEF Discipline, LiveSubs, TypeOK, SubRec
    <3> QED
      BY <3>1, <3>2 DEF PurgesOpen, TypeOK, ClientType
  <2>2. ASSUME NEW s \in Subs, NEW r \in Recs, db_add_event(c, s, r) PROVE PurgesOpen'
    <3>1. UNCHANGED <<cpc, csub>> /\ sub[s].st = "free" /\ \E n : sub' = [sub EXCEPT ![s] = n]
      BY <2>2 DEF db_add_event, taskRest, cliVars
    <3>2. \A t \in Subs : t # s => sub'[t] = sub[t]
      BY <3>1 DEF TypeOK
    <3>3. \A d \in Clients : cpc[d] = "purge" => csub[d] # s
      BY <3>1 DEF Discipline, CancelsOwn
    <3> QED
      BY <3>1, <3>2, <3>3, PurgesRelease
  <2>3. ASSUME NEW s \in Subs, db_event_enable(c, s) \/ db_event_disable(c, s) PROVE PurgesOpen'
    <3>1. UNCHANGED <<cpc, csub>> /\ \A t \in Subs : sub'[t].user_sub = sub[t].user_sub
      BY <2>3 DEF db_event_enable, db_event_disable, taskRest, cliVars, TypeOK, SubRec
    <3> QED
      BY <3>1 DEF PurgesOpen, TypeOK, ClientType
  <2>4. ASSUME UNCHANGED <<sub, csub>>, \A d \in Clients : cpc'[d] = "purge" => cpc[d] = "purge"
        PROVE PurgesOpen'
    BY <2>4 DEF PurgesOpen
  <2>5. CASE \/ TurnOffExtraLabor(c) \/ db_flush_extra_labor_event(c) \/ db_post_extra_labor(c)
             \/ db_close_events(c) \/ (\E on \in BOOLEAN : db_event_flow_ctrl_mode(c, on))
             \/ (\E s \in Subs : db_post_single_event(c, s))
    <3>1. UNCHANGED <<sub, csub>>
      BY <2>5 DEF TurnOffExtraLabor, db_flush_extra_labor_event, db_post_extra_labor,
         db_close_events, db_event_flow_ctrl_mode, db_post_single_event, callRest, cliVars
    <3>2. \A d \in Clients : cpc'[d] = "purge" => cpc[d] = "purge"
      BY <2>5 DEF TurnOffExtraLabor, db_flush_extra_labor_event, db_post_extra_labor,
         db_close_events, db_event_flow_ctrl_mode, db_post_single_event, cliVars, TypeOK, ClientType
    <3> QED
      BY <2>4, <3>1, <3>2
  <2> QED
    BY <1>5, <2>1, <2>2, <2>3, <2>5 DEF Call
<1>6. ASSUME NEW c \in Clients, ClientStep(c) PROVE PurgesOpen'
  <2>1. CASE ClientSignal(c) \/ CancelFlush(c) \/ CloseJoin(c)
    <3>1. /\ UNCHANGED <<sub, csub>>
          /\ \A d \in Clients : cpc'[d] = "purge" => cpc[d] = "purge"
      BY <2>1 DEF ClientSignal, CancelFlush, CloseJoin, callRest, TypeOK, ClientType
    <3> QED
      BY <3>1 DEF PurgesOpen
  <2>2. CASE CancelPurge(c) \/ CancelRecheck(c)
    <3>1. PICK s : s = csub[c]
      OBVIOUS
    <3>2. /\ s \in Subs /\ sub[s].owner = c
      BY <2>2, <3>1 DEF CancelPurge, CancelRecheck, TypeOK, ClientType, Discipline, CancelsOwn
    <3>3. \A t \in Subs : t # s => sub'[t] = sub[t]
      BY <2>2, <3>1 DEF CancelPurge, CancelRecheck, Release, PurgedSub, TypeOK
    <3>4. cpc'[c] # "purge" /\ \A d \in Clients : d # c => cpc'[d] = cpc[d] /\ csub'[d] = csub[d]
      BY <2>2 DEF CancelPurge, CancelRecheck, CancelReturns, TypeOK, ClientType
    <3>5. \A d \in Clients : d # c /\ cpc[d] = "purge" => csub[d] # s
      BY <3>2 DEF Discipline, CancelsOwn
    <3> QED
      BY <3>2, <3>3, <3>4, <3>5, PurgesRelease
  <2> QED
    BY <1>6, <2>1, <2>2 DEF ClientStep
<1>7. ASSUME NEW r \in Recs, db_post_events(r) PROVE PurgesOpen'
  BY <1>7 DEF db_post_events, PurgesOpen, cliVars
<1>8. ASSUME NEW r \in Recs, PosterStep(r) PROVE PurgesOpen'
  <2>1. csub' = csub /\ \A d \in Clients : cpc'[d] = "purge" => cpc[d] = "purge"
    BY <1>8 DEF PosterStep, PostSignal, db_queue_event_log, PosterContinues
  <2>2. \A t \in Subs : sub'[t].user_sub = sub[t].user_sub
    BY <1>8, PosterMarks
  <2> QED
    BY <2>1, <2>2 DEF PurgesOpen, TypeOK, ClientType
<1> QED
  BY <1>1, <1>2, <1>3, <1>4, <1>5, <1>6, <1>7, <1>8 DEF Next

-----------------------------------------------------------------------------
(* Steps that Monitor does not see *)

\* only positions, flags of the event_user and values of records change
Quiet ==
  /\ UNCHANGED <<evque, valque, getix, seen>>
  /\ \A s \in Subs : /\ sub'[s].que = sub[s].que /\ sub'[s].user_sub = sub[s].user_sub
                     /\ sub'[s].st = "free" <=> sub[s].st = "free"
                     /\ sub'[s].callBackInProgress = sub[s].callBackInProgress
  /\ \A s \in Subs : Running(s)' = Running(s) /\ InHand(s)' = InHand(s)
  /\ tpc = "callback" \/ tpc' = "callback" => tpc' = tpc /\ tlog' = tlog

\* A step of the refinement, with what the next one needs
Simulated == LogsThere' /\ RunsIfMarked' /\ [M!MNext]_(M!mvars)

\* Then nothing happens to any subscription.
LEMMA QuietKeeps == ASSUME TypeOK, TypeOK', LogsThere, RunsIfMarked, Quiet PROVE Simulated
<1>1. LogsThere'
  BY DEF Quiet, LogsThere
<1>2. RunsIfMarked'
  BY DEF Quiet, RunsIfMarked
<1>3. ASSUME NEW s \in Subs PROVE Kept(s)
  <2>1. View(s)
    BY DEF Quiet, View, SameQueue, InHand
  <2> QED
    BY <2>1, ViewKept
<1> QED
  BY <1>1, <1>2, <1>3, MonitorStutters DEF Simulated

\* A step that leaves the task's position alone leaves its callback alone.
LEMMA SameTask ==
  ASSUME UNCHANGED <<tpc, tsub, evUser.pSuicideEvent>>
  PROVE  \A s \in Subs : Running(s)' = Running(s) /\ InHand(s)' = InHand(s)
BY DEF Running, InHand

\* Between callbacks the task's steps are nobody's.
LEMMA TaskMoves_Sim ==
  ASSUME TypeOK, TypeOK', Discipline, LogsThere, RunsIfMarked,
         \/ db_add_extra_labor_event \/ db_start_events \/ TaskWait \/ TaskWoken
         \/ TaskLabor \/ ReadEnter \/ ReadDone \/ TaskNext \/ TaskExit
  PROVE  Simulated
<1>1. UNCHANGED <<evque, valque, getix, seen, sub>>
  BY DEF db_add_extra_labor_event, db_start_events, TaskWait, TaskWoken, TaskLabor, ReadEnter,
     ReadDone, TaskNext, TaskExit, callRest, taskRest, queVars, histVars
<1>2. evUser'.pSuicideEvent = evUser.pSuicideEvent /\ tsub' = tsub /\ tlog' = tlog
  BY DEF db_add_extra_labor_event, db_start_events, TaskWait, TaskWoken, TaskLabor, ReadEnter,
     ReadDone, TaskNext, TaskExit, callRest, taskVars, TypeOK, UserRec
<1>3. \/ tpc' = tpc
      \/ tpc \notin {"callback", "return"} /\ tpc' \notin {"callback", "return"}
  BY DEF db_add_extra_labor_event, db_start_events, TaskWait, TaskWoken, TaskLabor, ReadEnter,
     ReadDone, TaskNext, TaskExit, callRest, taskVars, Discipline, SuicideIsCurrent
<1>4. \A s \in Subs : Running(s)' = Running(s) /\ InHand(s)' = InHand(s)
  BY <1>2, <1>3 DEF Running, InHand
<1>5. Quiet
  BY <1>1, <1>2, <1>3, <1>4 DEF Quiet
<1> QED
  BY <1>5, QuietKeeps

\* So are the calls that only set flags or signal.
LEMMA Calls_Sim ==
  ASSUME TypeOK, TypeOK', LogsThere, RunsIfMarked, NEW c \in Clients,
         \/ TurnOffExtraLabor(c) \/ db_flush_extra_labor_event(c) \/ db_post_extra_labor(c)
         \/ db_close_events(c)
         \/ (\E on \in BOOLEAN : db_event_flow_ctrl_mode(c, on))
         \/ (\E s \in Subs : \/ db_post_single_event(c, s) \/ db_event_enable(c, s)
                             \/ db_event_disable(c, s) \/ CancelDisable(c, s))
         \/ ClientSignal(c) \/ CancelFlush(c) \/ CloseJoin(c)
  PROVE  Simulated
<1>1. UNCHANGED <<evque, valque, getix, seen, tpc, tsub, tlog>>
  BY DEF TurnOffExtraLabor, db_flush_extra_labor_event,
     db_post_extra_labor, db_close_events, db_event_flow_ctrl_mode, db_post_single_event,
     db_event_enable, db_event_disable, CancelDisable, ClientSignal, CancelFlush, CloseJoin,
     callRest, queVars, taskRest, histVars, taskVars
<1>2. evUser'.pSuicideEvent = evUser.pSuicideEvent
  BY DEF TurnOffExtraLabor, db_flush_extra_labor_event,
     db_post_extra_labor, db_close_events, db_event_flow_ctrl_mode, db_post_single_event,
     db_event_enable, db_event_disable, CancelDisable, ClientSignal, CancelFlush, CloseJoin,
     TypeOK, UserRec
<1>3. \A s \in Subs : /\ sub'[s].que = sub[s].que /\ sub'[s].user_sub = sub[s].user_sub
                      /\ sub'[s].st = "free" <=> sub[s].st = "free"
                      /\ sub'[s].callBackInProgress = sub[s].callBackInProgress
  <2>1. CASE UNCHANGED sub
    BY <2>1
  <2>2. ASSUME NEW s \in Subs,
               db_event_enable(c, s) \/ db_event_disable(c, s) \/ CancelDisable(c, s)
        PROVE  \A t \in Subs : /\ sub'[t].que = sub[t].que /\ sub'[t].user_sub = sub[t].user_sub
                               /\ sub'[t].st = "free" <=> sub[t].st = "free"
                               /\ sub'[t].callBackInProgress = sub[t].callBackInProgress
    BY <2>2 DEF db_event_enable, db_event_disable, CancelDisable, Owns, TypeOK, SubRec
  <2> QED
    BY <2>1, <2>2 DEF TurnOffExtraLabor, db_flush_extra_labor_event,
       db_post_extra_labor, db_close_events, db_event_flow_ctrl_mode, db_post_single_event,
       ClientSignal, CancelFlush, CloseJoin, callRest
<1>4. Quiet
  BY <1>1, <1>2, <1>3, SameTask DEF Quiet
<1> QED
  BY <1>4, QuietKeeps

\* And so are a poster's steps around its walk.
LEMMA Posts_Sim ==
  ASSUME TypeOK, TypeOK', LogsThere, RunsIfMarked,
         UNCHANGED vars \/ \E r \in Recs : db_post_events(r) \/ PostSignal(r)
  PROVE  Simulated
<1>1. UNCHANGED <<evque, valque, getix, seen, tpc, tsub, tlog, sub>>
  BY DEF vars, db_post_events, PostSignal, queVars, histVars, taskVars
<1>2. evUser'.pSuicideEvent = evUser.pSuicideEvent
  BY DEF vars, db_post_events, PostSignal, TypeOK, UserRec
<1>3. Quiet
  BY <1>1, <1>2, SameTask DEF Quiet
<1> QED
  BY <1>3, QuietKeeps

\* A closed event_user has no subscriptions.
LEMMA init_Sim ==
  ASSUME TypeOK, TypeOK', Discipline, Life, LogsThere, RunsIfMarked, db_init_events PROVE Simulated
<1>1. /\ UNCHANGED <<sub, seen>> /\ evUser.destroyed /\ tpc' = "none" /\ tlog' = NoLog
      /\ \A q \in Queues, i \in Slots : evque'[q][i] = Empty
  BY DEF db_init_events, EmptyRing
<1>2. tpc \in {"none", "done"} /\ \A s \in Subs : sub[s].st = "free"
  BY <1>1 DEF Life, UserLife, SubLife
<1>3. \A s \in Subs, q \in Queues, i \in Slots : evque[q][i] # s /\ evque'[q][i] # s
  BY <1>1, <1>2, NamesAssumption DEF Discipline, EntriesLive, Empty
<1>4. ASSUME NEW s \in Subs PROVE Kept(s)
  <2>1. Pend'[s] = Pend[s]
    BY <1>3, NoBacklog, NoBacklogNext
  <2>2. Running(s) = FALSE /\ Running(s)' = FALSE /\ InHand(s) = FALSE /\ InHand(s)' = FALSE
    BY <1>1, <1>2 DEF Running, InHand
  <2>3. St'[s] = St[s]
    BY <1>1, MapAt, MapAtNext
  <2>4. Busy[s] = FALSE /\ Busy'[s] = FALSE /\ Hand[s] = NoLog /\ Hand'[s] = NoLog
    BY <2>2, MapAt, MapAtNext
  <2> QED
    BY <1>1, <2>1, <2>3, <2>4 DEF Kept
<1>5. LogsThere'
  BY <1>1, <1>3 DEF LogsThere
<1>6. RunsIfMarked'
  <2>1. \A s \in Subs : Running(s) = FALSE
    BY <1>2 DEF Running
  <2> QED
    BY <1>1, <2>1 DEF RunsIfMarked
<1> QED
  BY <1>4, <1>5, <1>6, MonitorStutters DEF Simulated

\* db_add_event opens the subscription.
LEMMA Add_Sim ==
  ASSUME TypeOK, TypeOK', Discipline, LogsThere, RunsIfMarked, NEW c \in Clients, NEW s \in Subs,
         NEW r \in Recs, db_add_event(c, s, r)
  PROVE  Simulated
<1>1. /\ UNCHANGED <<evque, valque, getix, seen, tpc, tsub, tlog, evUser>>
      /\ sub[s].st = "free"
  BY DEF db_add_event, taskVars, taskRest, histVars
<1>2. PICK p \in Queues : sub' = [sub EXCEPT ![s] = NewSub(c, r, p)]
  BY DEF db_add_event
<1>3. \A t \in Subs : t # s => sub'[t] = sub[t]
  BY <1>2 DEF TypeOK
<1>4. sub'[s].st = "live" /\ sub'[s].user_sub /\ ~sub'[s].callBackInProgress
  BY <1>2 DEF NewSub, FreeSub, TypeOK
<1>5. \A t \in Subs : Running(t)' = Running(t) /\ InHand(t)' = InHand(t)
  BY <1>1, SameTask
<1>6. ASSUME NEW t \in Subs, t # s PROVE Kept(t)
  <2>1. View(t)
    BY <1>1, <1>3, <1>5, <1>6 DEF View, SameQueue
  <2> QED
    BY <2>1, ViewKept
<1>7. Pend'[s] = Pend[s]
  <2>1. \A q \in Queues, i \in Slots : evque[q][i] # s /\ evque'[q][i] # s
    BY <1>1 DEF Discipline, EntriesLive
  <2> QED
    BY <2>1, NoBacklog, NoBacklogNext
<1>8. St[s] = "closed" /\ St'[s] = "open" /\ Busy'[s] = Busy[s] /\ Hand'[s] = Hand[s]
  BY <1>1, <1>4, <1>5, MapAt, MapAtNext
<1>9. M!MNext
  BY <1>1, <1>6, <1>7, <1>8, MonitorOpens
<1>10. LogsThere'
  BY <1>1 DEF LogsThere
<1>11. RunsIfMarked'
  BY <1>3, <1>4, <1>5 DEF RunsIfMarked
<1> QED
  BY <1>9, <1>10, <1>11 DEF Simulated

-----------------------------------------------------------------------------
(* The steps of the poster and of the event task *)

\* A log is one of the values Monitor posts.
LEMMA LogRange ==
  ASSUME TypeOK, NEW s \in Subs
  PROVE  EventLog(s) \in (1 .. MaxVal) \cup {RecLog} /\ EventLog(s) # NoLog
<1>1. sub[s].rec \in Recs
  BY SubFields DEF TypeOK
<1>2. val[sub[s].rec] \in 1 .. MaxVal
  BY <1>1 DEF TypeOK, PostType
<1>3. \A k \in 1 .. MaxVal : k # NoLog
  BY ConstAssumption DEF NoLog
<1> QED
  BY <1>2, <1>3 DEF EventLog, RecLog, NoLog

\* db_queue_event_log posts: it adds a log or replaces the last one, or does nothing.
LEMMA Log_Sim ==
  ASSUME TypeOK, TypeOK', RingShape, Discipline, Fresh, LogsThere, RunsIfMarked, NEW r \in Recs,
         NEW s \in Subs, db_queue_event_log(r, s)
  PROVE  Simulated
<1>1. /\ UNCHANGED <<getix, tpc, tsub, tlog, evUser, seen>>
      /\ QueueDuplicate(s) \/ QueueReplace(s) \/ QueueAdd(s)
      /\ s \in post[r].todo /\ PosterStep(r)
  BY DEF db_queue_event_log, taskVars, PosterStep
<1>2. sub[s].st = "live" /\ sub[s].user_sub
  BY <1>1 DEF Discipline, PostersLive, LiveSubs
<1>3. \A t \in Subs : /\ sub'[t].user_sub = sub[t].user_sub /\ sub'[t].st = sub[t].st
                      /\ sub'[t].callBackInProgress = sub[t].callBackInProgress
                      /\ sub'[t].que = sub[t].que
  BY <1>1, PosterMarks
<1>4. \A t \in Subs : Running(t)' = Running(t) /\ InHand(t)' = InHand(t)
  BY <1>1, SameTask
<1>5. RunsIfMarked'
  BY <1>3, <1>4 DEF RunsIfMarked
<1>6. PICK q, l, g, x : q = sub[s].que /\ l = sub[s].pLastLog /\ g = getix[q] /\ x = EventLog(s)
  OBVIOUS
<1>7. q \in Queues /\ g \in Slots /\ x \in (1 .. MaxVal) \cup {RecLog} /\ x # NoLog
  BY <1>6, SubFields, LogRange DEF TypeOK, QueType
<1>8. PICK E, v, w : E = SlotsOf(evque[q], s) /\ v = valque[q] /\ w = valque'[q]
  OBVIOUS
<1>9. /\ E \in SUBSET Slots /\ v \in LogRing /\ Pend[s] = InOrder(E, g, v)
  BY <1>6, <1>8, BacklogIs, MapAt
<1>10. /\ w \in LogRing /\ Pend'[s] = InOrder(SlotsOf(evque'[q], s), g, w)
  BY <1>1, <1>3, <1>6, <1>8, BacklogNext, MapAtNext
<1>11. St[s] = "open" /\ St'[s] = St[s] /\ Busy'[s] = Busy[s] /\ Hand'[s] = Hand[s]
  BY <1>1, <1>2, <1>3, <1>4, MapAt, MapAtNext
<1>12. CASE UNCHANGED <<evque, valque>>
  <2>1. \A t \in Subs : sub'[t].st = "free" <=> sub[t].st = "free"
    BY <1>3
  <2>2. Quiet
    BY <1>1, <1>3, <1>4, <1>12, <2>1 DEF Quiet
  <2> QED
    BY <2>2, QuietKeeps
<1>13. CASE QueueReplace(s)
  <2>1. /\ UNCHANGED evque /\ sub[s].npend > 0
        /\ valque' = [valque EXCEPT ![q][l] = x]
    BY <1>6, <1>13 DEF QueueReplace, ReplaceLast
  <2>2. /\ l \in Slots /\ evque[q][l] = s
        /\ \A i \in Slots : evque[q][i] = s => OnTheWay(g, i, l)
    BY <1>2, <1>6, <2>1 DEF Fresh, UpToDate, LastIsLatest
  <2>3. /\ valque'[q][l] = x
        /\ \A p \in Queues, i \in Slots : ~(p = q /\ i = l) => valque'[p][i] = valque[p][i]
    BY <1>7, <2>1, <2>2 DEF TypeOK, QueType
  <2>4. ASSUME NEW t \in Subs, t # s PROVE Kept(t)
    <3>1. sub[t].que \in Queues
      BY SubFields DEF TypeOK
    <3>2. \A i \in Slots : evque[sub[t].que][i] = t => valque'[sub[t].que][i] = valque[sub[t].que][i]
      BY <2>2, <2>3, <2>4, <3>1
    <3>3. SameQueue(t)
      BY <1>1, <1>3, <2>1, <3>2 DEF SameQueue
    <3>4. View(t)
      BY <1>1, <1>3, <1>4, <3>3 DEF View
    <3> QED
      BY <3>4, ViewKept
  <2>5. Pend[s] # <<>> /\ Pend'[s] = [Pend[s] EXCEPT ![Len(Pend[s])] = x]
    <3>1. l \in E /\ \A i \in E : OnTheWay(g, i, l)
      BY <1>8, <2>2 DEF SlotsOf
    <3>2. \A i \in E \ {l} : w[i] = v[i]
      BY <1>7, <1>8, <1>9, <2>3
    <3>3. w[l] = x /\ SlotsOf(evque'[q], s) = E
      BY <1>8, <2>1, <2>3
    <3>5. /\ E \in SUBSET Slots /\ g \in Slots /\ l \in E /\ v \in LogRing /\ w \in LogRing
          /\ \A i \in E : OnTheWay(g, i, l)
          /\ \A i \in E \ {l} : w[i] = v[i]
      BY <1>7, <1>9, <1>10, <3>1, <3>2
    <3>4. /\ InOrder(E, g, v) # <<>>
          /\ InOrder(E, g, w) = [InOrder(E, g, v) EXCEPT ![Len(InOrder(E, g, v))] = w[l]]
      BY <3>5, OrderReplace
    <3> QED
      BY <1>9, <1>10, <3>3, <3>4
  <2>6. [M!MNext]_(M!mvars)
    BY <1>1, <1>7, <1>11, <2>4, <2>5, MonitorPosts
  <2>7. LogsThere'
    BY <1>1, <1>7, <2>1, <2>3 DEF LogsThere
  <2> QED
    BY <1>5, <2>6, <2>7 DEF Simulated
<1>14. CASE QueueAdd(s) /\ ~UNCHANGED <<evque, valque>>
  <2>1. PICK i : i = putix[q]
    OBVIOUS
  <2>2. /\ evque[q][i] = Empty /\ i \in Slots /\ s # Empty
        /\ evque' = [evque EXCEPT ![q][i] = s]
        /\ valque' = [valque EXCEPT ![q][i] = x]
    BY <1>6, <1>7, <1>14, <2>1, NamesAssumption DEF QueueAdd, TypeOK, QueType, Empty
  <2>3. /\ evque'[q][i] = s /\ valque'[q][i] = x
        /\ \A p \in Queues, j \in Slots : ~(p = q /\ j = i) =>
             evque'[p][j] = evque[p][j] /\ valque'[p][j] = valque[p][j]
    BY <1>7, <2>2 DEF TypeOK, QueType
  <2>4. ASSUME NEW t \in Subs, t # s PROVE Kept(t)
    <3>1. sub[t].que \in Queues /\ t # Empty
      BY SubFields, NamesAssumption DEF TypeOK, Empty
    <3>2. \A j \in Slots : /\ evque'[sub[t].que][j] = t <=> evque[sub[t].que][j] = t
                           /\ evque[sub[t].que][j] = t => valque'[sub[t].que][j] = valque[sub[t].que][j]
      BY <2>2, <2>3, <2>4, <3>1
    <3>3. SameQueue(t)
      BY <1>1, <1>3, <3>2 DEF SameQueue
    <3>4. View(t)
      BY <1>1, <1>3, <1>4, <3>3 DEF View
    <3> QED
      BY <3>4, ViewKept
  <2>5. Pend'[s] = Append(Pend[s], x)
    <3>1. i \notin E
      BY <1>8, <2>2 DEF SlotsOf
    <3>2. \A j \in E : OnTheWay(g, j, i)
      <4>1. Contiguous(evque[q], g, i)
        BY <1>6, <1>7, <2>1 DEF RingShape
      <4>2. \A j \in E : j \in Slots /\ evque[q][j] # Empty
        BY <1>8, <2>2 DEF SlotsOf
      <4> QED
        BY <1>7, <2>2, <4>1, <4>2, BeforePut
    <3>3. SlotsOf(evque'[q], s) = E \cup {i}
      BY <1>7, <1>8, <2>2, <2>3 DEF SlotsOf
    <3>4. \A j \in E : w[j] = v[j]
      BY <1>7, <1>8, <1>9, <2>3, <3>1
    <3>5. w[i] = x
      BY <1>8, <2>3
    <3>6. /\ E \in SUBSET Slots /\ g \in Slots /\ i \in Slots /\ v \in LogRing /\ w \in LogRing
          /\ i \notin E /\ \A j \in E : OnTheWay(g, j, i)
          /\ \A j \in E : w[j] = v[j]
      BY <1>7, <1>9, <1>10, <2>2, <3>1, <3>2, <3>4
    <3>7. InOrder(E \cup {i}, g, w) = Append(InOrder(E, g, v), w[i])
      BY <3>6, OrderAdd, ZenonT(60)
    <3> QED
      BY <1>9, <1>10, <3>3, <3>5, <3>7
  <2>6. [M!MNext]_(M!mvars)
    BY <1>1, <1>7, <1>11, <2>4, <2>5, MonitorPosts
  <2>7. LogsThere'
    BY <1>1, <1>7, <2>3 DEF LogsThere
  <2> QED
    BY <1>5, <2>6, <2>7 DEF Simulated
<1> QED
  BY <1>1, <1>12, <1>13, <1>14 DEF QueueDuplicate

\* Taking the entry at getix leaves the logs of the others in place.
LEMMA TakeLogs ==
  ASSUME TypeOK, LogsThere, NEW p \in Queues, TakeHead(p)
  PROVE  \A q \in Queues, i \in Slots : evque'[q][i] \in Subs => valque'[q][i] # NoLog
<1>1. Empty \notin Subs /\ getix[p] \in Slots
  BY NamesAssumption DEF Empty, TypeOK, QueType
<1>2. /\ evque' = [evque EXCEPT ![p][getix[p]] = Empty]
      /\ valque' = [valque EXCEPT ![p][getix[p]] = NoLog]
  BY DEF TakeHead
<1>3. /\ evque'[p][getix[p]] = Empty
      /\ \A q \in Queues, j \in Slots : ~(q = p /\ j = getix[p]) =>
           evque'[q][j] = evque[q][j] /\ valque'[q][j] = valque[q][j]
  BY <1>1, <1>2 DEF TypeOK, QueType
<1> QED
  BY <1>1, <1>3 DEF LogsThere

\* A placeholder is nobody's.
LEMMA Skip_Sim ==
  ASSUME TypeOK, TypeOK', LogsThere, RunsIfMarked, SkipCanceled PROVE Simulated
<1>1. /\ UNCHANGED <<sub, tpc, tsub, tlog, evUser, seen>> /\ TakeHead(tq)
      /\ evque[tq][getix[tq]] = Canceled /\ tq \in Queues /\ tpc = "loop"
  BY DEF SkipCanceled, HeadEntry, taskVars, histVars, TypeOK, TaskType
<1>2. \A s \in Subs : Running(s)' = Running(s) /\ InHand(s)' = InHand(s)
  BY <1>1, SameTask
<1>3. ASSUME NEW t \in Subs PROVE Kept(t)
  <2>1. sub[t].que \in Queues /\ t # Canceled
    BY SubFields, NamesAssumption DEF TypeOK, Canceled
  <2>2. PICK q : q = sub[t].que
    OBVIOUS
  <2>3. /\ \A j \in Slots : evque'[q][j] = t <=> evque[q][j] = t
        /\ \A j \in Slots : evque[q][j] = t => valque'[q][j] = valque[q][j]
        /\ \/ getix'[q] = getix[q]
           \/ getix'[q] = RNGINC(getix[q]) /\ evque[q][getix[q]] # t
    BY <1>1, <2>1, <2>2, TakeOthers
  <2>4. SameQueue(t)
    BY <1>1, <2>2, <2>3 DEF SameQueue
  <2>5. View(t)
    BY <1>1, <1>2, <2>4 DEF View
  <2> QED
    BY <2>5, ViewKept
<1>4. LogsThere'
  BY <1>1, TakeLogs DEF LogsThere
<1>5. RunsIfMarked'
  BY <1>1, <1>2 DEF RunsIfMarked
<1> QED
  BY <1>3, <1>4, <1>5, MonitorStutters DEF Simulated

\* The event task takes the first log of s and calls its callback.
LEMMA Begin_Sim ==
  ASSUME TypeOK, TypeOK', Discipline, LogsThere, RunsIfMarked, BeginCallback PROVE Simulated
<1>1. PICK q, g, s : q = tq /\ g = getix[q] /\ s = evque[q][g]
  OBVIOUS
<1>2. s \in Subs /\ q \in Queues /\ g \in Slots
  BY <1>1 DEF BeginCallback, HeadEntry, TypeOK, QueType, TaskType
<1>3. sub[s].que = q /\ sub[s].user_sub /\ sub[s].st # "free"
  BY <1>1, <1>2 DEF Discipline, EntriesLive
<1>4. /\ tpc = "loop" /\ tpc' = "callback" /\ tsub' = s /\ tlog' = valque[q][g] /\ TakeHead(q)
      /\ sub' = [Removed(s) EXCEPT ![s].callBackInProgress = TRUE]
      /\ UNCHANGED <<seen, evUser>>
  BY <1>1, <1>3 DEF BeginCallback, HeadEntry, histVars
<1>5. /\ sub'[s].st = sub[s].st /\ sub'[s].user_sub = sub[s].user_sub /\ sub'[s].que = q
      /\ \A t \in Subs : t # s => sub'[t] = sub[t]
  BY <1>2, <1>3, <1>4 DEF Removed, TypeOK, SubRec
<1>6. /\ \A t \in Subs : Running(t) = FALSE /\ InHand(t) = FALSE
      /\ \A t \in Subs : t # s => Running(t)' = FALSE /\ InHand(t)' = FALSE
      /\ Running(s)' = TRUE /\ InHand(s)' = TRUE
  BY <1>4 DEF Running, InHand
<1>7. ASSUME NEW t \in Subs, t # s PROVE Kept(t)
  <2>1. sub[t].que \in Queues
    BY SubFields DEF TypeOK
  <2>2. PICK p : p = sub[t].que
    OBVIOUS
  <2>3. /\ \A j \in Slots : evque'[p][j] = t <=> evque[p][j] = t
        /\ \A j \in Slots : evque[p][j] = t => valque'[p][j] = valque[p][j]
        /\ \/ getix'[p] = getix[p]
           \/ getix'[p] = RNGINC(getix[p]) /\ evque[p][getix[p]] # t
    BY <1>1, <1>2, <1>4, <1>7, <2>1, <2>2, TakeOthers
  <2>4. SameQueue(t)
    BY <1>5, <1>7, <2>2, <2>3 DEF SameQueue
  <2>5. View(t)
    BY <1>4, <1>5, <1>6, <1>7, <2>4 DEF View
  <2> QED
    BY <2>5, ViewKept
<1>8. PICK E, v, w : E = SlotsOf(evque[q], s) /\ v = valque[q] /\ w = valque'[q]
  OBVIOUS
<1>9. E \in SUBSET Slots /\ v \in LogRing /\ Pend[s] = InOrder(E, g, v)
  BY <1>1, <1>2, <1>3, <1>8, BacklogIs, MapAt
<1>10. w \in LogRing /\ Pend'[s] = InOrder(SlotsOf(evque'[q], s), getix'[q], w)
  BY <1>2, <1>5, <1>8, BacklogNext, MapAtNext
<1>11. /\ getix'[q] = RNGINC(g) /\ s # Empty
       /\ \A j \in Slots : evque'[q][j] = IF j = g THEN Empty ELSE evque[q][j]
       /\ \A j \in Slots : j # g => valque'[q][j] = valque[q][j]
  BY <1>1, <1>2, <1>4, NamesAssumption DEF TakeHead, TypeOK, QueType, Empty
<1>12. Pend[s] # <<>> /\ Head(Pend[s]) = v[g] /\ Pend'[s] = Tail(Pend[s])
  <2>1. g \in E
    BY <1>1, <1>2, <1>8 DEF SlotsOf
  <2>2. SlotsOf(evque'[q], s) = E \ {g}
    BY <1>8, <1>11 DEF SlotsOf
  <2>3. \A j \in E \ {g} : w[j] = v[j]
    BY <1>8, <1>9, <1>11
  <2>4. /\ E \in SUBSET Slots /\ g \in E /\ v \in LogRing /\ w \in LogRing
        /\ \A j \in E \ {g} : w[j] = v[j]
    BY <1>9, <1>10, <2>1, <2>3
  <2>5. /\ InOrder(E, g, v) # <<>> /\ Head(InOrder(E, g, v)) = v[g]
        /\ InOrder(E \ {g}, RNGINC(g), w) = Tail(InOrder(E, g, v))
    <3>1. InOrder(E, g, v) # <<>> /\ Head(InOrder(E, g, v)) = v[g]
      BY <2>4, OrderTake
    <3>2. InOrder(E \ {g}, RNGINC(g), w) = Tail(InOrder(E, g, v))
      BY <2>4, OrderTake, ZenonT(60)
    <3> QED
      BY <3>1, <3>2
  <2> QED
    BY <1>9, <1>10, <1>11, <2>2, <2>5
<1>13. /\ St[s] = "open" /\ St'[s] = St[s] /\ Busy[s] = FALSE /\ Busy'[s] = TRUE
       /\ Hand'[s] = v[g] /\ seen'[s] = seen[s]
  BY <1>2, <1>3, <1>4, <1>5, <1>6, <1>8, MapAt, MapAtNext
<1>14. M!MNext
  BY <1>2, <1>7, <1>12, <1>13, MonitorStarts
<1>15. LogsThere'
  <2>1. tlog' # NoLog
    BY <1>1, <1>2, <1>4 DEF LogsThere
  <2> QED
    BY <1>2, <1>4, <2>1, TakeLogs DEF LogsThere
<1>16. RunsIfMarked'
  BY <1>5, <1>6 DEF RunsIfMarked
<1> QED
  BY <1>14, <1>15, <1>16 DEF Simulated

\* The callback delivers.
LEMMA UserSub_Sim ==
  ASSUME TypeOK, TypeOK', Discipline, LogsThere, RunsIfMarked, UserSub PROVE Simulated
<1>1. PICK s, r, v : s = tsub /\ r = sub[s].rec /\ v = IF tlog = RecLog THEN val[r] ELSE tlog
  OBVIOUS
<1>2. /\ s \in Subs /\ tpc = "callback" /\ tpc' = "return" /\ tsub' = s /\ tlog' = NoLog
      /\ seen' = [seen EXCEPT ![s] = v]
      /\ UNCHANGED <<evque, valque, getix, sub, evUser>>
  BY <1>1 DEF UserSub, TypeOK, TaskType, queVars
<1>3. v \in 1 .. MaxVal /\ tlog \in {v, RecLog} /\ tlog # NoLog
  <2>1. r \in Recs
    BY <1>1, <1>2, SubFields DEF TypeOK
  <2>2. val[r] \in 1 .. MaxVal /\ tlog \in Logs \cup {NoLog} /\ tlog # NoLog
    BY <1>2, <2>1 DEF TypeOK, PostType, TaskType, LogsThere
  <2> QED
    BY <1>1, <2>2, ConstAssumption DEF Logs, RecLog, NoLog
<1>4. evUser.pSuicideEvent = NoSub /\ s # NoSub
  BY <1>2, NamesAssumption DEF Discipline, SuicideIsCurrent, NoSub
<1>5. /\ Running(s) = TRUE /\ Running(s)' = TRUE /\ InHand(s) = TRUE /\ InHand(s)' = FALSE
      /\ \A t \in Subs : t # s => /\ Running(t) = FALSE /\ Running(t)' = FALSE
                                  /\ InHand(t) = FALSE /\ InHand(t)' = FALSE
  BY <1>1, <1>2, <1>4 DEF Running, InHand
<1>6. seen'[s] = v /\ \A t \in Subs : t # s => seen'[t] = seen[t]
  BY <1>2 DEF TypeOK, HistType
<1>7. \A t \in Subs : SameQueue(t)
  BY <1>2 DEF SameQueue
<1>8. ASSUME NEW t \in Subs, t # s PROVE Kept(t)
  <2>1. View(t)
    BY <1>2, <1>5, <1>6, <1>7, <1>8 DEF View
  <2> QED
    BY <2>1, ViewKept
<1>9. /\ Busy[s] = TRUE /\ Busy'[s] = Busy[s] /\ Hand[s] = tlog /\ Hand'[s] = NoLog
      /\ St'[s] = St[s] /\ Pend'[s] = Pend[s]
  BY <1>2, <1>5, <1>7, MapAt, MapAtNext, SameBacklog
<1>10. M!MNext
  BY <1>2, <1>3, <1>6, <1>8, <1>9, MonitorDelivers
<1>11. LogsThere'
  BY <1>2 DEF LogsThere
<1>12. RunsIfMarked'
  BY <1>2, <1>5 DEF RunsIfMarked
<1> QED
  BY <1>10, <1>11, <1>12 DEF Simulated

\* The callback returns, unless its subscription is gone.
LEMMA Return_Sim ==
  ASSUME TypeOK, TypeOK', Discipline, LogsThere, RunsIfMarked, Return PROVE Simulated
<1>1. PICK s : s = tsub
  OBVIOUS
<1>2. /\ s \in Subs /\ tpc = "return" /\ tpc' = "loop" /\ tlog' = tlog
      /\ UNCHANGED <<evque, valque, getix, seen>>
  BY <1>1 DEF Return, TypeOK, TaskType, queVars, taskRest, histVars
<1>3. \A t \in Subs : /\ sub'[t].st = sub[t].st /\ sub'[t].user_sub = sub[t].user_sub
                      /\ sub'[t].que = sub[t].que
                      /\ t # s => sub'[t] = sub[t]
  BY <1>1 DEF Return, TypeOK, SubRec
<1>4. /\ \A t \in Subs : Running(t)' = FALSE /\ InHand(t)' = FALSE /\ InHand(t) = FALSE
      /\ \A t \in Subs : t # s => Running(t) = FALSE
  BY <1>1, <1>2 DEF Running, InHand
<1>5. \A t \in Subs : SameQueue(t)
  BY <1>2, <1>3 DEF SameQueue
<1>6. ASSUME NEW t \in Subs, Running(t) = FALSE PROVE Kept(t)
  <2>1. View(t)
    BY <1>2, <1>3, <1>4, <1>5, <1>6 DEF View
  <2> QED
    BY <2>1, ViewKept
<1>7. LogsThere'
  BY <1>2 DEF LogsThere
<1>8. RunsIfMarked'
  <2>1. ASSUME NEW t \in Subs, t # s PROVE ~sub'[t].callBackInProgress
    BY <1>3, <1>4, <2>1 DEF RunsIfMarked
  <2>2. ~sub'[s].callBackInProgress
    <3>1. CASE evUser.pSuicideEvent = s
      <4>1. sub' = sub /\ ~Running(s)
        BY <1>1, <3>1 DEF Return, Running
      <4> QED
        BY <1>2, <4>1 DEF RunsIfMarked
    <3>2. CASE evUser.pSuicideEvent # s
      <4>1. sub' = [sub EXCEPT ![s].callBackInProgress = FALSE]
        BY <1>1, <3>2 DEF Return
      <4> QED
        BY <1>2, <4>1 DEF TypeOK, SubRec
    <3> QED
      BY <3>1, <3>2
  <2> QED
    BY <2>1, <2>2 DEF RunsIfMarked
<1>9. CASE Running(s) = FALSE
  <2>1. \A t \in Subs : Kept(t)
    BY <1>4, <1>6, <1>9
  <2> QED
    BY <1>7, <1>8, <2>1, MonitorStutters DEF Simulated
<1>10. CASE Running(s) = TRUE
  <2>1. /\ Busy[s] = TRUE /\ Hand[s] = NoLog /\ Busy'[s] = FALSE /\ Hand'[s] = Hand[s]
        /\ St'[s] = St[s] /\ Pend'[s] = Pend[s]
    BY <1>2, <1>3, <1>4, <1>5, <1>10, MapAt, MapAtNext, SameBacklog
  <2>2. \A t \in Subs : t # s => Kept(t)
    BY <1>4, <1>6
  <2>3. M!MNext
    BY <1>2, <2>1, <2>2, MonitorEnds
  <2> QED
    BY <1>7, <1>8, <2>3 DEF Simulated
<1>11. Running(s) \in BOOLEAN
  BY DEF Running
<1> QED
  BY <1>9, <1>10, <1>11

-----------------------------------------------------------------------------
(* The steps of db_cancel_event *)

\* They are steps of the subscription that is cancelled alone.
LEMMA CancelOthers ==
  ASSUME TypeOK, TypeOK', NEW s \in Subs,
         PurgeQueue(sub[s].que, s) \/ UNCHANGED <<evque, valque>>, UNCHANGED <<getix, tlog>>,
         \A t \in Subs : t # s => /\ sub'[t] = sub[t] /\ seen'[t] = seen[t]
                                  /\ Running(t)' = Running(t) /\ InHand(t)' = InHand(t)
  PROVE  \A t \in Subs : t # s => Kept(t)
<1> SUFFICES ASSUME NEW t \in Subs, t # s PROVE Kept(t)
  OBVIOUS
<1>1. sub[t].que \in Queues /\ sub[s].que \in Queues
  BY SubFields DEF TypeOK
<1>2. \A i \in Slots : /\ evque'[sub[t].que][i] = t <=> evque[sub[t].que][i] = t
                       /\ evque[sub[t].que][i] = t => valque'[sub[t].que][i] = valque[sub[t].que][i]
  BY <1>1, PurgeOthers
<1>3. SameQueue(t)
  BY <1>2 DEF SameQueue
<1>4. View(t)
  BY <1>3 DEF View
<1> QED
  BY <1>4, ViewKept

\* After the purge the remaining entries have their logs.
LEMMA PurgeLogs ==
  ASSUME TypeOK, RingShape, EntriesLive, LogsThere, NEW s \in Subs, PurgeQueue(sub[s].que, s)
  PROVE  \A q \in Queues, i \in Slots : evque'[q][i] \in Subs => valque'[q][i] # NoLog
<1> SUFFICES ASSUME NEW q \in Queues, NEW i \in Slots, evque'[q][i] \in Subs
             PROVE  valque'[q][i] # NoLog
  OBVIOUS
<1>1. PICK t \in Subs : t = evque'[q][i]
  OBVIOUS
<1>2. t # s /\ evque[q][i] = t
  BY <1>1, PurgeAll
<1>3. sub[s].que \in Queues
  BY SubFields DEF TypeOK
<1>4. valque'[q][i] = valque[q][i]
  BY <1>2, <1>3, PurgeOthers
<1> QED
  BY <1>2, <1>4 DEF LogsThere

\* The block is freed: the subscription is closed.
LEMMA Release_Sim ==
  ASSUME TypeOK, TypeOK', NEW s \in Subs, Release(s), sub[s].st # "free",
         PurgeQueue(sub[s].que, s) \/ UNCHANGED <<evque, valque>>,
         \A q \in Queues, i \in Slots : evque'[q][i] # s,
         UNCHANGED <<getix, tpc, tsub, tlog>>,
         \A t \in Subs : t # s => Running(t)' = Running(t),
         ~Running(s)', Running(s) => sub[s].user_sub /\ ~InHand(s), RunsIfMarked
  PROVE  RunsIfMarked' /\ M!MNext
<1>1. /\ \A t \in Subs : t # s => sub'[t] = sub[t] /\ seen'[t] = seen[t]
      /\ sub'[s].st = "free" /\ seen'[s] = 0 /\ ~sub'[s].callBackInProgress
  BY DEF Release, FreeSub, TypeOK, HistType
<1>2. \A t \in Subs : InHand(t)' = InHand(t)
  BY DEF InHand
<1>3. \A t \in Subs : t # s => Kept(t)
  BY <1>1, <1>2, CancelOthers
<1>4. Pend'[s] = <<>>
  BY NoBacklogNext
<1>5. Running(s)' = FALSE /\ Running(s) \in BOOLEAN
  BY DEF Running
<1>6. St[s] # "closed" /\ St'[s] = "closed" /\ Busy'[s] = FALSE /\ Busy[s] \in BOOLEAN
  BY <1>1, <1>5, MapAt, MapAtNext
<1>7. Hand'[s] = Hand[s]
  BY <1>2, MapAt, MapAtNext
<1>8. Busy[s] = TRUE => St[s] = "open" /\ Hand[s] = NoLog
  BY <1>5, MapAt
<1>9. M!MNext
  BY <1>1, <1>3, <1>4, <1>6, <1>7, <1>8, MonitorCloses
<1>10. RunsIfMarked'
  BY <1>1 DEF RunsIfMarked
<1> QED
  BY <1>9, <1>10

\* The purge drains the subscription if its callback runs, and closes it otherwise.
LEMMA CancelPurge_Sim ==
  ASSUME TypeOK, TypeOK', RingShape, Discipline, Service, NEW c \in Clients, CancelPurge(c)
  PROVE  Simulated
<1>1. PICK s : s = csub[c]
  OBVIOUS
<1>2. s \in Subs /\ sub[s].st = "cancel" /\ sub[s].user_sub
  BY <1>1 DEF CancelPurge, TypeOK, ClientType, Discipline, CancelsOwn, Service, PurgesOpen
<1>3. UNCHANGED <<getix, tpc, tsub, tlog, evUser>> /\ PurgeQueue(sub[s].que, s)
  BY <1>1 DEF CancelPurge, taskVars
<1>4. \A q \in Queues, i \in Slots : evque'[q][i] # s
  BY <1>2, <1>3, PurgeAll DEF Discipline
<1>5. \A t \in Subs : Running(t)' = Running(t) /\ InHand(t)' = InHand(t)
  BY <1>3, SameTask
<1>6. LogsThere'
  <2>1. \A q \in Queues, i \in Slots : evque'[q][i] \in Subs => valque'[q][i] # NoLog
    BY <1>2, <1>3, PurgeLogs DEF Discipline, Service
  <2> QED
    BY <1>3, <2>1 DEF Service, LogsThere
<1>7. CASE MustFlush(s)
  <2>1. sub' = PurgedSub(s) /\ UNCHANGED <<posted, seen>>
    BY <1>1, <1>7 DEF CancelPurge
  <2>2. /\ \A t \in Subs : t # s => sub'[t] = sub[t] /\ seen'[t] = seen[t]
        /\ sub'[s].st = "cancel" /\ ~sub'[s].user_sub /\ seen'[s] = seen[s]
        /\ sub'[s].callBackInProgress = sub[s].callBackInProgress
    BY <1>2, <2>1 DEF PurgedSub, TypeOK, SubRec
  <2>3. Running(s) = TRUE
    BY <1>2, <1>7 DEF MustFlush, Service, RunsIfMarked, Running
  <2>4. \A t \in Subs : t # s => Kept(t)
    BY <1>2, <1>3, <1>5, <2>2, CancelOthers
  <2>5. Pend'[s] = <<>>
    BY <1>2, <1>4, NoBacklogNext
  <2>6. St[s] = "open" /\ St'[s] = "draining" /\ Busy[s] = TRUE /\ Busy'[s] = Busy[s]
    BY <1>2, <1>5, <2>2, <2>3, MapAt, MapAtNext
  <2>7. Hand'[s] = Hand[s]
    BY <1>2, <1>3, <1>5, MapAt, MapAtNext
  <2>8. M!MNext
    BY <1>2, <2>2, <2>4, <2>5, <2>6, <2>7, MonitorDrains
  <2>9. RunsIfMarked'
    BY <1>5, <2>2 DEF Service, RunsIfMarked
  <2> QED
    BY <1>6, <2>8, <2>9 DEF Simulated
<1>8. CASE ~MustFlush(s)
  <2>1. Release(s)
    BY <1>1, <1>8 DEF CancelPurge
  <2>2. ~Running(s)
    BY <1>2, <1>8 DEF MustFlush, Running, Discipline, CallbackLive
  <2>3. ~Running(s)'
    BY <1>2, <1>5, <2>2
  <2>4. RunsIfMarked' /\ M!MNext
    BY <1>2, <1>3, <1>4, <1>5, <2>1, <2>2, <2>3, Release_Sim DEF Service
  <2> QED
    BY <1>6, <2>4 DEF Simulated
<1> QED
  BY <1>7, <1>8

\* After the wait the subscription is closed, or its callback still runs.
LEMMA CancelRecheck_Sim ==
  ASSUME TypeOK, TypeOK', Discipline, Service, NEW c \in Clients, CancelRecheck(c)
  PROVE  Simulated
<1>1. PICK s : s = csub[c]
  OBVIOUS
<1>2. s \in Subs /\ sub[s].st = "cancel" /\ ~sub[s].user_sub
  BY <1>1 DEF CancelRecheck, TypeOK, ClientType, Discipline, CancelsOwn
<1>3. UNCHANGED <<getix, tpc, tsub, tlog, evUser, evque, valque>>
  BY <1>1 DEF CancelRecheck, taskVars
<1>4. \A t \in Subs : Running(t)' = Running(t) /\ InHand(t)' = InHand(t)
  BY <1>3, SameTask
<1>5. CASE MustFlush(s)
  <2>1. UNCHANGED <<sub, seen>>
    BY <1>1, <1>5 DEF CancelRecheck
  <2>2. Quiet
    BY <1>3, <1>4, <2>1 DEF Quiet
  <2> QED
    BY <2>2, QuietKeeps DEF Service
<1>6. CASE ~MustFlush(s)
  <2>1. Release(s)
    BY <1>1, <1>6 DEF CancelRecheck
  <2>2. ~Running(s)
    BY <1>2, <1>6 DEF MustFlush, Running, Discipline, CallbackLive
  <2>3. ~Running(s)'
    BY <1>2, <1>4, <2>2
  <2>4. \A q \in Queues, i \in Slots : evque'[q][i] # s
    BY <1>2, <1>3 DEF Discipline, EntriesLive
  <2>5. RunsIfMarked' /\ M!MNext
    BY <1>2, <1>3, <1>4, <2>1, <2>2, <2>3, <2>4, Release_Sim DEF Service
  <2>6. LogsThere'
    BY <1>3 DEF Service, LogsThere
  <2> QED
    BY <2>5, <2>6 DEF Simulated
<1> QED
  BY <1>5, <1>6

\* A callback closes its own subscription.
LEMMA CancelInCallback_Sim ==
  ASSUME "cancelOther" \notin Ops, TypeOK, TypeOK', RingShape, Discipline, Service, NEW s \in Subs,
         CancelInCallback(s)
  PROVE  Simulated
<1>1. /\ s = tsub /\ tpc = "return" /\ sub[s].st = "live" /\ PurgeQueue(sub[s].que, s) /\ Release(s)
      /\ UNCHANGED <<getix, tpc, tsub, tlog>>
      /\ evUser' = [evUser EXCEPT !.pSuicideEvent = s]
  BY DEF CancelInCallback, taskVars
<1>2. sub[s].user_sub
  BY <1>1 DEF Discipline, LiveSubs
<1>3. \A q \in Queues, i \in Slots : evque'[q][i] # s
  BY <1>1, PurgeAll DEF Discipline
<1>4. evUser'.pSuicideEvent = s
  BY <1>1 DEF TypeOK, UserRec
<1>5. ~Running(s)' /\ ~InHand(s) /\ \A t \in Subs : t # s => Running(t)' = Running(t)
  BY <1>1, <1>4 DEF Running, InHand
<1>6. RunsIfMarked' /\ M!MNext
  BY <1>1, <1>2, <1>3, <1>5, Release_Sim DEF Service
<1>7. LogsThere'
  <2>1. \A q \in Queues, i \in Slots : evque'[q][i] \in Subs => valque'[q][i] # NoLog
    BY <1>1, PurgeLogs DEF Discipline, Service
  <2> QED
    BY <1>1, <2>1 DEF Service, LogsThere
<1> QED
  BY <1>6, <1>7 DEF Simulated

-----------------------------------------------------------------------------
(* DbEvent implements Monitor *)

\* At first nothing is queued and nobody runs.
LEMMA ServiceInit == Init => Service
BY NamesAssumption DEF Init, Service, LogsThere, PurgesOpen, RunsIfMarked, FreeSub, EmptyRing, Empty

\* The initial states map to Monitor's.
LEMMA MonitorInit == Init => M!MInit
<1> SUFFICES ASSUME Init PROVE M!MInit
  OBVIOUS
<1>1. TypeOK
  BY TypeInit
<1>2. ASSUME NEW s \in Subs
      PROVE  St[s] = "closed" /\ Pend[s] = <<>> /\ Busy[s] = FALSE /\ Hand[s] = NoLog
  <2>1. \A q \in Queues, i \in Slots : evque[q][i] # s
    BY NamesAssumption DEF Init, EmptyRing, Empty
  <2>2. Pend[s] = <<>>
    BY <1>1, <2>1, NoBacklog
  <2>3. sub[s].st = "free" /\ Running(s) = FALSE /\ InHand(s) = FALSE
    BY DEF Init, FreeSub, Running, InHand
  <2> QED
    BY <2>2, <2>3, MapAt
<1>3. seen = [s \in Subs |-> 0]
  BY DEF Init
<1>4. /\ St = [s \in Subs |-> "closed"] /\ Pend = [s \in Subs |-> <<>>]
      /\ Busy = [s \in Subs |-> FALSE] /\ Hand = [s \in Subs |-> NoLog]
  BY <1>1, <1>2, MapFunctions
<1> QED
  BY <1>3, <1>4 DEF M!MInit

\* Every step is one of Monitor's or none, and keeps what the next needs.
LEMMA MonitorStep ==
  ASSUME "cancelOther" \notin Ops, TypeOK, TypeOK', RingShape, Discipline, Life, Updates, Service,
         [Next]_vars
  PROVE  Service' /\ [M!MNext]_(M!mvars)
<1>1. PurgesOpen'
  BY PurgesNext DEF Service
<1>2. LogsThere /\ RunsIfMarked
  BY DEF Service
<1>3. Simulated
  <2>1. CASE UNCHANGED vars
    BY <1>2, <2>1, Posts_Sim
  <2>2. CASE Next
    <3>1. Fresh
      BY <2>2 DEF Next, Updates, Fresh
    <3>2. CASE TaskStep \/ db_start_events \/ db_add_extra_labor_event
      BY <1>2, <3>2, TaskMoves_Sim, Skip_Sim, Begin_Sim, UserSub_Sim, Return_Sim DEF TaskStep
    <3>3. ASSUME NEW c \in Clients, Call(c) PROVE Simulated
      BY <1>2, <3>3, Calls_Sim, Add_Sim DEF Call
    <3>4. ASSUME NEW c \in Clients, ClientStep(c) PROVE Simulated
      BY <1>2, <3>4, Calls_Sim, CancelPurge_Sim, CancelRecheck_Sim DEF ClientStep
    <3>5. ASSUME NEW r \in Recs, db_post_events(r) \/ PosterStep(r) PROVE Simulated
      BY <1>2, <3>1, <3>5, Posts_Sim, Log_Sim DEF PosterStep
    <3> QED
      BY <1>2, <2>2, <3>2, <3>3, <3>4, <3>5, init_Sim, CancelInCallback_Sim DEF Next
  <2> QED
    BY <2>1, <2>2
<1> QED
  BY <1>1, <1>3 DEF Simulated, Service

\* With finitely many subscription blocks, and if callbacks cancel no subscription but
\* their own, the event queues give every subscription what Monitor promises: although
\* many share a ring, whose slots hold placeholders of cancelled ones, each has a queue of
\* its own whose last log may be replaced, drained in order by its callbacks, none of which
\* starts after db_cancel_event has purged the queue or runs after it has returned.
THEOREM ImplementsMonitor ==
  ASSUME "cancelOther" \notin Ops, IsFiniteSet(Subs)
  PROVE  Spec => RefinesMonitor
<1>1. TypeOK /\ RingShape /\ Discipline /\ Life /\ Counts /\ [Next]_vars => Counts'
  BY CountsNext
<1>2. TypeOK /\ RingShape /\ Discipline /\ [Next]_vars => Discipline'
  BY DisciplineNext
<1>3. TypeOK /\ TypeOK' /\ RingShape /\ Discipline /\ Life /\ Counts /\ Updates /\ [Next]_vars
        => Updates'
  BY UpdatesNext
<1>4. TypeOK /\ TypeOK' /\ RingShape /\ Discipline /\ Life /\ Updates /\ Service /\ [Next]_vars
        => Service' /\ [M!MNext]_(M!mvars)
  BY MonitorStep
<1>5. Spec => M!MInit /\ [][M!MNext]_(M!mvars)
  BY <1>1, <1>2, <1>3, <1>4, CountsInit, DisciplineInit, UpdatesInit, ServiceInit, MonitorInit,
     TypeCorrect, RingContiguous, LifeOfUser, PTL DEF Spec
<1> QED
  BY <1>5 DEF RefinesMonitor, M!MSpec

=============================================================================
