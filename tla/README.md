# Verification of the EPICS IOC core

The repository is EPICS Base 7: the libraries and servers of an input/output controller
(IOC). This directory holds TLA+ models of the parts of the IOC in which threads, queues
and locks meet, TLC configurations that check them on small instances, and TLAPS proofs for
every value of the constants.

## The system

| Part | State it keeps | Operations | What is hard |
|---|---|---|---|
| Event queues, `ioc/db/dbEvent.c` | per `event_user`: a chain of rings, subscriptions, one event task, semaphores | add, enable, disable, post, cancel, flow control, extra labor, close | posters, cancellers and the task work on one ring; a callback may cancel its own subscription; wakeups are sent only for the first entry |
| Callback system, `ioc/db/callback.c` with `libcom/ring/epicsRingPointer.h` | per priority: a ring, a semaphore, an overflow flag, worker threads | request, delayed request, stop, cleanup | several workers share one wakeup semaphore; overflow flag is cleared by workers; shutdown |
| Scan system, `ioc/db/dbScan.c` | scan lists by rate, event and I/O source; the scanOnce queue | scanAdd, scanDelete, scanList, scanOnce, pause, stop | a list changes while it is scanned, by the record being scanned too |
| Put and process notify, `ioc/db/dbNotify.c` | per record the active and waiting notifies; per notify a state machine | dbProcessNotify, dbNotifyCancel, dbNotifyAdd, dbNotifyCompletion | cancel racing completion, restart of waiting notifies, the user callback's hand-shake |
| Lock sets, `ioc/db/dbLock.c` | lock sets, reference counts, backing changes | dbScanLock, dbLockerPrepare, dbScanLockMany, merge, split | a record changes its lock set while others wait for the old one |
| Channel access links, `ioc/db/dbCa.c` | per link an action list and a value cache | add, remove, put, get, monitor callbacks | link removal racing callbacks of the CA client |
| Record processing, `ioc/db/dbAccess.c` | PACT, LCNT, PUTF, RPRO of records | dbProcess, dbPutField, dbScanFwdLink | asynchronous completion, reprocessing |
| CA server, `ioc/rsrv` | clients, channels, monitors, put notifies, beacons | camessage handlers, send and receive threads | disconnect racing monitors and put notify completion |
| Thread pool, `libcom/pool` | worker threads, job list, waiters | create, queue, unqueue, wait, destroy | a job destroyed while it runs; worker count |
| Timers, `libcom/timer` | timer queue sorted by expiry | start, cancel, expire | cancel waits for a running expire |
| Message queue, `libcom/osi/os/default/osdMessageQueue.cpp` | ring, waiting senders and receivers | send, receive, timeouts | timeout racing a hand-over |
| errlog, `libcom/error/errlog.c` | message ring, listeners | log, flush | flush hand-shake, lost messages |
| Task watchdog, `libcom/taskwd` | monitored tasks | insert, remove, scan | |
| Access security, `libcom/as`, `ioc/as` | ASGs, UAGs, HAGs, clients | load, add, change, compute | replacement while clients exist |
| CA client library, `ca/src/client` | circuits, channels, subscriptions, search timers | connect, get, put, monitor | reconnect, callback preemption |
| pvData, pvAccess, pvDatabase, pva2pva, normativeTypes, pvaClient | pvAccess protocol, PV structures, QSRV group monitors | operations of the pvAccess client and server | monitor FIFOs, QSRV shares one event_user among threads |

Calls go down and callbacks come up: record processing posts events into the event queues,
whose task calls the CA server, which sends to its clients; the CA server starts notifies,
whose completion comes back through the callback system; scan threads and callback workers
process records under the lock sets.

What makes each part correct:

- event queues: a posted value, or a newer one, is delivered; values never go back in time;
  nobody touches a cancelled subscription; cancel and close return;
- rings: what is put is got, once and in order, by one writer and one reader without a lock;
- callbacks: a request accepted is run; workers leave before their rings are deleted;
- notifies: every owned record has somebody who will release it; every request ends; nothing
  is called after a cancel has returned;
- scan lists: a pass misses no record that stays on its list, although records leave and join it;
- lock sets: a thread that has locked a record holds it and every record tied to it, alone; a
  set is freed once, when nobody refers to it;
- thread pool: a queued job has a worker; a job is in one list or in one worker's hands; waiting
  and destroying end;
- timers: a timer expires unless cancelled; the first cancel that meets its callback returns after it.

PROJECT.json lists the components with what is left out of each, and the hazards at the lines
where they bite.

## The modules

| Module | Models | Composition |
|---|---|---|
| `DbEvent` | dbEvent.c: one `event_user`, its queues, subscriptions, event task, posters and clients | implements `Monitor` |
| `Monitor` | abstract: what a subscriber may rely on, a lossy ordered queue per subscription | |
| `DbEventProofs` | theorems about `DbEvent`, the refinement of `Monitor` among them | extends `MCDbEvent` |
| `RingBytes` | epicsRingBytes.c, a writer and a reader without the spin lock | implements `Fifo` |
| `RingPointer` | epicsRingPointer.h, the same | implements `Fifo` |
| `Fifo` | abstract: a bounded FIFO that may be flushed | |
| `RingProofs` | theorems about both rings: their queries, and each as a `Fifo` | extends `MCRings` |
| `Callback` | callback.c: requests, workers, start and stop, testSyncCallback; uses the pointer ring as the FIFO `RingPointer` shows it to be | |
| `DbNotify` | dbNotify.c, with what dbProcess, recGblFwdLink and processTarget do to PACT and to notifies; uses `callbackRequest` as a request that will run | |
| `DbNotifyProofs` | theorems about `DbNotify` | extends `DbNotify`, `ListLemmas` |
| `DbLock` | dbLock.c with the link changes of dbPutFieldLink | implements `RecordLock` |
| `DbLockProofs` | theorems about `DbLock`, the refinement included | extends `DbLock`, `ListLemmas` |
| `RecordLock` | abstract: threads hold closed, disjoint sets of records | |
| `DbScan` | dbScan.c: lists, walks, periodic tasks, event callbacks, the once task, run, pause and stop | |
| `TaskProofs` | theorems about the tasks that process records, `DbScan` and `Callback` | extends `DbScan`, `Callback`, `ListLemmas` |
| `ThreadPool` | poolJob.c and threadPool.c | |
| `ThreadPoolProofs` | theorems about `ThreadPool` | extends `ThreadPool`, `ListLemmas` |
| `TimerQueue` | timer.cpp, timerQueue.cpp and timerQueueActive.cpp | |
| `TimerQueueProofs` | theorems about `TimerQueue` | extends `TimerQueue`, `ListLemmas` |
| `ListLemmas` | what the sequence operators the models use as linked lists do to elements, order and length | |
| `MCDbEvent`, `MCDbNotify`, `MCDbLock`, `MCDbScan` | instances for TLC | |
| `MCRings` | both rings, one or the other from the initial state on | extends `RingBytes`, instantiates `RingPointer` |

How state and actions correspond to the code:

**DbEvent.** `evque`, `valque`, `getix`, `putix`, `quota`, `nDuplicates`, `nCanceled` are the
fields of `struct event_que`, one entry of a function per queue of the chain; `sub` holds the
`struct evSubscrip` blocks. The event task, each posting record and each client thread have a
program counter, and an action is what a thread does between two points at which it takes or
releases a lock or waits. Values are numbered per subscription so that order can be stated;
field logs of array subscriptions carry no value, as in the code. Filters, field types and
the select mask only decide whether an event is posted and are left to the poster's choice.

**RingBytes, RingPointer.** One action per access of a shared index: the reader's and the
writer's index are each written by one side, and read by the other at any time. The byte ring
copies data in up to two pieces before it publishes the index. `Flush` moves the reader's
index to the writer's, read a step earlier.

**Callback.** `queue`, `semWakeUp`, `queueOverflow`, `shutdown`, `threadsRunning` are the
fields of `cbQueueSet`; semaphores are binary. Each test, push, flag and signal of
callbackRequest and callbackTask is an action, as none of it is under a lock. `late` counts
workers that have decremented `threadsRunning` and not yet signalled `startStopEvent`.

**DbNotify.** `ppn`, `restartList`, `pact` are fields of the record, `state`, `waitList`,
`cancelWait`, `userCallbackWait` and the two events those of `notifyPvt`. What happens under
dbScanLock and `pnotifyGlobal->lock` together is one action. Record processing holds the lock
of its lock set only, so `proc` says where the processing thread of each record is, and
`readPpn` which `ppn` it has read and not yet used. A lock set is what the links connect.
`failed` records that an assert has failed or a null `pnotifyPvt` has been used.

**DbLock.** A lock set is its address, a number, since `lrrcompare` sorts by address. `plockSet`
is the field of the lock record; `refcount`, `mutex` and `ownerlocker` those of the set; a set's
list of records is the inverse of `plockSet`, as both change under the set's mutex. One action
per atomic access to `refcount`, per spin-locked section and per mutex taken. `recomputeCnt` only
matters as compared with a locker's copy (`fresh`) or with the copy a running pass has read
(`seen`), so the model keeps who is up to date; every moved record empties both. The breadth
first search of dbLockSetSplit is the set it computes (`Component`): it runs with all of the
records' sets locked.

**ThreadPool.** Counters, flags and lists are those of poolPriv.h; what happens under
`pool->guard` is one action, and what a leaving worker signals after it has released the guard
is another (`WorkerEnds`). A worker about to sleep and one waiting for `workerWakeup` are one state:
the counters are the same.

**TimerQueue.** `timerList`, `curState`, `exp`, `pNotify`, `pExpireTmr`, `cancelPending` and the
two events are the members of the classes. What happens under the queue's mutex is one action;
the callback runs between `process` or `expireReturns` and the next `expireReturns`. `wakeAt` and
`lag` record the delay `process` returned and how old the clock reading behind it was. `met` and
`owed` go by the callback that runs and not by what `cancel` finds: `met` says that its timer has been
cancelled since it began, `owed` is the thread that was the first to do so. A callback asks for no
restart, for one at once or for one later (`Delays`). The half sleep quantum that privateStart takes off the
expiration, and once more when `process` passes it `exp`, is shorter than a unit of the model's time.

**DbScan.** `list`, `modified` and `pscan_list` are those of scan_list and scan_element; `spc`,
`pse`, `prev` and `next` the locals of the scanList that walks a list. A list's lock is held
for one action. SCAN is changed in the two passes of dbPutSpecial, between which the record is on
no list. scanDelete goes by the list that the SCAN field, or for `IoLists` device support's get_ioint_info,
names (`Named`), and gives up if there is none or the record is on another; `gaveUp` has the records it
left on a list that way. addToList does not look whether the record is on a list: when it is, the pointers
of one list run into the other, and the model stops with `tangled` set. scanRun and scanPause tell
the lists one by one (`runAt`, `pauseAt`); that they and scanStop are called one after the other is iocInit.c's
doing. `was` and `due` record what the walk owes. Its specification is `ScanSpec`, and
`scanStartStopEvent` is dbScan.c's `startStopEvent`: `TaskProofs` extends `Callback` too, which has one.

Definitions ending in an underscore and a word (`Purged_First`) are mutants: plausible bugs that
a property of a run must expose. They are no part of the specifications.

## The runs

Runs that must pass:

| Run | Instance | Shows |
|---|---|---|
| events_ring | two clients, a value and an array subscription that share a ring of 6 slots, 3 posts to each, self-cancelling callbacks | the shape of the ring, counters and asserts, no lost update; nobody holds a freed subscription, the invariant of that proof holds; the task never sleeps on work without somebody about to wake it; `DbEvent` implements `Monitor` |
| events_live | one subscription, a ring of 4 slots, 2 posts, single posts, flow control, disabling, extra labor, self-cancelling callbacks | delivery, a cancel that waits alone, close and extra labor come to their end; what a client gets back, flushed labor or a closed `event_user`, is in nobody's hands |
| rings | byte ring of capacity 3 plus 2 spare bytes, all sizes; pointer ring of 3 | both rings implement `Fifo`, their queries agree |
| callback | one or two workers, a ring of two entries, direct requests and timers, stop, clean-up and restart with late signals, testSyncCallback | no worker sleeps on a callback nobody will wake it for; workers are counted and gone before clean-up; a requested callback runs, callbackStop and, with one worker, testSyncCallback return |
| notify_links | r1 -> r2, r2 asynchronous, three clients, scans, links that change, requests from doneCallback, no cancels | no assert fails; every owned record is awaited and every awaited record owned |
| notify_live | two clients of one record, both records asynchronous, cancels, disabling | every request and every cancel ends; exactly one side cleans up; what is awaited will complete |
| locks | two threads, three records, three puts that cut and join a chain of links | `DbLock` implements `RecordLock`; references are counted exactly; sets are the components of the links; no deadlock |
| pool | two jobs, up to two workers, two waiting threads, pauses, timeouts, moves, destruction | CHECKCOUNT, no lost job, flags and lists agree, jobs run, waits return, the pool goes |
| timers | two timers, two cancelling threads, callbacks that start, cancel, destroy and ask for restarts at once or later, release | list and states agree, the first cancel that meets a callback outlasts it, no oversleeping; every cancel returns; unless callbacks restart at once for ever, release returns and a started timer expires, one started while its callback runs too |
| scan | three records of two phases, a periodic and an I/O interrupt list, two changes of SCAN, deletions that give up, a once ring of one entry | lists get tangled only through a deletion that gave up; until then they agree, a walk stays on its list and is complete, scanStop returns |

Two runs find a disagreement between the code and what it says of itself:

| Run | The code does | It says |
|---|---|---|
| events_full | the event task is busy, one subscription fills the ring up to its reserve, another one is added, posted to and cancelled again and again; its placeholders use up the reserve, db_add_event still finds quota, and the next first post finds no slot: the assert at dbEvent.c:796 stops the IOC | "the current entry must be available", dbEvent.c:792 |
| callback_overflow | `queueOverflow` can stay set on an empty ring: every later request is refused and no worker wakes to clear it | "Buffer full", dbAccessDefs.h:205; "ring buffer full", callback.c:84 |

events_full came out of the proof of `CountsAgree`: the other asserts follow from the counters, this
one does not. In the code's numbers (rings of 32 times 4 slots): one subscription of a busy client
holds 96 slots; 30 more are added, posted to and cancelled, which leaves 30 placeholders; 23 more
still fit the quota (`quota + nCanceled < EVENTQUESIZE - EVENTENTRIES`); the first posts to two of
them take the last free slots and the first post to the third fails the assert. `assertFailed` says
which assert stops the IOC, one on a counter (`CountsAgree` shows that none fails) or this one
(`EntryAvailable`); after either nothing more happens.

Other disagreements met while modelling. Those of the first group show up when the constants of
a run are changed:

- events_live with two clients, two subscriptions and `MaxVal = 1`: one canceller consumes the flush signal of
  the other, which waits for ever (dbEvent.c:605). A wake-up that finds its own callback still
  running is not passed on. `CallsReturn` therefore claims nothing of a cancel once two wait together
  (`SharesFlush`); as stated it holds on that instance too, with rings of three slots. The run's own instance
  has one client, so that `SharesFlush` does not weaken what it shows.
- events_live with two subscriptions, `MaxVal = 1` and `"cancelOther"`: a callback that cancels another
  subscription leaves `pSuicideEvent` set ("event that is deleteing itself", dbEvent.c:87), and
  the cancel of the block, once reused, hangs.
- notify_links with `"cancel"`: a group may span lock sets (dbNotify.c:80), and a completion uses
  the `ppn` it read before it took the global lock (450) after a cancel has cleared it. `NoAssertFails` is
  claimed for one of the two, links that change or requests that are cancelled.
- notify_live with `"again"`: "The client can issue a new dbProcessNotify request from
  doneCallback" (dbNotify.h:123), but it waits for an event signalled after doneCallback returns: TLC
  reports a deadlock.
- pool with `"nothread"`: when createPoolThread fails while other workers run, epicsJobQueue still
  counts a waking worker (poolJob.c:278), `threadsWaking` exceeds `threadsSleeping` and CHECKCOUNT,
  an assert, fails.
- scan with a `phas` in which a later record is lower than all others: addToList appends it
  (dbScan.c:1047), so it is processed last. `WalkIsOnList` and `WalkIsComplete` hold all the same.

The others can be read off the actions; the properties are stated so as not to claim them:

- getCallback runs in a later callback, after the record has been handed to the next notify
  (dbNotify.c:185, 468); it should be "before dbNotify has released the record" (dbNotify.h:117).
- testSyncCallback requests one callback per priority, although it expects one "for each worker"
  (callback.c:359): with two workers it never returns.
- `doProcess`: a processRequest never processes the record (dbNotify.c:254), whatever dbNotify.h:134
  says.
- epicsThreadPoolDestroy "blocks until all worker threads have stopped" (epicsThreadPool.h:75), but
  a worker signals `workerWakeup` after it has released the guard (poolJob.c:112); if another
  worker, already awake, is the last to leave, the pool may be freed before that signal.
- `pauserun` "prevents workers from running jobs" (epicsThreadPool.h:84): workers look at it when they
  wake up, and not between two jobs. A job unqueued from a paused pool leaves
  epicsThreadPoolWait waiting although the queue is empty.
- timer::cancel waits only if the timer is active (timer.cpp:150): a second canceller, or one that
  comes after the callback has cancelled or restarted its own timer, returns while expire still
  runs (155), against "make certain timer expire() does not run after cancel () returns". `CancelBlocks` claims it
  of the first canceller only.
- a callback that asks to be restarted with delay 0 is due again at the time `process` goes by, which it
  does not read anew (timerQueue.cpp:165-181): if it does so for ever, the timers behind it, and release, wait for
  ever. This is the condition of `TimerProgress`; cancels return all the same. A start that meets
  the callback of its timer and is forgotten (165) would not be noticed by `ListAgrees`, but by `TimerProgress`.
- timer.cpp: `first() == this`, tested after the removal (79, 146), is never true; the sleep is
  computed from the time `process` was entered, and is too long by the time the callbacks took.
- dbScan.c: a record that leaves its list and is put back during a walk can make the walk skip
  others; `WalkIsComplete` leaves that out. `scanDelete` gives up after a failing get_ioint_info (342), or
  in deleteFromList when it names another list than before (1066), with the record still on a
  list; the put goes on and adds it to another. `ListsAgree` says that this is the only way to get
  there and what the lists are until then; all scan properties end with `tangled`.
- scanStop's exit request for the once task may not fit on a full ring (dbScan.c:170): it then waits for
  ever. `StopReturns` leaves it out (`ExitRefused`).
- dbLock.c:66 bounds the ids of lock sets by the number of records plus one; sets that only a
  locker's cache still refers to come on top.

### Bounds

- events: rings of `EVENTSPERQUE * EVENTENTRIES` slots, two subscriptions of one record: enough
  for the ring to wrap, overrun (replace the last entry of a subscription), purge in the middle
  and refuse a subscription. `MaxVal` posts per subscription: more than the ring holds.
  A chain of several queues is left to the proofs, which hold for any `MaxQueues`.
- rings: capacities of 3, all sizes up to the capacity, two values: every position of both
  indices, wrap included. The state space is finite without a bound on the number of operations.
- callbacks: one priority (they share only `startStopEvent`, whose early and late signals one
  priority meets too), up to two workers, rings of one or two entries, one or two
  CALLBACKs and requesting threads: a full ring and two workers at one semaphore. `MaxLate`
  bounds the workers of an earlier start that have not signalled yet.
- notifies: a chain of two records, two or three clients, as many blocks as clients (a block is
  reused as soon as it is free, as the free list does): a record with an owner and two waiting,
  a group that outlives the lock set's lock, and one that is split by a change of links.
  Symmetry permutes only blocks, subscriptions, clients and threads that the configuration does
  not tell apart, and is not used with liveness properties.
- lock sets: three records in a chain that is cut and joined at one place and at both its ends,
  three puts by two threads: a set merged away while a thread waits for it, a split while both
  wait, a recycled set. A put makes one set at most, so `LockAssumption` asks for as
  many sets as there are records and puts; `RefsCounted` includes that makeSet never runs out of them.
- pool: two workers are enough to pass a wake-up on, two jobs to fill both; the state space is
  finite without a bound on the number of calls.
- timers: two timers that expire at time 0 or 1 and a horizon at which everything is due: before,
  with and after each other. Two cancelling threads at one event. Restart delays of none, zero and one.
- scan: two SCAN changes suffice for the walk's element and the previous one to leave; a third
  record is the one that must still be processed. One I/O interrupt list: get_ioint_info fails or names it,
  also for a record that has been left on it; that it names another one is left to the proof.

`Ops` names the optional operations of a run; all of them are taken in one passing run or
another.

### Fairness

Weak fairness of the threads the code creates: the event task, workers, the timer, and threads
inside a call. Callbacks return. No client has to make a call and no record has to post.
`DbNotify` asks for strong fairness where a thread waits for dbScanLock, which others may take
and release for ever: a mutex that starves a waiter for ever is outside the code's control.
Device support of an asynchronous record is assumed to complete what it started.
`ThreadPool`, `TimerQueue` and, for cancellers, `DbEvent` ask for strong fairness of threads that wait on a
shared event or mutex:
a thread does not wait for ever on an event that others get again and again, as in any
operating system's queue of waiters. `TimerProgress` is conditional for release and expiration: callbacks
that ask for a restart at once must stop doing so. Time goes on (`Tick`), and periodic tasks wake up.

notify_live has both clients on the same record. With clients of two linked records the second
one can be starved: each time its restart callback runs, the record is active again, processed
through the link for the first one's request (dbNotify.c:231). That is a property of the
protocol, listed among the hazards.

## The proofs

`DbEventProofs`, from `ConstAssumption` (sizes are positive, there is a record) and
`NamesAssumption` (markers such as `Empty` are no subscriptions):

- `TypeCorrect`: Spec => []TypeOK. One lemma per action. TypeOK is inductive because it ties
  the subscription a thread holds to its program counter.
- `RingContiguous`: Spec => []RingShape: the occupied slots are exactly those from `getix` up to
  `putix`. Inductive on top of TypeOK: adding writes the slot at `putix` and only if it is empty
  (`RingAdd`), taking clears the slot at `getix` (`RingTake`), replacing and purging do not
  change which slots are occupied (`RingSame`).
- `CancelSafe`: the discipline of cancelling, for callbacks that cancel no other subscription
  (the `cancelOther` operation is the one that is wrong, see above).
- `NoDangling`: no queue entry and no running callback refers to a freed subscription. It is not
  inductive: the step that frees a block is far from the steps that made it safe. `Discipline`
  adds what each thread knows at its position: who is being cancelled by whom, that a disabled
  subscription is off its record's list and no poster will post it, that after the purge its
  queue holds no entry of it, and that the block is freed only when its callback is not running.
  events_ring checks it before the proof relies on it.
- `GivenBack`: Spec => []GivenBackIsUnused, whatever callbacks cancel. That a closed `event_user` is
  unused rests on `Life`: one client closes, alone; `pexitsem` says that the task is over; an
  `event_user` that is closed has no subscription left, and a poster works for a live one or inside
  its client's call.
- `WakeupNotLost`: Spec => []NoLostWakeup. A poster signals only if it finds the ring empty, after it has
  released the lock. `Wakeful` says for every position of the task which queues it will not look at
  before it waits (`Asleep`), and that if one of those holds an entry the semaphore is set, somebody is
  about to set it, or flow control holds the events back (`Roused`). Both hold for any `MaxQueues`,
  where TLC's runs have one queue.
- `CountersRight`: Spec => []CountsAgree, if callbacks cancel no other subscription and there are finitely
  many blocks (they come from a free list in memory). `Counts` follows each counter through the four
  things that happen to a slot, with cardinalities of the slots that hold a subscription or a
  placeholder. It needs `Discipline`: a block that is freed has no entry left, so the quota it
  returns is the quota it took.
- `UpdateNotLost`: Spec => []NoLostUpdate, under the same assumptions. `Updates` says that the last entry of
  a subscription is the one `pLastLog` points to, that it holds the value posted last, or the
  reference to the record, and that all others come before it on the way from `getix`; without
  entries the task has that value in hand or has delivered it.
- `ImplementsMonitor`: Spec => RefinesMonitor, under the same assumptions. A subscription's queue in `Monitor`
  is what the ring holds of it, in the order of the slots from `getix` (`Backlog`, by the rank of an
  entry among those of its subscription). Adding behind all others appends, replacing the log at
  `pLastLog` replaces the last, taking the slot at `getix` takes the head of its owner's queue and
  leaves the ranks of the others' entries alone; db_cancel_event's purge drains the queue if the
  callback runs and closes it otherwise. All other steps are nobody's (`Quiet`, `View`). It needs
  `RingShape`, `Discipline`, `Life` and `Updates`, and `Service`: a queued entry has its log, `user_sub` stays
  until the purge, and `callBackInProgress` means that the callback runs. `Service` was checked
  with TLC on the instance of events_ring before it was proved.

`RingProofs`, from `RingAssumption` and `PointerAssumption` (sizes and the
reserve are positive, puts and gets have natural sizes):

- `QueriesConsistent`: RingsSpec => []QueriesAgree. That the used bytes never exceed the capacity
  is not inductive, because a put moves `nextPut` by what it computed from an older `nextGet` and
  a get the other way round. `BInv` keeps, for a put in progress, that its data fits behind the
  `nextGet` it read and behind the present one, and, for a get in progress, that it takes no
  more than the ring holds now; each survives the other thread's steps because the other thread
  can only add room or add bytes.
- `PointersInOrder` and `BytesInOrder`: RingsSpec implements `Fifo`, by the refinement mapping of the
  modules. The steps that copy must stutter, so `PInv` and `BData` say that what a writer has copied
  is the head of its data, in slots outside the contents (`UsedSlots`), and what a reader has
  copied is the head of the contents. The step that moves `nextPut` appends (`SlotShift`: the
  slots behind those in use start at `nextPut`), the step that moves `nextGet` removes a prefix.
  TLC's run covers rings of three; the proof any size, in particular SLOP = 16 and the ring sizes
  of the code. What it takes over from the model is that volatile accesses and the copies between
  them are seen in program order, which the code assumes.

`TaskProofs` on `Callback`, from `CbAssumption` (there is a priority, and room for the threads
asked for), for any number of priorities, workers, requesters and late signals:

- `CleanupIsSafe`: Spec => []CleanupSafe. callbackInit and callbackStop loop over priorities and workers
  and wait on one event for all of them, which a worker of an earlier start may signal late.
  `Counted` says that the workers in their loop are those in `threadsRunning`, and the one callbackInit
  waits for; `CountedAhead` that the workers its loop has not reached are not there; `Joined` that the
  priorities callbackStop has passed have none.
- `WorkersNotIdle`: Spec => []NoIdleWorker. Stated per priority: while some worker sleeps and the ring
  is not empty, the semaphore is set, a requester is about to set it, or a worker is where it looks
  at the ring again.
- `CallbackTyped`: Spec => []TypeOK, of which the bounds are the point. On top of `StartStop`, `CbRest` says that workers
  leave only when callbackStop has told them (`Leaving`), so that callbackInit's counts only grow (`Boots`)
  and a count is positive when a worker takes one off; that a priority with workers signals at most
  once more (`LateBound`); that rings are empty while their size may be changed (`Filled`); and that
  at most one sync_callback of a priority is under way, for which testSyncCallback waits (`Synced`). TLC
  checked `CbRest` first, with one priority of two threads and with two of one.

`TaskProofs` on `DbScan`, from `ScanAssumption` (finitely many records; a SCAN field names a list or is
Passive; a list is periodic or not, and a rate has one list), for any records, lists and phases:

- `ScanInvariant`: ScanSpec => []ScanInv, where ScanInv is ScanTypeOK, `Agreement`, `Walks` (every walk
  is `OnItsList`), `Dues` and `Tangle` (lists are tangled only after a deletion gave up). The two
  list properties alone do not show that a walk is complete, since scanList resumes at whatever is
  left of three elements it remembers. `Owes` says where the records that a walk has yet to process
  can be: at its element or behind it, behind the previous one, and at its element, at the next one
  or behind that, each for the elements that are still on the list. Joining and leaving keep it,
  because addToList and ellDelete leave the others in their order (`Ahead` lemmas). TLC checked
  `Dues` first.
- The initial lists are those buildScanLists makes one record at a time. `buildScanLists` is a recursive
  function of the number of records added; that it is defined, and that the list of a
  record's SCAN field holds it once, is proved by least counterexample, which takes the place of induction.
- `ScanTyped`, `ScanListsAgree`, `ScanStaysOnList`, `ScanComplete`: from it, ScanSpec => []ScanTypeOK, []ListsAgree,
  []WalkIsOnList and []WalkIsComplete. They hold with deletions that give up, and say nothing once such a
  record has been added to a second list. TLC's run has three records, two lists and two changes.

`ThreadPoolProofs`, from `PoolAssumption` (finitely many jobs and waiting threads):

- `PoolInvariant`, and from it `PoolTypeCorrect` and `JobsLive`: Spec => []JobLife. `Counted` ties the counters
  to the workers, `Hands` the jobs that run to the workers that have them, `Listed` the flags to the
  lists. They need `Phases`, because what epicsThreadPoolDestroy concludes from one look at the queue
  has to last: once its wait has returned nobody may call, nothing is queued and nobody starts.
- `CountsRight` and `JobNotLost`: Spec => []CHECKCOUNT and []NoLostJob, if createPoolThread succeeds (with
  `"nothread"` CHECKCOUNT is false, see above). `Wakeful` says when the wake-up event may be missing
  although a worker is to be woken: fewer are to be woken than sleep, and there is no job or the pool
  is paused, so that the next job or the end of the pause sets it.

`TimerQueueProofs`, for any number of timers, threads and times:

- `CancelWaits`: Spec => []CancelBlocks. A thread that waits in `cancel` looks only at
  `cancelPending` and `pExpireTmr`, which other cancels, cancels from the callback and the queue's
  thread write. `Inv` says that a timer is active exactly while its callback runs without
  `cancelPending`; `Debts` adds that `cancelPending` means that it has been cancelled since the callback began
  (`Met`), so that the first cancel finds the timer active and waits, and that while anybody is owed the end of a callback both variables
  stay as they are (`Owed`). Which cancels are owed it is defined by the callback, not by the branch
  that cancel takes.
- `TimersTyped`, `ListRight` and `SleepsNoLonger`: Spec => []TypeOK, []ListAgrees and []NoOversleep. `Inv` adds that a
  callback runs exactly when there is a timer that expires, that a timer which a thread is about to free
  is in limbo like those that are freed, and that the sleep ends in time for every timer on the
  list: when the first is cancelled another takes its place.

`DbLockProofs`, from `LockAssumption` (finitely many records and threads, a set for every put), for any
database, any puts and any number of threads:

- `LockInvariant`: Spec => []Inv, the inductive invariant from which the others follow; TLC
  checked it on the instance of locks first. Its parts need each other:
  - `ThreadInv`: what a thread knows at its position. The sets it has locked are those its locker
    lists, in ascending order while it acquires; a mutex is held for the list or by dbScanLock
    and for nothing else; the cached sets are right while recomputeCnt stands. It survives
    the steps of others (`OthersKeep`) because they touch only sets that nobody or they themselves
    have locked, and move a record only out of sets they have locked.
  - `Linked`: a set that no thread is splitting or merging is a component of the links; half way through
    a split the records that leave and those that stay are components, and through a merge the union
    is. `CutKeeps`, `CutSplits` and `JoinMerges` are the facts about links: taking a link away leaves
    its component whole if the search from the old target finds the record, and otherwise parts
    it in two; adding a link joins two.
  - `Counted`: a count is the records of the set, plus what a mover still owes it (`Owed`), plus one per
    reference of a thread. A step moves, adds or drops one reference (`Tallied`).
  - `Recycled`: a count is 0 exactly if the set is not made yet, on the free list, or in the hands of the
    one thread that frees it. With `Counted` it says that a set taken from the list has no record
    (`ZeroCount`), which `Linked` needs when a split fills it.
- `LocksTyped`: Spec => []TypeOK; counts never become negative.
- `LocksNotDead`: Spec => []NoDeadlock. Of threads that wait for each other, take the one that waits for the highest
  address: whoever has locked that set waits for a higher one.
- `SetsStayComponents`: Spec => []SetsAreComponents.
- `ReferencesCounted`: Spec => []RefsCounted. That makeSet finds a set takes one more invariant, `Enough`: the sets
  made so far and the puts that may still make one are no more than the records and the puts begun.
- `LocksRecords`: Spec => RefinesRecordLock. A thread that passes the check after the mutex acquires a closed set of
  records that nobody else holds, because no set that it has locked is half way through a split or a
  merge; links change with both ends held; and the steps that move records between sets
  change nothing in what is held.

`DbNotifyProofs`, from `NotifyAssumption` (channels, links and request types are what they say, and there is
a private block for every request), for any number of records, links, requests and private blocks:

- `NotifyInvariant`: Spec => []NotifyInv, under the hypothesis that callers do not both change links and cancel
  requests. The hypothesis is needed: a link that changes while requests wait moves records of one
  group into two lock sets (dbNotify.c:80), and dbNotifyCompletion reads `ppn` before it takes
  `pnotifyGlobal->lock` (dbNotify.c:450), which only a common dbScanLock makes safe against a cancel. Each run meets it: notify_links
  changes links, notify_live cancels. TLC checked `NotifyInv` first, with either choice. Its parts:
  - `Phases`: in each state of a request exactly one thing makes its next step: the records it waits
    for, a callback that is queued, a callback that runs, or an event somebody is going to signal. This
    is what the asserts of notifyCallback and dbNotifyCompletion check one at a time.
  - `Owners` and `Waiters`: the requests that own a record, wait for one or wait on a restart list are
    those whose state says so, each in one place; `restartCheck` hands a record from its owner to the first
    waiter (`Releases` lemmas).
  - `Reading`: what a record that is being processed has read of its `ppn` is still its `ppn` when it is used.
  - `Grouped`: while links stand, the records of one request lie in one lock set.
  - `Blocks` and `Clean`: a private block belongs to at most one request, and nothing is left of the last
    one in a block on the free list.
- `NotifyTyped`, `NotifyAssertsHold`, `NotifyOwnership`, `NotifyAwaited`, `NotifyOneSide`: from it, Spec => []TypeOK,
  []NoAssertFails, []Ownership, []AwaitedIsActive and []OneSideCleansUp, under the same hypothesis.

`ListLemmas` has no specification: it states what appending, inserting, taking and deleting do to the
elements, the order and the injectivity of a list, and what a step of one thread does to the
number of threads at some positions.

Only model-checked: all liveness, which TLAPS does not prove under fairness.

## Not modelled

See "components" in PROJECT.json. Message formats, socket and file I/O, parsing, conversions of
data and per-type record code are left out because no protocol depends on them; the V4 libraries
and the CA client are systems of their own. Inside the modelled parts: alarms, trace output, PUTF
and RPRO (they only cause more processing), puts to link fields by notify, the debugging tools,
and the failure of memory allocation, which ends the IOC.

Seen while reading and not covered by a property: event_remove drops a field log without deleting
it (dbEvent.c:538); callbackCleanup deletes the rings before it releases the timer queue that may
still request callbacks (callback.c:217); a delayed callback and the notifies ignore that
callbackRequest may fail (callback.c:327, dbNotify.c:469); one list may be walked by two threads
(a callback and scanIoImmediate), and the first to see `modified` clears it for the other
(dbScan.c:970).

## Plan

Done: `DbEvent` with `Monitor`; the rings with `Fifo`; `Callback`; `DbNotify`; `DbLock` with `RecordLock`; `DbScan`;
`ThreadPool`; `TimerQueue`; the proofs above.

1. The message queue of libCom: in osdMessageQueue.cpp a receiver whose timeout races a send loses
   the message, a sender whose timeout races a receive loses the wake-up.
2. `DbCa`, record processing (PUTF and RPRO), and the CA server's disconnect against put notify.
