------------------------------ MODULE Callback ------------------------------
(***************************************************************************)
(* The general purpose callback tasks, callback.c.                         *)
(*                                                                         *)
(* callbackRequest puts a CALLBACK on the ring of its priority and signals *)
(* the priority's semaphore; one or more worker threads per priority pop   *)
(* and run them.  Delayed requests go through a timer, whose expiry makes  *)
(* the request.  The main thread starts, stops and cleans up the workers.  *)
(*                                                                         *)
(* The ring is a bounded sequence: it is created locked, and RingPointer   *)
(* shows that it is one.  Semaphores are binary.                           *)
(***************************************************************************)
EXTENDS Integers, Sequences, FiniteSets

CONSTANTS
  Cbs,                \* CALLBACK blocks
  Askers,             \* threads that call callbackRequest; "timer", the timer queue's, may be one
  NUM_CALLBACK_PRIORITIES,
  callbackThreadsDefault,
  QueueSizes,         \* sizes callbackSetQueueSize is called with
  MaxThreads,         \* bound: worker threads of a priority
  MaxLate,            \* bound: workers still about to signal when callbackInit is called
  Ops                 \* optional calls: "configure", "delay", "stop", "sync"

ASSUME CbAssumption ==
  /\ NUM_CALLBACK_PRIORITIES \in Nat \ {0}
  /\ QueueSizes \subseteq Nat \ {0}
  /\ MaxThreads \in Nat /\ callbackThreadsDefault \in 1 .. MaxThreads
  /\ MaxLate \in Nat
  /\ Ops \subseteq {"configure", "delay", "stop", "sync"}
  /\ Cbs \cap {"sync", "none"} = {}

Prios   == 0 .. NUM_CALLBACK_PRIORITIES - 1
Workers == Prios \X (1 .. MaxThreads)
Threads == Askers \cup {"timer", "main"}

\* the callback of testSyncCallback's helper
SyncCb == "sync"
AllCbs == Cbs \cup {SyncCb}
NoCb   == "none"

VARIABLES
  callbackQueueSize,
  \* cbQueueSet, one per priority
  queue, semWakeUp, queueOverflow, shutdown, threadsConfigured, threadsRunning,
  startStopEvent,
  \* worker threads: program counter and callback in hand
  wpc, wcb,
  \* threads inside callbackRequest: program counter, callback, priority
  ask,
  \* the priority a callback's timer is armed for, or -1
  timer,
  \* main thread: program counter, priority and thread of its loops
  mpc, mp, mj,
  \* workers that have counted down and not yet signalled
  late,
  \* sync_helper, one per priority
  helper

ringVars == <<queue, semWakeUp, queueOverflow>>
confVars == <<callbackQueueSize, threadsConfigured>>
workVars == <<wpc, wcb>>
mainVars == <<mpc, mp, mj>>
vars == <<ringVars, confVars, shutdown, threadsRunning, startStopEvent, workVars, ask,
          timer, mainVars, late, helper>>

NoAsk    == [pc |-> "idle", cb |-> NoCb, p |-> 0]
NoHelper == [nphase2 |-> 0, nphase3 |-> 0, phase4 |-> FALSE]

WorkerPC == {"none", "start", "test", "check", "wait", "pop", "more", "trigger",
             "clear", "run", "phase2", "exit", "done"}
MainPC   == {"down", "create", "await", "up", "request", "phase4", "shut", "join",
             "joinwait", "stopped"}

TypeOK ==
  /\ callbackQueueSize \in QueueSizes
  /\ \A p \in Prios :
       /\ queue[p] \in Seq(AllCbs) /\ Len(queue[p]) <= callbackQueueSize
       /\ threadsConfigured[p] \in 0 .. MaxThreads
       /\ threadsRunning[p] \in 0 .. threadsConfigured[p]
       /\ helper[p].nphase2 \in 0 .. MaxThreads /\ helper[p].nphase3 \in 0 .. MaxThreads
  /\ semWakeUp \in [Prios -> BOOLEAN] /\ queueOverflow \in [Prios -> BOOLEAN]
  /\ shutdown \in [Prios -> BOOLEAN] /\ startStopEvent \in BOOLEAN
  /\ wpc \in [Workers -> WorkerPC] /\ wcb \in [Workers -> AllCbs \cup {NoCb}]
  /\ ask \in [Threads -> [pc : {"idle", "test", "push", "full", "signal"},
                          cb : AllCbs \cup {NoCb}, p : Prios]]
  /\ timer \in [Cbs -> Prios \cup {-1}]
  /\ mpc \in MainPC /\ mp \in 0 .. NUM_CALLBACK_PRIORITIES /\ mj \in 1 .. MaxThreads
  /\ late \in 0 .. MaxLate + NUM_CALLBACK_PRIORITIES

Init ==
  /\ callbackQueueSize \in QueueSizes
  /\ queue = [p \in Prios |-> <<>>]
  /\ semWakeUp = [p \in Prios |-> FALSE] /\ queueOverflow = [p \in Prios |-> FALSE]
  /\ shutdown = [p \in Prios |-> FALSE] /\ startStopEvent = FALSE
  /\ threadsConfigured = [p \in Prios |-> 0] /\ threadsRunning = [p \in Prios |-> 0]
  /\ wpc = [w \in Workers |-> "none"] /\ wcb = [w \in Workers |-> NoCb]
  /\ ask = [t \in Threads |-> NoAsk] /\ timer = [c \in Cbs |-> -1]
  /\ mpc = "down" /\ mp = 0 /\ mj = 1 /\ late = 0
  /\ helper = [p \in Prios |-> NoHelper]

-----------------------------------------------------------------------------
(* callbackRequest *)

\* callbackInit has returned and callbackCleanup is not called
IsInit == mpc \notin {"down", "create", "await"}

\* Requests with a null callback or a bad priority return at once.
callbackRequest(t, cb, p) ==
  /\ IsInit /\ ask[t].pc = "idle"
  /\ ask' = [ask EXCEPT ![t] = [pc |-> "test", cb |-> cb, p |-> p]]

\* A thread starts a request.
Request(t, cb, p) ==
  /\ callbackRequest(t, cb, p)
  /\ UNCHANGED <<ringVars, confVars, shutdown, threadsRunning, startStopEvent,
                 workVars, timer, mainVars, late, helper>>

\* the part of the state a request does not touch
askRest == <<confVars, shutdown, threadsRunning, startStopEvent, workVars, timer, mainVars,
             late, helper>>

\* "if (mySet->queueOverflow) return S_db_bufFull"
TestOverflow(t) ==
  /\ ask[t].pc = "test"
  /\ ask' = IF queueOverflow[ask[t].p] THEN [ask EXCEPT ![t] = NoAsk]
            ELSE [ask EXCEPT ![t].pc = "push"]
  /\ UNCHANGED <<queue, semWakeUp, queueOverflow, askRest>>

\* epicsRingPointerPush
Push(t) ==
  LET p == ask[t].p
  IN /\ ask[t].pc = "push"
     /\ IF Len(queue[p]) < callbackQueueSize
        THEN /\ queue' = [queue EXCEPT ![p] = Append(@, ask[t].cb)]
             /\ ask' = [ask EXCEPT ![t].pc = "signal"]
        ELSE ask' = [ask EXCEPT ![t].pc = "full"] /\ UNCHANGED queue
     /\ UNCHANGED <<semWakeUp, queueOverflow, askRest>>

SetOverflow(t) ==
  /\ ask[t].pc = "full"
  /\ queueOverflow' = [queueOverflow EXCEPT ![ask[t].p] = TRUE]
  /\ ask' = [ask EXCEPT ![t] = NoAsk]
  /\ UNCHANGED <<queue, semWakeUp, askRest>>

Signal(t) ==
  /\ ask[t].pc = "signal"
  /\ semWakeUp' = [semWakeUp EXCEPT ![ask[t].p] = TRUE]
  /\ ask' = [ask EXCEPT ![t] = NoAsk]
  /\ UNCHANGED <<queue, queueOverflow, askRest>>

AskStep(t) == TestOverflow(t) \/ Push(t) \/ SetOverflow(t) \/ Signal(t)

\* Starts the timer, or starts it again.
callbackRequestDelayed(c, p) ==
  /\ IsInit /\ "delay" \in Ops
  /\ timer' = [timer EXCEPT ![c] = p]
  /\ UNCHANGED <<ringVars, confVars, shutdown, threadsRunning, startStopEvent,
                 workVars, ask, mainVars, late, helper>>

\* The timer's expiry makes the request; nobody looks at its result.
notify(c) ==
  /\ timer[c] # -1
  /\ callbackRequest("timer", c, timer[c])
  /\ timer' = [timer EXCEPT ![c] = -1]
  /\ UNCHANGED <<ringVars, confVars, shutdown, threadsRunning, startStopEvent,
                 workVars, mainVars, late, helper>>

\* Waits for an expiry of this timer that is in progress.
callbackCancelDelayed(c) ==
  /\ timer[c] # -1 /\ ~(ask["timer"].pc # "idle" /\ ask["timer"].cb = c)
  /\ timer' = [timer EXCEPT ![c] = -1]
  /\ UNCHANGED <<ringVars, confVars, shutdown, threadsRunning, startStopEvent,
                 workVars, ask, mainVars, late, helper>>

-----------------------------------------------------------------------------
(* callbackTask *)

\* the part of the state the loop of a worker does not touch
workRest == <<confVars, shutdown, ask, timer, mainVars>>

Goto(w, pc) == wpc' = [wpc EXCEPT ![w] = pc]

\* "epicsEventSignal(startStopEvent)"
Start(w) ==
  /\ wpc[w] = "start"
  /\ startStopEvent' = TRUE
  /\ Goto(w, "test")
  /\ UNCHANGED <<ringVars, threadsRunning, wcb, late, helper, workRest>>

\* "while(!mySet->shutdown)"
Test(w) ==
  /\ wpc[w] = "test"
  /\ Goto(w, IF shutdown[w[1]] THEN "exit" ELSE "check")
  /\ UNCHANGED <<ringVars, threadsRunning, startStopEvent, wcb, late, helper, workRest>>

Check(w) ==
  /\ wpc[w] = "check"
  /\ Goto(w, IF queue[w[1]] = <<>> THEN "wait" ELSE "pop")
  /\ UNCHANGED <<ringVars, threadsRunning, startStopEvent, wcb, late, helper, workRest>>

Wait(w) ==
  /\ wpc[w] = "wait" /\ semWakeUp[w[1]]
  /\ semWakeUp' = [semWakeUp EXCEPT ![w[1]] = FALSE]
  /\ Goto(w, "pop")
  /\ UNCHANGED <<queue, queueOverflow, threadsRunning, startStopEvent, wcb, late, helper,
                 workRest>>

\* Mutant: the newest callback is taken.
Pop_Newest(w) ==
  LET p == w[1]
      n == Len(queue[p])
  IN /\ wpc[w] = "pop"
     /\ IF n = 0
        THEN Goto(w, "test") /\ UNCHANGED <<queue, wcb>>
        ELSE /\ Goto(w, "more")
             /\ wcb' = [wcb EXCEPT ![w] = queue[p][n]]
             /\ queue' = [queue EXCEPT ![p] = SubSeq(@, 1, n - 1)]
     /\ UNCHANGED <<semWakeUp, queueOverflow, threadsRunning, startStopEvent, late, helper,
                    workRest>>

Pop(w) ==
  LET p == w[1]
  IN /\ wpc[w] = "pop"
     /\ IF queue[p] = <<>>
        THEN Goto(w, "test") /\ UNCHANGED <<queue, wcb>>
        ELSE /\ Goto(w, "more")
             /\ wcb' = [wcb EXCEPT ![w] = Head(queue[p])]
             /\ queue' = [queue EXCEPT ![p] = Tail(@)]
     /\ UNCHANGED <<semWakeUp, queueOverflow, threadsRunning, startStopEvent, late, helper,
                    workRest>>

\* Mutant: the next worker is not woken.
More_Never(w) ==
  /\ wpc[w] = "more"
  /\ Goto(w, "clear")
  /\ UNCHANGED <<ringVars, threadsRunning, startStopEvent, wcb, late, helper, workRest>>

\* "if(!epicsRingPointerIsEmpty(mySet->queue)) epicsEventMustTrigger(mySet->semWakeUp)"
More(w) ==
  /\ wpc[w] = "more"
  /\ Goto(w, IF queue[w[1]] = <<>> THEN "clear" ELSE "trigger")
  /\ UNCHANGED <<ringVars, threadsRunning, startStopEvent, wcb, late, helper, workRest>>

Trigger(w) ==
  /\ wpc[w] = "trigger"
  /\ semWakeUp' = [semWakeUp EXCEPT ![w[1]] = TRUE]
  /\ Goto(w, "clear")
  /\ UNCHANGED <<queue, queueOverflow, threadsRunning, startStopEvent, wcb, late, helper,
                 workRest>>

Clear(w) ==
  /\ wpc[w] = "clear"
  /\ queueOverflow' = [queueOverflow EXCEPT ![w[1]] = FALSE]
  /\ Goto(w, "run")
  /\ UNCHANGED <<queue, semWakeUp, threadsRunning, startStopEvent, wcb, late, helper,
                 workRest>>

\* The callback, any but sync_callback, returns.
Run(w) ==
  /\ wpc[w] = "run" /\ wcb[w] # SyncCb
  /\ Goto(w, "pop") /\ wcb' = [wcb EXCEPT ![w] = NoCb]
  /\ UNCHANGED <<ringVars, threadsRunning, startStopEvent, late, helper, workRest>>

\* sync_callback from the second half on: the last one wakes testSyncCallback
Awake(h) == [h EXCEPT !.nphase3 = @ - 1, !.phase4 = h.nphase3 = 1]

\* Under testGlobalLock; all but the last to start wait, and as testSyncCallback requests
\* one callback only, nobody triggers their wait_phase2.
sync_callback(w) ==
  LET h == [helper[w[1]] EXCEPT !.nphase2 = @ - 1]
  IN /\ wpc[w] = "run" /\ wcb[w] = SyncCb
     /\ IF h.nphase2 # 0
        THEN Goto(w, "phase2") /\ helper' = [helper EXCEPT ![w[1]] = h] /\ UNCHANGED wcb
        ELSE /\ Goto(w, "pop") /\ helper' = [helper EXCEPT ![w[1]] = Awake(h)]
             /\ wcb' = [wcb EXCEPT ![w] = NoCb]
     /\ UNCHANGED <<ringVars, threadsRunning, startStopEvent, late, workRest>>

\* Mutant: the worker leaves uncounted.
Exit_Uncounted(w) ==
  /\ wpc[w] = "exit"
  /\ Goto(w, "done")
  /\ UNCHANGED <<ringVars, threadsRunning, late, startStopEvent, wcb, helper, workRest>>

\* The last worker of a priority is about to signal, after main may have seen the count.
Exit(w) ==
  /\ wpc[w] = "exit"
  /\ threadsRunning' = [threadsRunning EXCEPT ![w[1]] = @ - 1]
  /\ late' = IF threadsRunning'[w[1]] = 0 THEN late + 1 ELSE late
  /\ Goto(w, "done")
  /\ UNCHANGED <<ringVars, startStopEvent, wcb, helper, workRest>>

LateSignal ==
  /\ late > 0
  /\ late' = late - 1
  /\ startStopEvent' = TRUE
  /\ UNCHANGED <<ringVars, threadsRunning, workVars, helper, workRest>>

callbackTask(w) ==
  \/ Start(w) \/ Test(w) \/ Check(w) \/ Wait(w) \/ Pop(w) \/ More(w) \/ Trigger(w)
  \/ Clear(w) \/ Run(w) \/ sync_callback(w) \/ Exit(w)

-----------------------------------------------------------------------------
(* The main thread *)

callbackSetQueueSize(n) ==
  /\ mpc = "down" /\ "configure" \in Ops
  /\ callbackQueueSize' = n
  /\ UNCHANGED <<ringVars, threadsConfigured, shutdown, threadsRunning, startStopEvent,
                 workVars, ask, timer, mainVars, late, helper>>

\* ps: the priority named, or all of them
callbackParallelThreads(n, ps) ==
  /\ mpc = "down" /\ "configure" \in Ops
  /\ threadsConfigured' = [p \in Prios |-> IF p \in ps THEN n ELSE threadsConfigured[p]]
  /\ UNCHANGED <<ringVars, callbackQueueSize, shutdown, threadsRunning, startStopEvent,
                 workVars, ask, timer, mainVars, late, helper>>

\* With the priorities that were not configured given their default number of threads.
callbackInit ==
  /\ mpc = "down" /\ late <= MaxLate
  /\ mpc' = "create" /\ mp' = 0 /\ mj' = 1
  /\ threadsConfigured' = [p \in Prios |-> IF threadsConfigured[p] = 0
                             THEN callbackThreadsDefault ELSE threadsConfigured[p]]
  /\ UNCHANGED <<ringVars, callbackQueueSize, shutdown, threadsRunning, startStopEvent,
                 workVars, ask, timer, late, helper>>

InitCreate ==
  /\ mpc = "create"
  /\ wpc' = [wpc EXCEPT ![<<mp, mj>>] = "start"]
  /\ mpc' = "await"
  /\ UNCHANGED <<ringVars, confVars, shutdown, threadsRunning, startStopEvent, wcb, ask,
                 timer, mp, mj, late, helper>>

\* A signal left by a worker of an earlier start ends this wait too.
InitAwait ==
  /\ mpc = "await" /\ startStopEvent
  /\ startStopEvent' = FALSE
  /\ threadsRunning' = [threadsRunning EXCEPT ![mp] = @ + 1]
  /\ \/ mj < threadsConfigured[mp] /\ mj' = mj + 1 /\ mp' = mp /\ mpc' = "create"
     \/ /\ mj = threadsConfigured[mp] /\ mj' = 1 /\ mp' = mp + 1
        /\ mpc' = IF mp' \in Prios THEN "create" ELSE "up"
  /\ UNCHANGED <<ringVars, confVars, shutdown, workVars, ask, timer, late, helper>>

\* the part of the state testSyncCallback does not touch
syncRest == <<ringVars, confVars, shutdown, threadsRunning, startStopEvent, workVars, timer,
              mj, late>>

testSyncCallback ==
  /\ mpc = "up" /\ "sync" \in Ops
  /\ mpc' = "request" /\ mp' = 0
  /\ UNCHANGED <<ask, helper, syncRest>>

\* One request per priority, whatever the number of its workers.
SyncRequest ==
  /\ mpc = "request" /\ mp \in Prios
  /\ helper' = [helper EXCEPT ![mp] = [NoHelper EXCEPT !.nphase2 = threadsRunning[mp],
                                                       !.nphase3 = threadsRunning[mp]]]
  /\ callbackRequest("main", SyncCb, mp)
  /\ mp' = mp + 1
  /\ UNCHANGED <<mpc, syncRest>>

SyncRequested ==
  /\ mpc = "request" /\ mp \notin Prios /\ ask["main"].pc = "idle"
  /\ mpc' = "phase4" /\ mp' = 0
  /\ UNCHANGED <<ask, helper, syncRest>>

SyncWait ==
  /\ mpc = "phase4" /\ helper[mp].phase4
  /\ helper' = [helper EXCEPT ![mp].phase4 = FALSE]
  /\ mp' = mp + 1
  /\ mpc' = IF mp' \in Prios THEN "phase4" ELSE "up"
  /\ UNCHANGED <<ask, syncRest>>

\* the part of the state callbackStop does not touch
stopRest == <<queue, queueOverflow, confVars, threadsRunning, workVars, ask, timer, mj, late,
              helper>>

callbackStop ==
  /\ mpc = "up" /\ "stop" \in Ops
  /\ mpc' = "shut" /\ mp' = 0
  /\ UNCHANGED <<semWakeUp, shutdown, startStopEvent, stopRest>>

StopShut ==
  /\ mpc = "shut"
  /\ shutdown' = [shutdown EXCEPT ![mp] = TRUE]
  /\ semWakeUp' = [semWakeUp EXCEPT ![mp] = TRUE]
  /\ IF mp + 1 \in Prios THEN mp' = mp + 1 /\ mpc' = mpc ELSE mp' = 0 /\ mpc' = "join"
  /\ UNCHANGED <<startStopEvent, stopRest>>

NextJoin ==
  /\ mp' = mp + 1
  /\ mpc' = IF mp' \in Prios THEN "join" ELSE "stopped"
  /\ UNCHANGED <<semWakeUp, shutdown, startStopEvent, stopRest>>

\* "while (epicsAtomicGetIntT(&mySet->threadsRunning))"
StopJoin ==
  /\ mpc = "join"
  /\ \/ threadsRunning[mp] = 0 /\ NextJoin
     \/ /\ threadsRunning[mp] # 0
        /\ semWakeUp' = [semWakeUp EXCEPT ![mp] = TRUE]
        /\ mpc' = "joinwait"
        /\ UNCHANGED <<mp, shutdown, startStopEvent, stopRest>>

\* Mutant: the signal of one worker stands for all of them.
StopWait_Once == mpc = "joinwait" /\ NextJoin

\* Signalled, or timed out.
StopWait ==
  /\ mpc = "joinwait"
  /\ startStopEvent' \in {FALSE, startStopEvent}
  /\ mpc' = "join"
  /\ UNCHANGED <<mp, semWakeUp, shutdown, stopRest>>

\* Its callers have stopped everything that makes requests.  The memset clears the
\* configuration too.
callbackCleanup ==
  /\ mpc = "stopped" /\ \A t \in Threads : ask[t].pc = "idle"
  /\ \A c \in Cbs : timer[c] = -1
  /\ queue' = [p \in Prios |-> <<>>] /\ semWakeUp' = [p \in Prios |-> FALSE]
  /\ queueOverflow' = [p \in Prios |-> FALSE] /\ shutdown' = [p \in Prios |-> FALSE]
  /\ threadsConfigured' = [p \in Prios |-> 0] /\ threadsRunning' = [p \in Prios |-> 0]
  /\ mpc' = "down" /\ mp' = 0
  /\ UNCHANGED <<callbackQueueSize, startStopEvent, workVars, ask, timer, mj, late, helper>>

\* what main has begun
MainStep ==
  \/ InitCreate \/ InitAwait \/ SyncRequest \/ SyncRequested \/ SyncWait
  \/ StopShut \/ StopJoin \/ StopWait

-----------------------------------------------------------------------------
Next ==
  \/ \E t \in Askers, c \in Cbs, p \in Prios : Request(t, c, p)
  \/ \E t \in Threads : AskStep(t)
  \/ \E c \in Cbs : \/ notify(c) \/ callbackCancelDelayed(c)
                    \/ \E p \in Prios : callbackRequestDelayed(c, p)
  \/ \E w \in Workers : callbackTask(w)
  \/ LateSignal
  \/ \E n \in QueueSizes : callbackSetQueueSize(n)
  \/ \E n \in 1 .. MaxThreads, ps \in {Prios} \cup {{p} : p \in Prios} :
       callbackParallelThreads(n, ps)
  \/ callbackInit \/ testSyncCallback \/ callbackStop \/ callbackCleanup
  \/ MainStep

\* Threads that can run do, callbacks return, and timers expire or are cancelled.
Fairness ==
  /\ \A t \in Threads : WF_vars(AskStep(t))
  /\ \A c \in Cbs : WF_vars(notify(c))
  /\ \A w \in Workers : WF_vars(callbackTask(w))
  /\ WF_vars(LateSignal) /\ WF_vars(MainStep)

Spec     == Init /\ [][Next]_vars
FairSpec == Spec /\ Fairness

-----------------------------------------------------------------------------
(* Properties *)

\* A worker never sleeps in callbackTask while its ring holds a callback unless a wakeup
\* is pending or certain: the semaphore is signalled, callbackRequest is about to signal
\* it, or another worker of the priority is where it will look at the ring again before
\* it runs anything.
NoIdleWorker ==
  \A w \in Workers :
    wpc[w] = "wait" /\ queue[w[1]] # <<>> =>
      \/ semWakeUp[w[1]]
      \/ \E t \in Threads : ask[t].pc = "signal" /\ ask[t].p = w[1]
      \/ \E v \in Workers : v[1] = w[1] /\ wpc[v] \in {"pop", "more", "trigger"}

\* the number of workers that have not left their loop
WorkersCounted ==
  \A p \in Prios :
    Cardinality({w \in Workers : w[1] = p /\ wpc[w] \notin {"none", "done"}})
      = threadsRunning[p] + (IF mpc = "await" /\ mp = p THEN 1 ELSE 0)

\* When callbackStop has returned no worker of any priority is inside its loop: the
\* rings and semaphores callbackCleanup deletes are in nobody's hands, also when workers
\* of an earlier start are late to signal.  For callbackInit counts every worker it has
\* created once, whether its own signal or one left over from an earlier stop ended the
\* wait, so the count callbackStop waits on is that of the workers in their loop.
CleanupSafe ==
  /\ WorkersCounted
  /\ mpc \in {"stopped", "down"} => \A w \in Workers : wpc[w] \in {"none", "done"}

Stopping == mpc \in {"shut", "join", "joinwait", "stopped"}

\* A callback on a ring is run, however requests and workers interleave, unless
\* callbackStop is called first.
RequestRuns ==
  \A c \in Cbs, p \in Prios :
    (\E i \in 1 .. Len(queue[p]) : queue[p][i] = c)
      ~> (Stopping \/ \E w \in Workers : w[1] = p /\ wpc[w] = "run" /\ wcb[w] = c)

CallbackStopReturns ==
  (<>[] \A t \in Threads : ask[t].pc = "idle") => (mpc = "shut" ~> mpc = "stopped")

SyncReturns ==
  [](\A p \in Prios : ~queueOverflow[p] /\ threadsConfigured[p] <= 1)
    => (mpc = "phase4" ~> mpc = "up")

\* callbackStop returns once requests are no longer made, whatever the workers were
\* doing and whoever took the signals; and testSyncCallback returns if every priority
\* has one worker and the rings always had room.
CallsReturn == CallbackStopReturns /\ SyncReturns

\* A ring that was full is usable again: "S_db_bufFull" stands for a full buffer.
OverflowClears == \A p \in Prios : queueOverflow[p] ~> ~queueOverflow[p]

=============================================================================
