----------------------------- MODULE ThreadPool -----------------------------
(***************************************************************************)
(* The thread pool, poolJob.c and threadPool.c: jobs are queued, workers   *)
(* are created on demand and woken through one binary event, which a woken *)
(* worker passes on.                                                       *)
(*                                                                         *)
(* What happens between taking and releasing pool->guard is one step.  The *)
(* calls are made by any thread, the job functions included, until the     *)
(* pool is being destroyed, and then only by jobs that run; a job function *)
(* returns.  As the header asks, a job is moved by one thread and nobody   *)
(* waits on a pool that is being destroyed.                                *)
(***************************************************************************)
EXTENDS Integers, SequencesExt

CONSTANTS
  Jobs,
  None,
  Observers,    \* threads that call epicsThreadPoolWait
  maxThreads,
  Ops           \* optional behaviour: "timeout", "pause", "move", "nothread"

ASSUME PoolAssumption ==
  /\ maxThreads \in Nat \ {0}
  /\ IsFiniteSet(Observers) /\ "destroyer" \notin Observers
  /\ IsFiniteSet(Jobs) /\ None \notin Jobs
  /\ Ops \subseteq {"timeout", "pause", "move", "nothread"}

Workers == 1 .. maxThreads
Waiters == Observers \cup {"destroyer"}

VARIABLES
  jobs, owned,           \* run queue, unqueued jobs
  threadsAreAwake, threadsWaking, threadsSleeping, threadsRunning, observerCount,
  workerWakeup, shutdownEvent, observerWakeup,   \* binary events
  pauseadd, pauserun, shutdown,
  queued, running, freewhendone,   \* the jobs that have the flag
  where,      \* of a job: "pool", "nopool" (job->pool is NULL), "none" (not allocated)
  wpc, wjob,  \* workers: where they are, and the job in hand
  nrun,       \* workers: how many others were left, at the last look
  opc,        \* threads in epicsThreadPoolWait
  dpc, nThr, notify   \* epicsThreadPoolDestroy and its local variables

counts == <<threadsAreAwake, threadsWaking, threadsSleeping, threadsRunning>>
lists  == <<jobs, owned>>
modes  == <<pauseadd, pauserun, shutdown>>
flags  == <<queued, running, freewhendone, where>>
wvars  == <<wpc, wjob, nrun>>
ovars  == <<opc, observerCount, observerWakeup>>
dvars  == <<dpc, nThr, notify, shutdownEvent>>
vars == <<lists, counts, workerWakeup, modes, flags, wvars, ovars, dvars>>

\* Every variable has its type.
TypeOK ==
  /\ jobs \in Seq(Jobs) /\ owned \subseteq Jobs
  /\ threadsAreAwake \in Nat /\ threadsWaking \in Nat /\ threadsSleeping \in Nat
  /\ threadsRunning \in 0 .. maxThreads
  /\ observerCount \in Nat /\ nThr \in Nat
  /\ workerWakeup \in BOOLEAN /\ shutdownEvent \in BOOLEAN /\ observerWakeup \in BOOLEAN
  /\ pauseadd \in BOOLEAN /\ pauserun \in BOOLEAN /\ shutdown \in BOOLEAN
  /\ queued \subseteq Jobs /\ running \subseteq Jobs /\ freewhendone \subseteq Jobs
  /\ where \in [Jobs -> {"pool", "nopool", "none"}]
  /\ wpc \in [Workers -> {"none", "sleep", "woken", "run", "leaving", "done"}]
  /\ wjob \in [Workers -> Jobs \cup {None}] /\ nrun \in [Workers -> 0 .. maxThreads]
  /\ opc \in [Waiters -> {"idle", "wait", "woken", "late", "returned"}]
  /\ dpc \in {"none", "wait", "join", "notify", "gone"}
  /\ notify \in Seq(Jobs)

\* epicsThreadPoolCreate has created its initialThreads, or fewer.
epicsThreadPoolCreate ==
  /\ jobs = <<>> /\ owned = {}
  /\ \E n \in 0 .. maxThreads :
       /\ threadsSleeping = n /\ threadsRunning = n
       /\ wpc = [w \in Workers |-> IF w <= n THEN "sleep" ELSE "none"]
  /\ threadsAreAwake = 0 /\ threadsWaking = 0 /\ observerCount = 0
  /\ workerWakeup = FALSE /\ shutdownEvent = FALSE /\ observerWakeup = FALSE
  /\ pauseadd = FALSE /\ pauserun = FALSE /\ shutdown = FALSE

Init ==
  /\ epicsThreadPoolCreate
  /\ queued = {} /\ running = {} /\ freewhendone = {}
  /\ where = [j \in Jobs |-> "none"]
  /\ wjob = [w \in Workers |-> None] /\ nrun = [w \in Workers |-> 0]
  /\ opc = [o \in Waiters |-> "idle"]
  /\ dpc = "none" /\ nThr = 0 /\ notify = <<>>

-----------------------------------------------------------------------------
(* workerMain *)

\* while (ellGet(&pool->jobs)): run the first job of q, or else tell the
\* observers and sleep.  q, queued_ and running_ are as the worker found or
\* left them, awake and sleeping count it as awake.
NextJob(w, q, queued_, running_, awake, sleeping) ==
  \/ /\ q # <<>>
     /\ jobs' = Tail(q)
     /\ queued' = queued_ \ {Head(q)} /\ running' = running_ \cup {Head(q)}
     /\ wpc' = [wpc EXCEPT ![w] = "run"] /\ wjob' = [wjob EXCEPT ![w] = Head(q)]
     /\ threadsAreAwake' = awake /\ threadsSleeping' = sleeping
     /\ UNCHANGED observerWakeup
  \/ /\ q = <<>>
     /\ jobs' = q /\ queued' = queued_ /\ running' = running_
     /\ wpc' = [wpc EXCEPT ![w] = "sleep"] /\ wjob' = [wjob EXCEPT ![w] = None]
     /\ threadsAreAwake' = awake - 1 /\ threadsSleeping' = sleeping + 1
     /\ observerWakeup' = (observerWakeup \/ observerCount > 0)

\* epicsEventMustWait(workerWakeup) returns.
WorkerWakes(w) ==
  /\ wpc[w] = "sleep" /\ workerWakeup
  /\ workerWakeup' = FALSE
  /\ wpc' = [wpc EXCEPT ![w] = "woken"]
  /\ UNCHANGED <<lists, counts, modes, flags, wjob, nrun, ovars, dvars>>

\* Nothing to wake for, or the pool is paused: sleep again.  The wake-up is
\* not passed on.
WorkerSleepsAgain(w) ==
  /\ wpc[w] = "woken"
  /\ threadsWaking = 0 \/ (~shutdown /\ pauserun)
  /\ threadsWaking' = IF threadsWaking = 0 THEN 0 ELSE threadsWaking - 1
  /\ wpc' = [wpc EXCEPT ![w] = "sleep"]
  /\ UNCHANGED <<lists, threadsAreAwake, threadsSleeping, threadsRunning, workerWakeup,
                 modes, flags, wjob, nrun, ovars, dvars>>

\* A worker that is woken to work: it passes the wake-up on.
WorkerStarts(w) ==
  /\ wpc[w] = "woken" /\ threadsWaking > 0 /\ ~shutdown /\ ~pauserun
  /\ threadsWaking' = threadsWaking - 1
  /\ workerWakeup' = (workerWakeup \/ threadsWaking > 1)
  /\ NextJob(w, jobs, queued, running, threadsAreAwake + 1, threadsSleeping - 1)
  /\ UNCHANGED <<owned, threadsRunning, modes, freewhendone, where, nrun, opc,
                 observerCount, dvars>>

\* Mutant: a job that queued itself is forgotten.
WorkerFinishes_Forget(w) ==
  /\ wpc[w] = "run"
  /\ LET j == wjob[w] IN
     \/ /\ j \in freewhendone
        /\ where' = [where EXCEPT ![j] = "none"] /\ freewhendone' = freewhendone \ {j}
        /\ NextJob(w, jobs, queued \ {j}, running \ {j}, threadsAreAwake, threadsSleeping)
        /\ UNCHANGED owned
     \/ /\ j \notin freewhendone
        /\ owned' = owned \cup {j}
        /\ NextJob(w, jobs, queued, running \ {j}, threadsAreAwake, threadsSleeping)
        /\ UNCHANGED <<where, freewhendone>>
  /\ UNCHANGED <<threadsWaking, threadsRunning, workerWakeup, modes, nrun, opc,
                 observerCount, dvars>>

\* The job function has returned.  pauserun is not looked at before the next
\* job.
WorkerFinishes(w) ==
  /\ wpc[w] = "run"
  /\ LET j == wjob[w] IN
     \/ /\ j \in freewhendone
        /\ where' = [where EXCEPT ![j] = "none"] /\ freewhendone' = freewhendone \ {j}
        /\ NextJob(w, jobs, queued \ {j}, running \ {j}, threadsAreAwake, threadsSleeping)
        /\ UNCHANGED owned
     \/ /\ j \notin freewhendone /\ j \in queued
        /\ NextJob(w, Append(jobs, j), queued, running \ {j},
                   threadsAreAwake, threadsSleeping)
        /\ UNCHANGED <<where, freewhendone, owned>>
     \/ /\ j \notin freewhendone /\ j \notin queued
        /\ owned' = owned \cup {j}
        /\ NextJob(w, jobs, queued, running \ {j}, threadsAreAwake, threadsSleeping)
        /\ UNCHANGED <<where, freewhendone>>
  /\ UNCHANGED <<threadsWaking, threadsRunning, workerWakeup, modes, nrun, opc,
                 observerCount, dvars>>

\* pool->shutdown: the worker leaves the loop and gives up the guard.
WorkerLeaves(w) ==
  /\ wpc[w] = "woken" /\ threadsWaking > 0 /\ shutdown
  /\ threadsWaking' = threadsWaking - 1
  /\ threadsSleeping' = threadsSleeping - 1
  /\ threadsRunning' = threadsRunning - 1
  /\ nrun' = [nrun EXCEPT ![w] = threadsRunning - 1]
  /\ wpc' = [wpc EXCEPT ![w] = "leaving"]
  /\ UNCHANGED <<lists, threadsAreAwake, workerWakeup, modes, flags, wjob, ovars, dvars>>

\* Mutant: the wake-up is not passed along.
WorkerEnds_Alone(w) ==
  /\ wpc[w] = "leaving"
  /\ shutdownEvent' = (shutdownEvent \/ nrun[w] = 0)
  /\ wpc' = [wpc EXCEPT ![w] = "done"]
  /\ UNCHANGED <<lists, counts, workerWakeup, modes, flags, wjob, nrun, ovars, dpc, nThr,
                 notify>>

\* Outside of the guard it signals the next worker, or the last one the
\* destroyer.  No one observes then: ocnt is zero.
WorkerEnds(w) ==
  /\ wpc[w] = "leaving"
  /\ workerWakeup' = (workerWakeup \/ nrun[w] > 0)
  /\ shutdownEvent' = (shutdownEvent \/ nrun[w] = 0)
  /\ wpc' = [wpc EXCEPT ![w] = "done"]
  /\ UNCHANGED <<lists, counts, modes, flags, wjob, nrun, ovars, dpc, nThr, notify>>

-----------------------------------------------------------------------------
(* Jobs *)

\* Somebody may call: the pool is in use, or a job of it runs.
MayCall == dpc = "none" \/ (dpc = "wait" /\ running # {})

epicsJobCreate(j) ==
  /\ MayCall /\ where[j] = "none"
  /\ \/ /\ where' = [where EXCEPT ![j] = "pool"] /\ owned' = owned \cup {j}
     \/ /\ "move" \in Ops /\ where' = [where EXCEPT ![j] = "nopool"] /\ UNCHANGED owned
  /\ UNCHANGED <<jobs, counts, workerWakeup, modes, queued, running, freewhendone,
                 wvars, ovars, dvars>>

\* Out of the pool, or of none into it; refused while it is queued or runs.
epicsJobMove(j) ==
  /\ "move" \in Ops /\ MayCall
  /\ \/ /\ where[j] = "pool" /\ j \notin queued \cup running
        /\ where' = [where EXCEPT ![j] = "nopool"] /\ owned' = owned \ {j}
     \/ /\ where[j] = "nopool"
        /\ where' = [where EXCEPT ![j] = "pool"] /\ owned' = owned \cup {j}
  /\ UNCHANGED <<jobs, counts, workerWakeup, modes, queued, running, freewhendone,
                 wvars, ovars, dvars>>

\* The lists without j in the run queue.
Unqueued(j) ==
  /\ queued' = queued \ {j}
  /\ jobs' = RemoveFirst(jobs, j)

epicsJobUnqueue(j) ==
  /\ MayCall /\ where[j] = "pool" /\ j \in queued
  /\ Unqueued(j)
  /\ owned' = IF j \in running THEN owned ELSE owned \cup {j}
  /\ UNCHANGED <<counts, workerWakeup, modes, running, freewhendone, where, wvars,
                 ovars, dvars>>

\* A job that runs is freed by its worker.  A job without a pool is freed
\* even after the pool is gone.
epicsJobDestroy(j) ==
  /\ \/ /\ where[j] = "nopool"
        /\ where' = [where EXCEPT ![j] = "none"]
        /\ UNCHANGED <<lists, queued, freewhendone>>
     \/ /\ MayCall /\ where[j] = "pool"
        /\ Unqueued(j)
        /\ \/ /\ j \in running
              /\ freewhendone' = freewhendone \cup {j}
              /\ UNCHANGED <<owned, where>>
           \/ /\ j \notin running
              /\ owned' = owned \ {j} /\ where' = [where EXCEPT ![j] = "none"]
              /\ UNCHANGED freewhendone
  /\ UNCHANGED <<counts, workerWakeup, modes, running, wvars, ovars, dvars>>

\* How many of n threads createPoolThread succeeds in creating.
Created(n) == IF "nothread" \in Ops THEN 0 .. n ELSE {n}

\* k new workers; they wait for the wake-up they were created for.
createPoolThread(k) ==
  /\ threadsRunning' = threadsRunning + k
  /\ threadsSleeping' = threadsSleeping + k
  /\ wpc' = [w \in Workers |->
               IF w \in threadsRunning + 1 .. threadsRunning + k THEN "sleep" ELSE wpc[w]]

\* Mutant: workers are woken without regard to how many sleep.
Enqueue_Eager(j) ==
  LET all == threadsRunning >= maxThreads
      woken == threadsWaking >= threadsSleeping IN
  /\ queued' = queued \cup {j} /\ owned' = owned \ {j} /\ jobs' = Append(jobs, j)
  /\ \E k \in IF ~all /\ woken THEN Created(1) ELSE {0} :
       /\ k = 0 /\ ~all /\ woken => threadsRunning > 0
       /\ createPoolThread(k)
       /\ threadsWaking' = threadsWaking + 1
       /\ workerWakeup' = TRUE

\* The job joins the queue: wake a sleeping worker, or create one.
Enqueue(j) ==
  LET all == threadsRunning >= maxThreads
      woken == threadsWaking >= threadsSleeping IN
  /\ queued' = queued \cup {j} /\ owned' = owned \ {j} /\ jobs' = Append(jobs, j)
  /\ \E k \in IF ~all /\ woken THEN Created(1) ELSE {0} :
       /\ k = 0 /\ ~all /\ woken => threadsRunning > 0
       /\ createPoolThread(k)
       /\ threadsWaking' = IF all /\ woken THEN threadsWaking ELSE threadsWaking + 1
       /\ workerWakeup' = (workerWakeup \/ ~(all /\ woken))

\* A job that is queued already stays as it is, one that runs is queued
\* again by its worker.  Without a worker and a thread to create one the
\* queueing is undone, and nothing has changed.
epicsJobQueue(j) ==
  /\ MayCall /\ where[j] = "pool" /\ ~pauseadd /\ j \notin freewhendone \cup queued
  /\ \/ /\ j \in running
        /\ queued' = queued \cup {j}
        /\ UNCHANGED <<lists, counts, workerWakeup, wpc>>
     \/ /\ j \notin running /\ Enqueue(j)
        /\ UNCHANGED threadsAreAwake
  /\ UNCHANGED <<modes, running, freewhendone, where, wjob, nrun, ovars, dvars>>

-----------------------------------------------------------------------------
(* The pool *)

\* Mutant: nobody is woken for the jobs that were queued in the pause.
ControlRun_NoWake == pauserun' = FALSE /\ UNCHANGED <<counts, workerWakeup, wpc>>

\* epicsThreadPoolControlImpl, QueueRun to 1: sleeping workers and then new
\* ones are woken for the jobs that wait.
ControlRun ==
  \/ /\ ~pauserun /\ UNCHANGED <<pauserun, counts, workerWakeup, wpc>>
  \/ /\ pauserun /\ pauserun' = FALSE
     /\ LET wakeable == threadsSleeping - threadsWaking
            wakeup   == IF Len(jobs) > wakeable THEN wakeable ELSE Len(jobs)
            rest     == Len(jobs) - wakeup
            room     == maxThreads - threadsRunning
        IN \E k \in Created(IF rest < room THEN rest ELSE room) :
             /\ createPoolThread(k)
             /\ threadsWaking' = threadsWaking + wakeup + k
             /\ workerWakeup' = (workerWakeup \/ wakeup + k > 0)
     /\ UNCHANGED threadsAreAwake

epicsThreadPoolControl ==
  /\ "pause" \in Ops /\ dpc = "none"
  /\ \/ /\ pauseadd' = ~pauseadd
        /\ UNCHANGED <<pauserun, counts, workerWakeup, wpc>>
     \/ /\ ~pauserun /\ pauserun' = TRUE
        /\ UNCHANGED <<pauseadd, counts, workerWakeup, wpc>>
     \/ /\ pauserun /\ ControlRun /\ UNCHANGED pauseadd
  /\ UNCHANGED <<lists, shutdown, flags, wjob, nrun, ovars, dvars>>

\* The loop of epicsThreadPoolWait, with n observers without this one: wait
\* while there are jobs or somebody is awake.
WaitLoop(o, n) ==
  LET busy == jobs # <<>> \/ threadsAreAwake > 0 IN
  /\ observerCount' = IF busy THEN n + 1 ELSE n
  /\ opc' = [opc EXCEPT ![o] = IF busy THEN "wait"
                               ELSE IF o = "destroyer" THEN "returned" ELSE "idle"]

epicsThreadPoolWait(o) ==
  /\ opc[o] = "idle"
  /\ dpc = IF o = "destroyer" THEN "wait" ELSE "none"
  /\ WaitLoop(o, observerCount)
  /\ UNCHANGED <<lists, counts, workerWakeup, modes, flags, wvars, observerWakeup, dvars>>

\* The event, or the time, wakes the observer.
ObserverWakes(o) ==
  /\ opc[o] = "wait"
  /\ \/ /\ observerWakeup /\ observerWakeup' = FALSE
        /\ opc' = [opc EXCEPT ![o] = "woken"]
     \/ /\ "timeout" \in Ops /\ o # "destroyer"
        /\ opc' = [opc EXCEPT ![o] = "late"] /\ UNCHANGED observerWakeup
  /\ UNCHANGED <<lists, counts, workerWakeup, modes, flags, wvars, observerCount, dvars>>

\* It tells the other observers and looks again, or returns S_pool_timeout.
ObserverLooks(o) ==
  /\ \/ opc[o] = "woken" /\ WaitLoop(o, observerCount - 1)
     \/ /\ opc[o] = "late" /\ opc' = [opc EXCEPT ![o] = "idle"]
        /\ observerCount' = observerCount - 1
  /\ observerWakeup' = (observerWakeup \/ observerCount > 1)
  /\ UNCHANGED <<lists, counts, workerWakeup, modes, flags, wvars, dvars>>

\* epicsThreadPoolDestroy up to its wait: no more jobs, run the queued ones.
epicsThreadPoolDestroy ==
  /\ dpc = "none" /\ \A o \in Observers : opc[o] = "idle"
  /\ dpc' = "wait"
  /\ pauseadd' = TRUE /\ ControlRun
  /\ nThr' = threadsRunning'
  /\ UNCHANGED <<lists, shutdown, flags, wjob, nrun, ovars, notify, shutdownEvent>>

\* All jobs have run: wake all workers to leave.
DestroyShutdown ==
  /\ dpc = "wait" /\ opc["destroyer"] = "returned"
  /\ dpc' = "join"
  /\ shutdown' = TRUE
  /\ workerWakeup' = (workerWakeup \/ threadsWaking < threadsSleeping)
  /\ threadsWaking' = IF threadsWaking < threadsSleeping THEN threadsSleeping ELSE threadsWaking
  /\ notify' = SetToSeq(owned) \o jobs
  /\ owned' = {} /\ jobs' = <<>>
  /\ UNCHANGED <<threadsAreAwake, threadsSleeping, threadsRunning, pauseadd, pauserun,
                 flags, wvars, ovars, nThr, shutdownEvent>>

\* Wait for the workers to stop.
DestroyJoin ==
  /\ dpc = "join" /\ (nThr = 0 \/ shutdownEvent)
  /\ shutdownEvent' = (shutdownEvent /\ nThr = 0)
  /\ dpc' = "notify"
  /\ UNCHANGED <<lists, counts, workerWakeup, modes, flags, wvars, ovars, nThr, notify>>

\* A job that is left is told, and freed if it destroys itself.
DestroyNotify ==
  /\ dpc = "notify" /\ notify # <<>>
  /\ notify' = Tail(notify)
  /\ \E to \in {"none", "nopool"} : where' = [where EXCEPT ![Head(notify)] = to]
  /\ UNCHANGED <<lists, counts, workerWakeup, modes, queued, running, freewhendone, wvars,
                 ovars, dpc, nThr, shutdownEvent>>

\* The events, the guard and the pool are freed.
DestroyFree ==
  /\ dpc = "notify" /\ notify = <<>>
  /\ dpc' = "gone"
  /\ UNCHANGED <<lists, counts, workerWakeup, modes, flags, wvars, ovars, nThr, notify,
                 shutdownEvent>>

-----------------------------------------------------------------------------
Worker(w) ==
  \/ WorkerWakes(w) \/ WorkerSleepsAgain(w) \/ WorkerStarts(w)
  \/ WorkerFinishes(w) \/ WorkerLeaves(w) \/ WorkerEnds(w)

Destroyer ==
  \/ epicsThreadPoolWait("destroyer") \/ ObserverWakes("destroyer") \/ ObserverLooks("destroyer")
  \/ DestroyShutdown \/ DestroyJoin \/ DestroyNotify \/ DestroyFree

JobCall(j) ==
  \/ epicsJobCreate(j) \/ epicsJobMove(j) \/ epicsJobUnqueue(j)
  \/ epicsJobDestroy(j) \/ epicsJobQueue(j)

Observer(o) == epicsThreadPoolWait(o) \/ ObserverWakes(o) \/ ObserverLooks(o)

Next ==
  \/ \E w \in Workers : Worker(w)
  \/ \E j \in Jobs : JobCall(j)
  \/ \E o \in Observers : Observer(o)
  \/ epicsThreadPoolControl
  \/ epicsThreadPoolDestroy
  \/ Destroyer

Spec == Init /\ [][Next]_vars

\* Threads that can run do and job functions return.  An event that is
\* signalled wakes some thread that waits, and no thread waits for ever on an
\* event that others get again and again.
FairSpec ==
  /\ Spec
  /\ \A w \in Workers : WF_vars(Worker(w))
  /\ \A o \in Observers :
       WF_vars(ObserverLooks(o)) /\ SF_vars(observerWakeup /\ ObserverWakes(o))
  /\ WF_vars(Destroyer)

-----------------------------------------------------------------------------
(* Properties *)

At(pcs) == {w \in Workers : wpc[w] \in pcs}

\* CHECKCOUNT, at every release of the guard and not only where the code
\* looks: the counters are those of the workers, and no more workers are to
\* be woken than sleep.
CHECKCOUNT ==
  /\ threadsAreAwake = Cardinality(At({"run"}))
  /\ threadsSleeping = Cardinality(At({"sleep", "woken"}))
  /\ threadsRunning = threadsAreAwake + threadsSleeping
  /\ threadsWaking <= threadsSleeping

\* While there are jobs to run and the pool is not paused, a worker is awake
\* or one is on the way: the wake-up of a job that is queued is never lost,
\* though the event is binary, workers consume it while the pool is paused
\* and the job may be queued while every worker is about to sleep.
NoLostJob ==
  jobs # <<>> /\ ~pauserun =>
    \/ At({"run"}) # {}
    \/ threadsWaking > 0 /\ (workerWakeup \/ At({"woken"}) # {})

FlagsAgree ==
  /\ IsInjective(jobs)
  /\ \A j \in Jobs :
      LET hands == {w \in Workers : wjob[w] = j}
          here  == where[j] = "pool" /\ ~Contains(notify, j) IN
      /\ Cardinality(hands) = IF j \in running THEN 1 ELSE 0
      /\ j \in owned <=> here /\ j \notin queued \cup running
      /\ Contains(jobs, j) <=> here /\ j \in queued \ running
      /\ j \in queued \cup running => here
      /\ j \in freewhendone => j \in running \ queued

QuietAtEnd ==
  dpc \in {"notify", "gone"} =>
    /\ queued = {} /\ running = {} /\ jobs = <<>>
    /\ At({"sleep", "woken", "run"}) = {}

\* The life of a job, as poolPriv.h describes it: the flags say which list
\* the job is in, a job is run by one worker at a time, and what is freed is
\* in no list and in no worker's hands.  When the destroyer goes on to notify
\* the jobs that are left, all queued jobs have run, no worker runs one, and
\* no worker can start one any more.
JobLife == FlagsAgree /\ QuietAtEnd

JobRuns == <>[](~pauserun) => \A j \in Jobs : j \in queued ~> j \notin queued

DestroyReturns == dpc = "wait" ~> dpc = "gone"

WaitReturns ==
  [](~pauserun) /\ <>[](jobs = <<>> /\ threadsAreAwake = 0) =>
    \A o \in Observers : []<>(opc[o] = "idle")

\* What is asked of the pool gets done: a queued job runs or is unqueued,
\* unless the pool stays paused; epicsThreadPoolDestroy returns; and once there
\* is nothing left to do, whoever is in epicsThreadPoolWait is told, in a pool
\* that is not paused.
PoolProgress == JobRuns /\ DestroyReturns /\ WaitReturns

=============================================================================
