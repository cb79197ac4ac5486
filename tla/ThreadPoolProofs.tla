-------------------------- MODULE ThreadPoolProofs --------------------------
(***************************************************************************)
(* The thread pool, for any number of jobs, workers and observers.         *)
(*                                                                         *)
(* Inv holds whether or not threads can be created.  Counted ties the      *)
(* counters to the workers, Hands the jobs that run to the workers that    *)
(* have them, Listed the flags to the lists.  They need Phases, because    *)
(* what the destroyer concludes from one look at the queue has to last     *)
(* while others go on: once its wait has returned nobody may call, so      *)
(* nothing is queued and nobody starts.  From Inv follow the types and     *)
(* JobLife.                                                                *)
(*                                                                         *)
(* Wakeful is about workers to be woken, and needs that createPoolThread   *)
(* succeeds: if it fails while others run, epicsJobQueue counts one worker *)
(* too many as woken.  The event is missing only while fewer workers are   *)
(* to be woken than sleep, and there is no job or the pool is paused, so   *)
(* that the next job, or the end of the pause, sets it.  From Wakeful      *)
(* follow CHECKCOUNT and NoLostJob.                                        *)
(***************************************************************************)
EXTENDS ThreadPool, ListLemmas

Waiting == {o \in Waiters : opc[o] \in {"wait", "woken", "late"}}

\* The counters count, and workers are created in order.
WorkersCounted ==
  /\ threadsAreAwake = Cardinality(At({"run"}))
  /\ threadsSleeping = Cardinality(At({"sleep", "woken"}))
  /\ threadsRunning = threadsAreAwake + threadsSleeping
  /\ \A w \in Workers : ~shutdown => /\ wpc[w] \notin {"leaving", "done"}
                                     /\ wpc[w] = "none" <=> w > threadsRunning

WaitersCounted == observerCount = Cardinality(Waiting)

Counted == WorkersCounted /\ WaitersCounted

\* What the destroyer knows at each of its positions.
Phases ==
  /\ shutdown <=> dpc \notin {"none", "wait"}
  /\ opc["destroyer"] # "idle" => dpc # "none"
  /\ dpc = "wait" => pauseadd /\ ~pauserun /\ nThr = threadsRunning
  /\ opc["destroyer"] = "returned" => jobs = <<>> /\ threadsAreAwake = 0
  /\ shutdown => opc["destroyer"] = "returned"
  /\ dpc = "join" /\ nThr = 0 => threadsRunning = 0
  /\ shutdownEvent => shutdown /\ threadsRunning = 0
  /\ dpc \in {"notify", "gone"} => threadsRunning = 0
  /\ \A w \in Workers : wpc[w] = "leaving" /\ nrun[w] = 0 => threadsRunning = 0

\* A worker that runs has a job in hand, which no other worker has.
Hands ==
  /\ \A w \in Workers : wjob[w] \in Jobs <=> wpc[w] = "run"
  /\ \A w \in Workers : wjob[w] \in Jobs => wjob[w] \in running
  /\ \A v, w \in Workers : wjob[v] \in Jobs /\ wjob[v] = wjob[w] => v = w
  /\ \A j \in running : \E w \in Workers : wjob[w] = j

\* The flags of a job say in which list it is.
ListedAs(q, own, que, run, free, whe, not) ==
  /\ IsInjective(q)
  /\ \A j \in Jobs :
       LET here == whe[j] = "pool" /\ ~Contains(not, j) IN
       /\ j \in own <=> here /\ j \notin que \cup run
       /\ Contains(q, j) <=> here /\ j \in que \ run
       /\ j \in que \cup run => here
       /\ j \in free => j \in run \ que

Listed ==
  /\ ListedAs(jobs, owned, queued, running, freewhendone, where, notify)
  /\ ~shutdown => notify = <<>>
  /\ shutdown => owned = {}

\* Somebody will look at the queue.
Wakeful ==
  /\ threadsWaking <= threadsSleeping
  /\ jobs # <<>> /\ ~pauserun => threadsAreAwake > 0 \/ threadsWaking > 0
  /\ threadsWaking > 0 /\ ~shutdown =>
       \/ workerWakeup
       \/ \E w \in Workers : wpc[w] = "woken"
       \/ threadsWaking < threadsSleeping /\ (pauserun \/ jobs = <<>>)

Inv == TypeOK /\ Counted /\ Phases /\ Hands /\ Listed

-----------------------------------------------------------------------------
(* Counting *)

LEMMA Finite == IsFiniteSet(Workers) /\ IsFiniteSet(Waiters)
<1>1. IsFiniteSet(Workers)
  BY PoolAssumption, FS_Interval DEF Workers
<1>2. IsFiniteSet(Waiters)
  BY PoolAssumption, FS_AddElement DEF Waiters
<1>3. QED
  BY <1>1, <1>2

LEMMA AtType ==
  ASSUME NEW P
  PROVE  Cardinality(At(P)) \in Nat /\ (Cardinality(At(P)) = 0 <=> At(P) = {})
BY Finite, CountType DEF At

\* A worker that moves leaves some of the sets At(P) and enters others.
LEMMA WorkerMoves ==
  ASSUME TypeOK, NEW w \in Workers, NEW p, NEW P, wpc' = [wpc EXCEPT ![w] = p]
  PROVE  /\ Cardinality(At(P)') =
              Cardinality(At(P)) - (IF wpc[w] \in P THEN 1 ELSE 0) + (IF p \in P THEN 1 ELSE 0)
         /\ Cardinality(At(P)) \in Nat
         /\ wpc[w] \in P => Cardinality(At(P)) > 0
<1>1. DOMAIN wpc = Workers
  BY DEF TypeOK
<1>2. Cardinality(At(P)) \in Nat
  BY AtType
<1> DEFINE N == Cardinality({x \in Workers : [wpc EXCEPT ![w] = p][x] \in P})
           O == Cardinality({x \in Workers : wpc[x] \in P})
<1>3. wpc[w] \in P => Cardinality(At(P)) > 0
  <2>1. wpc[w] \in P => At(P) # {}
    BY DEF At
  <2>2. QED
    BY <2>1, <1>2, AtType
<1>4. CASE wpc[w] \in P <=> p \in P
  <2>1. N = O
    BY <1>1, <1>4, CountSame
  <2>2. N = Cardinality(At(P)') /\ O = Cardinality(At(P))
    BY DEF At
  <2> HIDE DEF N, O
  <2>3. O \in Nat /\ (wpc[w] \in P => O > 0)
    BY <1>2, <1>3, <2>2
  <2>4. N = O - (IF wpc[w] \in P THEN 1 ELSE 0) + (IF p \in P THEN 1 ELSE 0)
    BY <1>4, <2>1, <2>3
  <2>5. QED
    BY <2>2, <2>3, <2>4
<1>5. CASE wpc[w] \in P /\ p \notin P
  <2>1. N = O - 1 /\ O > 0
    BY <1>1, <1>5, CountExit, Finite
  <2>2. N = Cardinality(At(P)') /\ O = Cardinality(At(P))
    BY DEF At
  <2> HIDE DEF N, O
  <2>3. QED
    BY <1>2, <1>5, <2>1, <2>2
<1>6. CASE wpc[w] \notin P /\ p \in P
  <2>1. N = O + 1
    BY <1>1, <1>6, CountEnter, Finite
  <2>2. N = Cardinality(At(P)') /\ O = Cardinality(At(P))
    BY DEF At
  <2> HIDE DEF N, O
  <2>3. QED
    BY <1>2, <1>6, <2>1, <2>2
<1>7. QED
  BY <1>4, <1>5, <1>6

LEMMA WaiterMoves ==
  ASSUME TypeOK, NEW o \in Waiters, NEW p, opc' = [opc EXCEPT ![o] = p]
  PROVE  LET P == {"wait", "woken", "late"} IN
         /\ Cardinality(Waiting') =
              Cardinality(Waiting) - (IF opc[o] \in P THEN 1 ELSE 0) + (IF p \in P THEN 1 ELSE 0)
         /\ Cardinality(Waiting) \in Nat
         /\ opc[o] \in P => Cardinality(Waiting) > 0
<1> DEFINE P == {"wait", "woken", "late"}
           N == Cardinality({x \in Waiters : [opc EXCEPT ![o] = p][x] \in P})
           O == Cardinality({x \in Waiters : opc[x] \in P})
<1>1. DOMAIN opc = Waiters
  BY DEF TypeOK
<1>2. N = Cardinality(Waiting') /\ O = Cardinality(Waiting)
  BY DEF Waiting
<1> HIDE DEF P
<1>3. O \in Nat /\ (O = 0 <=> {x \in Waiters : opc[x] \in P} = {})
  BY Finite, CountType
<1>4. opc[o] \in P => {x \in Waiters : opc[x] \in P} # {}
  OBVIOUS
<1>5. CASE opc[o] \in P <=> p \in P
  <2>1. N = O
    BY <1>1, <1>5, CountSame
  <2> HIDE DEF N, O
  <2>2. QED
    BY <1>2, <1>3, <1>4, <1>5, <2>1 DEF P
<1>6. CASE opc[o] \in P /\ p \notin P
  <2>1. N = O - 1 /\ O > 0
    BY <1>1, <1>6, CountExit, Finite
  <2> HIDE DEF N, O
  <2>2. QED
    BY <1>2, <1>3, <1>4, <1>6, <2>1 DEF P
<1>7. CASE opc[o] \notin P /\ p \in P
  <2>1. N = O + 1
    BY <1>1, <1>7, CountEnter, Finite
  <2> HIDE DEF N, O
  <2>2. QED
    BY <1>2, <1>3, <1>4, <1>7, <2>1 DEF P
<1>8. QED
  BY <1>5, <1>6, <1>7

\* New workers come behind those that there are, and sleep.
LEMMA WorkersCreated ==
  ASSUME TypeOK, WorkersCounted, ~shutdown, NEW k \in 0 .. maxThreads - threadsRunning,
         createPoolThread(k)
  PROVE  /\ Cardinality(At({"run"})') = Cardinality(At({"run"}))
         /\ Cardinality(At({"sleep", "woken"})') = Cardinality(At({"sleep", "woken"})) + k
         /\ \A w \in Workers : /\ wpc'[w] \notin {"leaving", "done"}
                               /\ wpc'[w] = "none" <=> w > threadsRunning'
<1> DEFINE new == threadsRunning + 1 .. threadsRunning + k
           P == {"sleep", "woken"}
<1>0. threadsRunning \in Nat /\ k \in Nat /\ maxThreads \in Nat /\ threadsRunning + k <= maxThreads
  BY PoolAssumption DEF TypeOK
<1>1. /\ threadsRunning' = threadsRunning + k
      /\ wpc' = [w \in Workers |-> IF w \in new THEN "sleep" ELSE wpc[w]]
  BY DEF createPoolThread
<1>2. \A w \in Workers : w \in new => wpc[w] = "none"
  BY <1>0 DEF WorkersCounted, Workers
<1>3. new \subseteq Workers
  BY <1>0 DEF Workers
<1>4. At({"run"})' = At({"run"})
  BY <1>1, <1>2 DEF At
<1>5. At(P)' = At(P) \cup new /\ At(P) \cap new = {}
  BY <1>1, <1>2, <1>3 DEF At
<1>6. IsFiniteSet(At(P)) /\ Cardinality(At(P)) \in Nat
  BY Finite, CountType DEF At
<1>7. IsFiniteSet(new) /\ Cardinality(new) = k
  <2>1. CASE k = 0
    BY <1>0, <2>1, FS_Interval
  <2>2. CASE k > 0
    <3>1. IsFiniteSet(new) /\ Cardinality(new) = (threadsRunning + k) - (threadsRunning + 1) + 1
      BY <1>0, <2>2, FS_Interval
    <3> HIDE DEF new
    <3>2. QED
      BY <1>0, <3>1
  <2>3. QED
    BY <1>0, <2>1, <2>2
<1>8. Cardinality(At(P) \cup new) = Cardinality(At(P)) + k
  <2> HIDE DEF new, P
  <2>1. Cardinality(At(P) \cup new) = Cardinality(At(P)) + Cardinality(new) - Cardinality(At(P) \cap new)
    BY <1>6, <1>7, FS_Union
  <2>2. QED
    BY <1>0, <1>5, <1>6, <1>7, <2>1, FS_EmptySet
<1>9. ASSUME NEW w \in Workers
      PROVE  wpc'[w] \notin {"leaving", "done"} /\ (wpc'[w] = "none" <=> w > threadsRunning')
  <2>1. wpc[w] \notin {"leaving", "done"} /\ (wpc[w] = "none" <=> w > threadsRunning) /\ w \in Nat
    BY DEF WorkersCounted, Workers
  <2>2. wpc'[w] = IF w \in new THEN "sleep" ELSE wpc[w]
    BY <1>1
  <2>3. w \in new <=> w > threadsRunning /\ w <= threadsRunning + k
    BY <1>0, <2>1
  <2> HIDE DEF new
  <2>4. QED
    BY <1>0, <1>1, <2>1, <2>2, <2>3
<1>10. QED
  BY <1>4, <1>5, <1>8, <1>9

LEMMA CreatedIs ==
  ASSUME NEW n \in Nat, NEW k \in Created(n)
  PROVE  k \in 0 .. n
BY DEF Created

\* Queueing a job creates a worker at most, and only if there is room.
LEMMA EnqueueCreates ==
  ASSUME TypeOK, NEW j \in Jobs, Enqueue(j)
  PROVE  /\ \E k \in 0 .. maxThreads - threadsRunning : createPoolThread(k)
         /\ threadsWaking' \in Nat
<1>0. threadsRunning \in 0 .. maxThreads /\ maxThreads \in Nat /\ threadsWaking \in Nat
  BY PoolAssumption DEF TypeOK
<1> DEFINE all == threadsRunning >= maxThreads
           woken == threadsWaking >= threadsSleeping
<1>1. PICK k \in IF ~all /\ woken THEN Created(1) ELSE {0} :
        /\ createPoolThread(k)
        /\ threadsWaking' = IF all /\ woken THEN threadsWaking ELSE threadsWaking + 1
  BY DEF Enqueue
<1>2. k \in 0 .. 1 /\ (k = 1 => ~all)
  BY <1>1, CreatedIs
<1>3. k \in 0 .. maxThreads - threadsRunning
  BY <1>0, <1>2
<1>4. QED
  BY <1>0, <1>1, <1>3

\* So does starting a pool that was paused, for the jobs that wait.
LEMMA ControlRunCreates ==
  ASSUME TypeOK, ControlRun
  PROVE  \/ UNCHANGED <<counts, wpc>>
         \/ /\ threadsAreAwake' = threadsAreAwake /\ threadsWaking' \in Nat
            /\ \E k \in 0 .. maxThreads - threadsRunning : createPoolThread(k)
<1>0. /\ threadsRunning \in 0 .. maxThreads /\ maxThreads \in Nat /\ Len(jobs) \in Nat
      /\ threadsWaking \in Nat /\ threadsSleeping \in Nat
  BY PoolAssumption, LenProperties DEF TypeOK
<1>1. CASE ~pauserun
  BY <1>1 DEF ControlRun
<1>2. CASE pauserun
  <2> DEFINE wakeable == threadsSleeping - threadsWaking
             wakeup   == IF Len(jobs) > wakeable THEN wakeable ELSE Len(jobs)
             rest     == Len(jobs) - wakeup
             room     == maxThreads - threadsRunning
             most     == IF rest < room THEN rest ELSE room
  <2>1. PICK k \in Created(most) :
          /\ createPoolThread(k)
          /\ threadsWaking' = threadsWaking + wakeup + k
    BY <1>2 DEF ControlRun
  <2>2. rest \in Nat /\ room \in Nat
    BY <1>0
  <2>3. most \in Nat /\ most <= room
    <3> HIDE DEF rest, room
    <3>1. QED
      BY <2>2
  <2>4. k \in 0 .. most
    <3> HIDE DEF most
    <3>1. QED
      BY <2>1, <2>3, CreatedIs
  <2>5. k \in Nat /\ k \in 0 .. room
    <3> HIDE DEF most, room
    <3>1. QED
      BY <2>2, <2>3, <2>4
  <2>6. threadsWaking + wakeup + k \in Nat
    <3> HIDE DEF most, room
    <3>1. QED
      BY <1>0, <2>5
  <2>7. threadsAreAwake' = threadsAreAwake
    BY <1>2 DEF ControlRun
  <2>8. QED
    BY <2>1, <2>5, <2>6, <2>7
<1>3. QED
  BY <1>1, <1>2

LEMMA CreatingCounts ==
  ASSUME TypeOK, WorkersCounted, ~shutdown, shutdown' = shutdown,
         NEW k \in 0 .. maxThreads - threadsRunning, createPoolThread(k),
         threadsAreAwake' = threadsAreAwake
  PROVE  WorkersCounted'
<1>1. /\ Cardinality(At({"run"})') = Cardinality(At({"run"}))
      /\ Cardinality(At({"sleep", "woken"})') = Cardinality(At({"sleep", "woken"})) + k
      /\ \A w \in Workers : /\ wpc'[w] \notin {"leaving", "done"}
                            /\ wpc'[w] = "none" <=> w > threadsRunning'
  BY WorkersCreated
<1>2. threadsRunning' = threadsRunning + k /\ threadsSleeping' = threadsSleeping + k
  BY DEF createPoolThread
<1>3. /\ threadsAreAwake \in Nat /\ threadsSleeping \in Nat /\ k \in Int
      /\ threadsAreAwake = Cardinality(At({"run"}))
      /\ threadsSleeping = Cardinality(At({"sleep", "woken"}))
      /\ threadsRunning = threadsAreAwake + threadsSleeping
  BY DEF TypeOK, WorkersCounted
<1>4. /\ threadsAreAwake' = Cardinality(At({"run"})')
      /\ threadsSleeping' = Cardinality(At({"sleep", "woken"})')
  BY <1>1, <1>2, <1>3
<1>5. threadsRunning' = threadsAreAwake' + threadsSleeping'
  BY <1>2, <1>3
<1>6. QED
  BY <1>1, <1>4, <1>5 DEF WorkersCounted

\* One worker moves between positions of a worker that runs.
LEMMA MovingCounts ==
  ASSUME TypeOK, WorkersCounted, shutdown' = shutdown, threadsRunning' = threadsRunning,
         NEW w \in Workers, NEW p \in {"sleep", "woken", "run"},
         wpc[w] \in {"sleep", "woken", "run"}, wpc' = [wpc EXCEPT ![w] = p],
         threadsAreAwake' = threadsAreAwake - (IF wpc[w] = "run" THEN 1 ELSE 0)
                                            + (IF p = "run" THEN 1 ELSE 0),
         threadsSleeping' = threadsSleeping - (IF wpc[w] = "run" THEN 0 ELSE 1)
                                            + (IF p = "run" THEN 0 ELSE 1)
  PROVE  WorkersCounted'
<1> DEFINE R == {"run"}
           S == {"sleep", "woken"}
<1>1. /\ Cardinality(At(R)') =
           Cardinality(At(R)) - (IF wpc[w] \in R THEN 1 ELSE 0) + (IF p \in R THEN 1 ELSE 0)
      /\ Cardinality(At(S)') =
           Cardinality(At(S)) - (IF wpc[w] \in S THEN 1 ELSE 0) + (IF p \in S THEN 1 ELSE 0)
  <2> HIDE DEF R, S
  <2>1. QED
    BY WorkerMoves
<1>2. /\ threadsAreAwake \in Nat /\ threadsSleeping \in Nat
      /\ threadsAreAwake = Cardinality(At({"run"}))
      /\ threadsSleeping = Cardinality(At({"sleep", "woken"}))
      /\ threadsRunning = threadsAreAwake + threadsSleeping
  BY DEF TypeOK, WorkersCounted
<1>3. /\ wpc[w] \in R <=> wpc[w] = "run"
      /\ wpc[w] \in S <=> wpc[w] # "run"
      /\ p \in R <=> p = "run"
      /\ p \in S <=> p # "run"
  OBVIOUS
<1>4. /\ threadsAreAwake' = Cardinality(At(R)')
      /\ threadsSleeping' = Cardinality(At(S)')
  <2> HIDE DEF R, S
  <2>1. QED
    BY <1>1, <1>2, <1>3 DEF R, S
<1>5. threadsRunning' = threadsAreAwake' + threadsSleeping'
  BY <1>2
<1>6. ASSUME NEW v \in Workers, ~shutdown
      PROVE  wpc'[v] \notin {"leaving", "done"} /\ (wpc'[v] = "none" <=> v > threadsRunning)
  <2>1. /\ wpc[v] \notin {"leaving", "done"} /\ (wpc[v] = "none" <=> v > threadsRunning)
    BY <1>6 DEF WorkersCounted
  <2>2. wpc'[v] = IF v = w THEN p ELSE wpc[v]
    BY DEF TypeOK
  <2>3. QED
    BY <2>1, <2>2
<1>7. QED
  BY <1>4, <1>5, <1>6 DEF WorkersCounted

LEMMA NextJobCounts ==
  ASSUME TypeOK, WorkersCounted, shutdown' = shutdown, threadsRunning' = threadsRunning,
         NEW w \in Workers, wpc[w] \in {"woken", "run"},
         NEW q, NEW queued_, NEW running_, NEW awake, NEW sleeping,
         awake = IF wpc[w] = "run" THEN threadsAreAwake ELSE threadsAreAwake + 1,
         sleeping = IF wpc[w] = "run" THEN threadsSleeping ELSE threadsSleeping - 1,
         NextJob(w, q, queued_, running_, awake, sleeping)
  PROVE  WorkersCounted'
<1>0. threadsAreAwake \in Nat /\ threadsSleeping \in Nat
  BY DEF TypeOK
<1>1. CASE q # <<>>
  <2>1. wpc' = [wpc EXCEPT ![w] = "run"] /\ threadsAreAwake' = awake /\ threadsSleeping' = sleeping
    BY <1>1 DEF NextJob
  <2>2. /\ threadsAreAwake' = threadsAreAwake - (IF wpc[w] = "run" THEN 1 ELSE 0) + 1
        /\ threadsSleeping' = threadsSleeping - (IF wpc[w] = "run" THEN 0 ELSE 1) + 0
    BY <1>0, <2>1
  <2>3. QED
    BY <2>1, <2>2, MovingCounts
<1>2. CASE q = <<>>
  <2>1. /\ wpc' = [wpc EXCEPT ![w] = "sleep"]
        /\ threadsAreAwake' = awake - 1 /\ threadsSleeping' = sleeping + 1
    BY <1>2 DEF NextJob
  <2>2. /\ threadsAreAwake' = threadsAreAwake - (IF wpc[w] = "run" THEN 1 ELSE 0) + 0
        /\ threadsSleeping' = threadsSleeping - (IF wpc[w] = "run" THEN 0 ELSE 1) + 1
    BY <1>0, <2>1
  <2>3. QED
    BY <2>1, <2>2, MovingCounts
<1>3. QED
  BY <1>1, <1>2

LEMMA LeavingCounts ==
  ASSUME TypeOK, WorkersCounted, NEW w \in Workers, WorkerLeaves(w)
  PROVE  WorkersCounted' /\ threadsRunning > 0 /\ threadsSleeping > 0
<1> DEFINE R == {"run"}
           S == {"sleep", "woken"}
<1>0. /\ wpc[w] = "woken" /\ shutdown /\ wpc' = [wpc EXCEPT ![w] = "leaving"]
      /\ threadsSleeping' = threadsSleeping - 1 /\ threadsRunning' = threadsRunning - 1
      /\ threadsAreAwake' = threadsAreAwake /\ shutdown' = shutdown
  BY DEF WorkerLeaves, modes
<1>1. /\ Cardinality(At(R)') = Cardinality(At(R)) - (IF wpc[w] \in R THEN 1 ELSE 0)
                                 + (IF "leaving" \in R THEN 1 ELSE 0)
      /\ Cardinality(At(S)') = Cardinality(At(S)) - (IF wpc[w] \in S THEN 1 ELSE 0)
                                 + (IF "leaving" \in S THEN 1 ELSE 0)
      /\ wpc[w] \in S => Cardinality(At(S)) > 0
  <2> HIDE DEF R, S
  <2>1. QED
    BY <1>0, WorkerMoves
<1>2. /\ threadsAreAwake \in Nat /\ threadsSleeping \in Nat
      /\ threadsAreAwake = Cardinality(At({"run"}))
      /\ threadsSleeping = Cardinality(At({"sleep", "woken"}))
      /\ threadsRunning = threadsAreAwake + threadsSleeping
  BY DEF TypeOK, WorkersCounted
<1>3. wpc[w] \notin R /\ "leaving" \notin R /\ wpc[w] \in S /\ "leaving" \notin S
  BY <1>0
<1>4. /\ threadsAreAwake' = Cardinality(At(R)')
      /\ threadsSleeping' = Cardinality(At(S)')
      /\ threadsSleeping > 0
  <2> HIDE DEF R, S
  <2>1. QED
    BY <1>0, <1>1, <1>2, <1>3 DEF R, S
<1>5. threadsRunning' = threadsAreAwake' + threadsSleeping' /\ threadsRunning > 0
  BY <1>0, <1>2, <1>4
<1>6. QED
  BY <1>0, <1>4, <1>5 DEF WorkersCounted

LEMMA EndingCounts ==
  ASSUME TypeOK, WorkersCounted, NEW w \in Workers, WorkerEnds(w)
  PROVE  WorkersCounted'
<1>0. /\ wpc[w] = "leaving" /\ wpc' = [wpc EXCEPT ![w] = "done"] /\ UNCHANGED counts
      /\ shutdown' = shutdown
  BY DEF WorkerEnds, modes
<1>1. At({"run"})' = At({"run"}) /\ At({"sleep", "woken"})' = At({"sleep", "woken"})
  BY <1>0 DEF At, TypeOK
<1>2. shutdown
  BY <1>0 DEF WorkersCounted
<1>3. QED
  BY <1>0, <1>1, <1>2 DEF WorkersCounted, counts

LEMMA WorkersCountedStep ==
  TypeOK /\ WorkersCounted /\ Phases /\ [Next]_vars => WorkersCounted'
<1> SUFFICES ASSUME TypeOK, WorkersCounted, Phases, [Next]_vars PROVE WorkersCounted'
  OBVIOUS
<1>0. threadsAreAwake \in Nat /\ threadsSleeping \in Nat
  BY DEF TypeOK
<1>1. ASSUME UNCHANGED <<threadsAreAwake, threadsSleeping, threadsRunning, wpc>>,
             shutdown' = shutdown \/ shutdown'
      PROVE  WorkersCounted'
  <2>1. At({"run"})' = At({"run"}) /\ At({"sleep", "woken"})' = At({"sleep", "woken"})
    BY <1>1 DEF At
  <2>2. QED
    BY <1>1, <2>1 DEF WorkersCounted
<1>2. ASSUME NEW w \in Workers, Worker(w) PROVE WorkersCounted'
  <2>1. CASE WorkerWakes(w)
    <3>1. /\ wpc[w] = "sleep" /\ wpc' = [wpc EXCEPT ![w] = "woken"] /\ UNCHANGED counts
          /\ shutdown' = shutdown
      BY <2>1 DEF WorkerWakes, modes
    <3>2. /\ threadsAreAwake' = threadsAreAwake - 0 + 0 /\ threadsRunning' = threadsRunning
          /\ threadsSleeping' = threadsSleeping - 1 + 1
      BY <1>0, <3>1 DEF counts
    <3>3. QED
      BY <3>1, <3>2, MovingCounts
  <2>2. CASE WorkerSleepsAgain(w)
    <3>1. /\ wpc[w] = "woken" /\ wpc' = [wpc EXCEPT ![w] = "sleep"]
          /\ UNCHANGED <<threadsAreAwake, threadsSleeping, threadsRunning>>
          /\ shutdown' = shutdown
      BY <2>2 DEF WorkerSleepsAgain, modes
    <3>2. /\ threadsAreAwake' = threadsAreAwake - 0 + 0
          /\ threadsSleeping' = threadsSleeping - 1 + 1
      BY <1>0, <3>1
    <3>3. QED
      BY <3>1, <3>2, MovingCounts
  <2>3. CASE WorkerStarts(w)
    <3>1. /\ wpc[w] = "woken" /\ threadsRunning' = threadsRunning /\ shutdown' = shutdown
          /\ NextJob(w, jobs, queued, running, threadsAreAwake + 1, threadsSleeping - 1)
      BY <2>3 DEF WorkerStarts, modes
    <3>2. QED
      BY <3>1, NextJobCounts
  <2>4. CASE WorkerFinishes(w)
    <3>1. /\ wpc[w] = "run" /\ threadsRunning' = threadsRunning /\ shutdown' = shutdown
          /\ \E q, queued_, running_ :
               NextJob(w, q, queued_, running_, threadsAreAwake, threadsSleeping)
      BY <2>4 DEF WorkerFinishes, modes
    <3>2. QED
      BY <3>1, NextJobCounts
  <2>5. CASE WorkerLeaves(w)
    BY <2>5, LeavingCounts
  <2>6. CASE WorkerEnds(w)
    BY <2>6, EndingCounts
  <2>7. QED
    BY <1>2, <2>1, <2>2, <2>3, <2>4, <2>5, <2>6 DEF Worker
<1>3. ASSUME NEW j \in Jobs, JobCall(j) PROVE WorkersCounted'
  <2>1. CASE epicsJobQueue(j) /\ j \notin running
    <3>1. ~shutdown /\ shutdown' = shutdown /\ Enqueue(j) /\ threadsAreAwake' = threadsAreAwake
      BY <2>1 DEF epicsJobQueue, modes, MayCall, Phases
    <3>2. QED
      BY <3>1, EnqueueCreates, CreatingCounts
  <2>2. CASE epicsJobQueue(j) /\ j \in running
    BY <2>2, <1>1 DEF epicsJobQueue, modes, counts
  <2>3. CASE epicsJobCreate(j)
    BY <2>3, <1>1 DEF epicsJobCreate, modes, counts, wvars
  <2>4. CASE epicsJobMove(j)
    BY <2>4, <1>1 DEF epicsJobMove, modes, counts, wvars
  <2>5. CASE epicsJobUnqueue(j)
    BY <2>5, <1>1 DEF epicsJobUnqueue, modes, counts, wvars
  <2>6. CASE epicsJobDestroy(j)
    BY <2>6, <1>1 DEF epicsJobDestroy, modes, counts, wvars
  <2>7. QED
    BY <1>3, <2>1, <2>2, <2>3, <2>4, <2>5, <2>6 DEF JobCall
<1>4. ASSUME ControlRun, ~shutdown, shutdown' = shutdown PROVE WorkersCounted'
  BY <1>1, <1>4, ControlRunCreates, CreatingCounts DEF counts
<1>5. CASE epicsThreadPoolControl
  <2>1. ~shutdown /\ shutdown' = shutdown
    BY <1>5 DEF epicsThreadPoolControl, Phases
  <2>2. ControlRun \/ UNCHANGED <<counts, wpc>>
    BY <1>5 DEF epicsThreadPoolControl
  <2>3. QED
    BY <1>1, <1>4, <2>1, <2>2 DEF counts
<1>6. CASE epicsThreadPoolDestroy
  BY <1>4, <1>6 DEF epicsThreadPoolDestroy, Phases
<1>7. ASSUME NEW o, epicsThreadPoolWait(o) \/ ObserverWakes(o) \/ ObserverLooks(o)
      PROVE  WorkersCounted'
  BY <1>1, <1>7 DEF epicsThreadPoolWait, ObserverWakes, ObserverLooks, counts, wvars, modes
<1>8. CASE DestroyShutdown \/ DestroyJoin \/ DestroyNotify \/ DestroyFree
  BY <1>1, <1>8 DEF DestroyShutdown, DestroyJoin, DestroyNotify, DestroyFree, counts, wvars, modes
<1>9. CASE UNCHANGED vars
  BY <1>1, <1>9 DEF vars, counts, wvars, modes
<1>10. QED
  BY <1>2, <1>3, <1>5, <1>6, <1>7, <1>8, <1>9 DEF Next, Observer, Destroyer

LEMMA WaitersCountedStep ==
  TypeOK /\ WaitersCounted /\ [Next]_vars => WaitersCounted'
<1> SUFFICES ASSUME TypeOK, WaitersCounted, [Next]_vars PROVE WaitersCounted'
  OBVIOUS
<1> DEFINE P == {"wait", "woken", "late"}
<1>1. ASSUME UNCHANGED <<opc, observerCount>> PROVE WaitersCounted'
  BY <1>1 DEF WaitersCounted, Waiting
<1>2. ASSUME NEW o \in Waiters, NEW p, opc' = [opc EXCEPT ![o] = p],
             observerCount' = observerCount - (IF opc[o] \in P THEN 1 ELSE 0)
                                            + (IF p \in P THEN 1 ELSE 0)
      PROVE  WaitersCounted'
  <2>1. Cardinality(Waiting') =
          Cardinality(Waiting) - (IF opc[o] \in P THEN 1 ELSE 0) + (IF p \in P THEN 1 ELSE 0)
    BY <1>2, WaiterMoves
  <2>2. QED
    BY <1>2, <2>1 DEF WaitersCounted
<1>3. observerCount \in Nat
  BY DEF TypeOK
<1>4. ASSUME NEW o \in Waiters, NEW n, WaitLoop(o, n),
             n = IF opc[o] \in P THEN observerCount - 1 ELSE observerCount
      PROVE  WaitersCounted'
  <2> DEFINE busy == jobs # <<>> \/ threadsAreAwake > 0
             p == IF busy THEN "wait" ELSE IF o = "destroyer" THEN "returned" ELSE "idle"
  <2>1. opc' = [opc EXCEPT ![o] = p] /\ observerCount' = IF busy THEN n + 1 ELSE n
    BY <1>4 DEF WaitLoop
  <2>2. p \in P <=> busy
    OBVIOUS
  <2> HIDE DEF busy, p, P
  <2>3. observerCount' = observerCount - (IF opc[o] \in P THEN 1 ELSE 0)
                                       + (IF p \in P THEN 1 ELSE 0)
    BY <1>3, <1>4, <2>1, <2>2
  <2>4. QED
    BY <1>2, <2>1, <2>3
<1>5. ASSUME NEW o \in Waiters, epicsThreadPoolWait(o) PROVE WaitersCounted'
  BY <1>4, <1>5 DEF epicsThreadPoolWait
<1>6. ASSUME NEW o \in Waiters, ObserverWakes(o) PROVE WaitersCounted'
  <2>1. /\ opc[o] = "wait" /\ observerCount' = observerCount
        /\ \/ opc' = [opc EXCEPT ![o] = "woken"] \/ opc' = [opc EXCEPT ![o] = "late"]
    BY <1>6 DEF ObserverWakes
  <2>2. observerCount' = observerCount - 1 + 1
    BY <1>3, <2>1
  <2>3. QED
    BY <1>2, <2>1, <2>2
<1>7. ASSUME NEW o \in Waiters, ObserverLooks(o) PROVE WaitersCounted'
  <2>1. CASE opc[o] = "woken"
    BY <1>4, <1>7, <2>1 DEF ObserverLooks
  <2>2. CASE opc[o] # "woken"
    <3>1. /\ opc[o] = "late" /\ opc' = [opc EXCEPT ![o] = "idle"]
          /\ observerCount' = observerCount - 1
      BY <1>7, <2>2 DEF ObserverLooks
    <3>2. observerCount' = observerCount - 1 + 0
      BY <1>3, <3>1
    <3>3. QED
      BY <1>2, <3>1, <3>2
  <2>3. QED
    BY <2>1, <2>2
<1>8. ASSUME NEW w \in Workers, Worker(w) PROVE WaitersCounted'
  BY <1>1, <1>8 DEF Worker, WorkerWakes, WorkerSleepsAgain, WorkerStarts, WorkerFinishes,
     WorkerLeaves, WorkerEnds, ovars
<1>9. ASSUME NEW j \in Jobs, JobCall(j) PROVE WaitersCounted'
  BY <1>1, <1>9 DEF JobCall, epicsJobCreate, epicsJobMove, epicsJobUnqueue, epicsJobDestroy,
     epicsJobQueue, ovars
<1>10. CASE epicsThreadPoolControl \/ epicsThreadPoolDestroy
  BY <1>1, <1>10 DEF epicsThreadPoolControl, epicsThreadPoolDestroy, ovars
<1>11. CASE DestroyShutdown \/ DestroyJoin \/ DestroyNotify \/ DestroyFree
  BY <1>1, <1>11 DEF DestroyShutdown, DestroyJoin, DestroyNotify, DestroyFree, ovars
<1>12. CASE UNCHANGED vars
  BY <1>1, <1>12 DEF vars, ovars
<1>13. Observers \subseteq Waiters /\ "destroyer" \in Waiters
  BY DEF Waiters
<1>14. QED
  BY <1>5, <1>6, <1>7, <1>8, <1>9, <1>10, <1>11, <1>12, <1>13 DEF Next, Observer, Destroyer

LEMMA CountsOfNone ==
  ASSUME WorkersCounted
  PROVE  /\ threadsAreAwake = 0 <=> \A w \in Workers : wpc[w] # "run"
         /\ threadsSleeping = 0 <=> \A w \in Workers : wpc[w] \notin {"sleep", "woken"}
<1>1. threadsAreAwake = 0 <=> At({"run"}) = {}
  BY AtType DEF WorkersCounted
<1>2. threadsSleeping = 0 <=> At({"sleep", "woken"}) = {}
  BY AtType DEF WorkersCounted
<1>3. QED
  BY <1>1, <1>2 DEF At

-----------------------------------------------------------------------------
(* Types *)

LEMMA TypeWorker ==
  ASSUME TypeOK, WorkersCounted, WorkersCounted', Hands, NEW w \in Workers, Worker(w)
  PROVE  TypeOK'
<1>0. /\ threadsAreAwake' \in Nat /\ threadsSleeping' \in Nat
  <2>1. Cardinality(At({"run"})) \in Nat /\ Cardinality(At({"sleep", "woken"})) \in Nat
    BY AtType
  <2>2. (Cardinality(At({"run"})) \in Nat /\ Cardinality(At({"sleep", "woken"})) \in Nat)'
    BY Finite, CountType DEF At
  <2>3. QED
    BY <2>2 DEF WorkersCounted
<1>1. ASSUME NEW q \in Seq(Jobs), NEW queued_ \in SUBSET Jobs, NEW running_ \in SUBSET Jobs,
             NEW awake, NEW sleeping, NextJob(w, q, queued_, running_, awake, sleeping)
      PROVE  /\ jobs' \in Seq(Jobs) /\ queued' \subseteq Jobs /\ running' \subseteq Jobs
             /\ wpc' \in [Workers -> {"none", "sleep", "woken", "run", "leaving", "done"}]
             /\ wjob' \in [Workers -> Jobs \cup {None}]
             /\ observerWakeup' \in BOOLEAN
  <2>1. CASE q # <<>>
    <3>1. Head(q) \in Jobs /\ Tail(q) \in Seq(Jobs)
      BY <2>1, HeadTailProperties
    <3>2. QED
      BY <1>1, <2>1, <3>1, ZenonT(60) DEF NextJob, TypeOK
  <2>2. CASE q = <<>>
    BY <1>1, <2>2 DEF NextJob, TypeOK
  <2>3. QED
    BY <2>1, <2>2
<1>2. CASE WorkerWakes(w)
  BY <1>2 DEF WorkerWakes, TypeOK, lists, counts, modes, flags, ovars, dvars
<1>3. CASE WorkerSleepsAgain(w)
  BY <1>3 DEF WorkerSleepsAgain, TypeOK, lists, modes, flags, ovars, dvars
<1>4. CASE WorkerStarts(w)
  <2>1. /\ jobs' \in Seq(Jobs) /\ queued' \subseteq Jobs /\ running' \subseteq Jobs
        /\ wpc' \in [Workers -> {"none", "sleep", "woken", "run", "leaving", "done"}]
        /\ wjob' \in [Workers -> Jobs \cup {None}]
        /\ observerWakeup' \in BOOLEAN
    BY <1>1, <1>4 DEF WorkerStarts, TypeOK
  <2>2. /\ threadsWaking' = threadsWaking - 1 /\ threadsWaking > 0
        /\ workerWakeup' \in BOOLEAN
        /\ UNCHANGED <<owned, threadsRunning, modes, freewhendone, where, nrun, opc,
                       observerCount, dvars>>
    BY <1>4 DEF WorkerStarts
  <2>3. QED
    BY <1>0, <2>1, <2>2 DEF TypeOK, modes, dvars
<1>5. CASE WorkerFinishes(w)
  <2>0. wjob[w] \in Jobs
    BY <1>5 DEF WorkerFinishes, Hands
  <2>1. \E q \in Seq(Jobs), queued_ \in SUBSET Jobs, running_ \in SUBSET Jobs :
          NextJob(w, q, queued_, running_, threadsAreAwake, threadsSleeping)
    <3>1. jobs \in Seq(Jobs) /\ Append(jobs, wjob[w]) \in Seq(Jobs)
      BY <2>0, AppendProperties DEF TypeOK
    <3>2. /\ queued \in SUBSET Jobs /\ queued \ {wjob[w]} \in SUBSET Jobs
          /\ running \ {wjob[w]} \in SUBSET Jobs
      BY DEF TypeOK
    <3>3. QED
      BY <1>5, <3>1, <3>2 DEF WorkerFinishes
  <2>2. /\ jobs' \in Seq(Jobs) /\ queued' \subseteq Jobs /\ running' \subseteq Jobs
        /\ wpc' \in [Workers -> {"none", "sleep", "woken", "run", "leaving", "done"}]
        /\ wjob' \in [Workers -> Jobs \cup {None}]
        /\ observerWakeup' \in BOOLEAN
    BY <1>1, <2>1
  <2>3. /\ where' \in [Jobs -> {"pool", "nopool", "none"}] /\ freewhendone' \subseteq Jobs
        /\ owned' \subseteq Jobs
    BY <1>5, <2>0 DEF WorkerFinishes, TypeOK
  <2>4. UNCHANGED <<threadsWaking, threadsRunning, workerWakeup, modes, nrun, opc,
                    observerCount, dvars>>
    BY <1>5 DEF WorkerFinishes
  <2>5. QED
    BY <1>0, <2>2, <2>3, <2>4 DEF TypeOK, modes, dvars
<1>6. CASE WorkerLeaves(w)
  <2>1. threadsRunning > 0 /\ threadsSleeping > 0
    BY <1>6, LeavingCounts
  <2>2. threadsRunning - 1 \in 0 .. maxThreads /\ threadsSleeping - 1 \in Nat /\ threadsWaking - 1 \in Nat
    BY <2>1, <1>6, PoolAssumption DEF TypeOK, WorkerLeaves
  <2>3. nrun' \in [Workers -> 0 .. maxThreads]
    BY <1>6, <2>2 DEF TypeOK, WorkerLeaves
  <2>4. QED
    BY <1>6, <2>2, <2>3 DEF WorkerLeaves, TypeOK, lists, modes, flags, ovars, dvars
<1>7. CASE WorkerEnds(w)
  BY <1>7 DEF WorkerEnds, TypeOK, lists, counts, modes, flags, ovars, dvars
<1>8. QED
  BY <1>2, <1>3, <1>4, <1>5, <1>6, <1>7 DEF Worker

\* k new workers.
LEMMA TypeCreate ==
  ASSUME TypeOK, NEW k \in 0 .. maxThreads - threadsRunning, createPoolThread(k)
  PROVE  /\ threadsRunning' \in 0 .. maxThreads /\ threadsSleeping' \in Nat
         /\ wpc' \in [Workers -> {"none", "sleep", "woken", "run", "leaving", "done"}]
<1>1. threadsRunning' \in 0 .. maxThreads /\ threadsSleeping' \in Nat
  BY PoolAssumption DEF createPoolThread, TypeOK
<1>2. wpc' \in [Workers -> {"none", "sleep", "woken", "run", "leaving", "done"}]
  BY DEF createPoolThread, TypeOK
<1>3. QED
  BY <1>1, <1>2

LEMMA TypeJobCall ==
  ASSUME TypeOK, Listed, NEW j \in Jobs, JobCall(j)
  PROVE  TypeOK'
<1>0. RemoveFirst(jobs, j) \in Seq(Jobs) /\ Append(jobs, j) \in Seq(Jobs)
  BY ListDeleted, AppendProperties DEF TypeOK, Listed, ListedAs
<1>1. CASE epicsJobCreate(j)
  BY <1>1 DEF epicsJobCreate, TypeOK, counts, modes, wvars, ovars, dvars
<1>2. CASE epicsJobMove(j)
  BY <1>2 DEF epicsJobMove, TypeOK, counts, modes, wvars, ovars, dvars
<1>3. CASE epicsJobUnqueue(j)
  <2>1. owned' \subseteq Jobs
    BY <1>3 DEF epicsJobUnqueue, TypeOK
  <2>2. QED
    BY <1>0, <1>3, <2>1 DEF epicsJobUnqueue, Unqueued, TypeOK, counts, modes, wvars, ovars, dvars
<1>4. CASE epicsJobDestroy(j)
  <2>1. /\ where' \in [Jobs -> {"pool", "nopool", "none"}] /\ freewhendone' \subseteq Jobs
        /\ owned' \subseteq Jobs /\ queued' \subseteq Jobs /\ jobs' \in Seq(Jobs)
    BY <1>0, <1>4 DEF epicsJobDestroy, Unqueued, TypeOK, lists
  <2>2. QED
    BY <1>4, <2>1 DEF epicsJobDestroy, TypeOK, counts, modes, wvars, ovars, dvars
<1>5. CASE epicsJobQueue(j) /\ j \in running
  BY <1>5 DEF epicsJobQueue, TypeOK, lists, counts, modes, ovars, dvars
<1>6. CASE epicsJobQueue(j) /\ j \notin running
  <2>1. Enqueue(j) /\ threadsAreAwake' = threadsAreAwake
    BY <1>6 DEF epicsJobQueue
  <2>2. /\ threadsRunning' \in 0 .. maxThreads /\ threadsSleeping' \in Nat
        /\ wpc' \in [Workers -> {"none", "sleep", "woken", "run", "leaving", "done"}]
        /\ threadsWaking' \in Nat
    BY <2>1, EnqueueCreates, TypeCreate
  <2>3. /\ queued' \subseteq Jobs /\ owned' \subseteq Jobs /\ jobs' \in Seq(Jobs)
        /\ workerWakeup' \in BOOLEAN
    BY <1>0, <2>1 DEF Enqueue, TypeOK
  <2>4. QED
    BY <1>6, <2>1, <2>2, <2>3 DEF epicsJobQueue, TypeOK, modes, ovars, dvars
<1>7. QED
  BY <1>1, <1>2, <1>3, <1>4, <1>5, <1>6 DEF JobCall

LEMMA TypePool ==
  ASSUME TypeOK, epicsThreadPoolControl \/ epicsThreadPoolDestroy
  PROVE  TypeOK'
<1>1. ASSUME ControlRun
      PROVE  /\ threadsRunning' \in 0 .. maxThreads /\ threadsSleeping' \in Nat
             /\ wpc' \in [Workers -> {"none", "sleep", "woken", "run", "leaving", "done"}]
             /\ threadsWaking' \in Nat /\ threadsAreAwake' \in Nat
             /\ workerWakeup' \in BOOLEAN /\ pauserun' \in BOOLEAN
  <2>1. /\ threadsRunning' \in 0 .. maxThreads /\ threadsSleeping' \in Nat
        /\ wpc' \in [Workers -> {"none", "sleep", "woken", "run", "leaving", "done"}]
        /\ threadsWaking' \in Nat /\ threadsAreAwake' \in Nat
    BY <1>1, ControlRunCreates, TypeCreate DEF TypeOK, counts
  <2>2. workerWakeup' \in BOOLEAN /\ pauserun' \in BOOLEAN
    BY <1>1 DEF ControlRun, TypeOK
  <2>3. QED
    BY <2>1, <2>2
<1>2. CASE epicsThreadPoolControl /\ ControlRun
  BY <1>1, <1>2 DEF epicsThreadPoolControl, TypeOK, lists, flags, ovars, dvars
<1>3. CASE epicsThreadPoolControl /\ ~ControlRun
  BY <1>3 DEF epicsThreadPoolControl, TypeOK, lists, counts, flags, ovars, dvars
<1>4. CASE epicsThreadPoolDestroy
  <2>1. nThr' \in Nat
    BY <1>1, <1>4 DEF epicsThreadPoolDestroy
  <2>2. QED
    BY <1>1, <1>4, <2>1 DEF epicsThreadPoolDestroy, TypeOK, lists, flags, ovars
<1>5. QED
  BY <1>2, <1>3, <1>4

LEMMA TypeWaiter ==
  ASSUME TypeOK, WaitersCounted', NEW o \in Waiters,
         epicsThreadPoolWait(o) \/ ObserverWakes(o) \/ ObserverLooks(o)
  PROVE  TypeOK'
<1>0. observerCount' \in Nat
  <2>1. Cardinality(Waiting') \in Nat
    BY Finite, CountType DEF Waiting
  <2>2. QED
    BY <2>1 DEF WaitersCounted
<1>1. opc' \in [Waiters -> {"idle", "wait", "woken", "late", "returned"}]
  BY DEF epicsThreadPoolWait, ObserverWakes, ObserverLooks, WaitLoop, TypeOK
<1>2. observerWakeup' \in BOOLEAN
  BY DEF epicsThreadPoolWait, ObserverWakes, ObserverLooks, TypeOK
<1>3. UNCHANGED <<lists, counts, workerWakeup, modes, flags, wvars, dvars>>
  BY DEF epicsThreadPoolWait, ObserverWakes, ObserverLooks
<1>4. QED
  BY <1>0, <1>1, <1>2, <1>3 DEF TypeOK, lists, counts, modes, flags, wvars, dvars

LEMMA TypeDestroyer ==
  ASSUME TypeOK, DestroyShutdown \/ DestroyJoin \/ DestroyNotify \/ DestroyFree
  PROVE  TypeOK'
<1>1. CASE DestroyShutdown
  <2>1. owned \in SUBSET Jobs /\ jobs \in Seq(Jobs)
    BY DEF TypeOK
  <2>2. SetToSeq(owned) \in Seq(owned)
    BY <2>1, PoolAssumption, FS_Subset, ListOfSet
  <2>3. SetToSeq(owned) \o jobs \in Seq(Jobs)
    BY <2>1, <2>2, SeqMonotonic, ListConcat
  <2>4. notify' \in Seq(Jobs) /\ owned' \subseteq Jobs /\ jobs' \in Seq(Jobs) /\ threadsWaking' \in Nat
    BY <1>1, <2>3, EmptySeq DEF DestroyShutdown, TypeOK
  <2>5. QED
    BY <1>1, <2>4 DEF DestroyShutdown, TypeOK, flags, wvars, ovars
<1>2. CASE DestroyJoin
  BY <1>2 DEF DestroyJoin, TypeOK, lists, counts, modes, flags, wvars, ovars
<1>3. CASE DestroyNotify
  <2>1. Head(notify) \in Jobs /\ Tail(notify) \in Seq(Jobs)
    BY <1>3, HeadTailProperties DEF DestroyNotify, TypeOK
  <2>2. QED
    BY <1>3, <2>1 DEF DestroyNotify, TypeOK, lists, counts, modes, wvars, ovars
<1>4. CASE DestroyFree
  BY <1>4 DEF DestroyFree, TypeOK, lists, counts, modes, flags, wvars, ovars
<1>5. QED
  BY <1>1, <1>2, <1>3, <1>4

LEMMA TypeStep ==
  TypeOK /\ WorkersCounted /\ Hands /\ Listed /\ WorkersCounted' /\ WaitersCounted' /\ [Next]_vars
    => TypeOK'
<1> SUFFICES ASSUME TypeOK, WorkersCounted, Hands, Listed, WorkersCounted', WaitersCounted', [Next]_vars
             PROVE  TypeOK'
  OBVIOUS
<1>1. Observers \subseteq Waiters /\ "destroyer" \in Waiters
  BY DEF Waiters
<1>2. CASE UNCHANGED vars
  BY <1>2 DEF vars, TypeOK, lists, counts, modes, flags, wvars, ovars, dvars
<1>3. QED
  BY <1>1, <1>2, TypeWorker, TypeJobCall, TypePool, TypeWaiter, TypeDestroyer
     DEF Next, Observer, Destroyer

-----------------------------------------------------------------------------
(* Destroying *)

\* Whoever calls does so while the pool works.
LEMMA CallersPhase ==
  ASSUME TypeOK, WorkersCounted, Phases, Hands, MayCall
  PROVE  ~shutdown /\ opc["destroyer"] # "returned"
<1>1. ~shutdown
  BY DEF MayCall, Phases
<1>2. CASE dpc = "none"
  BY <1>1, <1>2 DEF Phases
<1>3. CASE running # {}
  <2>1. PICK w \in Workers : wjob[w] \in running
    BY <1>3 DEF Hands
  <2>2. ~(threadsAreAwake = 0) \/ wpc[w] # "run"
    BY CountsOfNone
  <2>3. wpc[w] = "run"
    BY <2>1 DEF Hands, TypeOK
  <2>4. QED
    BY <1>1, <2>2, <2>3 DEF Phases
<1>4. QED
  BY <1>2, <1>3 DEF MayCall

LEMMA PhasesWorker ==
  ASSUME TypeOK, WorkersCounted, Phases, NEW w \in Workers, Worker(w)
  PROVE  Phases'
<1>0. threadsAreAwake \in Nat /\ threadsRunning \in Nat
  BY PoolAssumption DEF TypeOK
<1>1. ASSUME UNCHANGED <<jobs, threadsAreAwake, threadsRunning, modes, nrun, opc, dvars>>,
             \A v \in Workers : wpc'[v] = "leaving" => wpc[v] = "leaving"
      PROVE  Phases'
  BY <1>1 DEF Phases, modes, dvars
<1>2. CASE WorkerWakes(w)
  <2>1. \A v \in Workers : wpc'[v] = "leaving" => wpc[v] = "leaving"
    BY <1>2 DEF WorkerWakes, TypeOK
  <2>2. QED
    BY <1>1, <1>2, <2>1 DEF WorkerWakes, lists, counts, ovars
<1>3. CASE WorkerSleepsAgain(w)
  <2>1. \A v \in Workers : wpc'[v] = "leaving" => wpc[v] = "leaving"
    BY <1>3 DEF WorkerSleepsAgain, TypeOK
  <2>2. QED
    BY <1>1, <1>3, <2>1 DEF WorkerSleepsAgain, lists, ovars
<1>4. CASE WorkerStarts(w)
  <2>1. /\ UNCHANGED <<threadsRunning, modes, nrun, opc, dvars>>
        /\ ~shutdown
        /\ NextJob(w, jobs, queued, running, threadsAreAwake + 1, threadsSleeping - 1)
    BY <1>4 DEF WorkerStarts
  <2>2. \A v \in Workers : wpc'[v] = "leaving" => wpc[v] = "leaving"
    BY <2>1 DEF NextJob, TypeOK
  <2>3. jobs = <<>> /\ threadsAreAwake = 0 => jobs' = <<>> /\ threadsAreAwake' = 0
    BY <1>0, <2>1 DEF NextJob
  <2>4. QED
    BY <2>1, <2>2, <2>3 DEF Phases, modes, dvars
<1>5. CASE WorkerFinishes(w)
  <2>1. /\ wpc[w] = "run" /\ UNCHANGED <<threadsRunning, modes, nrun, opc, dvars>>
        /\ \E q, queued_, running_ :
               NextJob(w, q, queued_, running_, threadsAreAwake, threadsSleeping)
    BY <1>5 DEF WorkerFinishes
  <2>2. \A v \in Workers : wpc'[v] = "leaving" => wpc[v] = "leaving"
    BY <2>1 DEF NextJob, TypeOK
  <2>3. ~(threadsAreAwake = 0)
    BY <2>1, CountsOfNone
  <2>4. QED
    BY <2>1, <2>2, <2>3 DEF Phases, modes, dvars
<1>6. CASE WorkerLeaves(w)
  <2>1. threadsRunning > 0
    BY <1>6, LeavingCounts
  <2>2. /\ shutdown /\ threadsRunning' = threadsRunning - 1
        /\ UNCHANGED <<jobs, threadsAreAwake, modes, opc, dvars>>
    BY <1>6 DEF WorkerLeaves, lists, ovars
  <2>3. \A v \in Workers : wpc'[v] = "leaving" /\ v # w => wpc[v] = "leaving" /\ nrun'[v] = nrun[v]
    BY <1>6 DEF WorkerLeaves, TypeOK
  <2>4. nrun'[w] = threadsRunning'
    BY <1>6 DEF WorkerLeaves, TypeOK
  <2>5. \A v \in Workers : wpc'[v] = "leaving" /\ nrun'[v] = 0 => threadsRunning' = 0
    BY <1>0, <2>1, <2>3, <2>4 DEF Phases
  <2>6. ~(threadsRunning = 0)
    BY <2>1
  <2>7. QED
    BY <2>2, <2>5, <2>6 DEF Phases, modes, dvars
<1>7. CASE WorkerEnds(w)
  <2>1. /\ wpc[w] = "leaving" /\ UNCHANGED <<jobs, counts, modes, nrun, opc, dpc, nThr>>
        /\ shutdownEvent' = (shutdownEvent \/ nrun[w] = 0)
    BY <1>7 DEF WorkerEnds, lists, ovars
  <2>2. shutdown
    BY <2>1 DEF WorkersCounted
  <2>3. \A v \in Workers : wpc'[v] = "leaving" => wpc[v] = "leaving"
    BY <1>7 DEF WorkerEnds, TypeOK
  <2>4. shutdownEvent' => shutdown /\ threadsRunning = 0
    BY <2>1, <2>2 DEF Phases
  <2>5. QED
    BY <2>1, <2>3, <2>4 DEF Phases, modes, counts
<1>8. QED
  BY <1>2, <1>3, <1>4, <1>5, <1>6, <1>7 DEF Worker

LEMMA CreateNotLeaving ==
  ASSUME NEW k, createPoolThread(k)
  PROVE  \A v \in Workers : wpc'[v] = "leaving" => wpc[v] = "leaving"
BY DEF createPoolThread

LEMMA PhasesJobCall ==
  ASSUME TypeOK, WorkersCounted, Phases, Hands, NEW j \in Jobs, JobCall(j)
  PROVE  Phases'
<1>1. ASSUME UNCHANGED <<jobs, threadsAreAwake, threadsRunning, modes, nrun, opc, dvars, wpc>>
      PROVE  Phases'
  BY <1>1 DEF Phases, modes, dvars
<1>2. ASSUME UNCHANGED <<threadsAreAwake, threadsRunning, modes, nrun, opc, dvars, wpc>>, MayCall
      PROVE  Phases'
  BY <1>2, CallersPhase DEF Phases, modes, dvars
<1>3. CASE epicsJobCreate(j)
  BY <1>2, <1>3 DEF epicsJobCreate, counts, wvars, ovars
<1>4. CASE epicsJobMove(j)
  BY <1>2, <1>4 DEF epicsJobMove, counts, wvars, ovars
<1>5. CASE epicsJobUnqueue(j)
  BY <1>2, <1>5 DEF epicsJobUnqueue, counts, wvars, ovars
<1>6. CASE epicsJobDestroy(j)
  BY <1>1, <1>2, <1>6 DEF epicsJobDestroy, lists, counts, wvars, ovars
<1>7. CASE epicsJobQueue(j) /\ j \in running
  BY <1>2, <1>7 DEF epicsJobQueue, counts, ovars
<1>8. CASE epicsJobQueue(j) /\ j \notin running
  <2>1. /\ MayCall /\ ~pauseadd /\ Enqueue(j) /\ threadsAreAwake' = threadsAreAwake
        /\ UNCHANGED <<modes, nrun, opc, dvars>>
    BY <1>8 DEF epicsJobQueue, ovars
  <2>2. ~shutdown /\ opc["destroyer"] # "returned" /\ dpc = "none"
    BY <2>1, CallersPhase DEF Phases, MayCall
  <2>3. \E k : createPoolThread(k)
    BY <2>1, EnqueueCreates
  <2>4. \A v \in Workers : wpc'[v] # "leaving"
    BY <2>2, <2>3, CreateNotLeaving DEF WorkersCounted
  <2>5. QED
    BY <2>1, <2>2, <2>4 DEF Phases, modes, dvars
<1>9. QED
  BY <1>3, <1>4, <1>5, <1>6, <1>7, <1>8 DEF JobCall

LEMMA PhasesPool ==
  ASSUME TypeOK, WorkersCounted, Phases, epicsThreadPoolControl \/ epicsThreadPoolDestroy
  PROVE  Phases'
<1>1. ~shutdown /\ dpc = "none" /\ opc["destroyer"] = "idle" /\ ~shutdownEvent
  BY DEF Phases, epicsThreadPoolControl, epicsThreadPoolDestroy
<1>2. ControlRun \/ UNCHANGED wpc
  BY DEF epicsThreadPoolControl, epicsThreadPoolDestroy
<1>3. ASSUME ControlRun PROVE UNCHANGED wpc \/ \E k : createPoolThread(k)
  BY <1>3, ControlRunCreates
<1>4. \A v \in Workers : wpc'[v] # "leaving"
  BY <1>1, <1>2, <1>3, CreateNotLeaving DEF WorkersCounted
<1>5. CASE epicsThreadPoolControl
  <2>1. UNCHANGED <<shutdown, opc, dvars>>
    BY <1>5 DEF epicsThreadPoolControl, ovars
  <2>2. QED
    BY <1>1, <1>4, <2>1 DEF Phases, dvars
<1>6. CASE epicsThreadPoolDestroy
  <2>1. /\ UNCHANGED <<shutdown, opc, shutdownEvent>> /\ dpc' = "wait" /\ nThr' = threadsRunning'
        /\ pauseadd'
    BY <1>6 DEF epicsThreadPoolDestroy, ovars
  <2>2. ~pauserun'
    BY <1>6 DEF epicsThreadPoolDestroy, ControlRun
  <2>3. QED
    BY <1>1, <1>4, <2>1, <2>2 DEF Phases
<1>7. QED
  BY <1>5, <1>6

LEMMA PhasesWaiter ==
  ASSUME TypeOK, Phases, NEW o \in Waiters,
         \/ (o # "destroyer" \/ dpc # "none") /\ epicsThreadPoolWait(o)
         \/ ObserverWakes(o) \/ ObserverLooks(o)
  PROVE  Phases'
<1>0. threadsAreAwake \in Nat /\ "destroyer" \in Waiters
  BY DEF TypeOK, Waiters
<1>1. UNCHANGED <<jobs, threadsAreAwake, threadsRunning, modes, wvars, dvars>>
  BY DEF epicsThreadPoolWait, ObserverWakes, ObserverLooks, lists, counts
<1>2. opc["destroyer"] = "idle" => opc'["destroyer"] = "idle" \/ dpc # "none"
  BY <1>0 DEF epicsThreadPoolWait, ObserverWakes, ObserverLooks, WaitLoop, TypeOK
<1>3. opc'["destroyer"] = "returned" => opc["destroyer"] = "returned" \/ (jobs = <<>> /\ threadsAreAwake = 0)
  <2>0. \E p : opc' = [opc EXCEPT ![o] = p]
    BY DEF epicsThreadPoolWait, ObserverWakes, ObserverLooks, WaitLoop
  <2>1. CASE o # "destroyer" \/ ObserverWakes(o)
    <3>1. CASE o # "destroyer"
      BY <1>0, <2>0, <3>1 DEF TypeOK
    <3>2. CASE ObserverWakes(o)
      BY <1>0, <3>2 DEF ObserverWakes, TypeOK
    <3>3. QED
      BY <2>1, <3>1, <3>2
  <2>2. CASE o = "destroyer" /\ ~ObserverWakes(o)
    <3>1. opc'["destroyer"] = "returned" => \E n : WaitLoop("destroyer", n)
      BY <1>0, <2>2 DEF epicsThreadPoolWait, ObserverLooks, TypeOK
    <3>2. ASSUME NEW n, WaitLoop("destroyer", n), opc'["destroyer"] = "returned"
          PROVE  ~(jobs # <<>> \/ threadsAreAwake > 0)
      BY <1>0, <3>2 DEF WaitLoop, TypeOK
    <3>3. QED
      BY <1>0, <3>1, <3>2
  <2>3. QED
    BY <2>1, <2>2
<1>4. opc["destroyer"] = "returned" => opc'["destroyer"] = "returned"
  BY <1>0 DEF epicsThreadPoolWait, ObserverWakes, ObserverLooks, WaitLoop, TypeOK
<1>5. QED
  BY <1>0, <1>1, <1>2, <1>3, <1>4 DEF Phases, modes, wvars, dvars

LEMMA PhasesDestroyer ==
  ASSUME TypeOK, Phases, DestroyShutdown \/ DestroyJoin \/ DestroyNotify \/ DestroyFree
  PROVE  Phases'
<1>1. CASE DestroyShutdown
  BY <1>1 DEF DestroyShutdown, Phases, wvars, ovars
<1>2. CASE DestroyJoin
  BY <1>2 DEF DestroyJoin, Phases, lists, counts, modes, wvars, ovars
<1>3. CASE DestroyNotify
  BY <1>3 DEF DestroyNotify, Phases, lists, counts, modes, wvars, ovars
<1>4. CASE DestroyFree
  BY <1>4 DEF DestroyFree, Phases, lists, counts, modes, wvars, ovars
<1>5. QED
  BY <1>1, <1>2, <1>3, <1>4

LEMMA PhasesStep ==
  TypeOK /\ WorkersCounted /\ Phases /\ Hands /\ [Next]_vars => Phases'
<1> SUFFICES ASSUME TypeOK, WorkersCounted, Phases, Hands, [Next]_vars PROVE Phases'
  OBVIOUS
<1>1. /\ "destroyer" \in Waiters /\ \A o \in Observers : o \in Waiters /\ o # "destroyer"
  BY PoolAssumption DEF Waiters
<1>2. epicsThreadPoolWait("destroyer") => dpc # "none"
  BY DEF epicsThreadPoolWait
<1>3. CASE UNCHANGED vars
  BY <1>3 DEF vars, Phases, lists, counts, modes, wvars, ovars, dvars
<1>4. QED
  BY <1>1, <1>2, <1>3, PhasesWorker, PhasesJobCall, PhasesPool, PhasesWaiter, PhasesDestroyer
     DEF Next, Observer, Destroyer

-----------------------------------------------------------------------------
(* Jobs and lists *)

LEMMA NoneContained == \A e : ~Contains(<<>>, e)
BY DEF Contains

\* The worker takes the first job of the queue, which nobody runs.
LEMMA NextJobHands ==
  ASSUME TypeOK, Hands, NEW w \in Workers, wpc[w] \in {"woken", "run"},
         NEW q \in Seq(Jobs), NEW queued_, NEW running_, NEW awake, NEW sleeping,
         running_ = running \ {wjob[w]},
         \A j \in Jobs : Contains(q, j) => j \notin running_,
         NextJob(w, q, queued_, running_, awake, sleeping)
  PROVE  Hands'
<1>0. None \notin Jobs /\ running \subseteq Jobs
  BY PoolAssumption DEF TypeOK
<1>1. \A v \in Workers : v # w => wpc'[v] = wpc[v] /\ wjob'[v] = wjob[v]
  BY DEF NextJob, TypeOK
<1>2. \A v \in Workers : v # w /\ wjob[v] \in Jobs => wjob[v] \in running_
  BY DEF Hands
<1>3. \A j \in running_ : \E v \in Workers : v # w /\ wjob[v] = j
  BY DEF Hands
<1>4. CASE q # <<>>
  <2>1. Head(q) \in Jobs /\ Contains(q, Head(q))
    BY <1>4, ListGet
  <2>2. Head(q) \notin running_
    BY <2>1
  <2>3. wjob'[w] = Head(q) /\ wpc'[w] = "run" /\ running' = running_ \cup {Head(q)}
    BY <1>4 DEF NextJob, TypeOK
  <2>4. \A v \in Workers : wjob'[v] \in Jobs <=> wpc'[v] = "run"
    BY <1>1, <2>1, <2>3 DEF Hands
  <2>5. \A v \in Workers : wjob'[v] \in Jobs => wjob'[v] \in running'
    BY <1>1, <1>2, <2>3
  <2>6. \A u, v \in Workers : wjob'[u] \in Jobs /\ wjob'[u] = wjob'[v] => u = v
    BY <1>1, <1>2, <2>1, <2>2, <2>3 DEF Hands
  <2>7. \A j \in running' : \E v \in Workers : wjob'[v] = j
    BY <1>1, <1>3, <2>3
  <2>8. QED
    BY <2>4, <2>5, <2>6, <2>7 DEF Hands
<1>5. CASE q = <<>>
  <2>3. wjob'[w] = None /\ wpc'[w] = "sleep" /\ running' = running_
    BY <1>5 DEF NextJob, TypeOK
  <2>4. \A v \in Workers : wjob'[v] \in Jobs <=> wpc'[v] = "run"
    BY <1>0, <1>1, <2>3 DEF Hands
  <2>5. \A v \in Workers : wjob'[v] \in Jobs => wjob'[v] \in running'
    BY <1>0, <1>1, <1>2, <2>3
  <2>6. \A u, v \in Workers : wjob'[u] \in Jobs /\ wjob'[u] = wjob'[v] => u = v
    BY <1>0, <1>1, <2>3 DEF Hands
  <2>7. \A j \in running' : \E v \in Workers : wjob'[v] = j
    BY <1>1, <1>3, <2>3
  <2>8. QED
    BY <2>4, <2>5, <2>6, <2>7 DEF Hands
<1>6. QED
  BY <1>4, <1>5

LEMMA NextJobListed ==
  ASSUME NEW w, NEW q \in Seq(Jobs), NEW queued_, NEW running_, NEW awake, NEW sleeping,
         NEW own, NEW free, NEW whe, NEW not,
         ListedAs(q, own, queued_, running_, free, whe, not),
         NextJob(w, q, queued_, running_, awake, sleeping)
  PROVE  ListedAs(jobs', own, queued', running', free, whe, not)
<1>1. CASE q = <<>>
  BY <1>1 DEF NextJob
<1>2. CASE q # <<>>
  <2>1. /\ Head(q) \in Jobs /\ Contains(q, Head(q))
        /\ \A e : Contains(q, e) <=> e = Head(q) \/ Contains(Tail(q), e)
        /\ IsInjective(Tail(q)) /\ ~Contains(Tail(q), Head(q))
    BY <1>2, ListGet DEF ListedAs
  <2>2. /\ jobs' = Tail(q) /\ queued' = queued_ \ {Head(q)} /\ running' = running_ \cup {Head(q)}
    BY <1>2 DEF NextJob
  <2>3. QED
    BY <2>1, <2>2 DEF ListedAs
<1>3. QED
  BY <1>1, <1>2

\* The lists as a worker leaves them whose job has returned.
LEMMA FinishingLists ==
  ASSUME TypeOK, WorkersCounted, Phases, Hands, Listed, NEW w \in Workers, WorkerFinishes(w)
  PROVE  \E q, queued_, running_ :
           /\ q \in Seq(Jobs)
           /\ NextJob(w, q, queued_, running_, threadsAreAwake, threadsSleeping)
           /\ running_ = running \ {wjob[w]}
           /\ ListedAs(q, owned', queued_, running_, freewhendone', where', notify')
<1> DEFINE j == wjob[w]
<1>1. wpc[w] = "run" /\ j \in Jobs /\ j \in running /\ notify' = notify
  BY DEF WorkerFinishes, Hands, dvars
<1>2. ListedAs(jobs, owned, queued, running, freewhendone, where, notify) /\ jobs \in Seq(Jobs)
  BY DEF Listed, TypeOK
<1>3. \A i \in Jobs : where[i] \in {"pool", "nopool", "none"}
  BY DEF TypeOK
<1> HIDE DEF j
<1>4. CASE j \in freewhendone
  <2>1. /\ where' = [where EXCEPT ![j] = "none"] /\ freewhendone' = freewhendone \ {j}
        /\ NextJob(w, jobs, queued \ {j}, running \ {j}, threadsAreAwake, threadsSleeping)
        /\ owned' = owned
    BY <1>4 DEF WorkerFinishes, j
  <2>2. \A i \in Jobs : where'[i] = IF i = j THEN "none" ELSE where[i]
    BY <2>1 DEF TypeOK
  <2>3. ListedAs(jobs, owned', queued \ {j}, running \ {j}, freewhendone', where', notify')
    BY <1>1, <1>2, <1>4, <2>1, <2>2 DEF ListedAs
  <2>4. QED
    BY <1>2, <2>1, <2>3 DEF j
<1>5. CASE j \notin freewhendone /\ j \in queued
  <2>1. /\ UNCHANGED <<where, freewhendone, owned>>
        /\ NextJob(w, Append(jobs, j), queued, running \ {j}, threadsAreAwake, threadsSleeping)
    BY <1>5 DEF WorkerFinishes, j
  <2>2. ~Contains(jobs, j)
    BY <1>1, <1>2 DEF ListedAs
  <2>3. /\ Append(jobs, j) \in Seq(Jobs) /\ IsInjective(Append(jobs, j))
        /\ \A e : Contains(Append(jobs, j), e) <=> Contains(jobs, e) \/ e = j
    BY <1>1, <1>2, <2>2, ListAdd DEF ListedAs
  <2>4. ListedAs(Append(jobs, j), owned', queued, running \ {j}, freewhendone', where', notify')
    BY <1>1, <1>2, <1>5, <2>1, <2>3 DEF ListedAs
  <2>5. QED
    BY <2>1, <2>3, <2>4 DEF j
<1>6. CASE j \notin freewhendone /\ j \notin queued
  <2>1. /\ UNCHANGED <<where, freewhendone>> /\ owned' = owned \cup {j}
        /\ NextJob(w, jobs, queued, running \ {j}, threadsAreAwake, threadsSleeping)
    BY <1>6 DEF WorkerFinishes, j
  <2>2. ListedAs(jobs, owned', queued, running \ {j}, freewhendone', where', notify')
    BY <1>1, <1>2, <1>6, <2>1 DEF ListedAs
  <2>3. QED
    BY <1>2, <2>1, <2>2 DEF j
<1>7. QED
  BY <1>4, <1>5, <1>6

LEMMA ListsWorker ==
  ASSUME TypeOK, WorkersCounted, Phases, Hands, Listed, NEW w \in Workers, Worker(w)
  PROVE  Hands' /\ Listed'
<1>1. ASSUME UNCHANGED <<lists, flags, notify, shutdown>> PROVE Listed'
  BY <1>1 DEF Listed, ListedAs, lists, flags
<1>2. ASSUME UNCHANGED <<running, wjob>>, NEW p, p # "run", wpc[w] # "run",
             wpc' = [wpc EXCEPT ![w] = p]
      PROVE  Hands'
  <2>1. \A v \in Workers : wpc'[v] = "run" <=> wpc[v] = "run"
    BY <1>2 DEF TypeOK
  <2>2. QED
    BY <1>2, <2>1 DEF Hands
<1>3. CASE WorkerWakes(w)
  BY <1>1, <1>2, <1>3 DEF WorkerWakes, flags, modes, dvars
<1>4. CASE WorkerSleepsAgain(w)
  BY <1>1, <1>2, <1>4 DEF WorkerSleepsAgain, flags, modes, dvars
<1>5. CASE WorkerStarts(w)
  <2>1. /\ wpc[w] = "woken" /\ UNCHANGED <<owned, freewhendone, where, notify, shutdown>>
        /\ NextJob(w, jobs, queued, running, threadsAreAwake + 1, threadsSleeping - 1)
    BY <1>5 DEF WorkerStarts, modes, dvars
  <2>2. jobs \in Seq(Jobs) /\ ListedAs(jobs, owned, queued, running, freewhendone, where, notify)
    BY DEF TypeOK, Listed
  <2>3. running = running \ {wjob[w]}
    BY <2>1 DEF Hands, TypeOK
  <2>4. \A j \in Jobs : Contains(jobs, j) => j \notin running
    BY <2>2 DEF ListedAs
  <2>5. Hands'
    BY <2>1, <2>2, <2>3, <2>4, NextJobHands
  <2>6. ListedAs(jobs', owned, queued', running', freewhendone, where, notify)
    BY <2>1, <2>2, NextJobListed
  <2>7. QED
    BY <2>1, <2>5, <2>6 DEF Listed
<1>6. CASE WorkerFinishes(w)
  <2>1. PICK q, queued_, running_ :
           /\ q \in Seq(Jobs)
           /\ NextJob(w, q, queued_, running_, threadsAreAwake, threadsSleeping)
           /\ running_ = running \ {wjob[w]}
           /\ ListedAs(q, owned', queued_, running_, freewhendone', where', notify')
    BY <1>6, FinishingLists
  <2>2. wpc[w] = "run" /\ UNCHANGED <<notify, shutdown>>
    BY <1>6 DEF WorkerFinishes, modes, dvars
  <2>3. \A j \in Jobs : Contains(q, j) => j \notin running_
    BY <2>1 DEF ListedAs
  <2>4. Hands'
    BY <2>1, <2>2, <2>3, NextJobHands
  <2>5. ListedAs(jobs', owned', queued', running', freewhendone', where', notify')
    BY <2>1, NextJobListed
  <2>6. ~shutdown
    <3>1. ~(threadsAreAwake = 0)
      BY <2>2, CountsOfNone
    <3>2. QED
      BY <3>1 DEF Phases
  <2>7. QED
    BY <2>2, <2>4, <2>5, <2>6 DEF Listed
<1>7. CASE WorkerLeaves(w)
  BY <1>1, <1>2, <1>7 DEF WorkerLeaves, flags, modes, dvars
<1>8. CASE WorkerEnds(w)
  BY <1>1, <1>2, <1>8 DEF WorkerEnds, flags, modes, dvars
<1>9. QED
  BY <1>3, <1>4, <1>5, <1>6, <1>7, <1>8 DEF Worker

LEMMA CreateHands ==
  ASSUME TypeOK, WorkersCounted, Hands, ~shutdown, UNCHANGED <<running, wjob>>,
         NEW k \in 0 .. maxThreads - threadsRunning, createPoolThread(k)
  PROVE  Hands'
<1>1. \A w \in Workers : w \in threadsRunning + 1 .. threadsRunning + k => wpc[w] = "none"
  BY PoolAssumption DEF WorkersCounted, TypeOK, Workers
<1>2. \A w \in Workers : wpc'[w] = "run" <=> wpc[w] = "run"
  BY <1>1 DEF createPoolThread
<1>3. QED
  BY <1>2 DEF Hands

LEMMA ListsJobCall ==
  ASSUME TypeOK, WorkersCounted, Phases, Hands, Listed, NEW j \in Jobs, JobCall(j)
  PROVE  Hands' /\ Listed'
<1>0. /\ ListedAs(jobs, owned, queued, running, freewhendone, where, notify)
      /\ jobs \in Seq(Jobs) /\ IsInjective(jobs)
      /\ \A i \in Jobs : where[i] \in {"pool", "nopool", "none"}
  BY DEF Listed, ListedAs, TypeOK
<1>1. ASSUME UNCHANGED <<running, wjob, wpc>> PROVE Hands'
  BY <1>1 DEF Hands
<1>2. MayCall => ~shutdown /\ notify = <<>> /\ ~Contains(notify, j)
  BY CallersPhase, NoneContained DEF Listed
<1>3. ASSUME NEW wh, where' = [where EXCEPT ![j] = wh]
      PROVE  \A i \in Jobs : where'[i] = IF i = j THEN wh ELSE where[i]
  BY <1>3 DEF TypeOK
<1>4. /\ RemoveFirst(jobs, j) \in Seq(Jobs) /\ IsInjective(RemoveFirst(jobs, j))
      /\ \A e : Contains(RemoveFirst(jobs, j), e) <=> Contains(jobs, e) /\ e # j
  BY <1>0, ListDeleted
<1>5. CASE epicsJobCreate(j)
  <2>1. /\ MayCall /\ where[j] = "none"
        /\ UNCHANGED <<jobs, queued, running, freewhendone, notify, shutdown, wjob, wpc>>
    BY <1>5 DEF epicsJobCreate, modes, wvars, dvars
  <2>2. CASE where' = [where EXCEPT ![j] = "pool"] /\ owned' = owned \cup {j}
    <3>1. ListedAs(jobs', owned', queued', running', freewhendone', where', notify')
      BY <1>0, <1>2, <1>3, <2>1, <2>2, ZenonT(60) DEF ListedAs
    <3>2. QED
      BY <1>1, <1>2, <2>1, <3>1 DEF Listed
  <2>3. CASE where' = [where EXCEPT ![j] = "nopool"] /\ owned' = owned
    <3>1. ListedAs(jobs', owned', queued', running', freewhendone', where', notify')
      BY <1>0, <1>2, <1>3, <2>1, <2>3 DEF ListedAs
    <3>2. QED
      BY <1>1, <1>2, <2>1, <3>1 DEF Listed
  <2>4. QED
    BY <1>5, <2>2, <2>3 DEF epicsJobCreate
<1>6. CASE epicsJobMove(j)
  <2>1. MayCall /\ UNCHANGED <<jobs, queued, running, freewhendone, notify, shutdown, wjob, wpc>>
    BY <1>6 DEF epicsJobMove, modes, wvars, dvars
  <2>2. CASE /\ where[j] = "pool" /\ j \notin queued \cup running
             /\ where' = [where EXCEPT ![j] = "nopool"] /\ owned' = owned \ {j}
    <3>0. \A i \in Jobs : where'[i] = IF i = j THEN "nopool" ELSE where[i]
      BY <1>3, <2>2
    <3>1. ListedAs(jobs', owned', queued', running', freewhendone', where', notify')
      BY <1>0, <1>2, <2>1, <2>2, <3>0 DEF ListedAs
    <3>2. QED
      BY <1>1, <1>2, <2>1, <3>1 DEF Listed
  <2>3. CASE /\ where[j] = "nopool"
             /\ where' = [where EXCEPT ![j] = "pool"] /\ owned' = owned \cup {j}
    <3>1. ListedAs(jobs', owned', queued', running', freewhendone', where', notify')
      BY <1>0, <1>2, <1>3, <2>1, <2>3, ZenonT(60) DEF ListedAs
    <3>2. QED
      BY <1>1, <1>2, <2>1, <3>1 DEF Listed
  <2>4. QED
    BY <1>6, <2>2, <2>3 DEF epicsJobMove
<1>7. CASE epicsJobUnqueue(j)
  <2>1. /\ MayCall /\ where[j] = "pool" /\ j \in queued
        /\ jobs' = RemoveFirst(jobs, j) /\ queued' = queued \ {j}
        /\ owned' = IF j \in running THEN owned ELSE owned \cup {j}
        /\ UNCHANGED <<running, freewhendone, where, notify, shutdown, wjob, wpc>>
    BY <1>7 DEF epicsJobUnqueue, Unqueued, modes, wvars, dvars
  <2>2. ListedAs(jobs', owned', queued', running', freewhendone', where', notify')
    BY <1>0, <1>2, <1>4, <2>1 DEF ListedAs
  <2>3. QED
    BY <1>1, <1>2, <2>1, <2>2 DEF Listed
<1>8. CASE epicsJobDestroy(j)
  <2>1. UNCHANGED <<running, notify, shutdown, wjob, wpc>>
    BY <1>8 DEF epicsJobDestroy, modes, wvars, dvars
  <2>2. CASE where[j] = "nopool"
    <3>1. where' = [where EXCEPT ![j] = "none"] /\ UNCHANGED <<jobs, owned, queued, freewhendone>>
      BY <1>8, <2>2 DEF epicsJobDestroy, lists
    <3>2. ListedAs(jobs', owned', queued', running', freewhendone', where', notify')
      BY <1>0, <1>3, <2>1, <2>2, <3>1 DEF ListedAs
    <3>3. QED
      BY <1>1, <2>1, <3>1, <3>2 DEF Listed
  <2>3. CASE where[j] = "pool" /\ j \in running
    <3>1. /\ MayCall /\ jobs' = RemoveFirst(jobs, j) /\ queued' = queued \ {j}
          /\ freewhendone' = freewhendone \cup {j} /\ UNCHANGED <<owned, where>>
      BY <1>8, <2>3 DEF epicsJobDestroy, Unqueued
    <3>2. ListedAs(jobs', owned', queued', running', freewhendone', where', notify')
      BY <1>0, <1>2, <1>4, <2>1, <2>3, <3>1 DEF ListedAs
    <3>3. QED
      BY <1>1, <1>2, <2>1, <3>1, <3>2 DEF Listed
  <2>4. CASE where[j] = "pool" /\ j \notin running
    <3>1. /\ MayCall /\ jobs' = RemoveFirst(jobs, j) /\ queued' = queued \ {j}
          /\ owned' = owned \ {j} /\ where' = [where EXCEPT ![j] = "none"]
          /\ freewhendone' = freewhendone
      BY <1>8, <2>4 DEF epicsJobDestroy, Unqueued
    <3>2. \A i \in Jobs : where'[i] = IF i = j THEN "none" ELSE where[i]
      BY <1>3, <3>1
    <3>3. ListedAs(jobs', owned', queued', running', freewhendone', where', notify')
      BY <1>0, <1>2, <1>4, <2>1, <2>4, <3>1, <3>2 DEF ListedAs
    <3>4. QED
      BY <1>1, <1>2, <2>1, <3>1, <3>3 DEF Listed
  <2>5. QED
    BY <1>8, <2>2, <2>3, <2>4 DEF epicsJobDestroy
<1>9. CASE epicsJobQueue(j)
  <2>1. /\ MayCall /\ where[j] = "pool" /\ j \notin freewhendone \cup queued
        /\ UNCHANGED <<running, freewhendone, where, notify, shutdown, wjob>>
        /\ queued' = queued \cup {j}
    BY <1>9 DEF epicsJobQueue, Enqueue, modes, dvars
  <2>2. CASE j \in running
    <3>1. UNCHANGED <<jobs, owned, wpc>>
      BY <1>9, <2>2 DEF epicsJobQueue, lists
    <3>2. ListedAs(jobs', owned', queued', running', freewhendone', where', notify')
      BY <1>0, <1>2, <2>1, <2>2, <3>1 DEF ListedAs
    <3>3. QED
      BY <1>1, <1>2, <2>1, <3>1, <3>2 DEF Listed
  <2>3. CASE j \notin running
    <3>1. Enqueue(j) /\ owned' = owned \ {j} /\ jobs' = Append(jobs, j)
      BY <1>9, <2>3 DEF epicsJobQueue, Enqueue
    <3>2. Hands'
      BY <1>2, <2>1, <3>1, EnqueueCreates, CreateHands
    <3>3. ~Contains(jobs, j)
      BY <1>0, <2>1 DEF ListedAs
    <3>4. /\ IsInjective(jobs')
          /\ \A e : Contains(jobs', e) <=> Contains(jobs, e) \/ e = j
      BY <1>0, <3>1, <3>3, ListAdd
    <3>5. ListedAs(jobs', owned', queued', running', freewhendone', where', notify')
      BY <1>0, <1>2, <2>1, <2>3, <3>1, <3>4 DEF ListedAs
    <3>6. QED
      BY <1>2, <2>1, <3>2, <3>5 DEF Listed
  <2>4. QED
    BY <2>2, <2>3
<1>10. QED
  BY <1>5, <1>6, <1>7, <1>8, <1>9 DEF JobCall

\* When the destroyer takes the lists every job is idle.
LEMMA IdleAtReturn ==
  ASSUME TypeOK, WorkersCounted, Phases, Hands, Listed, opc["destroyer"] = "returned"
  PROVE  jobs = <<>> /\ running = {} /\ queued = {}
<1>1. jobs = <<>> /\ threadsAreAwake = 0
  BY DEF Phases
<1>2. running = {}
  BY <1>1, CountsOfNone DEF Hands, TypeOK
<1>3. ASSUME NEW j \in queued PROVE FALSE
  BY <1>1, <1>2, <1>3, NoneContained DEF Listed, ListedAs, TypeOK
<1>4. QED
  BY <1>1, <1>2, <1>3

LEMMA ListsDestroyer ==
  ASSUME TypeOK, WorkersCounted, Phases, Hands, Listed,
         DestroyShutdown \/ DestroyJoin \/ DestroyNotify \/ DestroyFree
  PROVE  Hands' /\ Listed'
<1>1. Hands'
  BY DEF DestroyShutdown, DestroyJoin, DestroyNotify, DestroyFree, flags, wvars, Hands
<1>2. CASE DestroyShutdown
  <2>1. jobs = <<>> /\ running = {} /\ queued = {} /\ ~shutdown /\ notify = <<>>
    BY <1>2, IdleAtReturn DEF DestroyShutdown, Phases, Listed
  <2>2. owned \in SUBSET Jobs /\ SetToSeq(owned) \in Seq(owned)
        /\ \A e : Contains(SetToSeq(owned), e) <=> e \in owned
    BY PoolAssumption, FS_Subset, ListOfSet DEF TypeOK
  <2>3. /\ notify' = SetToSeq(owned) \o jobs /\ owned' = {} /\ jobs' = <<>> /\ shutdown'
        /\ UNCHANGED <<queued, running, freewhendone, where>>
    BY <1>2 DEF DestroyShutdown, flags
  <2>4. SetToSeq(owned) \in Seq(Jobs) /\ jobs \in Seq(Jobs)
    BY <2>2, SeqMonotonic DEF TypeOK
  <2>5. \A e : Contains(notify', e) <=> e \in owned
    BY <2>1, <2>2, <2>3, <2>4, ListConcat, NoneContained
  <2>6. \A j \in Jobs : /\ ~(where'[j] = "pool" /\ ~Contains(notify', j))
                        /\ j \notin freewhendone
    BY <2>1, <2>3, <2>5, NoneContained DEF Listed, ListedAs
  <2>7. IsInjective(jobs') /\ \A e : ~Contains(jobs', e)
    BY <2>3, NoneContained DEF IsInjective
  <2>8. ListedAs(jobs', owned', queued', running', freewhendone', where', notify')
    BY <2>1, <2>3, <2>6, <2>7 DEF ListedAs
  <2>9. QED
    BY <1>1, <2>3, <2>8 DEF Listed
<1>3. CASE DestroyJoin \/ DestroyFree
  BY <1>1, <1>3 DEF DestroyJoin, DestroyFree, Listed, ListedAs, lists, flags, modes
<1>4. CASE DestroyNotify
  <2>1. /\ UNCHANGED <<jobs, owned, queued, running, freewhendone, shutdown>>
        /\ notify' = Tail(notify)
        /\ \E to \in {"none", "nopool"} : where' = [where EXCEPT ![Head(notify)] = to]
        /\ shutdown
    BY <1>4 DEF DestroyNotify, lists, modes, Phases
  <2>2. /\ Head(notify) \in Jobs /\ Contains(notify, Head(notify))
        /\ \A e : Contains(notify, e) <=> e = Head(notify) \/ Contains(Tail(notify), e)
    BY <1>4, ListGet DEF DestroyNotify, TypeOK
  <2>3. \A j \in Jobs : (where'[j] = "pool" /\ ~Contains(notify', j))
                         <=> (where[j] = "pool" /\ ~Contains(notify, j))
    BY <2>1, <2>2 DEF TypeOK
  <2>4. ListedAs(jobs', owned', queued', running', freewhendone', where', notify')
    BY <2>1, <2>3 DEF Listed, ListedAs
  <2>5. QED
    BY <1>1, <2>1, <2>4 DEF Listed
<1>5. QED
  BY <1>2, <1>3, <1>4

LEMMA ListsStep ==
  TypeOK /\ WorkersCounted /\ Phases /\ Hands /\ Listed /\ [Next]_vars => Hands' /\ Listed'
<1> SUFFICES ASSUME TypeOK, WorkersCounted, Phases, Hands, Listed, [Next]_vars
             PROVE  Hands' /\ Listed'
  OBVIOUS
<1>1. ASSUME UNCHANGED <<lists, flags, notify, shutdown>> PROVE Listed'
  BY <1>1 DEF Listed, ListedAs, lists, flags
<1>2. ASSUME UNCHANGED <<running, wjob, wpc>> PROVE Hands'
  BY <1>2 DEF Hands
<1>3. CASE epicsThreadPoolControl \/ epicsThreadPoolDestroy
  <2>1. ~shutdown /\ UNCHANGED <<lists, flags, notify, shutdown, wjob>>
    BY <1>3 DEF epicsThreadPoolControl, epicsThreadPoolDestroy, dvars, Phases
  <2>2. ControlRun \/ UNCHANGED wpc
    BY <1>3 DEF epicsThreadPoolControl, epicsThreadPoolDestroy
  <2>3. UNCHANGED wpc \/ \E k \in 0 .. maxThreads - threadsRunning : createPoolThread(k)
    BY <2>2, ControlRunCreates
  <2>4. QED
    BY <1>1, <1>2, <2>1, <2>3, CreateHands DEF flags
<1>4. ASSUME NEW o, epicsThreadPoolWait(o) \/ ObserverWakes(o) \/ ObserverLooks(o)
      PROVE  Hands' /\ Listed'
  <2>1. UNCHANGED <<lists, flags, modes, wvars, dvars>>
    BY <1>4 DEF epicsThreadPoolWait, ObserverWakes, ObserverLooks
  <2>2. QED
    BY <1>1, <1>2, <2>1 DEF flags, modes, wvars, dvars
<1>5. CASE UNCHANGED vars
  BY <1>1, <1>2, <1>5 DEF vars, flags, modes, wvars, dvars
<1>6. QED
  BY <1>3, <1>4, <1>5, ListsWorker, ListsJobCall, ListsDestroyer DEF Next, Observer, Destroyer

-----------------------------------------------------------------------------
(* The invariant *)

LEMMA InvInit == Init => Inv
<1> SUFFICES ASSUME Init PROVE Inv
  OBVIOUS
<1>1. PICK n \in 0 .. maxThreads :
        /\ threadsSleeping = n /\ threadsRunning = n
        /\ wpc = [w \in Workers |-> IF w <= n THEN "sleep" ELSE "none"]
  BY DEF Init, epicsThreadPoolCreate
<1>2. n \in Nat /\ maxThreads \in Nat /\ n <= maxThreads
  BY PoolAssumption
<1>3. TypeOK
  <2>1. <<>> \in Seq(Jobs)
    BY EmptySeq
  <2>2. nrun \in [Workers -> 0 .. maxThreads]
    BY <1>2 DEF Init
  <2>3. QED
    BY <1>1, <1>2, <2>1, <2>2 DEF Init, epicsThreadPoolCreate, TypeOK
<1>4. WorkersCounted
  <2>1. At({"run"}) = {}
    BY <1>1 DEF At
  <2>2. At({"sleep", "woken"}) = 1 .. n
    BY <1>1, <1>2 DEF At, Workers
  <2>3. Cardinality(1 .. n) = n
    <3>1. CASE n = 0
      BY <3>1, FS_Interval
    <3>2. CASE n > 0
      BY <1>2, <3>2, FS_Interval
    <3>3. QED
      BY <1>2, <3>1, <3>2
  <2>4. Cardinality(At({"run"})) = 0
    BY <2>1, FS_EmptySet
  <2>5. \A w \in Workers : wpc[w] \notin {"leaving", "done"} /\ (wpc[w] = "none" <=> w > threadsRunning)
    BY <1>1, <1>2 DEF Workers
  <2>6. threadsAreAwake = 0 /\ ~shutdown
    BY DEF Init, epicsThreadPoolCreate
  <2>7. QED
    BY <1>1, <1>2, <2>2, <2>3, <2>4, <2>5, <2>6 DEF WorkersCounted
<1>5. WaitersCounted
  <2>1. Waiting = {}
    BY DEF Waiting, Init
  <2>2. QED
    BY <2>1, FS_EmptySet DEF WaitersCounted, Init, epicsThreadPoolCreate
<1>6. Phases
  BY <1>1 DEF Init, epicsThreadPoolCreate, Phases, Waiters
<1>7. Hands
  BY <1>1, PoolAssumption DEF Init, Hands
<1>8. Listed
  <2>1. jobs = <<>> /\ notify = <<>> /\ owned = {} /\ queued = {} /\ running = {}
        /\ freewhendone = {} /\ ~shutdown /\ \A j \in Jobs : where[j] = "none"
    BY DEF Init, epicsThreadPoolCreate
  <2>2. IsInjective(jobs)
    BY <2>1 DEF IsInjective
  <2>3. QED
    BY <2>1, <2>2, NoneContained DEF Listed, ListedAs
<1>9. QED
  BY <1>3, <1>4, <1>5, <1>6, <1>7, <1>8 DEF Inv, Counted

LEMMA InvStep == Inv /\ [Next]_vars => Inv'
BY WorkersCountedStep, WaitersCountedStep, PhasesStep, ListsStep, TypeStep DEF Inv, Counted

\* The invariant of the pool holds, whether or not threads can be created.
THEOREM PoolInvariant == Spec => []Inv
BY InvInit, InvStep, PTL DEF Spec

\* Every variable of the pool has its type: no counter falls below zero and
\* no more than maxThreads workers are created.
THEOREM PoolTypeCorrect == Spec => []TypeOK
<1>1. Inv => TypeOK
  BY DEF Inv
<1>2. QED
  BY <1>1, PoolInvariant, PTL

LEMMA InvJobLife == Inv => JobLife
<1> SUFFICES ASSUME Inv PROVE JobLife
  OBVIOUS
<1> USE DEF Inv
<1>1. ASSUME NEW j \in Jobs
      PROVE  Cardinality({w \in Workers : wjob[w] = j}) = IF j \in running THEN 1 ELSE 0
  <2>1. CASE j \in running
    <3>1. PICK w \in Workers : wjob[w] = j
      BY <2>1 DEF Hands
    <3>2. {v \in Workers : wjob[v] = j} = {w}
      BY <3>1 DEF Hands
    <3>3. QED
      BY <2>1, <3>2, FS_Singleton
  <2>2. CASE j \notin running
    <3>1. {v \in Workers : wjob[v] = j} = {}
      BY <2>2 DEF Hands
    <3>2. QED
      BY <2>2, <3>1, FS_EmptySet
  <2>3. QED
    BY <2>1, <2>2
<1>2. FlagsAgree
  BY <1>1 DEF FlagsAgree, Listed, ListedAs
<1>3. QuietAtEnd
  <2> SUFFICES ASSUME dpc \in {"notify", "gone"}
               PROVE  /\ queued = {} /\ running = {} /\ jobs = <<>>
                      /\ At({"sleep", "woken", "run"}) = {}
    BY DEF QuietAtEnd
  <2>1. opc["destroyer"] = "returned" /\ threadsRunning = 0 /\ threadsAreAwake = 0
    BY DEF Phases
  <2>2. queued = {} /\ running = {} /\ jobs = <<>>
    BY <2>1, IdleAtReturn DEF Counted
  <2>3. threadsSleeping = 0
    BY <2>1 DEF Counted, WorkersCounted, TypeOK
  <2>4. \A w \in Workers : wpc[w] \notin {"sleep", "woken"} /\ wpc[w] # "run"
    BY <2>1, <2>3, CountsOfNone DEF Counted
  <2>5. QED
    BY <2>2, <2>4 DEF At
<1>4. QED
  BY <1>2, <1>3 DEF JobLife

\* The flags of a job tell which list it is in and whether a worker has it,
\* and when the destroyer tells the jobs that are left none runs or can start
\* (poolJob.c, threadPool.c:224).
THEOREM JobsLive == Spec => []JobLife
BY PoolInvariant, InvJobLife, PTL

-----------------------------------------------------------------------------
(* Waking *)

LEMMA WakefulWorker ==
  ASSUME Inv, Wakeful, NEW w \in Workers, Worker(w)
  PROVE  Wakeful'
<1> USE DEF Inv
<1>0. /\ threadsAreAwake \in Nat /\ threadsSleeping \in Nat /\ threadsWaking \in Nat
      /\ jobs \in Seq(Jobs) /\ shutdown \in BOOLEAN /\ pauserun \in BOOLEAN
  BY DEF TypeOK
<1>1. CASE WorkerWakes(w)
  <2>1. /\ wpc'[w] = "woken" /\ UNCHANGED <<jobs, counts, modes>>
    BY <1>1 DEF WorkerWakes, lists, TypeOK
  <2>2. QED
    BY <2>1 DEF Wakeful, counts, modes
<1>2. CASE WorkerSleepsAgain(w)
  <2>1. /\ UNCHANGED <<jobs, threadsAreAwake, threadsSleeping, modes>>
        /\ \/ threadsWaking = 0 /\ threadsWaking' = 0
           \/ pauserun /\ threadsWaking > 0 /\ threadsWaking' = threadsWaking - 1
    BY <1>0, <1>2 DEF WorkerSleepsAgain, lists
  <2>2. QED
    BY <1>0, <2>1 DEF Wakeful, modes
<1>3. CASE WorkerStarts(w)
  <2>1. /\ threadsWaking > 0 /\ threadsWaking' = threadsWaking - 1
        /\ workerWakeup' = (workerWakeup \/ threadsWaking > 1)
        /\ UNCHANGED modes
        /\ NextJob(w, jobs, queued, running, threadsAreAwake + 1, threadsSleeping - 1)
    BY <1>3 DEF WorkerStarts
  <2>2. /\ threadsSleeping' >= threadsSleeping - 1 /\ threadsSleeping' \in Int
        /\ jobs' # <<>> => threadsAreAwake' > 0
    BY <1>0, <2>1 DEF NextJob
  <2>3. threadsWaking' > 0 => workerWakeup'
    <3>1. threadsWaking' > 0 => threadsWaking > 1
      BY <1>0, <2>1
    <3>2. QED
      BY <2>1, <3>1
  <2>4. threadsWaking' <= threadsSleeping'
    BY <1>0, <2>1, <2>2 DEF Wakeful
  <2>5. QED
    BY <2>2, <2>3, <2>4 DEF Wakeful
<1>4. CASE WorkerFinishes(w)
  <2>1. /\ wpc[w] = "run" /\ UNCHANGED <<threadsWaking, workerWakeup, modes>>
        /\ \E q, queued_, running_ :
             /\ NextJob(w, q, queued_, running_, threadsAreAwake, threadsSleeping)
             /\ q = jobs \/ q = Append(jobs, wjob[w])
    BY <1>4 DEF WorkerFinishes
  <2>2. threadsAreAwake > 0
    <3>1. ~(threadsAreAwake = 0)
      BY <2>1, CountsOfNone DEF Counted
    <3>2. QED
      BY <1>0, <3>1
  <2>3. PICK q, queued_, running_ :
             /\ NextJob(w, q, queued_, running_, threadsAreAwake, threadsSleeping)
             /\ q = jobs \/ q = Append(jobs, wjob[w])
    BY <2>1
  <2>4. threadsSleeping' >= threadsSleeping /\ threadsSleeping' \in Int
        /\ (jobs' # <<>> => threadsAreAwake' > 0)
    BY <1>0, <2>2, <2>3 DEF NextJob
  <2>5. jobs = <<>> => jobs' = <<>>
    <3>1. Tail(Append(<<>>, wjob[w])) = <<>>
      OBVIOUS
    <3>2. QED
      BY <2>3, <3>1 DEF NextJob
  <2>6. \A v \in Workers : wpc[v] = "woken" => wpc'[v] = "woken"
    BY <2>1, <2>3 DEF NextJob, TypeOK
  <2>7. threadsWaking <= threadsSleeping'
    BY <1>0, <2>4 DEF Wakeful
  <2>8. threadsWaking < threadsSleeping => threadsWaking < threadsSleeping'
    BY <1>0, <2>4
  <2>9. QED
    BY <2>1, <2>4, <2>5, <2>6, <2>7, <2>8 DEF Wakeful, modes
<1>5. CASE WorkerLeaves(w) \/ WorkerEnds(w)
  <2>1. shutdown /\ shutdown'
    <3>1. CASE WorkerLeaves(w)
      BY <3>1 DEF WorkerLeaves, modes
    <3>2. CASE WorkerEnds(w)
      BY <3>2 DEF WorkerEnds, modes, Counted, WorkersCounted
    <3>3. QED
      BY <1>5, <3>1, <3>2
  <2>2. jobs' = <<>>
    BY <1>5, <2>1 DEF WorkerLeaves, WorkerEnds, lists, Phases
  <2>3. threadsWaking' <= threadsSleeping'
    BY <1>0, <1>5 DEF WorkerLeaves, WorkerEnds, counts, Wakeful
  <2>4. QED
    BY <2>1, <2>2, <2>3 DEF Wakeful
<1>6. QED
  BY <1>1, <1>2, <1>3, <1>4, <1>5 DEF Worker

\* A new worker sleeps, and nobody that was woken falls asleep.
LEMMA CreateWoken ==
  ASSUME TypeOK, WorkersCounted, ~shutdown,
         NEW k \in 0 .. maxThreads - threadsRunning, createPoolThread(k)
  PROVE  /\ threadsSleeping' = threadsSleeping + k
         /\ \A v \in Workers : wpc[v] = "woken" => wpc'[v] = "woken"
<1>1. \A w \in Workers : w \in threadsRunning + 1 .. threadsRunning + k => wpc[w] = "none"
  BY PoolAssumption DEF WorkersCounted, TypeOK, Workers
<1>2. QED
  BY <1>1 DEF createPoolThread

LEMMA WakefulEnqueue ==
  ASSUME Inv, Wakeful, "nothread" \notin Ops, ~shutdown, NEW j \in Jobs, Enqueue(j),
         UNCHANGED <<threadsAreAwake, modes>>
  PROVE  Wakeful'
<1> USE DEF Inv
<1>0. /\ threadsAreAwake \in Nat /\ threadsSleeping \in Nat /\ threadsWaking \in Nat
      /\ threadsRunning \in 0 .. maxThreads /\ maxThreads \in Nat \ {0}
  BY PoolAssumption DEF TypeOK
<1> DEFINE all == threadsRunning >= maxThreads
           woken == threadsWaking >= threadsSleeping
<1>1. PICK k \in IF ~all /\ woken THEN {1} ELSE {0} :
        /\ createPoolThread(k)
        /\ threadsWaking' = IF all /\ woken THEN threadsWaking ELSE threadsWaking + 1
        /\ workerWakeup' = (workerWakeup \/ ~(all /\ woken))
  BY DEF Enqueue, Created
<1>2. k \in 0 .. maxThreads - threadsRunning
  BY <1>0, <1>1
<1>3. /\ threadsSleeping' = threadsSleeping + k
      /\ \A v \in Workers : wpc[v] = "woken" => wpc'[v] = "woken"
  BY <1>1, <1>2, CreateWoken DEF Counted
<1>4. threadsWaking <= threadsSleeping
  BY DEF Wakeful
<1>5. CASE ~(all /\ woken)
  <2>1. threadsWaking' = threadsWaking + 1 /\ workerWakeup'
    BY <1>1, <1>5
  <2>2. threadsWaking' <= threadsSleeping'
    BY <1>0, <1>1, <1>3, <1>4, <1>5, <2>1
  <2>3. threadsWaking' > 0
    BY <1>0, <2>1
  <2>4. QED
    BY <2>1, <2>2, <2>3 DEF Wakeful
<1>6. CASE all /\ woken
  <2>1. threadsWaking' = threadsWaking /\ threadsSleeping' = threadsSleeping
        /\ (workerWakeup => workerWakeup')
    <3>1. k = 0 /\ threadsWaking' = threadsWaking /\ workerWakeup' = workerWakeup
      BY <1>1, <1>6 DEF TypeOK
    <3>2. threadsSleeping' = threadsSleeping
      BY <1>0, <1>3, <3>1
    <3>3. QED
      BY <3>1, <3>2
  <2>2. threadsAreAwake > 0 \/ threadsWaking > 0
    <3>1. threadsRunning = threadsAreAwake + threadsSleeping
      BY DEF Counted, WorkersCounted
    <3>2. QED
      BY <1>0, <1>6, <3>1
  <2>3. ~(threadsWaking < threadsSleeping)
    BY <1>0, <1>6
  <2>4. threadsAreAwake' = threadsAreAwake /\ shutdown' = shutdown
    BY DEF modes
  <2>5. QED
    BY <1>3, <1>4, <2>1, <2>2, <2>3, <2>4 DEF Wakeful
<1>7. QED
  BY <1>5, <1>6

LEMMA WakefulControlRun ==
  ASSUME Inv, Wakeful, "nothread" \notin Ops, ~shutdown, ControlRun,
         UNCHANGED <<jobs, shutdown>>
  PROVE  Wakeful'
<1> USE DEF Inv
<1>0. /\ threadsAreAwake \in Nat /\ threadsSleeping \in Nat /\ threadsWaking \in Nat
      /\ threadsRunning \in 0 .. maxThreads /\ maxThreads \in Nat \ {0}
      /\ Len(jobs) \in Nat /\ (Len(jobs) = 0 <=> jobs = <<>>)
  BY PoolAssumption, LenProperties, EmptySeq DEF TypeOK
<1>1. CASE ~pauserun
  BY <1>1 DEF ControlRun, Wakeful, counts
<1>2. CASE pauserun
  <2> DEFINE wakeable == threadsSleeping - threadsWaking
             wakeup   == IF Len(jobs) > wakeable THEN wakeable ELSE Len(jobs)
             rest     == Len(jobs) - wakeup
             room     == maxThreads - threadsRunning
             k        == IF rest < room THEN rest ELSE room
  <2>1. /\ createPoolThread(k)
        /\ threadsWaking' = threadsWaking + wakeup + k
        /\ workerWakeup' = (workerWakeup \/ wakeup + k > 0)
        /\ threadsAreAwake' = threadsAreAwake /\ ~pauserun'
    BY <1>2 DEF ControlRun, Created
  <2>2. threadsWaking <= threadsSleeping
    BY DEF Wakeful
  <2>3. /\ wakeup \in Nat /\ wakeup <= wakeable /\ wakeable \in Nat
        /\ (wakeup = 0 => wakeable = 0 \/ Len(jobs) = 0)
    BY <1>0, <2>2
  <2>4. /\ k \in Nat /\ k <= room /\ (k = 0 => rest = 0 \/ room = 0)
    <3> HIDE DEF wakeup
    <3>1. rest \in Int /\ room \in Nat
      BY <1>0, <2>3
    <3>2. rest >= 0
      BY <1>0, <2>2 DEF wakeup
    <3> HIDE DEF rest, room
    <3>3. QED
      BY <3>1, <3>2
  <2>5. k \in 0 .. maxThreads - threadsRunning
    <3> HIDE DEF k
    <3>1. QED
      BY <1>0, <2>4
  <2>6. /\ threadsSleeping' = threadsSleeping + k
        /\ \A v \in Workers : wpc[v] = "woken" => wpc'[v] = "woken"
    <3> HIDE DEF k
    <3>1. QED
      BY <2>1, <2>5, CreateWoken DEF Counted
  <2>7. rest = 0 => Len(jobs) = wakeup
    <3> HIDE DEF wakeup
    <3>1. QED
      BY <1>0, <2>3
  <2> HIDE DEF wakeup, rest, k
  <2>8. threadsWaking' <= threadsSleeping'
    BY <1>0, <2>1, <2>3, <2>4, <2>6
  <2>9. jobs # <<>> => threadsAreAwake > 0 \/ threadsWaking' > 0
    <3>1. SUFFICES ASSUME Len(jobs) # 0, wakeup = 0, k = 0, threadsWaking = 0 PROVE threadsAreAwake > 0
      BY <1>0, <2>1, <2>3, <2>4
    <3>2. room = 0
      BY <2>4, <2>7, <3>1
    <3>3. threadsRunning = threadsAreAwake + threadsSleeping
      BY DEF Counted, WorkersCounted
    <3>4. wakeable = 0
      BY <2>3, <3>1
    <3>5. QED
      BY <1>0, <3>1, <3>2, <3>3, <3>4
  <2>10. ASSUME threadsWaking' > 0
         PROVE  \/ workerWakeup'
                \/ \E v \in Workers : wpc'[v] = "woken"
                \/ threadsWaking' < threadsSleeping' /\ jobs = <<>>
    <3>1. CASE wakeup + k > 0
      BY <2>1, <3>1
    <3>2. CASE ~(wakeup + k > 0)
      <4>1. wakeup = 0 /\ k = 0
        BY <2>3, <2>4, <3>2
      <4>2. threadsWaking' = threadsWaking /\ threadsSleeping' = threadsSleeping
        BY <1>0, <2>1, <2>6, <4>1
      <4>3. threadsWaking < threadsSleeping => jobs = <<>>
        BY <1>0, <2>3, <4>1
      <4>4. workerWakeup => workerWakeup'
        BY <2>1
      <4>5. QED
        BY <2>6, <2>10, <4>2, <4>3, <4>4 DEF Wakeful
    <3>3. QED
      BY <3>1, <3>2
  <2>11. QED
    BY <2>1, <2>8, <2>9, <2>10 DEF Wakeful
<1>3. QED
  BY <1>1, <1>2

LEMMA WakefulStep ==
  ASSUME "nothread" \notin Ops
  PROVE  Inv /\ Wakeful /\ [Next]_vars => Wakeful'
<1> SUFFICES ASSUME Inv, Wakeful, [Next]_vars PROVE Wakeful'
  OBVIOUS
<1> USE DEF Inv
<1>1. ASSUME UNCHANGED <<threadsWaking, threadsSleeping, threadsAreAwake, workerWakeup, wpc, shutdown>>,
             jobs = <<>> => jobs' = <<>>, pauserun' = pauserun \/ pauserun'
      PROVE  Wakeful'
  BY <1>1 DEF Wakeful
<1>2. ASSUME NEW j \in Jobs, JobCall(j) PROVE Wakeful'
  <2>1. \A x : RemoveFirst(<<>>, x) = <<>>
    BY DEF RemoveFirst
  <2>2. CASE epicsJobCreate(j)
    BY <1>1, <2>2 DEF epicsJobCreate, counts, modes, wvars
  <2>3. CASE epicsJobMove(j)
    BY <1>1, <2>3 DEF epicsJobMove, counts, modes, wvars
  <2>4. CASE epicsJobUnqueue(j)
    BY <1>1, <2>1, <2>4 DEF epicsJobUnqueue, Unqueued, counts, modes, wvars
  <2>5. CASE epicsJobDestroy(j)
    BY <1>1, <2>1, <2>5 DEF epicsJobDestroy, Unqueued, lists, counts, modes, wvars
  <2>6. CASE epicsJobQueue(j) /\ j \in running
    BY <1>1, <2>6 DEF epicsJobQueue, lists, counts, modes
  <2>7. CASE epicsJobQueue(j) /\ j \notin running
    <3>1. MayCall /\ Enqueue(j) /\ UNCHANGED <<threadsAreAwake, modes>>
      BY <2>7 DEF epicsJobQueue
    <3>2. ~shutdown
      BY <3>1, CallersPhase DEF Counted
    <3>3. QED
      BY <3>1, <3>2, WakefulEnqueue
  <2>8. QED
    BY <1>2, <2>2, <2>3, <2>4, <2>5, <2>6, <2>7 DEF JobCall
<1>3. CASE epicsThreadPoolControl /\ ~ControlRun
  BY <1>1, <1>3 DEF epicsThreadPoolControl, counts, lists
<1>4. CASE (epicsThreadPoolControl /\ ControlRun) \/ epicsThreadPoolDestroy
  <2>1. ~shutdown /\ ControlRun /\ UNCHANGED <<jobs, shutdown>>
    BY <1>4 DEF epicsThreadPoolControl, epicsThreadPoolDestroy, lists, Phases
  <2>2. QED
    BY <2>1, WakefulControlRun
<1>5. ASSUME NEW o, epicsThreadPoolWait(o) \/ ObserverWakes(o) \/ ObserverLooks(o)
      PROVE  Wakeful'
  <2>1. UNCHANGED <<lists, counts, workerWakeup, modes, wvars>>
    BY <1>5 DEF epicsThreadPoolWait, ObserverWakes, ObserverLooks
  <2>2. QED
    BY <1>1, <2>1 DEF lists, counts, modes, wvars
<1>6. CASE DestroyShutdown
  <2>1. jobs' = <<>> /\ shutdown' /\ threadsSleeping' = threadsSleeping
        /\ threadsWaking' = IF threadsWaking < threadsSleeping THEN threadsSleeping ELSE threadsWaking
    BY <1>6 DEF DestroyShutdown
  <2>2. threadsWaking' <= threadsSleeping'
    BY <2>1 DEF Wakeful, TypeOK
  <2>3. QED
    BY <2>1, <2>2 DEF Wakeful
<1>7. CASE DestroyJoin \/ DestroyNotify \/ DestroyFree
  BY <1>1, <1>7 DEF DestroyJoin, DestroyNotify, DestroyFree, lists, counts, modes, wvars
<1>8. CASE UNCHANGED vars
  BY <1>1, <1>8 DEF vars, lists, counts, modes, wvars
<1>9. QED
  BY <1>2, <1>3, <1>4, <1>5, <1>6, <1>7, <1>8, WakefulWorker DEF Next, Observer, Destroyer

LEMMA WakefulInit == Init => Wakeful
BY DEF Init, epicsThreadPoolCreate, Wakeful

LEMMA WakefulAlways ==
  ASSUME "nothread" \notin Ops
  PROVE  Spec => [](Inv /\ Wakeful)
BY InvInit, InvStep, WakefulInit, WakefulStep, PTL DEF Spec

LEMMA WakefulMeans == Inv /\ Wakeful => CHECKCOUNT /\ NoLostJob
<1> SUFFICES ASSUME Inv, Wakeful PROVE CHECKCOUNT /\ NoLostJob
  OBVIOUS
<1> USE DEF Inv
<1>1. CHECKCOUNT
  BY DEF CHECKCOUNT, Counted, WorkersCounted, Wakeful
<1>2. NoLostJob
  <2> SUFFICES ASSUME jobs # <<>>, ~pauserun, At({"run"}) = {}
               PROVE  threadsWaking > 0 /\ (workerWakeup \/ At({"woken"}) # {})
    BY DEF NoLostJob
  <2>1. threadsAreAwake = 0
    BY AtType DEF Counted, WorkersCounted
  <2>2. threadsWaking > 0
    BY <2>1 DEF Wakeful
  <2>3. ~shutdown
    BY DEF Phases
  <2>4. QED
    BY <2>2, <2>3 DEF Wakeful, At
<1>3. QED
  BY <1>1, <1>2

\* If threads can be created, the counters are right at every release of the
\* guard: no assertion of CHECKCOUNT (poolPriv.h:63) fails.
THEOREM CountsRight ==
  ASSUME "nothread" \notin Ops
  PROVE  Spec => []CHECKCOUNT
BY WakefulAlways, WakefulMeans, PTL

\* If threads can be created, a queued job of a pool that is not paused has a
\* worker that is awake or on the way (poolJob.c:67, threadPool.c:121).
THEOREM JobNotLost ==
  ASSUME "nothread" \notin Ops
  PROVE  Spec => []NoLostJob
BY WakefulAlways, WakefulMeans, PTL

=============================================================================
