------------------------------- MODULE DbScan -------------------------------
(***************************************************************************)
(* Scanning, dbScan.c: scan lists of records, the periodic tasks and event *)
(* callbacks that walk them while records move between lists, the once     *)
(* task, and scanRun, scanPause and scanStop.                              *)
(*                                                                         *)
(* A list's lock is held for one step.  A record is processed, or has its  *)
(* scan changed by dbPut, under its scan lock: the two exclude each other, *)
(* and the only effect of processing seen here is that SCAN fields change. *)
(* Event and I/O interrupt lists are walked by the one callback task of    *)
(* their priority.  A periodic task may be woken at any time.              *)
(*                                                                         *)
(* scanDelete asks device support which I/O interrupt list a record is on, *)
(* and gives up when it is told of none or of another one.  When such a    *)
(* record is then added to a list while it is on one, the lists are        *)
(* tangled: what is found in them after that is not modelled.              *)
(***************************************************************************)
EXTENDS Integers, SequencesExt

CONSTANTS
  Records, None,
  Periodic,      \* the periodic lists, in the order of the menu (papPeriodic)
  EventLists,    \* event and I/O interrupt lists, one per event and priority
  IoLists,       \* those that are I/O interrupt lists
  InitScan,      \* the SCAN field of each record; None is Passive
  phas,          \* the PHAS field of each record
  onceQueueSize,
  MaxRequests,   \* bound: callback requests of a list the callback queue holds
  MaxPuts        \* bound: SCAN fields are changed that often

Lists == Range(Periodic) \cup EventLists
nPeriodic == Len(Periodic)

ASSUME ScanAssumption ==
  /\ None \notin Records \cup Lists /\ IsFiniteSet(Records)
  /\ Periodic \in Seq(Range(Periodic)) /\ IsInjective(Periodic)
  /\ Range(Periodic) \cap EventLists = {} /\ IoLists \subseteq EventLists
  /\ InitScan \in [Records -> Lists \cup {None}]
  /\ phas \in [Records -> Int]
  /\ onceQueueSize \in Nat \ {0} /\ MaxRequests \in Nat \ {0} /\ MaxPuts \in Nat

VARIABLES
  list, modified,         \* of a scan list
  scan,                   \* SCAN of a record
  pscan_list,             \* of its scan element: the list it is in
  gaveUp,                 \* the records a scanDelete has left on a list
  tangled,                \* a record on a list was added to a list
  changing, puts,         \* records whose SCAN a dbPut is changing, how many have been
  spc, pse, prev, next,   \* the thread that walks a list, in scanList
  was, due,               \* the records that have been on a list since its walk began; the
                          \* ones the walk still has to process
  scanCtl, listCtl,       \* the control of all and of each periodic list
  requests,               \* callback requests for each event list
  onceQ, onceSem, opc,    \* scanOnce's ring, and onceTask
  scanStartStopEvent,
  runAt, pauseAt,         \* the periodic lists scanRun and scanPause are at, 0 outside
  stopAt                  \* scanStop waits for this task; the once task comes last

lvars == <<list, modified, scan, pscan_list, gaveUp, tangled, changing, puts>>
wvars == <<spc, pse, prev, next>>
gvars == <<was, due>>
cvars == <<scanCtl, listCtl, runAt, pauseAt>>
ovars == <<onceQ, onceSem, opc>>
scanVars == <<lvars, wvars, gvars, cvars, requests, ovars, scanStartStopEvent, stopAt>>

Ctl == {"pause", "run", "exit"}

\* Every variable has its type.
ScanTypeOK ==
  /\ list \in [Lists -> Seq(Records)] /\ modified \in [Lists -> BOOLEAN]
  /\ {scan, pscan_list} \subseteq [Records -> Lists \cup {None}]
  /\ gaveUp \subseteq Records /\ tangled \in BOOLEAN
  /\ changing \subseteq Records /\ puts \in 0 .. MaxPuts
  /\ spc \in [Lists -> {"idle", "process", "step", "exit"}]
  /\ {pse, prev, next} \subseteq [Lists -> Records \cup {None}]
  /\ {was, due} \subseteq [Lists -> SUBSET Records]
  /\ scanCtl \in Ctl /\ listCtl \in [Range(Periodic) -> Ctl]
  /\ requests \in [EventLists -> 0 .. MaxRequests]
  /\ onceQ \in Seq({"record", "exitOnce"}) /\ Len(onceQ) <= onceQueueSize
  /\ {onceSem, scanStartStopEvent} \subseteq BOOLEAN /\ opc \in {"wait", "get", "exit"}
  /\ {runAt, pauseAt} \subseteq 0 .. nPeriodic /\ stopAt \in 0 .. nPeriodic + 2

-----------------------------------------------------------------------------
(* Scan lists *)

\* Where addToList puts a record: after the last one with no higher PHAS, and at
\* the end if there is none.
Placed(s, r) ==
  LET lower == {i \in 1 .. Len(s) : phas[s[i]] <= phas[r]} IN
  IF lower = {} THEN Append(s, r) ELSE InsertAt(s, Max(lower) + 1, r)

Index(s, r) == CHOOSE i \in 1 .. Len(s) : s[i] = r

\* ellNext and ellPrevious of a scan element: its neighbours in the list it is
\* in.  An element in no list has stale pointers; WalkIsOnList says that they
\* are not followed.
ellNext(r) ==
  IF pscan_list[r] = None THEN None
  ELSE LET s == list[pscan_list[r]] IN IF r = Last(s) THEN None ELSE s[Index(s, r) + 1]

ellPrevious(r) ==
  IF pscan_list[r] = None THEN None
  ELSE LET s == list[pscan_list[r]] IN IF r = Head(s) THEN None ELSE s[Index(s, r) - 1]

\* buildScanLists adds the records in the order they are found: the lists
\* with the first n of them.
order == SetToSeq(Records)

Added(lists, r) ==
  IF InitScan[r] = None THEN lists
  ELSE [lists EXCEPT ![InitScan[r]] = Placed(@, r)]

buildScanLists[n \in 0 .. Len(order)] ==
  IF n = 0 THEN [l \in Lists |-> <<>>]
  ELSE Added(buildScanLists[n - 1], order[n])

\* scanInit has built the lists and started the tasks.
ScanInit ==
  /\ list = buildScanLists[Len(order)] /\ modified = [l \in Lists |-> TRUE]
  /\ scan = InitScan /\ pscan_list = InitScan /\ gaveUp = {} /\ tangled = FALSE
  /\ changing = {} /\ puts = 0
  /\ spc = [l \in Lists |-> "idle"]
  /\ pse = [l \in Lists |-> None] /\ prev = pse /\ next = pse
  /\ was = [l \in Lists |-> {}] /\ due = was
  /\ scanCtl = "pause" /\ listCtl = [l \in Range(Periodic) |-> "pause"]
  /\ requests = [l \in EventLists |-> 0]
  /\ onceQ = <<>> /\ onceSem = FALSE /\ opc = "wait"
  /\ scanStartStopEvent = FALSE /\ runAt = 0 /\ pauseAt = 0 /\ stopAt = 0

\* Mutant: the scan element does not learn its list.
addToList_Unset(r, l) ==
  /\ list' = [list EXCEPT ![l] = Placed(@, r)]
  /\ modified' = [modified EXCEPT ![l] = TRUE]
  /\ was' = [was EXCEPT ![l] = IF spc[l] = "idle" THEN {} ELSE @ \cup {r}]
  /\ due' = [due EXCEPT ![l] = IF r \in was[l] THEN {} ELSE @]
  /\ UNCHANGED pscan_list

\* A walk owes nothing more if a record is put back on its list.
addToList(r, l) ==
  /\ list' = [list EXCEPT ![l] = Placed(@, r)]
  /\ pscan_list' = [pscan_list EXCEPT ![r] = l]
  /\ modified' = [modified EXCEPT ![l] = TRUE]
  /\ was' = [was EXCEPT ![l] = IF spc[l] = "idle" THEN {} ELSE @ \cup {r}]
  /\ due' = [due EXCEPT ![l] = IF r \in was[l] THEN {} ELSE @]

\* Mutant: the list is not marked.
deleteFromList_Unmarked(r, l) ==
  /\ list' = [list EXCEPT ![l] = RemoveFirst(@, r)]
  /\ pscan_list' = [pscan_list EXCEPT ![r] = None]
  /\ due' = [due EXCEPT ![l] = @ \ {r}]
  /\ UNCHANGED modified

deleteFromList(r, l) ==
  /\ list' = [list EXCEPT ![l] = RemoveFirst(@, r)]
  /\ pscan_list' = [pscan_list EXCEPT ![r] = None]
  /\ modified' = [modified EXCEPT ![l] = TRUE]
  /\ due' = [due EXCEPT ![l] = @ \ {r}]

\* The list scanDelete looks for the record on.  For an I/O interrupt list it
\* is what get_ioint_info says this time, if anything.
Named(r) == IF scan[r] \in IoLists THEN IoLists \cup {None} ELSE {scan[r]}

\* dbPut to SCAN, PHAS, EVNT or PRIO locks the record; dbPutSpecial's first
\* pass is scanDelete.  It leaves the record where it is if it finds no list
\* or the wrong one, and the put goes on.
scanDelete(r) ==
  /\ ~tangled /\ puts < MaxPuts /\ puts' = puts + 1
  /\ r \notin changing /\ changing' = changing \cup {r}
  /\ \E l \in Named(r) :
       \/ /\ l # None /\ pscan_list[r] = l
          /\ deleteFromList(r, l)
          /\ gaveUp' = gaveUp \ {r}
       \/ /\ l = None \/ pscan_list[r] # l
          /\ gaveUp' = IF pscan_list[r] = None THEN gaveUp ELSE gaveUp \cup {r}
          /\ UNCHANGED <<list, modified, pscan_list, due>>
  /\ UNCHANGED <<scan, tangled, wvars, was, cvars, requests, ovars, scanStartStopEvent, stopAt>>

\* The field is changed, dbPutSpecial's second pass is scanAdd.  The record
\* ends up Passive if it has no such list (an illegal SCAN, no device
\* support).  addToList does not look whether the record is on a list.
scanAdd(r, l) ==
  /\ ~tangled /\ r \in changing /\ changing' = changing \ {r}
  /\ scan' = [scan EXCEPT ![r] = l]
  /\ \/ /\ l = None /\ UNCHANGED <<list, modified, pscan_list, tangled, gvars>>
     \/ /\ l # None /\ pscan_list[r] = None
        /\ addToList(r, l)
        /\ UNCHANGED tangled
     \/ /\ l # None /\ pscan_list[r] # None
        /\ tangled' = TRUE
        /\ UNCHANGED <<list, modified, pscan_list, gvars>>
  /\ UNCHANGED <<gaveUp, puts, wvars, cvars, requests, ovars, scanStartStopEvent, stopAt>>

-----------------------------------------------------------------------------
(* scanList *)

\* The walk of l is at the record r, at p before and n after it; or at its
\* end.
At(l, r, p, n) ==
  /\ pse' = [pse EXCEPT ![l] = r]
  /\ prev' = [prev EXCEPT ![l] = IF r = None THEN None ELSE p]
  /\ next' = [next EXCEPT ![l] = IF r = None THEN None ELSE n]
  /\ spc' = [spc EXCEPT ![l] = IF r = None THEN "idle" ELSE "process"]

After(r) == IF r = None THEN None ELSE ellNext(r)

\* A walk begins.
scanList(l) ==
  LET first == IF list[l] = <<>> THEN None ELSE Head(list[l]) IN
  /\ ~tangled /\ spc[l] = "idle"
  /\ At(l, first, None, After(first))
  /\ modified' = [modified EXCEPT ![l] = FALSE]
  /\ was' = [was EXCEPT ![l] = Range(list[l])]
  /\ due' = [due EXCEPT ![l] = Range(list[l])]
  /\ UNCHANGED <<list, scan, pscan_list, gaveUp, tangled, changing, puts, ovars,
                 scanStartStopEvent, stopAt>>

\* dbProcess of the record, under its lock.
dbProcess(l) ==
  /\ spc[l] = "process" /\ pse[l] \notin changing
  /\ spc' = [spc EXCEPT ![l] = "step"]
  /\ due' = [due EXCEPT ![l] = @ \ {pse[l]}]
  /\ UNCHANGED <<lvars, pse, prev, next, was, cvars, requests, ovars, scanStartStopEvent, stopAt>>

\* Mutant: the walk goes on behind the element that was next.
ResumeAtNext_Skip(l) ==
  LET n == ellNext(next[l]) IN At(l, n, next[l], After(n))

\* "Next scan element is still in same scan list".
ResumeAtNext(l) == At(l, next[l], ellPrevious(next[l]), ellNext(next[l]))

OnList(l, r) == r # None /\ pscan_list[r] = l

\* The next element, after this one if the list is unmodified or this one is
\* still in it; else after the previous one; else the one that was next; else
\* "Too many changes. Just wait till next period".
scanNext(l) ==
  LET r == pse[l]
      GoOnFrom(q) == At(l, ellNext(q), q, After(ellNext(q))) IN
  /\ ~tangled /\ spc[l] = "step"
  /\ \/ /\ ~modified[l] \/ OnList(l, r)
        /\ GoOnFrom(r)
        /\ UNCHANGED due
     \/ /\ modified[l] /\ ~OnList(l, r) /\ OnList(l, prev[l])
        /\ GoOnFrom(prev[l])
        /\ UNCHANGED due
     \/ /\ modified[l] /\ ~OnList(l, r) /\ ~OnList(l, prev[l]) /\ OnList(l, next[l])
        /\ ResumeAtNext(l)
        /\ UNCHANGED due
     \/ /\ modified[l] /\ ~\E q \in {r, prev[l], next[l]} : OnList(l, q)
        /\ At(l, None, None, None)
        /\ due' = [due EXCEPT ![l] = {}]
  /\ modified' = [modified EXCEPT ![l] = @ /\ ~\E q \in {r, prev[l], next[l]} : OnList(l, q)]
  /\ was' = [was EXCEPT ![l] = IF spc'[l] = "idle" THEN {} ELSE @]
  /\ UNCHANGED <<list, scan, pscan_list, gaveUp, tangled, changing, puts, cvars, requests, ovars,
                 scanStartStopEvent, stopAt>>

-----------------------------------------------------------------------------
(* Tasks *)

\* Mutant: nobody is told that the task has ended.
TaskExits_Silent(l) ==
  /\ listCtl[l] = "exit" /\ spc[l] = "idle"
  /\ spc' = [spc EXCEPT ![l] = "exit"]
  /\ UNCHANGED <<lvars, pse, prev, next, gvars, cvars, requests, ovars, scanStartStopEvent,
                 stopAt>>

TaskExits(l) ==
  /\ listCtl[l] = "exit" /\ spc[l] = "idle"
  /\ spc' = [spc EXCEPT ![l] = "exit"] /\ scanStartStopEvent' = TRUE
  /\ UNCHANGED <<lvars, pse, prev, next, gvars, cvars, requests, ovars, stopAt>>

\* A periodic task is woken, or its time has come, and it looks at its control.
periodicTask(l) ==
  \/ listCtl[l] = "run" /\ scanList(l) /\ UNCHANGED <<cvars, requests>>
  \/ TaskExits(l)

\* postEvent, scanIoRequest: unless the callback queue is full.
postEvent(l) ==
  /\ scanCtl = "run" /\ list[l] # <<>> /\ requests[l] < MaxRequests
  /\ requests' = [requests EXCEPT ![l] = @ + 1]
  /\ UNCHANGED <<lvars, wvars, gvars, cvars, ovars, scanStartStopEvent, stopAt>>

\* The callback of a list, in the callback task.
eventCallback(l) ==
  /\ requests[l] > 0 /\ scanList(l)
  /\ requests' = [requests EXCEPT ![l] = @ - 1]
  /\ UNCHANGED cvars

\* An entry is put on the ring unless it is full, the task is woken anyway.
PushOnce(e) ==
  /\ onceQ' = IF Len(onceQ) < onceQueueSize THEN Append(onceQ, e) ELSE onceQ
  /\ onceSem' = TRUE

scanOnce ==
  /\ PushOnce("record")
  /\ UNCHANGED <<lvars, wvars, gvars, cvars, requests, opc, scanStartStopEvent, stopAt>>

onceTask ==
  /\ \/ /\ opc = "wait" /\ onceSem
        /\ opc' = "get" /\ onceSem' = FALSE /\ UNCHANGED <<onceQ, scanStartStopEvent>>
     \/ /\ opc = "get" /\ onceQ = <<>>
        /\ opc' = "wait" /\ UNCHANGED <<onceQ, onceSem, scanStartStopEvent>>
     \/ /\ opc = "get" /\ onceQ # <<>>
        /\ onceQ' = Tail(onceQ)
        /\ opc' = IF Head(onceQ) = "exitOnce" THEN "exit" ELSE "get"
        /\ scanStartStopEvent' = (scanStartStopEvent \/ Head(onceQ) = "exitOnce")
        /\ UNCHANGED onceSem
  /\ UNCHANGED <<lvars, wvars, gvars, cvars, requests, stopAt>>

-----------------------------------------------------------------------------
(* Control *)

\* scanRun, scanPause and scanStop are called by iocRun, iocPause and
\* iocShutdown, one after the other, and not after the last: the control is
\* nobody's.
NoControl == runAt = 0 /\ pauseAt = 0 /\ stopAt = 0

\* Everything runs, then one periodic list after the other is told.
scanRun ==
  /\ \/ /\ NoControl /\ scanCtl' = "run"
        /\ runAt' = IF nPeriodic = 0 THEN 0 ELSE 1
        /\ UNCHANGED listCtl
     \/ /\ runAt # 0
        /\ listCtl' = [listCtl EXCEPT ![Periodic[runAt]] = "run"]
        /\ runAt' = IF runAt = nPeriodic THEN 0 ELSE runAt + 1
        /\ UNCHANGED scanCtl
  /\ UNCHANGED <<lvars, wvars, gvars, requests, ovars, scanStartStopEvent, pauseAt, stopAt>>

\* scanPause's loop, from the last list to the first, is at the list i; after
\* it everything pauses.
PauseAt(i) ==
  /\ pauseAt' = i
  /\ \/ /\ i # 0
        /\ listCtl' = [listCtl EXCEPT ![Periodic[i]] = "pause"]
        /\ UNCHANGED scanCtl
     \/ /\ i = 0 /\ scanCtl' = "pause" /\ UNCHANGED listCtl

scanPause ==
  /\ \/ NoControl /\ PauseAt(nPeriodic)
     \/ pauseAt # 0 /\ PauseAt(pauseAt - 1)
  /\ UNCHANGED <<lvars, wvars, gvars, requests, ovars, scanStartStopEvent, runAt, stopAt>>

\* scanStop's loop: tell the task i to exit, the once task after the periodic
\* ones, and wait for it.
Tell(i) ==
  /\ stopAt' = i
  /\ \/ /\ i <= nPeriodic
        /\ listCtl' = [listCtl EXCEPT ![Periodic[i]] = "exit"]
        /\ UNCHANGED <<onceQ, onceSem>>
     \/ /\ i = nPeriodic + 1 /\ PushOnce("exitOnce") /\ UNCHANGED listCtl
     \/ /\ i = nPeriodic + 2 /\ UNCHANGED <<listCtl, onceQ, onceSem>>

scanStop ==
  /\ \/ /\ NoControl /\ scanCtl # "exit" /\ scanCtl' = "exit"
        /\ Tell(1)
        /\ UNCHANGED scanStartStopEvent
     \/ /\ stopAt \in 1 .. nPeriodic + 1 /\ scanStartStopEvent /\ scanStartStopEvent' = FALSE
        /\ Tell(stopAt + 1)
        /\ UNCHANGED scanCtl
  /\ UNCHANGED <<lvars, wvars, gvars, runAt, pauseAt, requests, opc>>

-----------------------------------------------------------------------------
Walk(l) == dbProcess(l) \/ scanNext(l)

ScanNext ==
  \/ \E r \in Records : scanDelete(r) \/ (\E l \in Lists \cup {None} : scanAdd(r, l))
  \/ \E l \in Lists : Walk(l)
  \/ \E l \in Range(Periodic) : periodicTask(l)
  \/ \E l \in EventLists : postEvent(l) \/ eventCallback(l)
  \/ scanOnce \/ onceTask
  \/ scanRun \/ scanPause \/ scanStop

ScanSpec == ScanInit /\ [][ScanNext]_scanVars

\* Tasks that can run do, a task waits no longer than its period, puts end,
\* and a thread takes an event it waits for.
ScanFairSpec ==
  /\ ScanSpec /\ WF_scanVars(onceTask) /\ WF_scanVars(stopAt > 0 /\ scanStop)
  /\ \A l \in Lists : WF_scanVars(Walk(l))
  /\ \A l \in Range(Periodic) : WF_scanVars(periodicTask(l))
  /\ \A l \in EventLists : WF_scanVars(eventCallback(l))
  /\ \A r \in Records : WF_scanVars(\E l \in Lists \cup {None} : scanAdd(r, l))

-----------------------------------------------------------------------------
(* Properties *)

Agreement ==
  /\ \A l \in Lists : IsInjective(list[l])
  /\ \A r \in Records :
       /\ \A l \in Lists : r \in Range(list[l]) <=> pscan_list[r] = l
       /\ r \in gaveUp => pscan_list[r] \in IoLists
       /\ r \notin gaveUp => pscan_list[r] = IF r \in changing THEN None ELSE scan[r]

\* A record that is on a list is added to a list, which breaks both, only if a
\* scanDelete gave up on it: get_ioint_info failed or named another list than
\* the time before.  Until then a record is on the list its scan element says,
\* once, and on no other; that is the list of its SCAN field unless that is
\* being changed, except that a record scanDelete gave up on stays on its I/O
\* interrupt list whatever the field says.
ListsAgree ==
  /\ tangled => gaveUp # {}
  /\ tangled \/ Agreement

OnItsList(l) ==
  spc[l] \in {"process", "step"} /\ ~modified[l] =>
    /\ pscan_list[pse[l]] = l
    /\ prev[l] = ellPrevious(pse[l]) /\ next[l] = ellNext(pse[l])

\* While the list is not marked as modified the element of its walk is on it,
\* with its neighbours where the walk believes them: a walk never follows the
\* pointers of an element that is in no list or in another one, whatever the
\* records that it processes, and other threads, do to the lists, until a
\* deletion that gave up has them tangled.
WalkIsOnList == tangled \/ \A l \in Lists : OnItsList(l)

\* A walk that comes to its end has processed every record that was on the
\* list all the time, though others have left it or joined it, the walk's
\* element and the previous one included, unless some record left the list
\* and was put back on it, or the lists are tangled.
WalkIsComplete == tangled \/ \A l \in Lists : spc[l] = "idle" => due[l] = {}

\* The exit request did not fit on the once task's ring.
ExitRefused ==
  stopAt = nPeriodic + 1 /\ ~Contains(onceQ, "exitOnce") /\ opc # "exit"

\* scanStop returns, unless SCAN fields are changed for ever, the once task's
\* ring was full, or the lists are tangled.
StopReturns ==
  <>[](changing = {}) =>
    (stopAt = 1 ~> (stopAt = nPeriodic + 2 \/ ExitRefused \/ tangled))

=============================================================================
