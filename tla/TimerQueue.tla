----------------------------- MODULE TimerQueue -----------------------------
(***************************************************************************)
(* The timer queue, timer.cpp, timerQueue.cpp and timerQueueActive.cpp: a  *)
(* list of timers in the order they expire and a thread that sleeps until  *)
(* the first one does, calls it back without holding the queue's mutex,    *)
(* and may meet a start, a cancel or a destroy of that same timer.         *)
(*                                                                         *)
(* What happens between taking and releasing the mutex is one step.  Time  *)
(* is counted in units longer than the sleep quantum: the half of it       *)
(* that privateStart takes off the expiration, and once more when process  *)
(* calls it with exp, is not seen.  Timers are started and cancelled by    *)
(* threads and by the callback that runs.  A timer is destroyed by one     *)
(* thread when no other is in a call on it.                                *)
(***************************************************************************)
EXTENDS Integers, SequencesExt

CONSTANTS
  Timers,
  None,
  Threads,   \* that cancel or destroy timers
  MaxTime,   \* bound: timers are started to expire until then
  Ops        \* optional behaviour: "destroy", "release"

ASSUME TimerAssumption ==
  /\ None \notin Timers /\ MaxTime \in Nat
  /\ Ops \subseteq {"destroy", "release"}

Horizon == MaxTime + 1   \* bound: time stops, everything is due
DBL_MAX == MaxTime + 2   \* no time to wake at

VARIABLES
  now,
  timerList, curState, exp,
  pNotify,        \* timers whose pNotify is not null
  freed,          \* timers destroyed
  pExpireTmr, cancelPending,
  cancelBlockingEvent, rescheduleEvent, terminateFlag,
  qpc,            \* the queue's thread
  currentTime,    \* when it last read the clock, 0 while it sleeps
  wakeAt, lag,    \* when its sleep ends, and the age of currentTime when it began
  cpc, ctmr,      \* threads in cancel, the timer they cancel
  cdel,           \* those that destroy it
  met,            \* the timer whose callback runs has been cancelled since it began
  owed            \* threads whose cancel came first and has that callback to wait for

timers == <<timerList, curState, exp, pNotify, freed>>
qvars  == <<qpc, currentTime, wakeAt, lag>>
cvars  == <<cpc, ctmr, cdel>>
vars == <<now, timers, pExpireTmr, cancelPending, cancelBlockingEvent, rescheduleEvent,
          terminateFlag, qvars, cvars, met, owed>>

\* Every variable has its type.
TypeOK ==
  /\ now \in 0 .. Horizon /\ currentTime \in 0 .. now /\ wakeAt \in 0 .. DBL_MAX
  /\ lag \in 0 .. Horizon
  /\ timerList \in Seq(Timers) /\ exp \in [Timers -> 0 .. MaxTime]
  /\ curState \in [Timers -> {"pending", "active", "limbo"}]
  /\ pNotify \subseteq Timers /\ freed \subseteq Timers
  /\ pExpireTmr \in Timers \cup {None}
  /\ cancelPending \in BOOLEAN /\ cancelBlockingEvent \in BOOLEAN
  /\ rescheduleEvent \in BOOLEAN /\ terminateFlag \in BOOLEAN
  /\ qpc \in {"process", "expire", "sleep", "exit", "gone"}
  /\ cpc \in [Threads -> {"idle", "wait", "woken", "signal"}]
  /\ ctmr \in [Threads -> Timers \cup {None}]
  /\ cdel \subseteq Threads /\ met \in BOOLEAN /\ owed \subseteq Threads

Init ==
  /\ now = 0 /\ currentTime = 0 /\ wakeAt = 0 /\ lag = 0
  /\ timerList = <<>> /\ exp = [t \in Timers |-> 0]
  /\ curState = [t \in Timers |-> "limbo"]
  /\ pNotify = {} /\ freed = {} /\ pExpireTmr = None
  /\ cancelPending = FALSE /\ cancelBlockingEvent = FALSE /\ rescheduleEvent = FALSE
  /\ terminateFlag = FALSE
  /\ qpc = "process"
  /\ cpc = [c \in Threads |-> "idle"] /\ ctmr = [c \in Threads |-> None] /\ cdel = {}
  /\ met = FALSE /\ owed = {}

Tick ==
  /\ now < Horizon /\ now' = now + 1
  /\ UNCHANGED <<timers, pExpireTmr, cancelPending, cancelBlockingEvent, rescheduleEvent,
                 terminateFlag, qvars, cvars, met, owed>>

-----------------------------------------------------------------------------
(* timer *)

\* Mutant: the timer goes before the ones that expire at the same time or earlier.
Place_First(list, e, t) == 0

\* Where privateStart inserts a timer: after the last one that expires no
\* later.
Place(list, e, t) ==
  Max({0} \cup {i \in 1 .. Len(list) : e[list[i]] <= e[t]})

Inserted(list, e, t) == InsertAt(list, Place(list, e, t) + 1, t)

\* Mutant: the queue's thread is told only of the first timer in the list.
Preempts_Empty(list, e, t) == list = <<>>

\* Does the timer become the first one, so that the thread must reschedule?
Preempts(list, e, t) == Place(list, e, t) = 0

\* start: an active timer is only marked, process sees to it.
start(t, e) ==
  LET exp_ == [exp EXCEPT ![t] = e]
      list == RemoveFirst(timerList, t) IN
  /\ t \notin freed /\ ~terminateFlag /\ \A c \in cdel : ctmr[c] # t
  /\ e \in now .. MaxTime
  /\ pNotify' = pNotify \cup {t} /\ exp' = exp_
  /\ \/ /\ curState[t] = "active"
        /\ UNCHANGED <<timerList, curState, rescheduleEvent>>
     \/ /\ curState[t] # "active"
        /\ timerList' = Inserted(list, exp_, t)
        /\ curState' = [curState EXCEPT ![t] = "pending"]
        /\ rescheduleEvent' = (rescheduleEvent \/ Preempts(list, exp_, t))
  /\ UNCHANGED <<now, freed, pExpireTmr, cancelPending, cancelBlockingEvent, terminateFlag,
                 qvars, cvars, met, owed>>

\* What cancel does to the timer.
Cancelled(t) ==
  /\ pNotify' = pNotify \ {t}
  /\ timerList' = RemoveFirst(timerList, t)
  /\ curState' = [curState EXCEPT ![t] = "limbo"]
  /\ cancelPending' = (cancelPending \/ curState[t] = "active")

\* cancel, or destroy, in the thread c.  It waits if it finds the timer active;
\* whether the callback runs is what met and owed go by.
cancel(c, t, del) ==
  /\ cpc[c] = "idle" /\ t \notin freed /\ ~terminateFlag
  /\ \A d \in Threads : ctmr[d] = t => ~del /\ d \notin cdel
  /\ Cancelled(t)
  /\ \/ /\ curState[t] = "active"
        /\ cpc' = [cpc EXCEPT ![c] = "wait"] /\ ctmr' = [ctmr EXCEPT ![c] = t]
        /\ cdel' = IF del THEN cdel \cup {c} ELSE cdel
        /\ UNCHANGED freed
     \/ /\ curState[t] # "active"
        /\ freed' = IF del THEN freed \cup {t} ELSE freed
        /\ UNCHANGED cvars
  /\ met' = (met \/ pExpireTmr = t)
  /\ owed' = IF pExpireTmr = t /\ ~met THEN owed \cup {c} ELSE owed
  /\ UNCHANGED <<now, exp, pExpireTmr, cancelBlockingEvent, rescheduleEvent, terminateFlag,
                 qvars>>

\* cancel, or destroy, in the callback that runs.
cancelInCallback(t, del) ==
  /\ qpc = "expire" /\ t \notin freed
  /\ \A d \in Threads : ctmr[d] = t => ~del /\ d \notin cdel
  /\ Cancelled(t)
  /\ freed' = IF del THEN freed \cup {t} ELSE freed
  /\ met' = (met \/ pExpireTmr = t)
  /\ UNCHANGED <<now, exp, pExpireTmr, cancelBlockingEvent, rescheduleEvent, terminateFlag,
                 qvars, cvars, owed>>

\* cancelBlockingEvent.wait() returns.
cancelWakes(c) ==
  /\ cpc[c] = "wait" /\ cancelBlockingEvent
  /\ cancelBlockingEvent' = FALSE
  /\ cpc' = [cpc EXCEPT ![c] = "woken"]
  /\ UNCHANGED <<now, timers, pExpireTmr, cancelPending, rescheduleEvent, terminateFlag,
                 qvars, ctmr, cdel, met, owed>>

\* Mutant: woken once, the thread goes on.
StillExpiring_Once(t) == FALSE

\* The condition of cancel's loop.
StillExpiring(t) == cancelPending /\ pExpireTmr = t

cancelLooks(c) ==
  /\ cpc[c] = "woken"
  /\ cpc' = [cpc EXCEPT ![c] = IF StillExpiring(ctmr[c]) THEN "wait" ELSE "signal"]
  /\ UNCHANGED <<now, timers, pExpireTmr, cancelPending, cancelBlockingEvent,
                 rescheduleEvent, terminateFlag, qvars, ctmr, cdel, met, owed>>

\* It signals, "in case other threads are waiting", and returns.
cancelReturns(c) ==
  /\ cpc[c] = "signal"
  /\ cancelBlockingEvent' = TRUE
  /\ cpc' = [cpc EXCEPT ![c] = "idle"] /\ ctmr' = [ctmr EXCEPT ![c] = None]
  /\ cdel' = cdel \ {c}
  /\ freed' = IF c \in cdel THEN freed \cup {ctmr[c]} ELSE freed
  /\ UNCHANGED <<now, timerList, curState, exp, pNotify, pExpireTmr, cancelPending,
                 rescheduleEvent, terminateFlag, qvars, met, owed>>

-----------------------------------------------------------------------------
(* timerQueue::process and timerQueueActive::run *)

\* The first timer is due and is called back, or the thread sleeps.  list, st,
\* notify and e are the timers as they were found or left.
NextTimer(list, st, notify, e) ==
  \/ /\ list # <<>> /\ currentTime >= e[Head(list)]
     /\ qpc' = "expire" /\ pExpireTmr' = Head(list)
     /\ timerList' = Tail(list)
     /\ curState' = [st EXCEPT ![Head(list)] = "active"]
     /\ pNotify' = notify \ {Head(list)}
     /\ UNCHANGED <<wakeAt, lag, currentTime>>
  \/ /\ list # <<>> => currentTime < e[Head(list)]
     /\ qpc' = "sleep" /\ pExpireTmr' = None
     /\ timerList' = list /\ curState' = st /\ pNotify' = notify
     /\ lag' = now - currentTime /\ currentTime' = 0
     /\ wakeAt' = IF list = <<>> THEN DBL_MAX
                  ELSE Min({Horizon, now + e[Head(list)] - currentTime})

process ==
  /\ qpc = "process"
  /\ NextTimer(timerList, curState, pNotify, exp)
  /\ UNCHANGED <<now, exp, freed, cancelPending, cancelBlockingEvent, rescheduleEvent,
                 terminateFlag, cvars, met, owed>>

\* Mutant: a start that came while the callback ran is forgotten.
RestartAt_Own(t, delays) == {currentTime + d : d \in delays}

\* When the timer t, whose callback has returned asking for a restart in one
\* of delays, is to expire again: a start by another thread predominates.
RestartAt(t, delays) ==
  IF t \in pNotify THEN {exp[t]} ELSE {currentTime + d : d \in delays}

\* The callback has returned and wants the timer restarted in one of delays.
\* A cancelled timer is left alone: it may be freed.
expireReturns(delays) ==
  LET t == pExpireTmr
      limbo == [curState EXCEPT ![t] = "limbo"] IN
  /\ qpc = "expire"
  /\ cancelPending' = FALSE
  /\ cancelBlockingEvent' = (cancelBlockingEvent \/ cancelPending)
  /\ \/ /\ cancelPending
        /\ NextTimer(timerList, curState, pNotify, exp)
        /\ UNCHANGED <<exp, rescheduleEvent>>
     \/ /\ ~cancelPending /\ RestartAt(t, delays) = {}
        /\ NextTimer(timerList, limbo, pNotify, exp)
        /\ UNCHANGED <<exp, rescheduleEvent>>
     \/ /\ ~cancelPending
        /\ \E e \in RestartAt(t, delays) :
             LET exp_ == [exp EXCEPT ![t] = e] IN
             /\ e <= MaxTime
             /\ exp' = exp_
             /\ rescheduleEvent' = (rescheduleEvent \/ Preempts(timerList, exp_, t))
             /\ NextTimer(Inserted(timerList, exp_, t), [limbo EXCEPT ![t] = "pending"],
                          pNotify \cup {t}, exp_)
  /\ met' = FALSE /\ owed' = {}
  /\ UNCHANGED <<now, freed, terminateFlag, cvars>>

\* rescheduleEvent.wait(delay) returns, and run goes round its loop.
queueWakes ==
  /\ qpc = "sleep"
  /\ \/ rescheduleEvent /\ rescheduleEvent' = FALSE
     \/ now >= wakeAt /\ UNCHANGED rescheduleEvent
  /\ qpc' = IF terminateFlag THEN "exit" ELSE "process"
  /\ currentTime' = now /\ wakeAt' = 0 /\ lag' = 0
  /\ UNCHANGED <<now, timers, pExpireTmr, cancelPending, cancelBlockingEvent, terminateFlag,
                 cvars, met, owed>>

\* ~timerQueueActive: nobody uses the queue any more.
release ==
  /\ "release" \in Ops /\ ~terminateFlag /\ \A c \in Threads : cpc[c] = "idle"
  /\ terminateFlag' = TRUE /\ rescheduleEvent' = TRUE
  /\ UNCHANGED <<now, timers, pExpireTmr, cancelPending, cancelBlockingEvent, qvars, cvars,
                 met, owed>>

\* The thread has exited: ~timerQueue empties the list.
releaseReturns ==
  /\ qpc = "exit" /\ qpc' = "gone"
  /\ timerList' = <<>> /\ curState' = [t \in Timers |-> "limbo"]
  /\ UNCHANGED <<now, exp, pNotify, freed, pExpireTmr, cancelPending, cancelBlockingEvent,
                 rescheduleEvent, terminateFlag, currentTime, wakeAt, lag, cvars, met, owed>>

-----------------------------------------------------------------------------
\* What callbacks ask for: no restart, one at once, or one later.
Delays == {{}, {0}, {1}}

Queue == process \/ queueWakes \/ (\E d \in Delays : expireReturns(d))

Canceller(c) == cancelWakes(c) \/ cancelLooks(c) \/ cancelReturns(c)

Next ==
  \/ Tick
  \/ Queue
  \/ \E t \in Timers, e \in 0 .. MaxTime : start(t, e)
  \/ \E t \in Timers, del \in {FALSE} \cup {"destroy" \in Ops} :
       cancelInCallback(t, del) \/ (\E c \in Threads : cancel(c, t, del))
  \/ \E c \in Threads : Canceller(c)
  \/ release
  \/ releaseReturns

Spec == Init /\ [][Next]_vars

\* Time goes on, threads that can run do, callbacks return, and no thread
\* waits for ever on an event that others get again and again.
FairSpec ==
  /\ Spec /\ WF_vars(Tick) /\ WF_vars(Queue \/ releaseReturns)
  /\ \A c \in Threads : SF_vars(Canceller(c))

-----------------------------------------------------------------------------
(* Properties *)

\* The list holds the pending timers, each once, in the order they expire and
\* each with somebody to notify; a timer is active exactly while its callback
\* runs and nobody has cancelled it; and one that is destroyed is not in the
\* list and, after its callback, if that still runs, left alone by process.
ListAgrees ==
  /\ \A i, j \in 1 .. Len(timerList) : i < j =>
       timerList[i] # timerList[j] /\ exp[timerList[i]] <= exp[timerList[j]]
  /\ \A t \in Timers :
       /\ curState[t] = "pending" <=> Contains(timerList, t)
       /\ curState[t] = "pending" => t \in pNotify
       /\ curState[t] = "active" <=> t = pExpireTmr /\ ~cancelPending
  /\ \A t \in freed : ~Contains(timerList, t) /\ (pExpireTmr = t => cancelPending)

\* The first thread that cancels a timer since its callback began, if that has
\* not cancelled its own timer before, stays in cancel until the callback has
\* returned, whatever is cancelled, restarted or destroyed meanwhile.  timer.cpp
\* wants this of every cancel, but later ones find the timer in limbo or pending
\* and do not wait.
CancelBlocks == \A c \in owed : cpc[c] \in {"wait", "woken"}

\* The thread never sleeps past the first timer, but for the time since it
\* last read the clock: a start, a restart or a cancel that changes the first
\* timer while it computes its delay or sleeps gets it up.
NoOversleep ==
  qpc = "sleep" /\ ~rescheduleEvent /\ timerList # <<>> =>
    wakeAt <= exp[Head(timerList)] + lag

CancelReturns == \A c \in Threads : cpc[c] # "idle" ~> cpc[c] = "idle"

ReleaseReturns == terminateFlag ~> qpc = "gone"

TimerExpires ==
  \A t \in Timers : t \in pNotify ~> (t \notin pNotify \/ qpc = "gone")

\* A callback returns and its timer is due again at the time process goes by,
\* which it does not read anew.
RestartsAtOnce == expireReturns({0}) /\ ~cancelPending /\ pExpireTmr \notin pNotify

\* cancel returns, and with it destroy, though all cancelling threads share
\* one binary event and one flag.  Unless callbacks ask for ever to be
\* restarted at once, which keeps process in its loop, release returns too,
\* and a timer that is started, also one whose callback is running then,
\* expires or is cancelled.
TimerProgress ==
  /\ CancelReturns
  /\ <>[][~RestartsAtOnce]_vars => ReleaseReturns /\ TimerExpires

=============================================================================
