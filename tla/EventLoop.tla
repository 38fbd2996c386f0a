------------------------------ MODULE EventLoop ------------------------------
(***************************************************************************)
(* The event loop of base/event_loop.cpp: one thread that executes         *)
(* immediate events, timers and periodic timers taken from a priority      *)
(* queue, and that sleeps in epoll_wait between them.                      *)
(*                                                                         *)
(* An element of Events is one call of AddEvent, AddEventForResult or      *)
(* AddTimerEvent made by some thread, and the LoopEvent that call creates. *)
(* Calls of different threads overlap: the quit test and the clock reading *)
(* come before queueMutex_ is taken, the push and the wake-up under it.    *)
(* Time is counted in ticks; a millisecond is MilliTick ticks.             *)
(***************************************************************************)
EXTENDS Integers, FiniteSets

CONSTANTS
  Events,     \* the calls that add an event
  UsedKinds,  \* the kinds each call may add
  Intervals,  \* the timer intervals used, in ticks
  MilliTick,  \* ticks per millisecond: epoll_wait cannot sleep for less
  IntMax,     \* INT_MAX: the sentinel for "queue empty", and epoll's widest timeout
  MaxStamp,   \* the largest uint64_t clock value
  MaxTime,    \* bound: the clock stops here
  None        \* no event

ASSUME LoopAssumption ==
  /\ Intervals \subseteq Nat
  /\ UsedKinds \in [Events -> SUBSET {"task", "packaged", "timer", "repeat"}]
  /\ MilliTick \in Nat \ {0}
  /\ IntMax \in Nat
  /\ MaxStamp \in Nat
  /\ MaxTime \in Nat
  /\ None \notin Events

VARIABLES
  now,         \* the steady clock
  status,      \* where each call's event is
  ev,          \* the LoopEvent of each call
  current,     \* currentProcessingEvent_
  curSeq,      \* the seq field of the copy being processed; 0 once cancelled
  needQuit,    \* needQuit_
  isRunning,   \* isRunning_
  nextWakeup,  \* nextWakeupTime_
  signal,      \* the eventfd is readable
  pc,          \* what the loop thread is about to do
  loopNow,     \* the clock value the loop thread last read
  left,        \* leftTimeNanosecond of ProcessQueuedEvent
  deadline,    \* when the current epoll_wait times out; -1 for never
  stop,        \* progress of the thread that calls StopLoop
  armedFor,    \* (history) the target the current sleep was computed for
  missed,      \* (history) a timer's wake-up was skipped, but not for this sleep's target
  cancelled    \* (history) the events RemoveEvent was called for

vars == <<now, status, ev, current, curSeq, needQuit, isRunning, nextWakeup,
          signal, pc, loopNow, left, deadline, stop, armedFor, missed, cancelled>>

loopVars == <<current, curSeq, pc, loopNow, left, deadline, armedFor>>

Kinds == {"task", "packaged", "timer", "repeat"}

LoopEvent == [kind : Kinds, seq : Nat, interval : Nat, target : Nat]

Status == {"unused", "calling", "queued", "running", "finished", "removed",
           "cleared", "refused"}

LoopPc == {"off", "check", "fetch", "process", "reinsert", "clear", "wait",
           "blocked", "exited"}

CreateLoopEvent(kind, t, interval) ==
  [kind |-> kind, seq |-> t, interval |-> interval, target |-> t + interval]

(* pendingEvents_, and the events its top() may be: the heap does not order *)
(* events of equal target time.                                             *)
Pending == {e \in Events : status[e] = "queued"}

IsTop(e) == e \in Pending /\ \A x \in Pending : ev[e].target <= ev[x].target

-----------------------------------------------------------------------------
Init ==
  /\ now = 1
  /\ status = [e \in Events |-> "unused"]
  /\ ev = [e \in Events |-> CreateLoopEvent("task", 0, 0)]
  /\ current = None
  /\ curSeq = 0
  /\ needQuit = FALSE
  /\ isRunning = FALSE
  /\ nextWakeup = 0
  /\ signal = FALSE
  /\ pc = "off"
  /\ loopNow = 0
  /\ left = 0
  /\ deadline = 0
  /\ stop = "idle"
  /\ armedFor = 0
  /\ missed = FALSE
  /\ cancelled = {}

-----------------------------------------------------------------------------
(* Starting and stopping.                                                   *)

(* StartLoop makes a fresh notifier and a fresh thread; needQuit_ stays as  *)
(* it is. Callers never start a loop whose old thread is still there.       *)
StartLoop ==
  /\ ~isRunning
  /\ pc \in {"off", "exited"}
  /\ stop \in {"idle", "done"}
  /\ isRunning' = TRUE
  /\ signal' = FALSE
  /\ pc' = "check"
  /\ UNCHANGED <<now, status, ev, current, curSeq, needQuit, nextWakeup,
                 loopNow, left, deadline, stop, armedFor, missed, cancelled>>

(* StopLoop, as the destructor and UnloadPlugin call it, once per loop.     *)
StopLoopQuit ==
  /\ stop = "idle"
  /\ needQuit' = TRUE
  /\ stop' = IF isRunning THEN "clear" ELSE "done"
  /\ UNCHANGED <<now, status, ev, isRunning, nextWakeup, signal, missed, cancelled, loopVars>>

StopLoopClear ==
  /\ stop = "clear"
  /\ status' = [e \in Events |-> IF status[e] = "queued" THEN "cleared" ELSE status[e]]
  /\ isRunning' = FALSE
  /\ stop' = "wake"
  /\ UNCHANGED <<now, ev, needQuit, nextWakeup, signal, missed, cancelled, loopVars>>

(* Mutant: StopLoop forgets to wake the loop thread.                        *)
StopLoopNoWake ==
  /\ stop = "wake"
  /\ stop' = "join"
  /\ UNCHANGED <<now, status, ev, needQuit, isRunning, nextWakeup, signal,
                 missed, cancelled, loopVars>>

StopLoopWake ==
  /\ stop = "wake"
  /\ signal' = TRUE
  /\ stop' = "join"
  /\ UNCHANGED <<now, status, ev, needQuit, isRunning, nextWakeup, missed, cancelled, loopVars>>

StopLoopJoin ==
  /\ stop = "join"
  /\ pc = "exited"
  /\ stop' = "done"
  /\ UNCHANGED <<now, status, ev, needQuit, isRunning, nextWakeup, signal, missed, cancelled, loopVars>>

-----------------------------------------------------------------------------
(* Adding and removing events.                                              *)

(* The unlocked part of an add: the quit test, the clock, the record. A     *)
(* timer whose target does not fit the clock's type is refused with -1.     *)
AddBegin(e, kind, interval) ==
  /\ status[e] = "unused"
  /\ IF needQuit \/ now + interval > MaxStamp
     THEN /\ status' = [status EXCEPT ![e] = "refused"]
          /\ ev' = ev
     ELSE /\ status' = [status EXCEPT ![e] = "calling"]
          /\ ev' = [ev EXCEPT ![e] = CreateLoopEvent(kind, now, interval)]
  /\ UNCHANGED <<now, needQuit, isRunning, nextWakeup, signal, stop, missed, cancelled, loopVars>>

(* WakeUp writes the eventfd, which exists once the loop was started.       *)
WakeUp == signal' = (signal \/ pc # "off")

(* ResetTimerIfNeedLocked looks at top() of the queue that e, with its new  *)
(* target, was just pushed to.                                              *)
ResetTimerIfNeedLocked(e, target) ==
  LET Target(x) == IF x = e THEN target ELSE ev[x].target
  IN  \E top \in Pending \cup {e} :
        /\ \A x \in Pending \cup {e} : Target(top) <= Target(x)
        /\ IF nextWakeup = Target(top)
           THEN /\ signal' = signal
                /\ missed' = (missed \/ (pc \in {"wait", "blocked"} /\ armedFor # nextWakeup))
           ELSE WakeUp /\ missed' = missed

(* Mutant: AddEvent pushes without a wake-up.                               *)
PushEventNoWakeUp(e) ==
  /\ status[e] = "calling"
  /\ ev[e].kind \in {"task", "packaged"}
  /\ status' = [status EXCEPT ![e] = "queued"]
  /\ UNCHANGED <<now, ev, needQuit, isRunning, nextWakeup, signal, stop,
                 missed, cancelled, loopVars>>

PushEvent(e) ==
  /\ status[e] = "calling"
  /\ ev[e].kind \in {"task", "packaged"}
  /\ status' = [status EXCEPT ![e] = "queued"]
  /\ WakeUp
  /\ UNCHANGED <<now, ev, needQuit, isRunning, nextWakeup, stop, missed, cancelled, loopVars>>

(* Mutant: AddTimerEvent wakes the loop only when its own target is stale.  *)
PushTimerNoReset(e) ==
  /\ status[e] = "calling"
  /\ ev[e].kind \in {"timer", "repeat"}
  /\ status' = [status EXCEPT ![e] = "queued"]
  /\ IF ev[e].target > nextWakeup THEN signal' = signal ELSE WakeUp
  /\ UNCHANGED <<now, ev, needQuit, isRunning, nextWakeup, stop, missed,
                 cancelled, loopVars>>

PushTimer(e) ==
  /\ status[e] = "calling"
  /\ ev[e].kind \in {"timer", "repeat"}
  /\ status' = [status EXCEPT ![e] = "queued"]
  /\ ResetTimerIfNeedLocked(e, ev[e].target)
  /\ UNCHANGED <<now, ev, needQuit, isRunning, nextWakeup, stop, cancelled, loopVars>>

(* Mutant: remove erases the first queued event, whatever its seq.          *)
RemoveFirstQueued(e) ==
  /\ status[e] \notin {"unused", "calling", "refused"}
  /\ ev[e].kind # "packaged"
  /\ cancelled' = cancelled \cup {e}
  /\ \E x \in Pending : IsTop(x) /\ status' = [status EXCEPT ![x] = "removed"]
  /\ UNCHANGED <<now, ev, current, curSeq, needQuit, isRunning, nextWakeup, signal,
                 pc, loopNow, left, deadline, stop, armedFor, missed>>

(* RemoveEvent(seq) for a seq that an add returned. The event being         *)
(* processed is only marked; otherwise one queued event of that seq goes.   *)
RemoveEvent(e) ==
  /\ status[e] \notin {"unused", "calling", "refused"}
  /\ ev[e].kind # "packaged"
  /\ cancelled' = cancelled \cup {e}
  /\ IF current # None /\ curSeq = ev[e].seq
     THEN /\ curSeq' = 0
          /\ status' = status
     ELSE /\ curSeq' = curSeq
          /\ IF \E x \in Pending : ev[x].seq = ev[e].seq
             THEN \E x \in Pending : /\ ev[x].seq = ev[e].seq
                                     /\ status' = [status EXCEPT ![x] = "removed"]
             ELSE status' = status
  /\ UNCHANGED <<now, ev, current, needQuit, isRunning, nextWakeup, signal, pc,
                 loopNow, left, deadline, stop, armedFor, missed>>

-----------------------------------------------------------------------------
(* The loop thread.                                                         *)

(* ProcessQueuedEvent: the emptiness test, then the clock.                  *)
CheckQueue ==
  /\ pc = "check"
  /\ IF Pending = {}
     THEN /\ left' = IntMax
          /\ armedFor' = -1
          /\ pc' = "wait"
          /\ loopNow' = loopNow
     ELSE /\ left' = 0
          /\ armedFor' = 0
          /\ pc' = "fetch"
          /\ loopNow' = now
  /\ UNCHANGED <<now, status, ev, current, curSeq, needQuit, isRunning,
                 nextWakeup, signal, deadline, stop, missed, cancelled>>

(* Mutant: the time left is computed the wrong way round.                   *)
FetchNothingSwapped ==
  /\ pc = "fetch"
  /\ pc' = "wait"
  /\ loopNow' = 0
  /\ \E e \in Pending : /\ IsTop(e)
                        /\ ev[e].target > loopNow
                        /\ left' = loopNow - ev[e].target
                        /\ nextWakeup' = ev[e].target
                        /\ armedFor' = ev[e].target
  /\ UNCHANGED <<now, status, ev, current, curSeq, needQuit, isRunning, signal,
                 deadline, stop, missed, cancelled>>

(* FetchNextEvent finds nothing to run: the loop is quitting, the queue was *)
(* emptied meanwhile, or the first event is not due yet.                    *)
FetchNothing ==
  /\ pc = "fetch"
  /\ pc' = "wait"
  /\ loopNow' = 0
  /\ \/ /\ needQuit \/ Pending = {}
        /\ UNCHANGED <<left, nextWakeup, armedFor>>
     \/ \E e \in Pending : /\ ~needQuit
                           /\ IsTop(e)
                           /\ ev[e].target > loopNow
                           /\ left' = ev[e].target - loopNow
                           /\ nextWakeup' = ev[e].target
                           /\ armedFor' = ev[e].target
  /\ UNCHANGED <<now, status, ev, current, curSeq, needQuit, isRunning, signal,
                 deadline, stop, missed, cancelled>>

(* Mutant: the first event is executed whether due or not.                  *)
FetchUndue(e) ==
  /\ pc = "fetch"
  /\ ~needQuit
  /\ IsTop(e)
  /\ status' = [status EXCEPT ![e] = "running"]
  /\ current' = e
  /\ curSeq' = ev[e].seq
  /\ pc' = "process"
  /\ loopNow' = 0
  /\ UNCHANGED <<now, ev, needQuit, isRunning, nextWakeup, signal,
                 left, deadline, stop, armedFor, missed, cancelled>>

(* Mutant: needQuit_ is not tested before an event is taken.                *)
FetchWhileQuitting(e) ==
  /\ pc = "fetch"
  /\ IsTop(e)
  /\ ev[e].target <= loopNow
  /\ status' = [status EXCEPT ![e] = "running"]
  /\ current' = e
  /\ curSeq' = ev[e].seq
  /\ pc' = "process"
  /\ loopNow' = 0
  /\ UNCHANGED <<now, ev, needQuit, isRunning, nextWakeup, signal,
                 left, deadline, stop, armedFor, missed, cancelled>>

FetchNextEvent(e) ==
  /\ pc = "fetch"
  /\ ~needQuit
  /\ IsTop(e)
  /\ ev[e].target <= loopNow
  /\ status' = [status EXCEPT ![e] = "running"]
  /\ current' = e
  /\ curSeq' = ev[e].seq
  /\ pc' = "process"
  /\ loopNow' = 0
  /\ UNCHANGED <<now, ev, needQuit, isRunning, nextWakeup, signal,
                 left, deadline, stop, armedFor, missed, cancelled>>

(* ProcessEvent returns from the task, the handler or the packaged task.    *)
ProcessEvent ==
  /\ pc = "process"
  /\ IF ev[current].kind = "repeat" /\ ev[current].interval > 0
     THEN pc' = "reinsert" /\ status' = status
     ELSE pc' = "clear" /\ status' = [status EXCEPT ![current] = "finished"]
  /\ UNCHANGED <<now, ev, current, curSeq, needQuit, isRunning, nextWakeup,
                 signal, loopNow, left, deadline, stop, armedFor, missed, cancelled>>

(* Mutant: a periodic event is put back although it was removed.            *)
ReInsertAlways ==
  /\ pc = "reinsert"
  /\ pc' = "clear"
  /\ current' = None
  /\ status' = [status EXCEPT ![current] = "queued"]
  /\ ev' = [ev EXCEPT ![current].target = now + ev[current].interval]
  /\ ResetTimerIfNeedLocked(current, now + ev[current].interval)
  /\ UNCHANGED <<now, curSeq, needQuit, isRunning, nextWakeup, loopNow, left,
                 deadline, stop, armedFor, cancelled>>

ReInsertPeriodicEvent ==
  /\ pc = "reinsert"
  /\ pc' = "clear"
  /\ current' = None
  /\ IF curSeq = 0
     THEN /\ status' = [status EXCEPT ![current] = "finished"]
          /\ UNCHANGED <<ev, signal, missed>>
     ELSE /\ status' = [status EXCEPT ![current] = "queued"]
          /\ ev' = [ev EXCEPT ![current].target = (now + ev[current].interval) % (MaxStamp + 1)]
          /\ ResetTimerIfNeedLocked(current, (now + ev[current].interval) % (MaxStamp + 1))
  /\ UNCHANGED <<now, curSeq, needQuit, isRunning, nextWakeup, loopNow, left,
                 deadline, stop, armedFor, cancelled>>

ClearCurrent ==
  /\ pc = "clear"
  /\ current' = None
  /\ pc' = "check"
  /\ UNCHANGED <<now, status, ev, curSeq, needQuit, isRunning, nextWakeup,
                 signal, loopNow, left, deadline, stop, armedFor, missed, cancelled>>

(* Mutant: the time left is rounded up to milliseconds.                     *)
TimeoutRoundedUp(leftTime) ==
  IF leftTime = IntMax THEN IntMax ELSE (leftTime \div MilliTick) + 1

(* The timeout passed to epoll_wait: INT_MAX ms for an empty queue, else    *)
(* the time left cut down to milliseconds and narrowed to an int, which is  *)
(* negative, and then means "forever", in the upper half of the range.      *)
TimeoutMilli(leftTime) ==
  LET mill == (IF leftTime = IntMax THEN IntMax ELSE leftTime \div MilliTick)
                % (2 * (IntMax + 1))
  IN  IF mill > IntMax THEN -1 ELSE mill

EnterWait ==
  /\ pc = "wait"
  /\ pc' = "blocked"
  /\ deadline' = IF TimeoutMilli(left) < 0 THEN -1
                 ELSE now + TimeoutMilli(left) * MilliTick
  /\ left' = 0
  /\ UNCHANGED <<now, status, ev, current, curSeq, needQuit, isRunning,
                 nextWakeup, signal, loopNow, stop, armedFor, missed, cancelled>>

(* epoll_wait returns, the eventfd is drained, Run tests needQuit_.         *)
WaitNextEvent ==
  /\ pc = "blocked"
  /\ signal \/ (deadline >= 0 /\ now >= deadline)
  /\ signal' = FALSE
  /\ pc' = IF needQuit THEN "exited" ELSE "check"
  /\ deadline' = 0
  /\ armedFor' = 0
  /\ missed' = FALSE
  /\ UNCHANGED <<now, status, ev, current, curSeq, needQuit, isRunning,
                 nextWakeup, loopNow, left, stop, cancelled>>

Tick ==
  /\ now < MaxTime
  /\ now' = now + 1
  /\ UNCHANGED <<status, ev, needQuit, isRunning, nextWakeup, signal, stop,
                 missed, cancelled, loopVars>>

-----------------------------------------------------------------------------
Add(e) ==
  \/ \E kind \in UsedKinds[e] \cap {"task", "packaged"} : AddBegin(e, kind, 0)
  \/ \E kind \in UsedKinds[e] \cap {"timer", "repeat"}, i \in Intervals : AddBegin(e, kind, i)

LoopStep ==
  \/ CheckQueue
  \/ FetchNothing
  \/ \E e \in Events : FetchNextEvent(e)
  \/ ProcessEvent
  \/ ReInsertPeriodicEvent
  \/ ClearCurrent
  \/ EnterWait
  \/ WaitNextEvent

StopStep == StopLoopClear \/ StopLoopWake \/ StopLoopJoin

Next ==
  \/ StartLoop
  \/ StopLoopQuit
  \/ StopStep
  \/ \E e \in Events : Add(e) \/ PushEvent(e) \/ PushTimer(e) \/ RemoveEvent(e)
  \/ LoopStep
  \/ Tick

Spec == Init /\ [][Next]_vars

(* The scheduler runs the loop thread and every thread inside a call, and   *)
(* the clock advances. Nobody is obliged to start, stop or add anything.    *)
FairSpec ==
  /\ Spec
  /\ WF_vars(LoopStep)
  /\ WF_vars(StopStep)
  /\ \A e \in Events : WF_vars(PushEvent(e) \/ PushTimer(e))
  /\ WF_vars(Tick)

-----------------------------------------------------------------------------
TypeOK ==
  /\ now \in Nat
  /\ status \in [Events -> Status]
  /\ ev \in [Events -> LoopEvent]
  /\ current \in Events \cup {None}
  /\ curSeq \in Nat
  /\ needQuit \in BOOLEAN
  /\ isRunning \in BOOLEAN
  /\ nextWakeup \in Nat
  /\ signal \in BOOLEAN
  /\ pc \in LoopPc
  /\ loopNow \in Nat
  /\ left \in Nat
  /\ deadline \in Nat \cup {-1}
  /\ stop \in {"idle", "clear", "wake", "join", "done"}
  /\ armedFor \in Nat \cup {-1}
  /\ missed \in BOOLEAN
  /\ cancelled \in SUBSET Events

(* FetchNextEvent compares with the clock before it pops: no timer, first   *)
(* or repeated, is executed before its target time.                         *)
NeverEarly ==
  pc = "process" => current \in Events /\ ev[current].target <= now

(* The sleep in epoll_wait covers the queue: unless the eventfd is already  *)
(* readable, the sleep was computed for a target no later than that of any  *)
(* queued event, so no event is slept through.                              *)
SleepCoversQueue ==
  pc = "blocked" /\ ~signal /\ ~needQuit /\ Pending # {} =>
    /\ armedFor >= 0
    /\ \A e \in Pending : armedFor <= ev[e].target

(* The same up to the one case ResetTimerIfNeedLocked leaves open: it skips *)
(* the wake-up when the first target equals nextWakeupTime_, also when that *)
(* value is left over from an earlier sleep.                                *)
SleepCoversQueueUnlessMissed == missed \/ SleepCoversQueue

(* The timeout given to epoll_wait never exceeds the time left until the    *)
(* target it was computed from: the cut to milliseconds only wakes early.   *)
TimeoutWithinLeft ==
  pc = "wait" /\ armedFor > 0 =>
    TimeoutMilli(left) >= 0 /\ TimeoutMilli(left) * MilliTick <= left

(* The same, outside the two places where Run's arithmetic breaks it: a     *)
(* time left of exactly INT_MAX nanoseconds is taken for the empty queue,   *)
(* and one of more than INT_MAX milliseconds does not fit epoll's timeout.  *)
TimeoutWithinLeftUnlessIntMax ==
  left # IntMax /\ left \div MilliTick <= IntMax => TimeoutWithinLeft

(* Once StopLoop has returned no event is executed, even by a loop that is  *)
(* started again afterwards: needQuit_ is never reset.                      *)
NothingRunsAfterStop ==
  stop = "done" => pc \notin {"process", "reinsert", "clear"}

UniqueSeq(e) == \A x \in Events \ {e} : status[x] # "unused" => ev[x].seq # ev[e].seq

(* After RemoveEvent was called for an event that shares its clock stamp    *)
(* with no other, that event is never started again: RemoveEvent either     *)
(* takes it out of the queue or keeps ReInsertPeriodicEvent from putting it *)
(* back, whatever the loop thread was doing.                                *)
RemovedNeverRestarts ==
  [][\A e \in cancelled : UniqueSeq(e) =>
       (status'[e] = "running" => status[e] = "running")]_vars

(* An immediate event that was queued on a running loop is executed, or     *)
(* removed, unless the loop is stopped: the wake-up is never lost.          *)
ImmediateEventRuns ==
  \A e \in Events :
    (status[e] = "queued" /\ ev[e].kind \in {"task", "packaged"} /\ isRunning)
      ~> (status[e] # "queued" \/ needQuit)

(* A caller that waits for the result of AddEventForResult on a running     *)
(* loop gets one, also when the loop is stopped meanwhile: the packaged     *)
(* task is executed, or is destroyed with the queue. PostSyncEventToTarget  *)
(* blocks on it without a timeout.                                          *)
SyncCallReturns ==
  \A e \in Events :
    (status[e] = "calling" /\ ev[e].kind = "packaged" /\ isRunning /\ ~needQuit)
      ~> (status[e] \in {"finished", "cleared"})

(* StopLoop returns: the loop thread it joins always comes to its exit.     *)
StopLoopReturns == (stop = "clear") ~> (stop = "done")
=============================================================================
