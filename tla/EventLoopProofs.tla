--------------------------- MODULE EventLoopProofs ---------------------------
(***************************************************************************)
(* Proofs about EventLoop, for any set of events, any intervals, any clock *)
(* resolution and any number of concurrent callers.                        *)
(***************************************************************************)
EXTENDS EventLoop, TLAPS

(* What the loop thread holds while it runs an event.                       *)
CurrentInv ==
  /\ now >= 1
  /\ pc \in {"process", "reinsert"} => current \in Events /\ status[current] = "running"
  /\ pc = "process" => ev[current].target <= now
  /\ pc = "fetch" => loopNow <= now /\ armedFor = 0
  /\ pc \notin {"process", "reinsert", "clear"} => current = None
  /\ current # None => /\ status[current] \in {"running", "finished"}
                       /\ curSeq \in {0, ev[current].seq}
  /\ \A e \in Events :
       /\ status[e] = "running" => current = e /\ pc \in {"process", "reinsert"}
       /\ status[e] \notin {"unused", "refused"} => ev[e].seq >= 1

(* The two flags, the stopping thread and the loop thread.                  *)
StopInv ==
  /\ (stop = "idle") <=> ~needQuit
  /\ stop = "idle" /\ ~isRunning => pc = "off"
  /\ pc = "exited" => needQuit
  /\ NothingRunsAfterStop

(* A sleep that is about to start is covered like one that has started.     *)
SleepInv ==
  pc \in {"wait", "blocked"} /\ ~signal /\ ~needQuit /\ ~missed /\ Pending # {} =>
    /\ armedFor >= 0
    /\ \A e \in Pending : armedFor <= ev[e].target

(* Where a cancelled event can be.                                          *)
CancelInv ==
  \A e \in cancelled :
    /\ status[e] \notin {"unused", "calling", "refused"}
    /\ UniqueSeq(e) => /\ status[e] # "queued"
                       /\ status[e] = "running" => curSeq = 0

LoopInv == TypeOK /\ CurrentInv /\ StopInv /\ SleepInv /\ CancelInv

(* The steps of the specification, one disjunct per action.                 *)
LEMMA NextCases ==
  ASSUME [Next]_vars
  PROVE  \/ StartLoop \/ StopLoopQuit \/ StopLoopClear \/ StopLoopWake \/ StopLoopJoin
         \/ CheckQueue \/ FetchNothing \/ ProcessEvent \/ ReInsertPeriodicEvent
         \/ ClearCurrent \/ EnterWait \/ WaitNextEvent \/ Tick
         \/ \E e \in Events : PushEvent(e) \/ PushTimer(e) \/ RemoveEvent(e) \/ FetchNextEvent(e)
         \/ \E e \in Events, kind \in Kinds, i \in Nat : AddBegin(e, kind, i)
         \/ UNCHANGED vars
<1>1. ASSUME NEW e \in Events, Add(e) PROVE \E kind \in Kinds, i \in Nat : AddBegin(e, kind, i)
  BY <1>1, LoopAssumption DEF Add, Kinds
<1> QED
  BY <1>1 DEF Next, LoopStep, StopStep

LEMMA TypeInit == Init => TypeOK
<1> SUFFICES ASSUME Init PROVE TypeOK
  OBVIOUS
<1>1. needQuit \in BOOLEAN /\ isRunning \in BOOLEAN /\ signal \in BOOLEAN /\ missed \in BOOLEAN
  BY Zenon DEF Init
<1>2. ev \in [Events -> LoopEvent]
  BY DEF Init, CreateLoopEvent, LoopEvent, Kinds
<1>3. status \in [Events -> Status]
  BY DEF Init, Status
<1>4. /\ now \in Nat /\ curSeq \in Nat /\ nextWakeup \in Nat /\ loopNow \in Nat /\ left \in Nat
      /\ deadline \in Nat \cup {-1} /\ armedFor \in Nat \cup {-1}
  BY DEF Init
<1>5. /\ current \in Events \cup {None} /\ pc \in LoopPc /\ cancelled \in SUBSET Events
      /\ stop \in {"idle", "clear", "wake", "join", "done"}
  BY DEF Init, LoopPc
<1> QED BY <1>1, <1>2, <1>3, <1>4, <1>5, Zenon DEF TypeOK

LEMMA ResetType ==
  ASSUME TypeOK, NEW e, NEW target, ResetTimerIfNeedLocked(e, target)
  PROVE  signal' \in BOOLEAN /\ missed' \in BOOLEAN
BY Zenon DEF TypeOK, ResetTimerIfNeedLocked, WakeUp

LEMMA TypeStep == TypeOK /\ CurrentInv /\ [Next]_vars => TypeOK'
<1> SUFFICES ASSUME TypeOK, CurrentInv, [Next]_vars PROVE TypeOK'
  OBVIOUS
<1> USE LoopAssumption DEF TypeOK, LoopPc, Status
<1>1. CASE StartLoop
  BY <1>1 DEF StartLoop, loopVars
<1>2. CASE StopLoopQuit
  BY <1>2 DEF StopLoopQuit, loopVars
<1>3. CASE StopLoopClear
  BY <1>3 DEF StopLoopClear, loopVars
<1>4. CASE StopLoopWake
  BY <1>4 DEF StopLoopWake, loopVars
<1>5. CASE StopLoopJoin
  BY <1>5 DEF StopLoopJoin, loopVars
<1>6. CASE CheckQueue
  BY <1>6 DEF CheckQueue, loopVars, Pending
<1>7. CASE FetchNothing
  BY <1>7 DEF FetchNothing, loopVars, Pending, LoopEvent
<1>8. CASE ProcessEvent
  BY <1>8 DEF ProcessEvent, loopVars, CurrentInv
<1>9. CASE ReInsertPeriodicEvent
  <2> DEFINE t == (now + ev[current].interval) % (MaxStamp + 1)
  <2>1. current \in Events
    BY <1>9 DEF ReInsertPeriodicEvent, CurrentInv
  <2>2. t \in Nat
    BY <2>1 DEF LoopEvent
  <2>3. ev' \in [Events -> LoopEvent]
    BY <1>9, <2>1, <2>2 DEF ReInsertPeriodicEvent, LoopEvent
  <2>4. signal' \in BOOLEAN /\ missed' \in BOOLEAN
    BY <1>9, ResetType, Zenon DEF ReInsertPeriodicEvent
  <2> QED
    BY <1>9, <2>1, <2>3, <2>4 DEF ReInsertPeriodicEvent
<1>10. CASE ClearCurrent
  BY <1>10 DEF ClearCurrent, loopVars
<1>11. CASE EnterWait
  BY <1>11 DEF EnterWait, loopVars, TimeoutMilli
<1>12. CASE WaitNextEvent
  BY <1>12 DEF WaitNextEvent, loopVars
<1>13. CASE Tick
  BY <1>13 DEF Tick, loopVars
<1>14. ASSUME NEW e \in Events, PushEvent(e) PROVE TypeOK'
  BY <1>14 DEF PushEvent, loopVars, WakeUp
<1>15. ASSUME NEW e \in Events, PushTimer(e) PROVE TypeOK'
  <2>1. signal' \in BOOLEAN /\ missed' \in BOOLEAN
    BY <1>15, ResetType DEF PushTimer
  <2> QED
    BY <1>15, <2>1 DEF PushTimer, loopVars
<1>16. ASSUME NEW e \in Events, RemoveEvent(e) PROVE TypeOK'
  BY <1>16 DEF RemoveEvent, loopVars, Pending
<1>17. ASSUME NEW e \in Events, FetchNextEvent(e) PROVE TypeOK'
  BY <1>17 DEF FetchNextEvent, loopVars, LoopEvent, IsTop, Pending
<1>18. ASSUME NEW e \in Events, NEW kind \in Kinds, NEW i \in Nat, AddBegin(e, kind, i) PROVE TypeOK'
  BY <1>18 DEF AddBegin, CreateLoopEvent, LoopEvent, loopVars
<1>19. CASE UNCHANGED vars
  BY <1>19 DEF vars
<1> HIDE DEF TypeOK, LoopPc, Status
<1> QED
  BY NextCases, <1>1, <1>2, <1>3, <1>4, <1>5, <1>6, <1>7, <1>8, <1>9, <1>10, <1>11, <1>12, <1>13, <1>14, <1>15, <1>16, <1>17, <1>18, <1>19

LEMMA CurrentStep == TypeOK /\ CurrentInv /\ [Next]_vars => CurrentInv'
<1> SUFFICES ASSUME TypeOK, CurrentInv, [Next]_vars PROVE CurrentInv'
  OBVIOUS
<1> USE LoopAssumption DEF TypeOK, CurrentInv
<1>1. CASE StartLoop
  BY <1>1 DEF StartLoop, loopVars
<1>2. CASE StopLoopQuit
  BY <1>2 DEF StopLoopQuit, loopVars
<1>3. CASE StopLoopClear
  BY <1>3 DEF StopLoopClear, loopVars
<1>4. CASE StopLoopWake
  BY <1>4 DEF StopLoopWake, loopVars
<1>5. CASE StopLoopJoin
  BY <1>5 DEF StopLoopJoin, loopVars
<1>6. CASE CheckQueue
  BY <1>6 DEF CheckQueue, loopVars
<1>7. CASE FetchNothing
  BY <1>7 DEF FetchNothing, loopVars
<1>8. CASE ProcessEvent
  BY <1>8 DEF ProcessEvent, loopVars
<1>9. CASE ReInsertPeriodicEvent
  BY <1>9 DEF ReInsertPeriodicEvent, loopVars, LoopEvent
<1>10. CASE ClearCurrent
  BY <1>10 DEF ClearCurrent, loopVars
<1>11. CASE EnterWait
  BY <1>11 DEF EnterWait, loopVars
<1>12. CASE WaitNextEvent
  BY <1>12 DEF WaitNextEvent, loopVars
<1>13. CASE Tick
  BY <1>13 DEF Tick, loopVars, LoopEvent
<1>14. ASSUME NEW e \in Events, PushEvent(e) PROVE CurrentInv'
  BY <1>14 DEF PushEvent, loopVars
<1>15. ASSUME NEW e \in Events, PushTimer(e) PROVE CurrentInv'
  BY <1>15 DEF PushTimer, loopVars
<1>16. ASSUME NEW e \in Events, RemoveEvent(e) PROVE CurrentInv'
  BY <1>16 DEF RemoveEvent, loopVars, Pending
<1>17. ASSUME NEW e \in Events, FetchNextEvent(e) PROVE CurrentInv'
  BY <1>17 DEF FetchNextEvent, loopVars, IsTop, Pending, LoopEvent, LoopPc
<1>18. ASSUME NEW e \in Events, NEW kind \in Kinds, NEW i \in Nat, AddBegin(e, kind, i) PROVE CurrentInv'
  BY <1>18 DEF AddBegin, CreateLoopEvent, LoopEvent, loopVars
<1>19. CASE UNCHANGED vars
  BY <1>19 DEF vars
<1> HIDE DEF TypeOK, CurrentInv
<1> QED
  BY NextCases, <1>1, <1>2, <1>3, <1>4, <1>5, <1>6, <1>7, <1>8, <1>9, <1>10, <1>11, <1>12, <1>13, <1>14, <1>15, <1>16, <1>17, <1>18, <1>19

LEMMA StopStepInv == TypeOK /\ CurrentInv /\ StopInv /\ [Next]_vars => StopInv'
<1> SUFFICES ASSUME TypeOK, CurrentInv, StopInv, [Next]_vars PROVE StopInv'
  OBVIOUS
<1> USE LoopAssumption DEF TypeOK, CurrentInv, StopInv, NothingRunsAfterStop
<1>1. CASE StartLoop
  BY <1>1 DEF StartLoop, loopVars
<1>2. CASE StopLoopQuit
  BY <1>2 DEF StopLoopQuit, loopVars
<1>3. CASE StopLoopClear
  BY <1>3 DEF StopLoopClear, loopVars
<1>4. CASE StopLoopWake
  BY <1>4 DEF StopLoopWake, loopVars
<1>5. CASE StopLoopJoin
  BY <1>5 DEF StopLoopJoin, loopVars
<1>6. CASE CheckQueue
  BY <1>6 DEF CheckQueue, loopVars
<1>7. CASE FetchNothing
  BY <1>7 DEF FetchNothing, loopVars
<1>8. CASE ProcessEvent
  BY <1>8 DEF ProcessEvent, loopVars
<1>9. CASE ReInsertPeriodicEvent
  BY <1>9 DEF ReInsertPeriodicEvent, loopVars
<1>10. CASE ClearCurrent
  BY <1>10 DEF ClearCurrent, loopVars
<1>11. CASE EnterWait
  BY <1>11 DEF EnterWait, loopVars
<1>12. CASE WaitNextEvent
  BY <1>12 DEF WaitNextEvent, loopVars
<1>13. CASE Tick
  BY <1>13 DEF Tick, loopVars
<1>14. ASSUME NEW e \in Events, PushEvent(e) PROVE StopInv'
  BY <1>14 DEF PushEvent, loopVars
<1>15. ASSUME NEW e \in Events, PushTimer(e) PROVE StopInv'
  BY <1>15 DEF PushTimer, loopVars
<1>16. ASSUME NEW e \in Events, RemoveEvent(e) PROVE StopInv'
  BY <1>16 DEF RemoveEvent, loopVars
<1>17. ASSUME NEW e \in Events, FetchNextEvent(e) PROVE StopInv'
  BY <1>17 DEF FetchNextEvent, loopVars
<1>18. ASSUME NEW e \in Events, NEW kind \in Kinds, NEW i \in Nat, AddBegin(e, kind, i) PROVE StopInv'
  BY <1>18 DEF AddBegin, CreateLoopEvent, LoopEvent, loopVars
<1>19. CASE UNCHANGED vars
  BY <1>19 DEF vars
<1> HIDE DEF TypeOK, CurrentInv, StopInv, NothingRunsAfterStop
<1> QED
  BY NextCases, <1>1, <1>2, <1>3, <1>4, <1>5, <1>6, <1>7, <1>8, <1>9, <1>10, <1>11, <1>12, <1>13, <1>14, <1>15, <1>16, <1>17, <1>18, <1>19

LEMMA SleepStep == TypeOK /\ CurrentInv /\ StopInv /\ SleepInv /\ [Next]_vars => SleepInv'
<1> SUFFICES ASSUME TypeOK, CurrentInv, StopInv, SleepInv, [Next]_vars PROVE SleepInv'
  OBVIOUS
<1> USE LoopAssumption DEF TypeOK, SleepInv, Pending, LoopEvent
<1>1. CASE StartLoop
  BY <1>1 DEF StartLoop, loopVars
<1>2. CASE StopLoopQuit
  BY <1>2 DEF StopLoopQuit, loopVars
<1>3. CASE StopLoopClear
  BY <1>3 DEF StopLoopClear, loopVars
<1>4. CASE StopLoopWake
  BY <1>4 DEF StopLoopWake, loopVars
<1>5. CASE StopLoopJoin
  BY <1>5 DEF StopLoopJoin, loopVars
<1>6. CASE CheckQueue
  BY <1>6 DEF CheckQueue, loopVars
<1>7. CASE FetchNothing
  BY <1>7 DEF FetchNothing, loopVars, IsTop
<1>8. CASE ProcessEvent
  BY <1>8 DEF ProcessEvent, loopVars
<1>9. CASE ReInsertPeriodicEvent
  BY <1>9 DEF ReInsertPeriodicEvent, loopVars
<1>10. CASE ClearCurrent
  BY <1>10 DEF ClearCurrent, loopVars
<1>11. CASE EnterWait
  BY <1>11 DEF EnterWait, loopVars
<1>12. CASE WaitNextEvent
  BY <1>12 DEF WaitNextEvent, loopVars
<1>13. CASE Tick
  BY <1>13 DEF Tick, loopVars
<1>14. ASSUME NEW e \in Events, PushEvent(e) PROVE SleepInv'
  BY <1>14 DEF PushEvent, loopVars, WakeUp
<1>15. ASSUME NEW e \in Events, PushTimer(e) PROVE SleepInv'
  <2> SUFFICES ASSUME pc \in {"wait", "blocked"}, ~signal', ~missed'
               PROVE  armedFor >= 0 /\ \A x \in Pending' : armedFor <= ev[x].target
    BY <1>15 DEF PushTimer, loopVars
  <2>1. PICK top \in Pending \cup {e} :
          /\ \A x \in Pending \cup {e} : ev[top].target <= ev[x].target
          /\ IF nextWakeup = ev[top].target
             THEN missed' = (missed \/ (pc \in {"wait", "blocked"} /\ armedFor # nextWakeup))
             ELSE signal' = (signal \/ pc # "off")
    BY <1>15 DEF PushTimer, ResetTimerIfNeedLocked, WakeUp
  <2>2. armedFor = ev[top].target
    BY <2>1
  <2>3. Pending' = Pending \cup {e}
    BY <1>15 DEF PushTimer
  <2> QED
    BY <2>1, <2>2, <2>3
<1>16. ASSUME NEW e \in Events, RemoveEvent(e) PROVE SleepInv'
  BY <1>16 DEF RemoveEvent, loopVars
<1>17. ASSUME NEW e \in Events, FetchNextEvent(e) PROVE SleepInv'
  BY <1>17 DEF FetchNextEvent, loopVars
<1>18. ASSUME NEW e \in Events, NEW kind \in Kinds, NEW i \in Nat, AddBegin(e, kind, i) PROVE SleepInv'
  BY <1>18 DEF AddBegin, CreateLoopEvent, LoopEvent, loopVars
<1>19. CASE UNCHANGED vars
  BY <1>19 DEF vars
<1> HIDE DEF TypeOK, SleepInv, Pending, LoopEvent
<1> QED
  BY NextCases, <1>1, <1>2, <1>3, <1>4, <1>5, <1>6, <1>7, <1>8, <1>9, <1>10, <1>11, <1>12, <1>13, <1>14, <1>15, <1>16, <1>17, <1>18, <1>19

LEMMA CancelStep == TypeOK /\ CurrentInv /\ CancelInv /\ [Next]_vars => CancelInv'
<1> SUFFICES ASSUME TypeOK, CurrentInv, CancelInv, [Next]_vars PROVE CancelInv'
  OBVIOUS
<1> USE LoopAssumption DEF TypeOK, CurrentInv, CancelInv, UniqueSeq, Pending, LoopEvent
<1>1. CASE StartLoop
  BY <1>1 DEF StartLoop, loopVars
<1>2. CASE StopLoopQuit
  BY <1>2 DEF StopLoopQuit, loopVars
<1>3. CASE StopLoopClear
  BY <1>3 DEF StopLoopClear, loopVars
<1>4. CASE StopLoopWake
  BY <1>4 DEF StopLoopWake, loopVars
<1>5. CASE StopLoopJoin
  BY <1>5 DEF StopLoopJoin, loopVars
<1>6. CASE CheckQueue
  BY <1>6 DEF CheckQueue, loopVars
<1>7. CASE FetchNothing
  BY <1>7 DEF FetchNothing, loopVars
<1>8. CASE ProcessEvent
  BY <1>8 DEF ProcessEvent, loopVars
<1>9. CASE ReInsertPeriodicEvent
  BY <1>9 DEF ReInsertPeriodicEvent, loopVars
<1>10. CASE ClearCurrent
  BY <1>10 DEF ClearCurrent, loopVars
<1>11. CASE EnterWait
  BY <1>11 DEF EnterWait, loopVars
<1>12. CASE WaitNextEvent
  BY <1>12 DEF WaitNextEvent, loopVars
<1>13. CASE Tick
  BY <1>13 DEF Tick, loopVars
<1>14. ASSUME NEW e \in Events, PushEvent(e) PROVE CancelInv'
  BY <1>14 DEF PushEvent, loopVars
<1>15. ASSUME NEW e \in Events, PushTimer(e) PROVE CancelInv'
  BY <1>15 DEF PushTimer, loopVars
<1>16. ASSUME NEW e \in Events, RemoveEvent(e) PROVE CancelInv'
  <2> SUFFICES ASSUME NEW c \in cancelled'
               PROVE  /\ status'[c] \notin {"unused", "calling", "refused"}
                      /\ UniqueSeq(c)' => /\ status'[c] # "queued"
                                          /\ status'[c] = "running" => curSeq' = 0
    OBVIOUS
  <2>1. \A x \in Events : \/ status'[x] = status[x]
                          \/ status'[x] = "removed" /\ status[x] = "queued"
    BY <1>16 DEF RemoveEvent
  <2>2. c \in Events /\ status[c] \notin {"unused", "calling", "refused"}
    BY <1>16 DEF RemoveEvent
  <2>3. UniqueSeq(c)' => UniqueSeq(c)
    BY <1>16, <2>1 DEF RemoveEvent
  <2>4. curSeq' \in {0, curSeq}
    BY <1>16 DEF RemoveEvent
  <2>5. CASE c \in cancelled
    BY <2>1, <2>2, <2>3, <2>4, <2>5
  <2>6. CASE c \notin cancelled
    <3>1. c = e
      BY <1>16, <2>6 DEF RemoveEvent
    <3>2. CASE status[e] = "running"
      BY <1>16, <2>1, <2>2, <3>1, <3>2 DEF RemoveEvent
    <3>3. CASE status[e] = "queued"
      <4> SUFFICES ASSUME UniqueSeq(e) PROVE status'[e] = "removed"
        BY <2>1, <2>2, <2>3, <3>1, <3>3
      <4>1. ~(current # None /\ curSeq = ev[e].seq)
        BY <3>3
      <4>2. \A x \in Pending : ev[x].seq = ev[e].seq => x = e
        OBVIOUS
      <4> QED
        BY <1>16, <3>3, <4>1, <4>2 DEF RemoveEvent
    <3> QED
      BY <2>1, <2>2, <3>1, <3>2, <3>3
  <2> QED
    BY <2>5, <2>6
<1>17. ASSUME NEW e \in Events, FetchNextEvent(e) PROVE CancelInv'
  BY <1>17 DEF FetchNextEvent, loopVars, IsTop
<1>18. ASSUME NEW e \in Events, NEW kind \in Kinds, NEW i \in Nat, AddBegin(e, kind, i) PROVE CancelInv'
  BY <1>18 DEF AddBegin, CreateLoopEvent, LoopEvent, loopVars
<1>19. CASE UNCHANGED vars
  BY <1>19 DEF vars
<1> HIDE DEF TypeOK, CurrentInv, CancelInv, UniqueSeq, Pending, LoopEvent
<1> QED
  BY NextCases, <1>1, <1>2, <1>3, <1>4, <1>5, <1>6, <1>7, <1>8, <1>9, <1>10, <1>11, <1>12, <1>13, <1>14, <1>15, <1>16, <1>17, <1>18, <1>19

(* Everything the loop thread, the callers and the stopping thread rely on  *)
(* holds in every reachable state of event_loop.cpp's algorithm.            *)
THEOREM LoopInvariant == Spec => []LoopInv
<1>1. Init => LoopInv
  <2> SUFFICES ASSUME Init PROVE LoopInv
    OBVIOUS
  <2>1. TypeOK
    BY TypeInit
  <2>2. CurrentInv /\ StopInv /\ SleepInv /\ CancelInv
    BY DEF Init, CurrentInv, StopInv, NothingRunsAfterStop, SleepInv, CancelInv
  <2> QED
    BY <2>1, <2>2 DEF LoopInv
<1>2. LoopInv /\ [Next]_vars => LoopInv'
  BY TypeStep, CurrentStep, StopStepInv, SleepStep, CancelStep DEF LoopInv
<1> QED
  BY <1>1, <1>2, PTL DEF Spec

(* The variables of the loop keep their types.                              *)
THEOREM TypeCorrect == Spec => []TypeOK
BY LoopInvariant, PTL DEF LoopInv

(* No timer, first or repeated, is executed before its target time, for any *)
(* interleaving of callers with the loop thread.                            *)
THEOREM TimersNeverEarly == Spec => []NeverEarly
<1>1. LoopInv => NeverEarly
  BY DEF LoopInv, CurrentInv, NeverEarly
<1> QED
  BY <1>1, LoopInvariant, PTL

(* The loop never sleeps past a queued event, except after the one wake-up  *)
(* ResetTimerIfNeedLocked skips on a stale nextWakeupTime_.                 *)
THEOREM SleepCovers == Spec => []SleepCoversQueueUnlessMissed
<1>1. LoopInv => SleepCoversQueueUnlessMissed
  BY DEF LoopInv, SleepInv, SleepCoversQueueUnlessMissed, SleepCoversQueue
<1> QED
  BY <1>1, LoopInvariant, PTL

(* The cut to milliseconds and the narrowing to int never lengthen a sleep, *)
(* but for the two INT_MAX cases.                                           *)
THEOREM TimeoutCovers == Spec => []TimeoutWithinLeftUnlessIntMax
<1>1. TypeOK => TimeoutWithinLeftUnlessIntMax
  <2> SUFFICES ASSUME TypeOK, left # IntMax, left \div MilliTick <= IntMax
               PROVE  TimeoutMilli(left) >= 0 /\ TimeoutMilli(left) * MilliTick <= left
    BY DEF TimeoutWithinLeftUnlessIntMax, TimeoutWithinLeft
  <2> DEFINE q == left \div MilliTick
  <2>1. left \in Nat /\ MilliTick \in Nat \ {0} /\ IntMax \in Nat
    BY LoopAssumption DEF TypeOK
  <2>2. q \in Nat /\ q * MilliTick <= left
    BY <2>1
  <2>3. q % (2 * (IntMax + 1)) = q
    BY <2>1, <2>2
  <2>4. TimeoutMilli(left) = q
    BY <2>1, <2>2, <2>3 DEF TimeoutMilli
  <2> QED
    BY <2>2, <2>4
<1> QED
  BY <1>1, TypeCorrect, PTL

(* Once StopLoop has returned the loop executes nothing, started again or   *)
(* not.                                                                     *)
THEOREM StopIsFinal == Spec => []NothingRunsAfterStop
BY LoopInvariant, PTL DEF LoopInv, StopInv

(* RemoveEvent is final for an event with a clock stamp of its own, whether *)
(* it finds the event queued, being executed, or about to be put back.      *)
THEOREM RemovalIsFinal == Spec => RemovedNeverRestarts
<1>1. LoopInv /\ [Next]_vars =>
        [\A e \in cancelled : UniqueSeq(e) =>
           (status'[e] = "running" => status[e] = "running")]_vars
  <2> SUFFICES ASSUME LoopInv, Next, NEW e \in cancelled, UniqueSeq(e),
                      status'[e] = "running", status[e] # "running"
               PROVE  FALSE
    OBVIOUS
  <2>1. e \in Events /\ status[e] \notin {"unused", "calling", "queued", "refused"}
    BY DEF LoopInv, CancelInv, TypeOK
  <2> QED
    BY <2>1, ZenonT(60) DEF Next, Add, LoopStep, StopStep, LoopInv, TypeOK, CurrentInv, loopVars,
         StartLoop, StopLoopQuit, StopLoopClear, StopLoopWake, StopLoopJoin,
         AddBegin, PushEvent, PushTimer, RemoveEvent, CheckQueue, FetchNothing,
         FetchNextEvent, IsTop, Pending, ProcessEvent, ReInsertPeriodicEvent,
         ClearCurrent, EnterWait, WaitNextEvent, Tick
<1> QED
  BY <1>1, LoopInvariant, PTL DEF Spec, RemovedNeverRestarts

=============================================================================
