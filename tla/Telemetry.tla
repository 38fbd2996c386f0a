------------------------------ MODULE Telemetry ------------------------------
(***************************************************************************)
(* Telemetry tracing: the listener that starts and stops sessions, the     *)
(* inner machine of TelemetryState that modules and the screen switch, the *)
(* callback that adds up the trace-on time in the database and closes the  *)
(* trace when it is used up, and the timer of FilterTraceOn.  Operations   *)
(* run under traceMutex_ and are one action, but for the two that take     *)
(* PowerStatusManager::mutex_ inside it.  One tick is the 60 s period of   *)
(* the trace-on time task.                                                 *)
(***************************************************************************)
EXTENDS Integers, FiniteSets, Sequences, Functions

CONSTANTS Ids,          \* telemetry ids
          Plans,        \* the sequences of trace policies asked for
          Modules,      \* callers of FilterTraceOn and FilterTraceOff
          PostTimes,    \* their post times, in ticks
          Duration,     \* traceDuration_, in ticks
          MaxCount,     \* bound on traceOnCount_
          MaxSessions,  \* bound on the "on" messages accepted
          MaxTime       \* bound on the clock

AllPolicies == {"DEFAULT", "POWER", "MANUAL"}

ASSUME TelemetryAssumption ==
  /\ Plans \subseteq Seq(AllPolicies) /\ \A plan \in Plans : Len(plan) <= MaxSessions
  /\ PostTimes \subseteq Nat \ {0}
  /\ MaxCount \in Nat \ {0}
  /\ Duration \in Nat \ {0} /\ MaxSessions \in Nat /\ MaxTime \in Nat

None == "none"
Sessions == 1..MaxSessions

VARIABLES now,       \* the clock
          owner,     \* who owns the trace: "close" (or a lower level), "telemetry", "other"
          cur,       \* the session of the TelemetryState, 0 if there is none
          inner,     \* its inner machine: state, traceOnCount_, postEndTime_
          cb,        \* the callback of each session
          db,        \* the TOTAL row of the telemetry table
          closes,    \* sessions whose HandTimeout task has not run yet
          starts,    \* accepted sessions whose start task has not run yet
          isCanceled,
          opening,   \* the session whose HandleStart holds telemetryMutex_, or 0
          traceLock, \* what the holder of traceMutex_ still has to do
          powerLock, \* what the holder of PowerStatusManager::mutex_ still has to do
          screen,    \* powerState_ = SCREEN_ON; nobody looks at it unless listening
          listening, \* "TelemetryCallback" is among listeners_
          timer,     \* when the post_trace_on task is due, or 0
          posting,   \* FilterTraceOn between PostTelemetryOn and its timer
          held,      \* history: how often each module's FilterTraceOn awaits its FilterTraceOff
          unmatched, \* history: a FilterTraceOff that answers no FilterTraceOn changed the machine
          onTime,    \* history: ticks with telemetry on since the row was inserted
          stale,     \* history: a session ended and its callback still counts
          overtaken, \* history: a timer replaced one for a later end
          failed     \* history: a hitrace call failed

locks == <<opening, traceLock, powerLock>>
power == <<screen, listening>>
post == <<timer, posting>>
holds == <<held, unmatched>>
history == <<holds, onTime, stale, overtaken, failed>>
vars == <<now, owner, cur, inner, cb, db, closes, starts, isCanceled, locks, power, post, history>>

NoInner == [st |-> "none", count |-> 0, end |-> 0]
Policy == IF cur = 0 THEN None ELSE cb[cur].policy
NoCallback == [id |-> None, policy |-> None, isNew |-> FALSE, begin |-> 0,
               registered |-> FALSE, on |-> FALSE, task |-> FALSE, start |-> 0, wake |-> 0]

Init ==
  /\ now = 0 /\ owner = "close" /\ cur = 0 /\ inner = NoInner
  /\ cb = [n \in Sessions |-> NoCallback]
  /\ db = [id |-> None, run |-> 0]
  /\ closes = {} /\ starts = {} /\ isCanceled = FALSE
  /\ opening = 0 /\ traceLock = "free" /\ powerLock = "free"
  /\ screen = FALSE /\ listening = FALSE
  /\ timer = 0 /\ posting = [m \in Modules |-> 0]
  /\ held = [m \in Modules |-> 0] /\ unmatched = FALSE
  /\ onTime = 0 /\ stale = FALSE /\ overtaken = FALSE /\ failed = FALSE

TraceOnNow == owner = "telemetry" /\ (IF Policy = "DEFAULT" THEN cb[cur].registered ELSE inner.st = "on")

-----------------------------------------------------------------------------
(* The callback: UcTelemetryCallback.                                       *)

(* OnTelemetryTraceOn: restart the clock; one task per callback.            *)
TraceOnCb(c) ==
  [c EXCEPT !.start = now, !.on = TRUE, !.task = TRUE,
            !.wake = IF c.task THEN @ ELSE now + 1]

(* Mutant: the time already stored is counted again at the next sample.     *)
UpdateCountAgain(n) ==
  LET run == db.run + now - cb[n].start IN
  IF db.id # cb[n].id THEN [db |-> db, start |-> now, ok |-> FALSE]
  ELSE [db |-> [db EXCEPT !.run = run], start |-> cb[n].start, ok |-> run < Duration]

(* UpdateAndCheckTimeOut with the advance of traceOnStartTime_ before it.   *)
UpdateAndCheckTimeOut(n) ==
  LET run == db.run + now - cb[n].start IN
  IF db.id # cb[n].id THEN [db |-> db, start |-> now, ok |-> FALSE]
  ELSE [db |-> [db EXCEPT !.run = run], start |-> now, ok |-> run < Duration]

(* OnTelemetryTraceOff.                                                     *)
TraceOffCb(n) ==
  LET u == UpdateAndCheckTimeOut(n) IN
  /\ db' = u.db
  /\ cb' = [cb EXCEPT ![n].on = FALSE, ![n].start = u.start]
  /\ closes' = IF u.ok THEN closes ELSE closes \cup {n}

(* Mutant: a task that ran out of time ends without asking for the close.   *)
RunTraceOnTimeTaskSilent(n) ==
  /\ cb[n].task /\ cb[n].wake <= now
  /\ IF ~cb[n].on
     THEN cb' = [cb EXCEPT ![n].task = FALSE] /\ UNCHANGED db
     ELSE LET u == UpdateAndCheckTimeOut(n) IN
          /\ db' = u.db
          /\ cb' = [cb EXCEPT ![n].start = u.start, ![n].task = u.ok, ![n].wake = now + 1]
  /\ UNCHANGED <<now, owner, cur, inner, closes, starts, isCanceled, locks, power, post, history>>

(* One round of RunTraceOnTimeTask, which holds only timeMutex_.            *)
RunTraceOnTimeTask(n) ==
  /\ cb[n].task /\ cb[n].wake <= now
  /\ IF ~cb[n].on
     THEN /\ cb' = [cb EXCEPT ![n].task = FALSE]
          /\ UNCHANGED <<db, closes>>
     ELSE LET u == UpdateAndCheckTimeOut(n) IN
          /\ db' = u.db
          /\ cb' = [cb EXCEPT ![n].start = u.start, ![n].task = u.ok, ![n].wake = now + 1]
          /\ closes' = IF u.ok THEN closes ELSE closes \cup {n}
  /\ UNCHANGED <<now, owner, cur, inner, starts, isCanceled, locks, power, post, history>>

-----------------------------------------------------------------------------
(* The end of a TelemetryState: its destructor calls OnTelemetryFinish,     *)
(* which clears isTraceOn_ only if a system ability was filtered, and which *)
(* for the power policy removes the listener under the other mutex.         *)
EndSession(next) ==
  \E sa \in BOOLEAN :
    /\ owner' = next /\ cur' = 0 /\ inner' = NoInner
    /\ held' = [m \in Modules |-> 0] /\ unmatched' = FALSE
    /\ cb' = IF cb[cur].registered /\ sa THEN [cb EXCEPT ![cur].on = FALSE] ELSE cb
    /\ stale' = (stale \/ cb'[cur].on)
    /\ traceLock' = IF cb[cur].registered /\ Policy = "POWER" THEN "finish" ELSE "free"

RemovePowerListener ==
  /\ traceLock = "finish" /\ powerLock = "free"
  /\ listening' = FALSE /\ screen' = FALSE
  /\ traceLock' = "free"
  /\ UNCHANGED <<now, owner, cur, inner, cb, db, closes, starts, isCanceled, opening, powerLock, post, history>>

(* TraceStateMachine::CloseTrace(TELEMETRY); RefreshState may open a common *)
(* scenario.  The hitrace call may fail.                                    *)
CloseTelemetry(ok) ==
  /\ traceLock = "free"
  /\ IF owner = "telemetry" /\ ok THEN \E next \in {"close", "other"} : EndSession(next)
     ELSE UNCHANGED <<owner, cur, inner, cb, holds, stale, traceLock>>

(* The task HandTimeout submitted; it is not repeated.                      *)
CloseOnTimeout(n) ==
  \E ok \in BOOLEAN :
    /\ n \in closes
    /\ CloseTelemetry(ok)
    /\ closes' = closes \ {n}
    /\ failed' = (failed \/ ~ok)
    /\ UNCHANGED <<now, db, starts, isCanceled, opening, powerLock, power, post, onTime, overtaken>>

(* A scenario of a higher level displaces the session, or ends.             *)
OtherScenario ==
  /\ traceLock = "free"
  /\ CASE owner = "telemetry" -> EndSession("other")
       [] owner = "close" -> owner' = "other" /\ UNCHANGED <<cur, inner, cb, holds, stale, traceLock>>
       [] OTHER -> owner' = "close" /\ UNCHANGED <<cur, inner, cb, holds, stale, traceLock>>
  /\ UNCHANGED <<now, db, closes, starts, isCanceled, opening, powerLock, power, post, onTime, overtaken, failed>>

-----------------------------------------------------------------------------
(* TelemetryListener.  The messages arrive one after the other.             *)

Unused == {n \in Sessions : cb[n].id = None}

(* OnUnorderedEvent of an "on" message: CheckTimeOut reads the row.         *)
OnMessage ==
  LET n == CHOOSE k \in Unused : \A j \in Unused : k <= j IN
  /\ Unused # {}
  /\ \E id \in Ids, plan \in Plans, begin \in {0, 1} :
       /\ n <= Len(plan) /\ \A k \in 1..n - 1 : cb[k].policy = plan[k]
       /\ ~(db.id = id /\ db.run >= Duration)
       /\ cb' = [cb EXCEPT ![n] = [NoCallback EXCEPT !.id = id, !.policy = plan[n],
                                                     !.begin = begin, !.isNew = db.id # id]]
       /\ starts' = starts \cup {n}
  /\ isCanceled' = FALSE
  /\ UNCHANGED <<now, owner, cur, inner, db, closes, locks, power, post, history>>

(* HandleStop, under telemetryMutex_, for an "off" message.                 *)
HandleStop ==
  \E ok \in BOOLEAN :
    /\ opening = 0
    /\ CloseTelemetry(ok)
    /\ db' = [id |-> None, run |-> 0]
    /\ onTime' = 0
    /\ isCanceled' = TRUE
    /\ UNCHANGED <<now, closes, starts, opening, powerLock, power, post, overtaken, failed>>

(* The start task: cancelled while it waits, or HandleStart's OpenTrace,    *)
(* which a scenario of the same or a higher level denies.                   *)
StartTask(n) ==
  \E ok \in BOOLEAN :
    /\ n \in starts
    /\ starts' = starts \ {n}
    /\ cb' = [cb EXCEPT ![n].begin = 0]
    /\ \/ isCanceled /\ cb[n].begin > now /\ UNCHANGED <<owner, cur, opening>>
       \/ /\ cb[n].begin <= now /\ opening = 0 /\ traceLock = "free"
          /\ IF isCanceled \/ owner # "close" \/ ~ok THEN UNCHANGED <<owner, cur, opening>>
             ELSE owner' = "telemetry" /\ cur' = n /\ opening' = n
    /\ UNCHANGED <<now, inner, db, closes, isCanceled, traceLock, powerLock, power, post, history>>

(* The rows of the table are cleared and inserted anew.                     *)
InitTelemetryQuota(id) == db' = [id |-> id, run |-> 0]

(* RegisterTelemetryCallback with OnTelemetryStart, unless the session was  *)
(* displaced after its OpenTrace.  A new task gets a fresh row; DEFAULT     *)
(* counts from now on, MANUAL enters the inner initial state, POWER goes on *)
(* to the screen.  A failing SetTraceStatus leaves the inner machine with a *)
(* null state: a call on it would dereference that.                         *)
RegisterTelemetryCallback ==
  \E ok \in BOOLEAN :
    /\ opening # 0 /\ traceLock = "free"
    /\ IF cur # opening
       THEN opening' = 0 /\ UNCHANGED <<inner, cb, db, traceLock, onTime, failed>>
       ELSE LET c == [cb[cur] EXCEPT !.registered = TRUE] IN
            /\ IF c.isNew THEN InitTelemetryQuota(c.id) /\ onTime' = 0
                          ELSE UNCHANGED <<db, onTime>>
            /\ cb' = [cb EXCEPT ![cur] = IF c.policy = "DEFAULT" THEN TraceOnCb(c) ELSE c]
            /\ inner' = IF c.policy # "MANUAL" THEN NoInner
                        ELSE [NoInner EXCEPT !.st = IF ok THEN "init" ELSE "null"]
            /\ failed' = (failed \/ (c.policy = "MANUAL" /\ ~ok))
            /\ traceLock' = IF c.policy = "POWER" THEN "addListener" ELSE "free"
            /\ opening' = IF c.policy = "POWER" THEN opening ELSE 0
    /\ UNCHANGED <<now, owner, cur, closes, starts, isCanceled, powerLock, power, post, holds, stale, overtaken>>

(* Mutant: the screen is read before the listener is added.                 *)
AddPowerListenerLast ==
  /\ traceLock \in {"addListener", "last"} /\ powerLock = "free"
  /\ screen' \in BOOLEAN
  /\ listening' = (traceLock = "last")
  /\ traceLock' = IF listening' THEN "free" ELSE "last"
  /\ opening' = IF listening' THEN 0 ELSE opening
  /\ IF listening' THEN UNCHANGED <<inner, cb>>
     ELSE /\ inner' = [NoInner EXCEPT !.st = IF screen' THEN "on" ELSE "init"]
          /\ cb' = IF screen' THEN [cb EXCEPT ![cur] = TraceOnCb(@)] ELSE cb
  /\ UNCHANGED <<now, owner, cur, db, closes, starts, isCanceled, powerLock, post, history>>

(* PowerCallback::OnTelemetryStart: AddPowerListener ...                    *)
AddPowerListener ==
  /\ traceLock = "addListener" /\ powerLock = "free"
  /\ listening' = TRUE /\ screen' \in BOOLEAN
  /\ traceLock' = "getState"
  /\ UNCHANGED <<now, owner, cur, inner, cb, db, closes, starts, isCanceled, opening, powerLock, post, history>>

(* ... GetPowerState, InitTelemetryStatus.                                  *)
InitTelemetryStatus ==
  \E ok \in BOOLEAN :
    /\ traceLock = "getState" /\ powerLock = "free"
    /\ inner' = [NoInner EXCEPT !.st = IF ~ok THEN "null" ELSE IF screen THEN "on" ELSE "init"]
    /\ cb' = IF screen /\ ok THEN [cb EXCEPT ![cur] = TraceOnCb(@)] ELSE cb
    /\ failed' = (failed \/ ~ok)
    /\ traceLock' = "free" /\ opening' = 0
    /\ UNCHANGED <<now, owner, cur, db, closes, starts, isCanceled, powerLock, power, post, holds, onTime, stale, overtaken>>

-----------------------------------------------------------------------------
(* PowerStatusManager::SetPowerState holds mutex_ while it calls the        *)
(* listener, which takes traceMutex_.  Without the listener the value is    *)
(* chosen when AddPowerListener makes it matter.                            *)
SetPowerState ==
  /\ powerLock = "free" /\ listening
  /\ screen' = ~screen
  /\ powerLock' = "notify"
  /\ UNCHANGED <<now, owner, cur, inner, cb, db, closes, starts, isCanceled, opening, traceLock, listening, post, history>>

(* PowerTelemetryOn and PowerTelemetryOff; SetTraceStatus may fail.         *)
OnScreen ==
  \E ok \in BOOLEAN :
    /\ powerLock = "notify" /\ traceLock = "free"
    /\ powerLock' = "free"
    /\ inner.st # "null"
    /\ failed' = (failed \/ ~ok)
    /\ CASE Policy = "POWER" /\ ok /\ screen /\ inner.st = "init" ->
              /\ inner' = [st |-> "on", count |-> 1, end |-> 0]
              /\ cb' = [cb EXCEPT ![cur] = TraceOnCb(@)]
              /\ UNCHANGED <<db, closes>>
         [] Policy = "POWER" /\ ok /\ ~screen /\ inner.st = "on" ->
              /\ inner' = [NoInner EXCEPT !.st = "init"]
              /\ TraceOffCb(cur)
         [] OTHER -> UNCHANGED <<inner, cb, db, closes>>
    /\ UNCHANGED <<now, owner, cur, starts, isCanceled, opening, traceLock, power, post, holds, onTime, stale, overtaken>>

-----------------------------------------------------------------------------
(* The modules: FilterTraceOn without and with a post time, FilterTraceOff. *)

Manual == Policy = "MANUAL" /\ inner.st \in {"init", "on"} /\ traceLock = "free"

(* TransToTraceOnState and OnTelemetryTraceOn; a failing SetTraceStatus     *)
(* changes nothing.                                                         *)
TurnOn(count, end) ==
  /\ inner' = [st |-> "on", count |-> count, end |-> end]
  /\ cb' = [cb EXCEPT ![cur] = TraceOnCb(@)]

(* TransToInitState and OnTelemetryTraceOff; if SetTraceStatus fails the    *)
(* machine stays on, with no post time left.                                *)
TurnOff ==
  \/ /\ inner' = [NoInner EXCEPT !.st = "init"]
     /\ TraceOffCb(cur)
     /\ UNCHANGED failed
  \/ /\ inner' = [inner EXCEPT !.end = 0]
     /\ failed' = TRUE
     /\ UNCHANGED <<cb, db, closes>>

(* TraceOnState::TraceOn counts calls, not modules.                         *)
CountOn ==
  /\ inner.count < MaxCount
  /\ inner' = [inner EXCEPT !.count = @ + 1]
  /\ UNCHANGED cb

TraceTelemetryOn(m) ==
  /\ Manual
  /\ IF inner.st = "on" THEN CountOn ELSE TurnOn(1, 0)
  /\ held' = IF unmatched THEN held ELSE [held EXCEPT ![m] = @ + 1]
  /\ UNCHANGED <<now, owner, cur, db, closes, starts, isCanceled, locks, power, post, unmatched, onTime, stale, overtaken, failed>>

(* The bookkeeping of a FilterTraceOff: nobody keeps account any more once  *)
(* an unmatched one has changed the machine.                                *)
Release(m) ==
  /\ unmatched' = (unmatched \/ (held[m] = 0 /\ inner' # inner))
  /\ held' = IF unmatched' THEN [k \in Modules |-> 0]
             ELSE [held EXCEPT ![m] = IF @ > 0 THEN @ - 1 ELSE 0]

(* Mutant: TraceOff looks at the post time only.                            *)
TraceTelemetryOffUncounted(m) ==
  /\ Manual
  /\ IF inner.st = "init" \/ inner.end > 0 THEN UNCHANGED <<inner, cb, db, closes, failed>>
     ELSE TurnOff
  /\ Release(m)
  /\ UNCHANGED <<now, owner, cur, starts, isCanceled, locks, power, post, onTime, stale, overtaken>>

(* Mutant: a call that leaves the trace on stays counted.                   *)
TraceTelemetryOffKeeps(m) ==
  /\ Manual
  /\ IF inner.st = "init" \/ inner.end > 0 \/ inner.count > 1 THEN UNCHANGED <<inner, cb, db, closes, failed>>
     ELSE TurnOff
  /\ Release(m)
  /\ UNCHANGED <<now, owner, cur, starts, isCanceled, locks, power, post, onTime, stale, overtaken>>

(* Mutant: the count is lowered whatever it is.                             *)
TraceTelemetryOffLowers(m) ==
  /\ Manual /\ inner.st = "on"
  /\ IF inner.end > 0 \/ inner.count > 1
     THEN inner' = [inner EXCEPT !.count = @ - 1] /\ UNCHANGED <<cb, db, closes, failed>>
     ELSE TurnOff
  /\ Release(m)
  /\ UNCHANGED <<now, owner, cur, starts, isCanceled, locks, power, post, onTime, stale, overtaken>>

(* TraceOff, of any caller: nothing in the initial state; in the on state a *)
(* running post time or another count keeps the trace on, and the count     *)
(* never falls below one that way.                                          *)
TraceTelemetryOff(m) ==
  /\ Manual
  /\ CASE inner.st = "init" -> UNCHANGED <<inner, cb, db, closes, failed>>
       [] inner.st = "on" /\ (inner.end > 0 \/ inner.count > 1) ->
            /\ inner' = [inner EXCEPT !.count = IF @ > 1 THEN @ - 1 ELSE @]
            /\ UNCHANGED <<cb, db, closes, failed>>
       [] OTHER -> TurnOff
  /\ Release(m)
  /\ UNCHANGED <<now, owner, cur, starts, isCanceled, locks, power, post, onTime, stale, overtaken>>

(* Mutant: only the call that switches the trace on arms the timer.         *)
PostTelemetryOnUnarmed(m) ==
  \E t \in PostTimes :
    /\ Manual /\ posting[m] = 0
    /\ IF inner.st = "on"
       THEN /\ inner' = [inner EXCEPT !.end = IF now + t < @ THEN @ ELSE now + t]
            /\ UNCHANGED <<cb, posting>>
       ELSE TurnOn(0, now + t) /\ posting' = [posting EXCEPT ![m] = t]
    /\ UNCHANGED <<now, owner, cur, db, closes, starts, isCanceled, locks, power, timer, history>>

(* FilterTraceOn(m, t): PostTelemetryOn; unless a later end is known, the   *)
(* caller goes on to arm the timer.                                         *)
PostTelemetryOn(m) ==
  \E t \in PostTimes :
    /\ Manual /\ posting[m] = 0
    /\ IF inner.st = "on" /\ now + t < inner.end
       THEN UNCHANGED <<inner, cb, posting>>
       ELSE /\ posting' = [posting EXCEPT ![m] = t]
            /\ IF inner.st = "init" THEN TurnOn(0, now + t)
               ELSE inner' = [inner EXCEPT !.end = now + t] /\ UNCHANGED cb
    /\ UNCHANGED <<now, owner, cur, db, closes, starts, isCanceled, locks, power, timer, history>>

(* Then, under postMutex_, cancel the pending task and submit a new one.    *)
ArmPostTimer(m) ==
  /\ posting[m] > 0
  /\ timer' = now + posting[m]
  /\ posting' = [posting EXCEPT ![m] = 0]
  /\ overtaken' = (overtaken \/ (inner.end > now + posting[m]
                               /\ \A k \in Modules \ {m} : now + posting[k] < inner.end))
  /\ UNCHANGED <<now, owner, cur, inner, cb, db, closes, starts, isCanceled, locks, power, holds, onTime, stale, failed>>

(* Mutant: the end of the post time closes the trace whoever holds it.      *)
PostTimeOutUncounted ==
  /\ timer # 0 /\ timer <= now /\ traceLock = "free"
  /\ timer' = 0
  /\ IF Policy = "MANUAL" /\ inner.st = "on" /\ now >= inner.end
     THEN TurnOff
     ELSE UNCHANGED <<inner, cb, db, closes, failed>>
  /\ UNCHANGED <<now, owner, cur, starts, isCanceled, locks, power, posting, holds, onTime, stale, overtaken>>

(* PostTelemetryTimeOut, on the ffrt queue.                                 *)
PostTelemetryTimeOut ==
  /\ timer # 0 /\ timer <= now /\ traceLock = "free"
  /\ timer' = 0
  /\ IF Policy # "MANUAL" \/ inner.st # "on" \/ now < inner.end
     THEN UNCHANGED <<inner, cb, db, closes, failed>>
     ELSE IF inner.count > 0
     THEN inner' = [inner EXCEPT !.end = 0] /\ UNCHANGED <<cb, db, closes, failed>>
     ELSE TurnOff
  /\ UNCHANGED <<now, owner, cur, starts, isCanceled, locks, power, posting, holds, onTime, stale, overtaken>>

Tick ==
  /\ now < MaxTime
  /\ now' = now + 1
  /\ onTime' = IF TraceOnNow THEN onTime + 1 ELSE onTime
  /\ UNCHANGED <<owner, cur, inner, cb, db, closes, starts, isCanceled, locks, power, post, holds, stale, overtaken, failed>>

Next ==
  \/ \E n \in Sessions : RunTraceOnTimeTask(n) \/ CloseOnTimeout(n) \/ StartTask(n)
  \/ RemovePowerListener \/ OtherScenario
  \/ OnMessage \/ HandleStop
  \/ RegisterTelemetryCallback \/ AddPowerListener \/ InitTelemetryStatus
  \/ SetPowerState \/ OnScreen
  \/ \E m \in Modules : TraceTelemetryOn(m) \/ TraceTelemetryOff(m) \/ PostTelemetryOn(m) \/ ArmPostTimer(m)
  \/ PostTelemetryTimeOut
  \/ Tick

Spec == Init /\ [][Next]_vars

-----------------------------------------------------------------------------
(* Type invariant.                                                          *)
TypeOK ==
  /\ now \in 0..MaxTime /\ owner \in {"close", "telemetry", "other"}
  /\ cur \in 0..MaxSessions /\ (cur # 0 <=> owner = "telemetry")
  /\ inner \in [st : {"none", "null", "init", "on"}, count : 0..MaxCount, end : Nat]
  /\ db.id \in Ids \cup {None} /\ db.run \in Nat
  /\ closes \subseteq Sessions /\ starts \subseteq Sessions /\ opening \in 0..MaxSessions
  /\ traceLock \in {"free", "addListener", "getState", "finish"}
  /\ powerLock \in {"free", "notify"}
  /\ timer \in Nat /\ posting \in [Modules -> PostTimes \cup {0}]
  /\ held \in [Modules -> 0..MaxCount] /\ unmatched \in BOOLEAN

(* uc_telemetry_callback.cpp closes in a task of its own to "Avoid died     *)
(* lock": the holder of traceMutex_ never waits for the holder of the power *)
(* manager's mutex_ while that one waits for traceMutex_.                   *)
NoLockCycle == ~(traceLock # "free" /\ powerLock = "notify")

(* The stored trace-on time plus the time since the last sample never       *)
(* exceeds the time telemetry was really on: samples, switching off and     *)
(* switching on again count no interval twice, unless the callback of an    *)
(* ended session is still counting.                                         *)
NeverOvercounts ==
  ~stale =>
    db.run + (IF cur # 0 /\ cb[cur].on /\ cb[cur].id = db.id THEN now - cb[cur].start ELSE 0) <= onTime

(* As long as every FilterTraceOff of a session answered a FilterTraceOn of *)
(* the same module in that session, the manual trace is on while a module   *)
(* holds it, whatever other modules and the post timer do; and the machine  *)
(* counts the holds, or one more: a FilterTraceOff during a post time, or   *)
(* one whose hitrace call failed, leaves at most one count that nobody      *)
(* holds.                                                                   *)
HoldsCounted ==
  LET holding == FoldFunction(LAMBDA x, y : x + y, 0, held) IN
  ~unmatched => /\ holding > 0 => Policy = "MANUAL" /\ inner.st = "on"
                /\ inner.count \in holding..holding + 1

(* A trace that is on for its post time only, with no count left, has a     *)
(* timer to come that reaches the end of that time, or a caller about to    *)
(* arm it, unless an earlier timer overtook a later one or a hitrace call   *)
(* failed.                                                                  *)
PostCovered ==
  Policy = "MANUAL" /\ inner.st = "on" /\ inner.count = 0 =>
    \/ timer # 0 /\ timer >= inner.end
    \/ \E m \in Modules : posting[m] > 0 /\ now + posting[m] >= inner.end
    \/ overtaken \/ failed

(* Between operations the power policy traces exactly while the screen is   *)
(* on, also if it was switched while the session was being set up.          *)
PowerFollowsScreen ==
  Policy = "POWER" /\ cb[cur].registered /\ traceLock = "free" /\ powerLock = "free" /\ ~failed
    => (inner.st = "on" <=> screen)

(* While telemetry traces, its time is being watched: the callback counts   *)
(* and its task will look at the sum again, or the closing task is on its   *)
(* way, unless a hitrace call failed.  No on, off and on again within a     *)
(* period of the task leaves the budget unwatched.                          *)
BudgetWatched ==
  TraceOnNow => (cb[cur].on /\ cb[cur].task) \/ closes # {} \/ failed
=============================================================================
