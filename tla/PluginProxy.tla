----------------------------- MODULE PluginProxy ------------------------------
(***************************************************************************)
(* A proxied plugin (base/plugin_proxy.cpp) and its one user in the tree,  *)
(* FreezeDetectorPlugin (plugins/freeze_detector): instantiated by the     *)
(* first callback, destroyed by the platform's periodic check once idle.   *)
(* lock_ is held over every proxied call and over the check, which makes   *)
(* each one action. The delayed tasks of FreezeDetectorPlugin run in ffrt  *)
(* without it; they hold the instance by shared_ptr and count as users.    *)
(***************************************************************************)
EXTENDS Integers, FiniteSets

CONSTANTS
  Tasks,        \* identities of delayed tasks
  MaxIdleTime,  \* maxIdleTime_
  MaxCalls      \* bound on callbacks

ASSUME ProxyAssumption ==
  /\ MaxIdleTime \in Nat
  /\ MaxCalls \in Nat
  /\ IsFiniteSet(Tasks)

VARIABLES
  held,      \* plugin_ is not null
  instance,  \* (history) how many instances were created
  idle,      \* the time since lastActiveTime_, counted up to maxIdleTime_
  useCount,  \* useCount_ of the instance
  task,      \* what became of each delayed task
  owner,     \* the instance each task holds
  calls,     \* callbacks so far
  leaked     \* (history) uses of this instance that no task will give back

vars == <<held, instance, idle, useCount, task, owner, calls, leaked>>

Init ==
  /\ held = FALSE
  /\ instance = 0
  /\ idle = 0
  /\ useCount = 0
  /\ task = [t \in Tasks |-> "new"]
  /\ owner = [t \in Tasks |-> 0]
  /\ calls = 0
  /\ leaked = 0

(* LoadPluginIfNeed: a fresh instance starts with no uses; the active time  *)
(* is renewed either way.                                                   *)
LoadPluginIfNeed ==
  /\ held' = TRUE
  /\ instance' = IF held THEN instance ELSE instance + 1
  /\ idle' = 0

UsesAtEntry == IF held THEN useCount ELSE 0
LeaksAtEntry == IF held THEN leaked ELSE 0

Call == calls < MaxCalls /\ calls' = calls + 1

(* OnEvent, CanProcessEvent, and callbacks turned down before AddUseCount.  *)
CallIdle ==
  /\ Call
  /\ LoadPluginIfNeed
  /\ useCount' = UsesAtEntry
  /\ leaked' = LeaksAtEntry
  /\ UNCHANGED <<task, owner>>

(* GetHandlerInfo: renews the active time of an instance, loads none.       *)
GetHandlerInfo ==
  /\ Call
  /\ held
  /\ idle' = 0
  /\ UNCHANGED <<held, instance, useCount, task, owner, leaked>>

(* OnEventListeningCallback up to ScheduleEventProcessing.                  *)
CallSchedule(t) ==
  /\ Call
  /\ task[t] = "new"
  /\ LoadPluginIfNeed
  /\ useCount' = UsesAtEntry + 1
  /\ leaked' = LeaksAtEntry
  /\ task' = [task EXCEPT ![t] = "delayed"]
  /\ owner' = [owner EXCEPT ![t] = instance']

(* OnEventListeningCallback returning after AddUseCount because the event   *)
(* carries no log path or no rule matches.                                  *)
CallReject ==
  /\ Call
  /\ LoadPluginIfNeed
  /\ useCount' = UsesAtEntry + 1
  /\ leaked' = LeaksAtEntry + 1
  /\ UNCHANGED <<task, owner>>

(* Mutant: the error path of ProcessEvent forgets SubUseCount.              *)
ProcessEventNoSub(t) ==
  /\ task[t] = "delayed"
  /\ task' = [task EXCEPT ![t] = "processed"]
  /\ UNCHANGED <<held, instance, idle, useCount, owner, calls, leaked>>

(* ProcessEvent: both returns give the use back.                            *)
ProcessEvent(t) ==
  /\ task[t] = "delayed"
  /\ task' = [task EXCEPT ![t] = "processed"]
  /\ useCount' = useCount - 1
  /\ UNCHANGED <<held, instance, idle, owner, calls, leaked>>

(* The task's closure is destroyed and with it its shared_ptr.              *)
Release(t) ==
  /\ task[t] = "processed"
  /\ task' = [task EXCEPT ![t] = "released"]
  /\ UNCHANGED <<held, instance, idle, useCount, owner, calls, leaked>>

Holding == {t \in Tasks : task[t] \in {"delayed", "processed"} /\ owner[t] = instance}

(* Mutant: the reference count is not looked at.                            *)
DestroyUnreferenced ==
  /\ held
  /\ IF useCount > 0
     THEN idle' = 0 /\ UNCHANGED held
     ELSE IF idle >= MaxIdleTime
     THEN held' = FALSE /\ UNCHANGED idle
     ELSE UNCHANGED <<idle, held>>
  /\ UNCHANGED <<instance, useCount, task, owner, calls, leaked>>

(* Mutant: an instance in use renews its active time, an idle one as well.  *)
DestroyNever ==
  /\ held
  /\ idle' = 0
  /\ UNCHANGED <<held, instance, useCount, task, owner, calls, leaked>>

(* Mutant: the active time of an instance in use is set into the future.    *)
DestroyFuture ==
  /\ held
  /\ IF useCount > 0
     THEN idle' = -1 /\ UNCHANGED held
     ELSE IF idle >= MaxIdleTime /\ Holding = {}
     THEN held' = FALSE /\ UNCHANGED idle
     ELSE UNCHANGED <<idle, held>>
  /\ UNCHANGED <<instance, useCount, task, owner, calls, leaked>>

(* DestroyInstanceIfNeed.                                                   *)
DestroyInstanceIfNeed ==
  /\ held
  /\ IF useCount > 0
     THEN idle' = 0 /\ UNCHANGED held
     ELSE IF idle >= MaxIdleTime /\ Holding = {}
     THEN held' = FALSE /\ UNCHANGED idle
     ELSE UNCHANGED <<idle, held>>
  /\ UNCHANGED <<instance, useCount, task, owner, calls, leaked>>

Tick ==
  /\ idle < MaxIdleTime
  /\ idle' = idle + 1
  /\ UNCHANGED <<held, instance, useCount, task, owner, calls, leaked>>

Next ==
  \/ CallIdle \/ GetHandlerInfo \/ CallReject
  \/ \E t \in Tasks : CallSchedule(t) \/ ProcessEvent(t) \/ Release(t)
  \/ DestroyInstanceIfNeed
  \/ Tick

Spec == Init /\ [][Next]_vars

(* Tasks run, time passes, and the periodic check finds an instance that    *)
(* is idle again and again (checkIdlePeriod_ is half the idle time).        *)
FairSpec ==
  /\ Spec
  /\ \A t \in Tasks : WF_vars(ProcessEvent(t)) /\ WF_vars(Release(t))
  /\ WF_vars(Tick)
  /\ SF_vars(idle >= MaxIdleTime /\ DestroyInstanceIfNeed)

-----------------------------------------------------------------------------
TaskStates == {"new", "delayed", "processed", "released"}

TypeOK ==
  /\ held \in BOOLEAN
  /\ instance \in Nat
  /\ idle \in 0..MaxIdleTime
  /\ useCount \in Int
  /\ task \in [Tasks -> TaskStates]
  /\ owner \in [Tasks -> Nat]
  /\ calls \in 0..MaxCalls
  /\ leaked \in Nat

Delayed == {t \in Tasks : task[t] = "delayed"}

(* A task that has yet to run holds the instance the proxy holds: the idle  *)
(* check never drops the instance under it.                                 *)
TasksHoldInstance ==
  \A t \in Tasks :
    task[t] \in {"delayed", "processed"} => held /\ owner[t] = instance

(* The use count is the number of tasks to come plus the uses that callback *)
(* returns have leaked; it never falls below zero.                          *)
UseCountBalanced ==
  /\ useCount >= 0
  /\ held => useCount = Cardinality(Delayed) + leaked

(* An instance without a leaked use is dropped once callbacks stop coming.  *)
IdleUnloadedUnlessLeaked == []<>(~held \/ leaked > 0)

(* "The dynamically loaded plugin is unloaded again after some time":       *)
(* fails once a callback returned between AddUseCount and the scheduling.   *)
IdleUnloaded == []<>(~held)
=============================================================================
