-------------------------- MODULE PluginProxyProofs ---------------------------
(***************************************************************************)
(* Proofs about PluginProxy for any tasks, idle time and number of calls.  *)
(* The inductive invariant ties each outstanding task to the instance the  *)
(* proxy holds, and the use count to the tasks that have yet to run.       *)
(***************************************************************************)
EXTENDS PluginProxy, FiniteSetTheorems, TLAPS

(* Tasks to come hold the proxy's instance; its uses are theirs plus the    *)
(* leaked ones; a task exists only if an instance was made.                 *)
ProxyInv == TypeOK /\ TasksHoldInstance /\ UseCountBalanced

(* The tasks to come are finitely many.                                     *)
LEMMA DelayedFinite == IsFiniteSet(Delayed) /\ Cardinality(Delayed) \in Nat
  BY ProxyAssumption, FS_Subset, FS_CardinalityType DEF Delayed

(* Scheduling a task adds one to the tasks to come.                         *)
LEMMA ScheduleCounts ==
  ASSUME NEW t \in Tasks, TypeOK, task[t] = "new",
         task' = [task EXCEPT ![t] = "delayed"]
  PROVE  Cardinality(Delayed') = Cardinality(Delayed) + 1
<1>1. Delayed' = Delayed \cup {t}
  BY DEF Delayed, TypeOK
<1>2. t \notin Delayed
  BY DEF Delayed
<1> QED BY <1>1, <1>2, DelayedFinite, FS_AddElement

(* Running a task takes one from the tasks to come.                         *)
LEMMA ProcessCounts ==
  ASSUME NEW t \in Tasks, TypeOK, task[t] = "delayed",
         task' = [task EXCEPT ![t] = "processed"]
  PROVE  Cardinality(Delayed') = Cardinality(Delayed) - 1
<1>1. Delayed' = Delayed \ {t}
  BY DEF Delayed, TypeOK
<1>2. t \in Delayed
  BY DEF Delayed
<1> QED BY <1>1, <1>2, DelayedFinite, FS_RemoveElement

LEMMA ProxyInit == Init => ProxyInv
<1> SUFFICES ASSUME Init PROVE ProxyInv OBVIOUS
<1>1. TypeOK
  <2>1. held \in BOOLEAN
    BY Zenon DEF Init
  <2> QED BY <2>1, ProxyAssumption DEF Init, TypeOK, TaskStates
<1>2. TasksHoldInstance
  BY DEF Init, TasksHoldInstance
<1>3. UseCountBalanced
  BY DEF Init, UseCountBalanced
<1> QED BY <1>1, <1>2, <1>3 DEF ProxyInv

(* Without an instance there are no tasks to come.                          *)
LEMMA NoInstanceNoTasks ==
  ASSUME TasksHoldInstance, ~held
  PROVE  Delayed = {} /\ Cardinality(Delayed) = 0
  BY FS_EmptySet DEF TasksHoldInstance, Delayed

(* A proxied call leaves behind a held instance, and tasks that held the    *)
(* old one hold it still.                                                   *)
LEMMA LoadKeepsTasks ==
  ASSUME TypeOK, TasksHoldInstance, LoadPluginIfNeed,
         NEW t \in Tasks, task[t] \in {"delayed", "processed"}
  PROVE  held' /\ instance' = owner[t]
  BY Zenon DEF TypeOK, TasksHoldInstance, LoadPluginIfNeed

(* The uses before a call are those of the tasks to come and the leaked.    *)
LEMMA EntryBalanced ==
  ASSUME TypeOK, TasksHoldInstance, UseCountBalanced
  PROVE  /\ UsesAtEntry = Cardinality(Delayed) + LeaksAtEntry
         /\ UsesAtEntry \in Nat
         /\ LeaksAtEntry \in Nat
<1>1. CASE held
  BY <1>1, DelayedFinite DEF TypeOK, UseCountBalanced, UsesAtEntry, LeaksAtEntry
<1>2. CASE ~held
  BY <1>2, NoInstanceNoTasks DEF UsesAtEntry, LeaksAtEntry
<1> QED BY <1>1, <1>2

LEMMA LoadType ==
  ASSUME TypeOK, LoadPluginIfNeed
  PROVE  held' \in BOOLEAN /\ instance' \in Nat /\ idle' \in 0..MaxIdleTime
<1>1. held' \in BOOLEAN
  BY Zenon DEF LoadPluginIfNeed
<1>2. instance' \in Nat /\ idle' \in 0..MaxIdleTime
  BY ProxyAssumption DEF TypeOK, LoadPluginIfNeed
<1> QED BY <1>1, <1>2

(* Calls that schedule nothing.                                             *)
LEMMA CallIdleStep == ProxyInv /\ CallIdle => ProxyInv'
<1> SUFFICES ASSUME ProxyInv, CallIdle PROVE ProxyInv' OBVIOUS
<1> USE DEF ProxyInv
<1>1. LoadPluginIfNeed /\ UNCHANGED <<task, owner>> /\ Call
  BY DEF CallIdle
<1>2. TypeOK'
  BY <1>1, LoadType, EntryBalanced, ProxyAssumption DEF CallIdle, Call, TypeOK
<1>3. TasksHoldInstance'
  BY <1>1, LoadKeepsTasks DEF TasksHoldInstance
<1>4. Delayed' = Delayed
  BY <1>1 DEF Delayed
<1>5. UseCountBalanced'
  BY <1>4, EntryBalanced DEF CallIdle, UseCountBalanced
<1> QED BY <1>2, <1>3, <1>5

LEMMA CallRejectStep == ProxyInv /\ CallReject => ProxyInv'
<1> SUFFICES ASSUME ProxyInv, CallReject PROVE ProxyInv' OBVIOUS
<1> USE DEF ProxyInv
<1>1. LoadPluginIfNeed /\ UNCHANGED <<task, owner>> /\ Call
  BY DEF CallReject
<1>2. TypeOK'
  BY <1>1, LoadType, EntryBalanced, ProxyAssumption DEF CallReject, Call, TypeOK
<1>3. TasksHoldInstance'
  BY <1>1, LoadKeepsTasks DEF TasksHoldInstance
<1>4. Delayed' = Delayed
  BY <1>1 DEF Delayed
<1>5. UseCountBalanced'
  BY <1>4, EntryBalanced, DelayedFinite DEF CallReject, UseCountBalanced
<1> QED BY <1>2, <1>3, <1>5

LEMMA CallScheduleStep ==
  ASSUME ProxyInv, NEW t \in Tasks, CallSchedule(t)
  PROVE  ProxyInv'
<1> USE DEF ProxyInv
<1>1. LoadPluginIfNeed /\ Call /\ task[t] = "new" /\ task' = [task EXCEPT ![t] = "delayed"]
      /\ owner' = [owner EXCEPT ![t] = instance']
  BY DEF CallSchedule
<1>2. TypeOK'
  BY <1>1, LoadType, EntryBalanced, ProxyAssumption DEF CallSchedule, Call, TypeOK, TaskStates
<1>3. TasksHoldInstance'
  <2> SUFFICES ASSUME NEW u \in Tasks, task'[u] \in {"delayed", "processed"}
               PROVE  held' /\ owner'[u] = instance'
    BY DEF TasksHoldInstance
  <2>1. CASE u = t
    BY <1>1, <2>1, Zenon DEF LoadPluginIfNeed, TypeOK
  <2>2. CASE u # t
    <3>1. task[u] \in {"delayed", "processed"} /\ owner'[u] = owner[u]
      BY <1>1, <2>2 DEF TypeOK
    <3> QED BY <1>1, <3>1, LoadKeepsTasks
  <2> QED BY <2>1, <2>2
<1>4. Cardinality(Delayed') = Cardinality(Delayed) + 1
  BY <1>1, ScheduleCounts
<1>5. UseCountBalanced'
  BY <1>4, EntryBalanced, DelayedFinite DEF CallSchedule, UseCountBalanced
<1> QED BY <1>2, <1>3, <1>5

LEMMA ProcessEventStep ==
  ASSUME ProxyInv, NEW t \in Tasks, ProcessEvent(t)
  PROVE  ProxyInv'
<1> USE DEF ProxyInv
<1>1. TypeOK'
  BY DEF ProcessEvent, TypeOK, TaskStates
<1>2. TasksHoldInstance'
  BY DEF ProcessEvent, TypeOK, TasksHoldInstance
<1>3. Cardinality(Delayed') = Cardinality(Delayed) - 1 /\ Cardinality(Delayed') \in Nat
  <2>1. Cardinality(Delayed') = Cardinality(Delayed) - 1
    BY ProcessCounts DEF ProcessEvent
  <2>2. t \in Delayed
    BY DEF ProcessEvent, Delayed
  <2>3. Cardinality(Delayed) # 0
    BY <2>2, DelayedFinite, FS_EmptySet
  <2> QED BY <2>1, <2>3, DelayedFinite
<1>4. held
  BY DEF ProcessEvent, TasksHoldInstance
<1>5. UseCountBalanced'
  BY <1>3, <1>4, DelayedFinite DEF ProcessEvent, UseCountBalanced, TypeOK
<1> QED BY <1>1, <1>2, <1>5

LEMMA ReleaseStep ==
  ASSUME ProxyInv, NEW t \in Tasks, Release(t)
  PROVE  ProxyInv'
<1> USE DEF ProxyInv
<1>1. TypeOK'
  BY DEF Release, TypeOK, TaskStates
<1>2. TasksHoldInstance'
  BY DEF Release, TypeOK, TasksHoldInstance
<1>3. Delayed' = Delayed
  BY DEF Release, TypeOK, Delayed
<1>4. UseCountBalanced'
  BY <1>3 DEF Release, UseCountBalanced
<1> QED BY <1>1, <1>2, <1>4

(* The idle check drops an instance only when no task holds it.             *)
LEMMA DestroyStep == ProxyInv /\ DestroyInstanceIfNeed => ProxyInv'
<1> SUFFICES ASSUME ProxyInv, DestroyInstanceIfNeed PROVE ProxyInv' OBVIOUS
<1> USE DEF ProxyInv
<1>1. held' \in BOOLEAN
  BY Zenon DEF DestroyInstanceIfNeed, TypeOK
<1>2. UNCHANGED <<instance, useCount, task, owner, calls, leaked>>
  BY DEF DestroyInstanceIfNeed
<1>3. idle' = 0 \/ idle' = idle
  BY Zenon DEF DestroyInstanceIfNeed
<1>4. TypeOK'
  BY <1>1, <1>2, <1>3, ProxyAssumption DEF TypeOK
<1>5. held' \/ Holding = {}
  BY Zenon DEF DestroyInstanceIfNeed
<1>6. TasksHoldInstance'
  BY <1>2, <1>5 DEF TasksHoldInstance, Holding
<1>7. Delayed' = Delayed
  BY <1>2 DEF Delayed
<1>8. held
  BY DEF DestroyInstanceIfNeed
<1>9. UseCountBalanced'
  BY <1>2, <1>7, <1>8 DEF UseCountBalanced
<1> QED BY <1>4, <1>6, <1>9

(* Steps that touch neither tasks nor counts.                               *)
LEMMA QuietStep == ProxyInv /\ (GetHandlerInfo \/ Tick \/ UNCHANGED vars) => ProxyInv'
<1> SUFFICES ASSUME ProxyInv, GetHandlerInfo \/ Tick \/ UNCHANGED vars PROVE ProxyInv' OBVIOUS
<1> USE DEF ProxyInv
<1>1. UNCHANGED <<held, instance, useCount, task, owner, leaked>>
  BY DEF GetHandlerInfo, Tick, vars
<1>2. idle' \in 0..MaxIdleTime /\ calls' \in 0..MaxCalls
  BY ProxyAssumption DEF GetHandlerInfo, Call, Tick, vars, TypeOK
<1>3. TypeOK'
  BY <1>1, <1>2 DEF TypeOK
<1>4. TasksHoldInstance'
  BY <1>1 DEF TasksHoldInstance
<1>5. Delayed' = Delayed
  BY <1>1 DEF Delayed
<1>6. UseCountBalanced'
  BY <1>1, <1>5 DEF UseCountBalanced
<1> QED BY <1>3, <1>4, <1>6

(* The inductive invariant holds in every state of the proxy.               *)
THEOREM ProxyInvariant == Spec => []ProxyInv
<1>1. ProxyInv /\ [Next]_vars => ProxyInv'
  <2> SUFFICES ASSUME ProxyInv, [Next]_vars PROVE ProxyInv' OBVIOUS
  <2>1. CASE CallIdle
    BY <2>1, CallIdleStep
  <2>2. CASE CallReject
    BY <2>2, CallRejectStep
  <2>3. CASE \E t \in Tasks : CallSchedule(t) \/ ProcessEvent(t) \/ Release(t)
    BY <2>3, CallScheduleStep, ProcessEventStep, ReleaseStep
  <2>4. CASE DestroyInstanceIfNeed
    BY <2>4, DestroyStep
  <2>5. CASE GetHandlerInfo \/ Tick \/ UNCHANGED vars
    BY <2>5, QuietStep
  <2> QED BY <2>1, <2>2, <2>3, <2>4, <2>5 DEF Next
<1> QED BY <1>1, ProxyInit, PTL DEF Spec

(* The idle check of plugin_proxy.cpp never drops an instance that a        *)
(* delayed task of FreezeDetectorPlugin still holds.                        *)
THEOREM InstanceOutlivesTasks == Spec => []TasksHoldInstance
<1>1. ProxyInv => TasksHoldInstance
  BY DEF ProxyInv
<1> QED BY <1>1, ProxyInvariant, PTL

(* The use count is exact up to the uses that early returns of              *)
(* OnEventListeningCallback leak, and never negative.                       *)
THEOREM UsesExact == Spec => []UseCountBalanced
<1>1. ProxyInv => UseCountBalanced
  BY DEF ProxyInv
<1> QED BY <1>1, ProxyInvariant, PTL
=============================================================================
