------------------------------ MODULE Platform -------------------------------
(***************************************************************************)
(* The plugin platform (core/hiview_platform.cpp): start-up on the main    *)
(* thread, delayed creation and unloading on the shared work loop, and the *)
(* posting of events to plugins from any thread.                           *)
(*                                                                         *)
(* pluginMap_, pipelines_ and privateWorkLoopMap_ are read and written     *)
(* without a lock. A work loop is an object: two threads that both miss a  *)
(* name in privateWorkLoopMap_ create two loops of that name.              *)
(***************************************************************************)
EXTENDS Integers, Sequences, FiniteSets, SequencesExt

CONSTANTS
  Plugins,
  Groups,     \* the plugin lists of the platform's config and of each bundle, in loading order
  PipeNames,
  PipeGroup,  \* [PipeNames -> DOMAIN Groups]: the config that defines the pipeline
  PipeDef,    \* [PipeNames -> Seq(Plugins)]: the plugins it names
  Delayed,    \* plugins with loadDelay > 0; listed once
  Unready,    \* plugins whose ReadyToLoad returns false
  LoopName,   \* [Plugins -> names \cup {None}]: workHandlerName
  Callers,    \* threads that post events
  Posters,    \* plugins that callers post to
  Unloadable, \* plugins for which RequestUnloadPlugin is called
  MaxUnloads, \* bound on the unload requests waiting in the shared loop
  MaxQueue,   \* bound on the events waiting in a loop
  MaxLoops,   \* bound on the loops created of one name
  Shared,     \* sharedWorkLoop_
  None

Names == {LoopName[p] : p \in Plugins} \ {None}
Creators == {"main", "plat_shared"}
Private == Names \X (1..MaxLoops)
Loops == Private \cup {Shared}

(* How often the configs list p.                                            *)
Listings(p) ==
  Cardinality(UNION {{<<g, i>> : i \in {j \in DOMAIN Groups[g] : Groups[g][j] = p}} : g \in DOMAIN Groups})

ASSUME PlatformAssumption ==
  /\ \A g \in DOMAIN Groups : Groups[g] \in Seq(Plugins)
  /\ PipeGroup \in [PipeNames -> DOMAIN Groups]
  /\ PipeDef \in [PipeNames -> Seq(Plugins)]
  /\ None \notin Loops /\ None \notin Plugins
  /\ MaxLoops \in Nat \ {0}
  /\ \A p \in Delayed : Listings(p) <= 1

VARIABLES
  pluginMap,    \* the plugins in pluginMap_
  life,         \* "absent", "created", "loaded" (OnLoad done) or "unloaded" (OnUnload called)
  workLoop,     \* workLoop_ of each plugin
  workLoopMap,  \* privateWorkLoopMap_: name to loop
  made,         \* how many loops of each name were created
  pipelines,    \* pipelines_: name to processor list
  isReady,      \* isReady_
  started,      \* the event sources are running
  stage,        \* where the main thread is: group, plugin index, phase
  job,          \* the plugin each thread is initialising or unloading, the step and looper
  timers,       \* delayed tasks of the shared loop
  queue,        \* events queued in each loop: the plugins that handle them
  running,      \* the plugin whose OnEvent runs on each loop
  stopped,      \* loops with needQuit_ set by UnloadPlugin
  holder,       \* the plugin each caller holds by shared_ptr
  posting,      \* the loop whose AddEvent each caller is in, past the test of needQuit_
  loads,        \* (history) how often OnLoad was called on each plugin
  early,        \* (history) plugins whose OnEvent ran before OnLoad was done
  late,         \* (history) plugins whose OnEvent ran after OnUnload
  slipped,      \* (history) plugins referenced again after UnloadPlugin counted the references
  misbound,     \* (history) plugins bound to a loop after UnloadPlugin found it unused
  lost          \* (history) plugins of which an event was refused, cleared or kept by a stopped loop

loopMap == <<workLoopMap, made>>
callers == <<holder, posting>>
start == <<pipelines, isReady, started, stage>>
loopState == <<queue, running, stopped>>
history == <<loads, early, late, slipped, misbound, lost>>
vars == <<pluginMap, life, workLoop, loopMap, start, job, timers, loopState, callers, history>>

Job(step, p) == [step |-> step, plugin |-> p, loop |-> None]
Idle == Job("idle", None)

Init ==
  /\ pluginMap = {}
  /\ life = [p \in Plugins |-> "absent"]
  /\ workLoop = [p \in Plugins |-> None]
  /\ workLoopMap = [n \in Names |-> None]
  /\ made = [n \in Names |-> 0]
  /\ pipelines = [n \in PipeNames |-> None]
  /\ isReady = FALSE
  /\ started = FALSE
  /\ stage = [phase |-> "create", group |-> 1, index |-> 1]
  /\ job = [a \in Creators |-> Idle]
  /\ timers = {}
  /\ queue = [l \in Loops |-> <<>>]
  /\ running = [l \in Loops |-> None]
  /\ stopped = {}
  /\ holder = [c \in Callers |-> None]
  /\ posting = [c \in Callers |-> None]
  /\ loads = [p \in Plugins |-> 0]
  /\ early = {}
  /\ late = {}
  /\ slipped = {}
  /\ misbound = {}
  /\ lost = {}

-----------------------------------------------------------------------------
(* CreatePlugin: nothing for a name that exists, a plugin that is not ready *)
(* to load or one that UnloadPlugin has unregistered; afterwards others can *)
(* find the plugin.                                                         *)
CreatePlugin(p) ==
  IF p \in pluginMap \/ p \in Unready \/ life[p] = "unloaded"
  THEN UNCHANGED <<pluginMap, life>>
  ELSE /\ pluginMap' = pluginMap \cup {p}
       /\ life' = [life EXCEPT ![p] = "created"]

Group == Groups[stage.group]
InGroup == stage.index <= Len(Group)
Current == Group[stage.index]
Advance == stage' = [stage EXCEPT !.index = @ + 1]
Enter(phase) == stage' = [stage EXCEPT !.phase = phase, !.index = 1]

(* LoadBusinessPlugin, first loop.                                          *)
MainCreate ==
  /\ stage.phase = "create"
  /\ InGroup
  /\ IF Current \in Delayed
     THEN timers' = timers \cup {[kind |-> "create", plugin |-> Current]} /\ UNCHANGED <<pluginMap, life>>
     ELSE CreatePlugin(Current) /\ UNCHANGED timers
  /\ Advance
  /\ UNCHANGED <<workLoop, loopMap, pipelines, isReady, started, job, loopState, callers, history>>

(* Mutant: the platform is ready as soon as the pipelines exist.            *)
CreatePipelineReady ==
  /\ stage.phase = "create"
  /\ ~InGroup
  /\ pipelines' = [n \in PipeNames |->
       IF pipelines[n] = None /\ PipeGroup[n] = stage.group
       THEN SelectSeq(PipeDef[n], LAMBDA p : p \in pluginMap)
       ELSE pipelines[n]]
  /\ isReady' = TRUE
  /\ Enter("init")
  /\ UNCHANGED <<pluginMap, life, workLoop, loopMap, started, job, timers, loopState, callers, history>>

(* Mutant: a name that is not in pluginMap_ yet stays in the pipeline.      *)
CreatePipelineUnfiltered ==
  /\ stage.phase = "create"
  /\ ~InGroup
  /\ pipelines' = [n \in PipeNames |->
       IF pipelines[n] = None /\ PipeGroup[n] = stage.group THEN PipeDef[n] ELSE pipelines[n]]
  /\ Enter("init")
  /\ UNCHANGED <<pluginMap, life, workLoop, loopMap, isReady, started, job, timers, loopState, callers, history>>

(* CreatePipeline for each pipeline of the config: names without a plugin   *)
(* in pluginMap_ are left out.                                              *)
CreatePipeline ==
  /\ stage.phase = "create"
  /\ ~InGroup
  /\ pipelines' = [n \in PipeNames |->
       IF pipelines[n] = None /\ PipeGroup[n] = stage.group
       THEN SelectSeq(PipeDef[n], LAMBDA p : p \in pluginMap)
       ELSE pipelines[n]]
  /\ Enter("init")
  /\ UNCHANGED <<pluginMap, life, workLoop, loopMap, isReady, started, job, timers, loopState, callers, history>>


(* InitPlugin begins, for a plugin that exists.                             *)
MainInit ==
  /\ stage.phase = "init"
  /\ InGroup
  /\ job["main"] = Idle
  /\ Advance
  /\ job' = IF Current \in pluginMap THEN [job EXCEPT !["main"] = Job("find", Current)] ELSE job
  /\ UNCHANGED <<pluginMap, life, workLoop, loopMap, pipelines, isReady, started, timers, loopState, callers, history>>

(* The next bundle, or the event sources once all are loaded.               *)
MainNext ==
  /\ stage.phase = "init"
  /\ ~InGroup
  /\ job["main"] = Idle
  /\ stage' = IF stage.group < Len(Groups)
              THEN [phase |-> "create", group |-> stage.group + 1, index |-> 1]
              ELSE [stage EXCEPT !.phase = "start"]
  /\ UNCHANGED <<pluginMap, life, workLoop, loopMap, pipelines, isReady, started, job, timers, loopState, callers, history>>

StartEventSource ==
  /\ stage.phase = "start"
  /\ started' = TRUE
  /\ stage' = [stage EXCEPT !.phase = "ready"]
  /\ UNCHANGED <<pluginMap, life, workLoop, loopMap, pipelines, isReady, job, timers, loopState, callers, history>>

SetReady ==
  /\ stage.phase = "ready"
  /\ isReady' = TRUE
  /\ stage' = [stage EXCEPT !.phase = "done"]
  /\ UNCHANGED <<pluginMap, life, workLoop, loopMap, pipelines, started, job, timers, loopState, callers, history>>

-----------------------------------------------------------------------------
(* The loop that UnloadPlugin found unused and is stopping.                 *)
Stopping(l) ==
  /\ job["plat_shared"].step \in {"quit", "clear", "join"}
  /\ job["plat_shared"].loop = l

(* Mutant: a loop is created for every plugin.                              *)
InsertAlways(a) ==
  /\ job[a].step = "find"
  /\ job' = [job EXCEPT ![a].step = IF LoopName[job[a].plugin] = None THEN "load" ELSE "insert"]
  /\ UNCHANGED <<pluginMap, life, workLoop, loopMap, start, timers, loopState, callers, history>>

(* The steps that InitPlugin (main thread) and ScheduleCreateAndInitPlugin  *)
(* (shared loop) have in common: look the loop up, create it, call OnLoad.  *)
GetAvailableWorkLoop(a) ==
  /\ job[a].step = "find"
  /\ LET p == job[a].plugin
         n == LoopName[p]
     IN  IF n # None /\ workLoopMap[n] # None
         THEN /\ workLoop' = [workLoop EXCEPT ![p] = workLoopMap[n]]
              /\ misbound' = IF Stopping(workLoopMap[n]) THEN misbound \cup {p} ELSE misbound
              /\ job' = [job EXCEPT ![a].step = "load"]
         ELSE /\ job' = [job EXCEPT ![a].step = IF n = None THEN "load" ELSE "insert"]
              /\ UNCHANGED <<workLoop, misbound>>
  /\ UNCHANGED <<pluginMap, life, loopMap, start, timers, loopState, callers, loads, early, late, slipped, lost>>

(* insert keeps an entry that another thread made meanwhile, but the plugin *)
(* is bound to the loop created here.                                       *)
InsertWorkLoop(a) ==
  /\ job[a].step = "insert"
  /\ LET p == job[a].plugin
         n == LoopName[p]
         l == <<n, made[n] + 1>>
     IN  /\ made[n] < MaxLoops
         /\ made' = [made EXCEPT ![n] = @ + 1]
         /\ workLoopMap' = [workLoopMap EXCEPT ![n] = IF @ = None THEN l ELSE @]
         /\ workLoop' = [workLoop EXCEPT ![p] = l]
  /\ job' = [job EXCEPT ![a].step = "load"]
  /\ UNCHANGED <<pluginMap, life, start, timers, loopState, callers, history>>

(* OnLoad is called through a reference into pluginMap_, which UnloadPlugin *)
(* may have erased meanwhile; the plugin then stays unloaded.               *)
Loaded(p) == IF life[p] = "unloaded" THEN life ELSE [life EXCEPT ![p] = "loaded"]

(* Mutant: a plugin without a loop of its own is not loaded.                *)
OnLoadThreadOnly(a) ==
  /\ job[a].step = "load"
  /\ life' = IF workLoop[job[a].plugin] = None THEN life ELSE Loaded(job[a].plugin)
  /\ job' = [job EXCEPT ![a] = Idle]
  /\ UNCHANGED <<pluginMap, workLoop, loopMap, start, timers, loopState, callers, history>>

OnLoad(a) ==
  /\ job[a].step = "load"
  /\ life' = Loaded(job[a].plugin)
  /\ loads' = [loads EXCEPT ![job[a].plugin] = @ + 1]
  /\ job' = [job EXCEPT ![a] = Idle]
  /\ UNCHANGED <<pluginMap, workLoop, loopMap, start, timers, loopState, callers, early, late, slipped, misbound, lost>>

(* The shared loop is busy with one task at a time.                         *)
SharedFree == job["plat_shared"] = Idle /\ running[Shared] = None

ScheduleCreateAndInitPlugin(p) ==
  /\ SharedFree
  /\ [kind |-> "create", plugin |-> p] \in timers
  /\ timers' = timers \ {[kind |-> "create", plugin |-> p]}
  /\ CreatePlugin(p)
  /\ job' = IF p \in pluginMap' THEN [job EXCEPT !["plat_shared"] = Job("find", p)] ELSE job
  /\ UNCHANGED <<workLoop, loopMap, start, loopState, callers, history>>

-----------------------------------------------------------------------------
(* References to a plugin besides the map's.                                *)
Referenced(p) ==
  \/ \E c \in Callers : holder[c] = p
  \/ \E l \in Loops : running[l] = p \/ p \in ToSet(queue[l])

(* A plugin asks for its own unloading, at any time once it exists.         *)
RequestUnloadPlugin(p) ==
  /\ p \in Unloadable
  /\ life[p] # "absent"
  /\ Cardinality({t \in timers : t.kind = "unload"}) < MaxUnloads
  /\ timers' = timers \cup {[kind |-> "unload", plugin |-> p]}
  /\ UNCHANGED <<pluginMap, life, workLoop, loopMap, start, job, loopState, callers, history>>

(* Mutant: the references are not counted.                                  *)
UnloadUncounted(p) ==
  /\ SharedFree
  /\ [kind |-> "unload", plugin |-> p] \in timers
  /\ timers' = timers \ {[kind |-> "unload", plugin |-> p]}
  /\ pluginMap' = pluginMap \ {p}
  /\ life' = [life EXCEPT ![p] = "unloaded"]
  /\ UNCHANGED <<workLoop, loopMap, start, job, loopState, callers, history>>

(* UnloadPlugin counts the references and gives up if there are more.       *)
UnloadCount(p) ==
  /\ SharedFree
  /\ [kind |-> "unload", plugin |-> p] \in timers
  /\ timers' = timers \ {[kind |-> "unload", plugin |-> p]}
  /\ job' = IF p \in pluginMap /\ ~Referenced(p)
            THEN [job EXCEPT !["plat_shared"] = Job("erase", p)] ELSE job
  /\ UNCHANGED <<pluginMap, life, workLoop, loopMap, start, loopState, callers, history>>

(* Mutant: the plugin's loop is stopped without asking whether it has one.  *)
UnloadEraseAnyLoop ==
  /\ job["plat_shared"].step = "erase"
  /\ LET p == job["plat_shared"].plugin IN
     /\ pluginMap' = pluginMap \ {p}
     /\ life' = [life EXCEPT ![p] = "unloaded"]
     /\ stopped' = stopped \cup {workLoop[p]}
  /\ job' = [job EXCEPT !["plat_shared"] = Idle]
  /\ UNCHANGED <<workLoop, loopMap, start, timers, queue, running, callers, history>>

(* The plugin leaves the map and its OnUnload is called.                    *)
UnloadErase ==
  /\ job["plat_shared"].step = "erase"
  /\ LET p == job["plat_shared"].plugin IN
     /\ pluginMap' = pluginMap \ {p}
     /\ life' = [life EXCEPT ![p] = "unloaded"]
     /\ job' = [job EXCEPT !["plat_shared"] =
                  IF workLoop[p] = None THEN Idle ELSE [Job("stop", p) EXCEPT !.loop = workLoop[p]]]
  /\ UNCHANGED <<workLoop, loopMap, start, timers, loopState, callers, history>>

(* Mutant: the loop is stopped although another plugin uses it.             *)
UnloadStopAny ==
  /\ job["plat_shared"].step = "stop"
  /\ job' = [job EXCEPT !["plat_shared"].step = "quit"]
  /\ UNCHANGED <<pluginMap, life, workLoop, loopMap, start, timers, loopState, callers, history>>

(* Only a loop that nothing else refers to is stopped: no other plugin that *)
(* still exists, and no caller in its AddEvent.                             *)
UnloadStop ==
  /\ job["plat_shared"].step = "stop"
  /\ LET p == job["plat_shared"].plugin
         l == job["plat_shared"].loop
         inUse == \E q \in Plugins \ {p} : workLoop[q] = l /\ (life[q] # "unloaded" \/ Referenced(q))
         copied == \E c \in Callers : posting[c] = l
     IN  job' = IF inUse \/ copied THEN [job EXCEPT !["plat_shared"] = Idle]
                ELSE [job EXCEPT !["plat_shared"].step = "quit"]
  /\ UNCHANGED <<pluginMap, life, workLoop, loopMap, start, timers, loopState, callers, history>>

(* StopLoop: needQuit_ is set, then the queue is cleared under its mutex ...*)
StopLoopQuit ==
  /\ job["plat_shared"].step = "quit"
  /\ stopped' = stopped \cup {job["plat_shared"].loop}
  /\ job' = [job EXCEPT !["plat_shared"].step = "clear"]
  /\ UNCHANGED <<pluginMap, life, workLoop, loopMap, start, timers, queue, running, callers, history>>

StopLoopClear ==
  /\ job["plat_shared"].step = "clear"
  /\ LET l == job["plat_shared"].loop IN
     /\ lost' = lost \cup ToSet(queue[l])
     /\ queue' = [queue EXCEPT ![l] = <<>>]
  /\ job' = [job EXCEPT !["plat_shared"].step = "join"]
  /\ UNCHANGED <<pluginMap, life, workLoop, loopMap, start, timers, running, stopped, callers, loads, early, late, slipped, misbound>>

(* ... and the thread joined; the name is erased from the map.              *)
UnloadJoin ==
  /\ job["plat_shared"].step = "join"
  /\ LET l == job["plat_shared"].loop IN
     /\ running[l] = None
     /\ workLoopMap' = [workLoopMap EXCEPT ![l[1]] = None]
  /\ job' = [job EXCEPT !["plat_shared"] = Idle]
  /\ UNCHANGED <<pluginMap, life, workLoop, made, start, timers, loopState, callers, history>>

-----------------------------------------------------------------------------
Unloading(p) == job["plat_shared"].plugin = p /\ job["plat_shared"].step \in {"erase", "stop", "quit", "clear", "join"}

(* A caller finds the plugin: PostAsyncEventToTarget through pluginMap_     *)
(* once isReady_, a pipeline through its weak_ptr once the sources run,     *)
(* which locks as long as anybody, UnloadPlugin included, holds the plugin. *)
Find(c, p) ==
  /\ holder[c] = None
  /\ p \in Posters
  /\ \A l \in Loops : Len(queue[l]) < MaxQueue
  /\ \/ isReady /\ p \in pluginMap
     \/ /\ started
        /\ \E n \in PipeNames : p \in ToSet(pipelines[n])
        /\ p \in pluginMap \/ Referenced(p) \/ Unloading(p)
  /\ holder' = [holder EXCEPT ![c] = p]
  /\ slipped' = IF Unloading(p) THEN slipped \cup {p} ELSE slipped
  /\ UNCHANGED <<pluginMap, life, workLoop, loopMap, start, job, timers, loopState, posting, loads, early, late, misbound, lost>>

(* Then it turns to the plugin's loop, or to the shared loop: AddEvent      *)
(* refuses the event if needQuit_ is set, which the caller does not notice. *)
AddEventTest(c) ==
  /\ holder[c] # None /\ posting[c] = None
  /\ LET p == holder[c]
         l == IF workLoop[p] = None THEN Shared ELSE workLoop[p]
     IN  IF l \in stopped
         THEN /\ lost' = lost \cup {p}
              /\ holder' = [holder EXCEPT ![c] = None]
              /\ UNCHANGED posting
         ELSE /\ posting' = [posting EXCEPT ![c] = l]
              /\ UNCHANGED <<holder, lost>>
  /\ UNCHANGED <<pluginMap, life, workLoop, loopMap, start, job, timers, loopState, loads, early, late, slipped, misbound>>

(* The rest of AddEvent, under queueMutex_; a loop that was cleared keeps   *)
(* the event.                                                               *)
AddEvent(c) ==
  /\ posting[c] # None
  /\ LET p == holder[c]
         l == posting[c]
         cleared == l \in stopped /\ ~(job["plat_shared"].step = "clear" /\ Stopping(l))
     IN  /\ queue' = [queue EXCEPT ![l] = Append(@, p)]
         /\ lost' = IF cleared THEN lost \cup {p} ELSE lost
  /\ holder' = [holder EXCEPT ![c] = None]
  /\ posting' = [posting EXCEPT ![c] = None]
  /\ UNCHANGED <<pluginMap, life, workLoop, loopMap, start, job, timers, running, stopped, loads, early, late, slipped, misbound>>

(* Mutant: an event waits until its plugin is loaded.                       *)
OnEventLoaded(l) ==
  /\ running[l] = None
  /\ l = Shared => job["plat_shared"] = Idle
  /\ l \notin stopped
  /\ queue[l] # <<>>
  /\ life[Head(queue[l])] = "loaded"
  /\ running' = [running EXCEPT ![l] = Head(queue[l])]
  /\ queue' = [queue EXCEPT ![l] = Tail(@)]
  /\ UNCHANGED <<pluginMap, life, workLoop, loopMap, start, job, timers, stopped, callers, history>>

(* The loop calls OnEvent.                                                  *)
OnEvent(l) ==
  /\ running[l] = None
  /\ l = Shared => job["plat_shared"] = Idle
  /\ l \notin stopped
  /\ queue[l] # <<>>
  /\ LET p == Head(queue[l]) IN
     /\ running' = [running EXCEPT ![l] = p]
     /\ early' = IF life[p] = "created" THEN early \cup {p} ELSE early
     /\ late' = IF life[p] = "unloaded" THEN late \cup {p} ELSE late
  /\ queue' = [queue EXCEPT ![l] = Tail(@)]
  /\ UNCHANGED <<pluginMap, life, workLoop, loopMap, start, job, timers, stopped, callers, loads, slipped, misbound, lost>>

Return(l) ==
  /\ running[l] # None
  /\ running' = [running EXCEPT ![l] = None]
  /\ UNCHANGED <<pluginMap, life, workLoop, loopMap, start, job, timers, queue, stopped, callers, history>>

Main == MainCreate \/ CreatePipeline \/ MainInit \/ MainNext \/ StartEventSource \/ SetReady
Unload == UnloadErase \/ UnloadStop \/ StopLoopQuit \/ StopLoopClear \/ UnloadJoin
Post(c) == AddEventTest(c) \/ AddEvent(c)
Create(a) == GetAvailableWorkLoop(a) \/ InsertWorkLoop(a) \/ OnLoad(a)

Next ==
  \/ Main
  \/ \E a \in Creators : Create(a)
  \/ \E p \in Plugins : ScheduleCreateAndInitPlugin(p) \/ RequestUnloadPlugin(p) \/ UnloadCount(p)
  \/ Unload
  \/ \E c \in Callers, p \in Plugins : Find(c, p)
  \/ \E c \in Callers : Post(c)
  \/ \E l \in Loops : OnEvent(l) \/ Return(l)

Spec == Init /\ [][Next]_vars

(* The main thread, the loop threads and the callers run. The shared loop   *)
(* also runs creations and unloads, and takes each queued event in the end. *)
FairSpec ==
  /\ Spec
  /\ WF_vars(Main)
  /\ \A a \in Creators : WF_vars(Create(a))
  /\ WF_vars(Unload)
  /\ \A c \in Callers : WF_vars(Post(c))
  /\ \A l \in Loops : WF_vars(Return(l))
  /\ \A l \in Private : WF_vars(OnEvent(l))
  /\ SF_vars(OnEvent(Shared))

-----------------------------------------------------------------------------
Steps == {"idle", "find", "insert", "load", "erase", "stop", "quit", "clear", "join"}

TypeOK ==
  /\ pluginMap \subseteq Plugins
  /\ life \in [Plugins -> {"absent", "created", "loaded", "unloaded"}]
  /\ workLoop \in [Plugins -> Private \cup {None}]
  /\ workLoopMap \in [Names -> Private \cup {None}]
  /\ \A n \in PipeNames : pipelines[n] = None \/ pipelines[n] \in Seq(Plugins)
  /\ isReady \in BOOLEAN /\ started \in BOOLEAN
  /\ stage.group \in DOMAIN Groups
  /\ job \in [Creators -> [step : Steps, plugin : Plugins \cup {None}, loop : Private \cup {None}]]
  /\ timers \subseteq [kind : {"create", "unload"}, plugin : Plugins]
  /\ queue \in [Loops -> Seq(Plugins)]
  /\ running \in [Loops -> Plugins \cup {None}]
  /\ stopped \subseteq Private
  /\ holder \in [Callers -> Plugins \cup {None}]
  /\ posting \in [Callers -> Loops \cup {None}]

(* Once the event sources run, every processor of every pipeline has had    *)
(* its OnLoad, whichever bundle defined it; a plugin created with a delay   *)
(* may have entered a later bundle's pipeline just before.                  *)
PipelinesLoaded ==
  started => \A n \in PipeNames : \A p \in ToSet(pipelines[n]) :
    life[p] \in {"loaded", "unloaded"} \/ p \in Delayed


(* OnEvent runs before OnLoad is done only for plugins created with a delay.*)
EarlyOnlyIfDelayed == early \subseteq Delayed

(* OnEvent runs after OnUnload only for a plugin that a caller found after  *)
(* UnloadPlugin had counted its references.                                 *)
LateOnlyIfSlipped == late \subseteq slipped

(* Plugins configured for one thread share one loop, unless one plugin of   *)
(* that thread is created with a delay, or one of the two was unloaded.     *)
OneLoopPerName ==
  \A p, q \in Plugins :
    LoopName[p] = LoopName[q] /\ workLoop[p] # None /\ workLoop[q] # None
      /\ workLoop[p] # workLoop[q]
      => \/ \E r \in Delayed : LoopName[r] = LoopName[p]
         \/ life[p] = "unloaded" \/ life[q] = "unloaded"

(* plugin-lifecycle.md: plugins of one sharedthread share the EventLoop.    *)
SharedThreadIsShared ==
  \A p, q \in Plugins :
    LoopName[p] = LoopName[q] /\ life[p] = "loaded" /\ life[q] = "loaded" => workLoop[p] = workLoop[q]

(* An event gets lost only if its plugin was found after UnloadPlugin had   *)
(* counted its references, or was bound to a loop that UnloadPlugin had     *)
(* already found unused: stopping a loop harms no other plugin.             *)
LostOnlyIfSlipped == lost \subseteq slipped \cup misbound

(* Every loop that is not stopped executes the events it was given.         *)
QueuesDrain == \A l \in Loops : (queue[l] # <<>>) ~> (queue[l] = <<>> \/ l \in stopped)
=============================================================================
