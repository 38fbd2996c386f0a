# Hiview in TLA+: models, runs and proofs

Hiview is the diagnostics service of OpenHarmony. One process hosts a platform that loads
plugins, gives them event loops, and carries events from event sources through pipelines
of plugins. On that platform run the fault logger, the event logger, the freeze and leak
detectors, the event store with its export, the system-event service, the unified
collector with its trace manager, and a number of smaller plugins.

This directory models the platform and the trace manager, checks the models with TLC and
proves the most important facts with TLAPS. Paths are relative to the repository's `src/`.

## 1. The system and its parts

| part | where | how it interacts |
|---|---|---|
| event loop | base/event_loop.cpp | one thread per loop; any thread adds, removes and waits for events, starts and stops it |
| pipeline delivery | base/pipeline.cpp, base/plugin.cpp, base/event_source.cpp | sources publish, loops run the plugins' OnEvent, plugins finish, suspend or delay an event |
| plugin proxy | base/plugin_proxy.cpp | loads FreezeDetectorPlugin on demand; a periodic check drops it |
| platform | core/hiview_platform.cpp, core/plugin_bundle.cpp | main thread starts up; the shared loop creates delayed plugins and unloads; callers post |
| trace manager | framework/native/unified_collection/trace_manager | one machine under traceMutex_, driven by the service, the collectors and switch watchers |
| telemetry | plugins/unified_collector/observer, power; trace_manager/telemetry | sessions on top of the trace manager, with timers, a database row and the screen |
| trace flow control, strategies, cache monitor | trace_manager/src, collector/impl/trace, unified_collector/task | quotas for dumps; switches the trace cache |
| collectors | framework/native/unified_collection/collector | read /proc and drivers, called through decorators |
| event source | plugins/sysevent_source | receives raw events, throttles, publishes to the pipeline |
| event store | plugins/event_store, base/event_store | files of events, sequence numbers, duplicates, query, export |
| event service | adapter/plugins/eventservice | remote listeners and queries |
| event dispatcher | plugins/sys_dispatcher | a pipeline's plugin that calls the platform's event listeners |
| event publication | base/event_publish | hands events to applications with two helper threads |
| event logger, log catchers | plugins/eventlogger | collects logs for an event that it suspends in the pipeline |
| freeze detector | plugins/freeze_detector | matches events by rules in delayed tasks |
| fault logger | plugins/faultlogger | saves fault logs, scans at boot, drives extensions and dynamic libraries |
| reliability | plugins/reliability, plugins/crash_validator | black-box recovery, leak states, crash statistics |
| usage report, event validator, privacy | plugins/usage_event_report, event_validator, privacy_controller | per-event filters and daily reports |
| performance | plugins/performance | task queue, scene and video monitors |
| configuration update, service, retrieval | core/param_update, service, hiretrieval | outside requests |

`PROJECT.json` lists all 50 components with their status, and the 40 hazards that matter
most, each at its line. Section 6 names further ones that no property covers.

## 2. Modules

| module | role |
|---|---|
| EventLoop, MCEventLoop, EventLoopProofs | one event loop, its instances, its theorems |
| EventDelivery | what pipeline delivery promises: in order, at most once, nothing after the end |
| Pipeline, MCPipeline | the code of the delivery, shown to implement EventDelivery |
| PluginProxy, MCPluginProxy, PluginProxyProofs | the proxied plugin and its use count |
| Platform, MCPlatform | start-up, delayed creation, work loops, posting, unloading |
| TraceState, MCTraceState, TraceStateProofs | the trace state machine and its callers |
| Telemetry, MCTelemetry | telemetry sessions on the trace state machine |

A module X declares constants and variables, has one action per operation of the code and
states the properties. MCX gives the constants values. A definition whose comment begins
with "Mutant" is a wrong version of the definition after it; each property is refuted when
one such version takes the place of the right one.

### EventLoop

An element of Events stands for one call of AddEvent, AddEventForResult or AddTimerEvent
together with the LoopEvent it creates, so calls of different threads overlap. A call has
two steps because the code tests needQuit_ and reads the clock before it takes
queueMutex_. The loop thread's program counter walks through ProcessQueuedEvent,
FetchNextEvent, ProcessEvent, ReInsertPeriodicEvent and WaitNextEvent, and StopLoop is a
thread of its own with one step per critical section. Time is in ticks; a millisecond is
MilliTick ticks, so the cut to milliseconds loses something, and IntMax is the constant
that the code uses both as "queue empty" and as epoll's widest timeout. History variables
say for which target the current sleep was computed (armedFor) and whether a wake-up was
skipped on a left-over nextWakeupTime_ (missed).

### Pipeline and EventDelivery

A thread is a loop or a source; its stack holds the activations of OnEventProxy and
OnContinue under way on it, because a plugin without a loop is called inside the
activation of the plugin before it. A plugin with a loop gets a job in that loop's queue.
EventLogger's way of suspending an event (hasPending_, an ffrt task, a timer that resumes)
is an action of its own. The rules of PublishPipelineEvent are tried in the order of the
map. UnloadPlugin walks through its steps next to all this: it counts the references, takes
the plugin off the map, looks at the loop's use count, sets needQuit_, clears the queue,
joins the thread. AddEvent tests needQuit_ in one step and pushes in another, so an event
can be refused, cleared, or left in a loop that nobody serves any more; `slipped` records
which events were handed over after the count. No plugin in `src/` calls OnContinue from
its OnEvent; HandleContinue is there because OnEventProxy tests for it. The abstract
specification EventDelivery only knows which plugins an event has reached and whether it
ended, was given up or dropped.

### PluginProxy

lock_ is held over each proxied call and over the idle check, so each is one action. The
delayed tasks of FreezeDetectorPlugin run outside it; they hold the instance and count as
uses. `leaked` counts the uses that a callback adds and no task gives back.

### Platform

The maps of HiviewPlatform have no lock; lookup and insertion in GetAvailableWorkLoop are
two steps, taken by the main thread and by the shared loop. `stage` is where start-up is,
`job` the plugin each creating thread is at, `timers` the delayed creations and unloads.
A caller finds a plugin, holds it, tests needQuit_ of its loop, and pushes in a later step.
UnloadPlugin has the same steps as in Pipeline. A plugin may ask for its unloading from the
moment it exists, so unloading also runs beside start-up: InitPlugin then holds a reference
into pluginMap_ whose entry is gone (the model lets it go on with the object), or takes a
loop from the map that UnloadPlugin is about to stop (`misbound`).

### TraceState

The machine is one record `sm`; TransTo, OpenTrace, CloseTrace and RefreshState are
functions of it and of the set f of hitrace calls that fail, because every operation runs
under traceMutex_. `kernel`, `rec` and `kc` are what the kernel really traces, records
and caches, so that KernelAgrees relates belief and fact. Dumps of application traces
are several steps, since the check of the process and the dump are separate calls.

### Telemetry

One session is one accepted "on" message with its callback object: the record cb[n]
holds isTraceOn_, isTaskOn_, traceOnStartTime_ and when the counting task wakes. One tick
is that task's period. `inner` is TeleMetryStateMachine. traceMutex_ is explicit only
where its holder waits for PowerStatusManager::mutex_. The value of the screen is chosen
when a listener appears, because nobody looks at it before. Whether a session filtered
system abilities matters only at its end and is chosen there. Scenarios of a higher level
are a single actor; they are detailed in TraceState, where in turn telemetry is one state.
Modules may call FilterTraceOn and FilterTraceOff in any order and number. `held` counts,
for each, the calls that await their answer, and `unmatched` records that a FilterTraceOff
which answers nothing changed the machine.

## 3. Runs

| run | result | what it shows |
|---|---|---|
| event_loop | holds | no event runs early; no queued event is slept through unless a wake-up was skipped on a left-over time; the epoll timeout never exceeds the time left; nothing runs after StopLoop; a removed event never starts again; an immediate event is executed and StopLoop returns |
| event_loop_stale_wakeup | violated | without the exception a timer is slept through |
| event_loop_sync_stop | violated | a caller that waits for a result is never answered if StopLoop comes between its test and its push |
| pipeline | holds | one carrier per event, one Recycle, no front() of an empty list, no interested plugin left out, EventDelivery implemented; every event ends, is given up by the plugin that suspended it, or is dropped because it slipped past the reference count of an unloading plugin |
| plugin_proxy | holds | no instance is dropped under a task; the use count is exact; an idle instance without leaked use is dropped |
| plugin_proxy_leak | violated | a callback that returns early keeps the plugin loaded for ever |
| platform | holds | all processors are loaded before sources start; OnEvent outside the loaded life only in two named cases; OnLoad once per config that lists the plugin and once more after delayed creation; one loop per thread name unless a plugin of that thread was delayed or one of the two unloaded; stopping a loop loses events only of plugins that slipped past a count of UnloadPlugin; a loop that is not stopped executes its events |
| platform_thread_race | violated | two loops for one thread name |
| trace_state | holds | kernel and machine agree unless a hitrace call failed or another process interfered; displaced common recording comes back; the command flag; a system dump is the asker's own; an application trace always has a stop; no open takes the trace from a higher level |
| trace_state_close | violated | beta recording cannot be closed by command after a command trace ended in its drop state |
| telemetry | holds | no trace-on time is counted twice; modules that balance their calls keep the trace on, and at most one count is left that nobody holds; a trace with no count left has a timer that ends its post time; the power policy follows the screen; a budget in use is watched. Each up to a left-over task, an overtaken timer or a failed hitrace call where its comment says so |
| telemetry_locks | violated | traceMutex_ and the power manager's mutex_ are taken in opposite orders |

### Bounds

- event_loop: two events and a clock of three ticks. A timer can be set, removed, fired,
  put back and overtaken by the second event. The calls are interchangeable, and only the
  first may also add a one-shot timer: of the pairs of kinds, two one-shot timers are left
  out, which the proofs cover for the safety properties and no run for the two liveness
  properties. Interval 100 lies beyond the clock and IntMax is 3, so both
  INT_MAX cases occur. AddEvent differs from AddEventForResult only in the future and is
  represented by it.
- pipeline: two events, five plugins, three loops. The two plugins of one loop can be
  unloaded, one plugin has no loop, two pipelines overlap and two rules match one event.
  One DelayProcessEvent per event.
- plugin_proxy: three tasks, five callbacks and an idle time of two ticks, so that an
  instance is dropped and loaded again while tasks of the new one wait.
- platform: a platform config and a bundle with five plugins: one delayed with a thread
  of its own, two on one thread, one without a thread and in both configs, one not ready.
  One of the two on a thread can be unloaded, so unloading meets a loop still in use, a loop
  with its last user, and, during start-up, a plugin without its loop. One caller, one event
  waiting at a time, one waiting unload request. Two loops may be created of each name, and
  no behaviour of the instance asks for a third.
- trace_state: two processes, at most one failing hitrace call per operation, one pending
  stop per process; commercial and beta device, in developer mode (trace_state_close:
  one process, no developer mode).
- telemetry: one manual session with two modules, two post times and a count of at most
  three, or a session of the
  power or default policy followed by one of the default policy. Two ticks and a budget
  of one tick make samples, timeouts and post ends coincide.

The two processes of trace_state and the two modules of telemetry are symmetric: nothing
tells them apart, and the runs check invariants and an action property only.

### Fairness

The run event_loop_sync_stop and the temporal properties of event_loop, pipeline,
plugin_proxy, plugin_proxy_leak and platform use a FairSpec; the rest is safety.

- Weakly fair: the loop threads, the stopping thread, UnloadPlugin once begun, callers inside a call, the main
  thread, delayed tasks, ffrt tasks and the clock. The operating system schedules them.
- Strongly fair, Platform: the shared loop's OnEvent. That loop also runs creations and
  unloads, which disable the action for a while; its queue is served in turn.
- Strongly fair, PluginProxy: the check of an idle instance. Its period checkIdlePeriod_ is
  half the idle time, so it meets an instance that is idle again and again.

Nobody is obliged to add, post, start or stop anything.
Deadlock checking is on in the two trace_state runs and off elsewhere, where the bounded
clock or number of calls lets the system come to rest.

## 4. Proved

The theorems hold for every value of the constants under the ASSUME of their module.
LoopAssumption: numbers are naturals, a millisecond has at least one tick, kinds are the
four known ones, None is no event. ProxyAssumption: two naturals and a finite set of tasks.
TraceStateAssumption: the failing calls are hitrace calls and at least one stop may wait.
The theorems are about Spec, without fairness.

EventLoopProofs. LoopInv is inductive: the types; what the loop thread holds at each
program counter (CurrentInv, from which NeverEarly follows); the relation of needQuit_,
isRunning_, the loop thread and the stopping thread (StopInv); the cover of a sleep that is about to start
as well as of one that has started (SleepInv: SleepCoversQueueUnlessMissed alone is not
inductive, as the sleep is computed one step earlier); and where a cancelled event can be
(CancelInv, which gives the action property RemovedNeverRestarts).

PluginProxyProofs. ProxyInv joins TypeOK, TasksHoldInstance and UseCountBalanced. They
need each other: the check drops the instance only at use count zero, which means that no
task is delayed only if the count is exact. Two lemmas say how scheduling and running
one task change the number of delayed tasks.

TraceStateProofs. OpenSound, CloseKernelSound, CloseStateSound and RefreshSound say what
the functions on the machine record do for any set of failing calls. IInv joins the
agreement with the kernel, the switch rule and the command flag with the ownership of
dumps and the pending stops. StepInv has one case per action and also yields
OnlyOwnerLowers, an action property.

Only model-checked: liveness; the properties of Pipeline, Platform and Telemetry,
including the refinement of EventDelivery; the properties of the violation runs.

## 5. Disagreements found

Each is a run whose property quotes a comment or a document, listed with its line under
"findings" in `PROJECT.json`: the left-over nextWakeupTime_, the result call that races
StopLoop, the leaked use of FreezeDetectorPlugin, the unlocked lookup of work loops, the
command flag after the drop state, the lock order of the power policy.

Cases that the passing runs exclude by name rather than treat as disagreements:

- A timer exactly INT_MAX nanoseconds away is taken for an empty queue, and one further
  than INT_MAX milliseconds does not fit the timeout (TimeoutWithinLeftUnlessIntMax).
- A plugin created with a delay can be loaded twice, and can get an event before OnLoad.
  A plugin listed by two configs is loaded twice, although its second creation is refused.
- A caller that finds a plugin after UnloadPlugin counted its references can reach it
  after OnUnload, and its event can be refused, cleared or kept by the stopped loop
  (slipped). A plugin that start-up binds to a loop being stopped gets no events (misbound).
- A FilterTraceOff without its FilterTraceOn takes the hold of another module (unmatched).
  One during a post time leaves a count of one, so the end of the post time does not switch
  the trace off; a further FilterTraceOff or the end of the session does.
- Two FilterTraceOn calls can arm their timers in the wrong order, and then a post time
  has no timer that ends it (overtaken).
- A telemetry session without filtered system abilities leaves its counting task alive
  (stale); its time is added to the row of its id and it may close a later session.

## 6. Not modelled

Of the modelled parts: watched file descriptors of the event loop; the timestamp of
OnRepack and AppendProcessor on a travelling event; the unordered dispatch queue and the
listener tables of the platform; size quotas and filter parameters of telemetry.

Hazards of the modelled code outside the models: the torn read of a map or shared pointer
that another thread changes (pluginMap_, eventSourceMap_, currentState_ in
GetCurrentAppInfo), where the models take whole operations as atomic; the dump of an
application trace after its process check, which does not exclude an open by another
process; a failing SetTraceStatus while the inner telemetry machine is set up, after which
its state is null and Telemetry stops; and interfaces that no code in the repository uses in the
dangerous way (PostSyncEventToTarget between loops, DelayProcessEvent by a plugin that is
unloaded, a proxied plugin that publishes to itself).

Other parts are left out for one of three reasons given per component in `PROJECT.json`:
they only read, format or copy (collectors, parsers, fault log texts, language bindings,
utilities); they hold no state of their own (decorators, privacy filter); or they are
planned below.

## 7. Plan

Order of work, the most shared behaviour first:

1. CacheMonitor with TraceFlow: the monitor loop and its interrupt, daily quotas of cache
   time and of trace bytes, checked together with the cache switch of TraceState.
   Theorem: used quota never exceeds the limit by more than one interval or one file.
2. EventSequence and EventStore: sequence numbers over crashes between the two files,
   document rotation and the disk quota. Abstract specification: numbers never repeat.
   Theorem: that specification is implemented for any increment.
3. EventExport: tasks, ranges and the switch observer; stop and start during a sleep.
4. EventService and EventPublish: listeners, their death, the two sending threads.
5. EventLogger tasks and the freeze resolver, composed with Pipeline's suspended events.
6. Faultlogger with boot scan, DynamicLibrary and the extension connections.
7. File descriptors in EventLoop and the unordered dispatch in Platform.
8. Leak states, black-box recovery, PerfCollector's use count, TaskContainer, usage
   report and event validator as small machines.

Independent components will share an instance: an initial choice selects the machine, so
states add up instead of multiplying and the number of runs stays small. Violation runs
that answer a settled question give way to new ones. Proof work continues with Pipeline
(OneCarrier, then the refinement of EventDelivery) and Telemetry (NeverOvercounts).
