------------------------------ MODULE Pipeline -------------------------------
(***************************************************************************)
(* Delivery of pipeline events (base/pipeline.cpp, base/plugin.cpp,        *)
(* plugins/sysevent_source/sysevent_source.cpp).                           *)
(*                                                                         *)
(* A thread is an event loop or an event source. Its stack holds the       *)
(* activations of Plugin::OnEventProxy and PipelineEvent::OnContinue that  *)
(* are under way on it. A plugin with a work loop gets the event through   *)
(* that loop's queue, any other plugin is called on the current thread.    *)
(* EventLogger's way of suspending an event is modelled with it: the event *)
(* is marked pending, worked on in an ffrt queue, and resumed by a timer   *)
(* on the plugin's own work loop. HiviewPlatform::UnloadPlugin runs beside *)
(* it, on the platform's shared loop, and may stop a plugin's loop.        *)
(***************************************************************************)
EXTENDS Integers, Sequences, FiniteSets, SequencesExt

CONSTANTS
  Events,       \* the events published
  Plugins,
  Loops,        \* the event loops
  Sources,      \* the event source threads
  Inline,       \* stands for "no work loop"
  LoopOf,       \* [Plugins -> Loops \cup {Inline}]: GetWorkLoop()
  Rules,        \* pipelineRules_ in its order: pipelines and the events FindEvent holds for
  Default,      \* the pipeline named SysEventPipeline, or NoPipeline
  NoPipeline,
  Interested,   \* the (plugin, event) pairs for which IsInterestedPipelineEvent holds
  Finishers,    \* plugins that may call OnFinish
  Suspenders,   \* plugins that may suspend an event as EventLogger does
  Delayers,     \* plugins that may call DelayProcessEvent
  Continuers,   \* plugins that may call OnContinue themselves
  Unloadable,   \* plugins that may ask to be unloaded
  MaxDelays     \* bound on DelayProcessEvent calls per event

Pipelines == {Rules[i].pipeline : i \in DOMAIN Rules} \cup ({Default} \ {NoPipeline})

ASSUME PipelineAssumption ==
  /\ LoopOf \in [Plugins -> Loops \cup {Inline}]
  /\ Inline \notin Loops
  /\ Loops \cap Sources = {}
  /\ \A p \in Suspenders : LoopOf[p] # Inline
  /\ Unloadable \cap (Suspenders \cup Delayers) = {}  \* their timers hold a bare this
  /\ \A s \in Pipelines : s \in Seq(Plugins) /\ Len(s) = Cardinality(ToSet(s))

VARIABLES
  processors,  \* processors_ of each event
  hasFinish,   \* hasFinish_
  hasPending,  \* hasPending_
  stack,       \* the activations on each thread
  queue,       \* the jobs waiting in each loop
  async,       \* suspended events being worked on in the ffrt queue
  alive,       \* the plugins that pluginMap_ or UnloadPlugin still holds
  unload,      \* the plugin UnloadPlugin is at, and its next step
  quit,        \* the loops with needQuit_ set
  recycled,    \* how often Recycle was called for each event
  emptyFront,  \* front() was taken of an empty list
  delays,      \* DelayProcessEvent calls per event
  slipped,     \* (history) the (plugin, event) pairs handed over after UnloadPlugin counted
  state, route, reached   \* (history) as in EventDelivery

flags == <<hasFinish, hasPending, recycled, emptyFront, delays>>
history == <<state, route, reached>>
loading == <<alive, unload, quit, slipped>>
vars == <<processors, flags, stack, queue, async, loading, history>>

Threads == Loops \cup Sources

Frame(e, p, step, size) == [event |-> e, plugin |-> p, step |-> step, size |-> size]
Job(kind, e, p) == [kind |-> kind, event |-> e, plugin |-> p]

Top(t) == Last(stack[t])
At(t, step) == stack[t] # <<>> /\ Top(t).step = step
Below(t) == Front(stack[t])

Return(t) == stack' = [stack EXCEPT ![t] = Below(t)]
Become(t, frame) == stack' = [stack EXCEPT ![t] = Append(Below(t), frame)]

Init ==
  /\ processors = [e \in Events |-> <<>>]
  /\ hasFinish = [e \in Events |-> FALSE]
  /\ hasPending = [e \in Events |-> FALSE]
  /\ stack = [t \in Threads |-> <<>>]
  /\ queue = [l \in Loops |-> <<>>]
  /\ async = {}
  /\ alive = Plugins
  /\ unload = [step |-> "idle", plugin |-> Inline]
  /\ quit = {}
  /\ slipped = {}
  /\ recycled = [e \in Events |-> 0]
  /\ emptyFront = FALSE
  /\ delays = [e \in Events |-> 0]
  /\ state = [e \in Events |-> "new"]
  /\ route = [e \in Events |-> <<>>]
  /\ reached = [e \in Events |-> {}]

-----------------------------------------------------------------------------
(* References to a plugin by an activation or a queued event, and whether   *)
(* a weak_ptr to it locks.                                                  *)
Held(p) ==
  \/ \E t \in Threads : \E i \in 1..Len(stack[t]) : stack[t][i].plugin = p
  \/ \E l \in Loops : \E i \in 1..Len(queue[l]) : queue[l][i].plugin = p

Locks(p) == p \in alive \/ Held(p)

(* The first rule that matches the event, else the default pipeline.        *)
PipelineFor(e) ==
  LET matching == SelectSeq(Rules, LAMBDA r : e \in r.events)
  IN  IF matching # <<>> THEN Head(matching).pipeline ELSE Default

(* PublishPipelineEvent, which returns false if there is no pipeline for    *)
(* the event. Pipeline::ProcessEvent copies the processor list and calls    *)
(* OnContinue.                                                              *)
Publish(t, e) ==
  /\ t \in Sources
  /\ stack[t] = <<>>
  /\ state[e] = "new"
  /\ PipelineFor(e) # NoPipeline
  /\ processors' = [processors EXCEPT ![e] = PipelineFor(e)]
  /\ route' = [route EXCEPT ![e] = PipelineFor(e)]
  /\ state' = [state EXCEPT ![e] = "travelling"]
  /\ stack' = [stack EXCEPT ![t] = <<Frame(e, Inline, "continue", 0)>>]
  /\ UNCHANGED <<flags, queue, async, loading, reached>>

(* OnFinish: the producer is told, then the flag is set.                    *)
OnFinish(e) ==
  /\ recycled' = [recycled EXCEPT ![e] = @ + 1]
  /\ hasFinish' = [hasFinish EXCEPT ![e] = TRUE]
  /\ state' = [state EXCEPT ![e] = "finished"]

(* OnContinue when no processor is left.                                    *)
ContinueAtEnd(t) ==
  /\ At(t, "continue")
  /\ LET e == Top(t).event IN
     /\ processors[e] = <<>>
     /\ IF hasFinish[e]
        THEN /\ emptyFront' = TRUE
             /\ UNCHANGED <<recycled, hasFinish, state>>
        ELSE OnFinish(e) /\ UNCHANGED emptyFront
  /\ Return(t)
  /\ UNCHANGED <<processors, hasPending, delays, queue, async, loading, route, reached>>

(* Mutant: the processor behind a skipped one is dropped with it.           *)
ContinueSkipTwo(t) ==
  /\ At(t, "continue")
  /\ LET e == Top(t).event
         p == Head(processors[e])
     IN  /\ processors[e] # <<>>
         /\ ~Locks(p) \/ <<p, e>> \notin Interested
         /\ processors' = [processors EXCEPT ![e] = SubSeq(@, 3, Len(@))]
  /\ UNCHANGED <<flags, stack, queue, async, loading, history>>

(* OnContinue passes over a plugin that is gone or not interested; it goes  *)
(* on to the next, unless the event ended or was suspended meanwhile.       *)
ContinueSkip(t) ==
  /\ At(t, "continue")
  /\ LET e == Top(t).event
         p == Head(processors[e])
     IN  /\ processors[e] # <<>>
         /\ ~Locks(p) \/ <<p, e>> \notin Interested
         /\ processors' = [processors EXCEPT ![e] = Tail(@)]
         /\ IF Locks(p) /\ (hasFinish[e] \/ hasPending[e])
            THEN Return(t)
            ELSE UNCHANGED stack
  /\ UNCHANGED <<flags, queue, async, loading, history>>

(* OnContinue calls the plugin, or turns to its work loop: AddEvent refuses *)
(* the event, unnoticed, once needQuit_ is set.                             *)
ContinueDeliver(t) ==
  /\ At(t, "continue")
  /\ LET e == Top(t).event
         p == Head(processors[e])
         refused == LoopOf[p] \in quit
     IN  /\ processors[e] # <<>>
         /\ Locks(p)
         /\ <<p, e>> \in Interested
         /\ processors' = [processors EXCEPT ![e] = Tail(@)]
         /\ slipped' = IF p \notin alive \/ unload.plugin = p THEN slipped \cup {<<p, e>>} ELSE slipped
         /\ IF refused
            THEN Return(t) /\ state' = [state EXCEPT ![e] = "dropped"] /\ UNCHANGED reached
            ELSE /\ Become(t, Frame(e, p, IF LoopOf[p] = Inline THEN "enter" ELSE "push", 0))
                 /\ reached' = [reached EXCEPT ![e] = @ \cup {p}]
                 /\ UNCHANGED state
  /\ UNCHANGED <<flags, queue, async, alive, unload, quit, route>>

(* Whether StopLoop has cleared the queue of a loop: nobody takes an event  *)
(* from it any more.                                                        *)
Cleared(l) == l \in quit /\ ~(unload.step = "clear" /\ LoopOf[unload.plugin] = l)

(* The rest of AddEvent, under queueMutex_: the event is pushed, without    *)
(* another look at needQuit_.                                               *)
AddEvent(t) ==
  /\ At(t, "push")
  /\ LET e == Top(t).event
         p == Top(t).plugin
         l == LoopOf[p]
     IN  /\ queue' = [queue EXCEPT ![l] = Append(@, Job("event", e, p))]
         /\ state' = IF Cleared(l) THEN [state EXCEPT ![e] = "dropped"] ELSE state
  /\ Return(t)
  /\ UNCHANGED <<processors, flags, async, loading, route, reached>>

-----------------------------------------------------------------------------
(* A loop thread takes a job: an event, an event whose delay is over, or    *)
(* the end of a suspension.                                                 *)
TakeJob(l) ==
  /\ stack[l] = <<>>
  /\ l \notin quit
  /\ \E i \in 1..Len(queue[l]) :
       LET job == queue[l][i] IN
       /\ queue' = [queue EXCEPT ![l] = RemoveAt(@, i)]
       /\ stack' = [stack EXCEPT ![l] =
            <<Frame(job.event, job.plugin, IF job.kind = "resume" THEN "resume" ELSE "enter", 0)>>]
  /\ UNCHANGED <<processors, flags, async, loading, history>>

(* Mutant: the pending flag of an event that comes back is not reset.       *)
OnEventProxyNoReset(t) ==
  /\ At(t, "enter")
  /\ LET f == Top(t) IN
     Become(t, Frame(f.event, f.plugin, "handle", Len(processors[f.event])))
  /\ UNCHANGED <<processors, flags, queue, async, loading, history>>

(* Plugin::OnEventProxy up to the call of OnEvent.                          *)
OnEventProxy(t) ==
  /\ At(t, "enter")
  /\ LET f == Top(t) IN
     /\ hasPending' = [hasPending EXCEPT ![f.event] = FALSE]
     /\ Become(t, Frame(f.event, f.plugin, "handle", Len(processors[f.event])))
  /\ UNCHANGED <<processors, hasFinish, recycled, emptyFront, delays, queue, async, loading, history>>

Checking(t) == [Top(t) EXCEPT !.step = "check"]

(* OnEvent returns without touching the event.                              *)
HandlePlain(t) ==
  /\ At(t, "handle")
  /\ Become(t, Checking(t))
  /\ UNCHANGED <<processors, flags, queue, async, loading, history>>

HandleFinish(t) ==
  /\ At(t, "handle")
  /\ Top(t).plugin \in Finishers
  /\ OnFinish(Top(t).event)
  /\ Become(t, Checking(t))
  /\ UNCHANGED <<processors, hasPending, emptyFront, delays, queue, async, loading, route, reached>>

(* OnEvent advances the event itself and then returns.                      *)
HandleContinue(t) ==
  /\ At(t, "handle")
  /\ Top(t).plugin \in Continuers
  /\ stack' = [stack EXCEPT ![t] =
       Below(t) \o <<Checking(t), Frame(Top(t).event, Top(t).plugin, "continue", 0)>>]
  /\ UNCHANGED <<processors, flags, queue, async, loading, history>>

(* EventLogger::OnEvent: OnPending, then the task is submitted.             *)
HandleSuspend(t) ==
  /\ At(t, "handle")
  /\ LET f == Top(t) IN
     /\ f.plugin \in Suspenders
     /\ hasPending' = [hasPending EXCEPT ![f.event] = TRUE]
     /\ async' = async \cup {Job("resume", f.event, f.plugin)}
  /\ Become(t, Checking(t))
  /\ UNCHANGED <<processors, hasFinish, recycled, emptyFront, delays, queue, loading, history>>

(* Plugin::DelayProcessEvent from OnEvent: the event comes back through the *)
(* plugin's own loop. Without a work loop nothing happens.                  *)
HandleDelay(t) ==
  /\ At(t, "handle")
  /\ LET f == Top(t) IN
     /\ f.plugin \in Delayers
     /\ IF LoopOf[f.plugin] = Inline
        THEN UNCHANGED <<hasPending, queue, delays>>
        ELSE /\ delays[f.event] < MaxDelays
             /\ delays' = [delays EXCEPT ![f.event] = @ + 1]
             /\ hasPending' = [hasPending EXCEPT ![f.event] = TRUE]
             /\ queue' = [queue EXCEPT ![LoopOf[f.plugin]] = Append(@, Job("again", f.event, f.plugin))]
  /\ Become(t, Checking(t))
  /\ UNCHANGED <<processors, hasFinish, recycled, emptyFront, async, loading, history>>

(* Mutant: an event the plugin advanced itself is advanced once more.       *)
WouldContinueAnySize(f) == ~hasFinish[f.event] /\ ~hasPending[f.event]

(* Mutant: an event the plugin ended is advanced.                           *)
WouldContinueFinished(f) ==
  /\ ~hasPending[f.event]
  /\ f.size = Len(processors[f.event])

(* Mutant: a suspended event is advanced.                                   *)
WouldContinuePending(f) ==
  /\ ~hasFinish[f.event]
  /\ f.size = Len(processors[f.event])

(* The end of OnEventProxy: the framework advances an event that was        *)
(* neither ended, suspended nor advanced by the plugin.                     *)
WouldContinue(f) ==
  /\ ~hasFinish[f.event]
  /\ ~hasPending[f.event]
  /\ f.size = Len(processors[f.event])

CheckContinue(t) ==
  /\ At(t, "check")
  /\ IF WouldContinue(Top(t))
     THEN Become(t, [Top(t) EXCEPT !.step = "continue"])
     ELSE Return(t)
  /\ UNCHANGED <<processors, flags, queue, async, loading, history>>

-----------------------------------------------------------------------------
(* Mutant: the timer is set without the plugin whose loop runs it.          *)
AsyncDoneNoPlugin(job) ==
  /\ job \in async
  /\ async' = async \ {job}
  /\ queue' = [queue EXCEPT ![LoopOf[job.plugin]] = Append(@, [job EXCEPT !.plugin = Inline])]
  /\ UNCHANGED <<processors, flags, stack, loading, history>>

(* The ffrt task of a suspended event gives up (rate limit, no log file) or *)
(* sets the timer that resumes the event on the plugin's loop.              *)
AsyncDone(job) ==
  /\ job \in async
  /\ async' = async \ {job}
  /\ \/ /\ state' = [state EXCEPT ![job.event] = "abandoned"]
        /\ UNCHANGED queue
     \/ /\ queue' = [queue EXCEPT ![LoopOf[job.plugin]] = Append(@, job)]
        /\ UNCHANGED state
  /\ UNCHANGED <<processors, flags, stack, loading, route, reached>>

(* CheckEventOnContinue: ResetPendingStatus, then OnContinue.               *)
Resume(t) ==
  /\ At(t, "resume")
  /\ hasPending' = [hasPending EXCEPT ![Top(t).event] = FALSE]
  /\ Become(t, [Top(t) EXCEPT !.step = "continue"])
  /\ UNCHANGED <<processors, hasFinish, recycled, emptyFront, delays, queue, async, loading, history>>

-----------------------------------------------------------------------------
Unloading(step) == unload.step = step
Looper == LoopOf[unload.plugin]
UnloadNext(step) == unload' = [unload EXCEPT !.step = step]

(* UnloadPlugin refuses a plugin that an activation or a queued event       *)
(* holds. Otherwise the plugin leaves pluginMap_, which deliveries do not   *)
(* look at: UnloadPlugin's own reference keeps the weak_ptrs locking.       *)
UnloadCount(p) ==
  /\ Unloading("idle")
  /\ p \in alive \cap Unloadable
  /\ ~Held(p)
  /\ unload' = [step |-> IF LoopOf[p] = Inline THEN "release" ELSE "looper", plugin |-> p]
  /\ UNCHANGED <<processors, flags, stack, queue, async, alive, quit, slipped, history>>

(* The loop stays if another plugin or an AddEvent under way refers to it.  *)
UnloadLooper ==
  /\ Unloading("looper")
  /\ LET inUse == \E q \in Plugins \ {unload.plugin} : LoopOf[q] = Looper /\ Locks(q)
         copied == \E t \in Threads : At(t, "push") /\ LoopOf[Top(t).plugin] = Looper
     IN  UnloadNext(IF inUse \/ copied THEN "release" ELSE "quit")
  /\ UNCHANGED <<processors, flags, stack, queue, async, alive, quit, slipped, history>>

(* StopLoop: needQuit_ is set ...                                           *)
StopLoopQuit ==
  /\ Unloading("quit")
  /\ quit' = quit \cup {Looper}
  /\ UnloadNext("clear")
  /\ UNCHANGED <<processors, flags, stack, queue, async, alive, slipped, history>>

(* ... the queue is cleared under queueMutex_, the events in it with it ... *)
StopLoopClear ==
  /\ Unloading("clear")
  /\ LET lost == {job.event : job \in ToSet(queue[Looper])}
     IN  state' = [e \in Events |-> IF e \in lost THEN "dropped" ELSE state[e]]
  /\ queue' = [queue EXCEPT ![Looper] = <<>>]
  /\ UnloadNext("join")
  /\ UNCHANGED <<processors, flags, stack, async, alive, quit, slipped, route, reached>>

(* ... and the thread joined.                                               *)
StopLoopJoin ==
  /\ Unloading("join")
  /\ stack[Looper] = <<>>
  /\ UnloadNext("release")
  /\ UNCHANGED <<processors, flags, stack, queue, async, alive, quit, slipped, history>>

(* UnloadPlugin returns and gives up its reference.                         *)
UnloadReturn ==
  /\ Unloading("release")
  /\ alive' = alive \ {unload.plugin}
  /\ unload' = [step |-> "idle", plugin |-> Inline]
  /\ UNCHANGED <<processors, flags, stack, queue, async, quit, slipped, history>>

UnloadStep == UnloadLooper \/ StopLoopQuit \/ StopLoopClear \/ StopLoopJoin \/ UnloadReturn

ThreadStep(t) ==
  \/ ContinueAtEnd(t) \/ ContinueSkip(t) \/ ContinueDeliver(t) \/ AddEvent(t)
  \/ OnEventProxy(t) \/ CheckContinue(t) \/ Resume(t)
  \/ HandlePlain(t) \/ HandleFinish(t) \/ HandleContinue(t)
  \/ HandleSuspend(t) \/ HandleDelay(t)

Next ==
  \/ \E t \in Threads, e \in Events : Publish(t, e)
  \/ \E t \in Threads : ThreadStep(t)
  \/ \E l \in Loops : TakeJob(l)
  \/ \E job \in async : AsyncDone(job)
  \/ \E p \in Plugins : UnloadCount(p)
  \/ UnloadStep

Spec == Init /\ [][Next]_vars

(* Threads run, OnEvent returns, an ffrt task ends one way or other, and    *)
(* the shared loop goes on with an unloading it began.                      *)
FairSpec ==
  /\ Spec
  /\ \A t \in Threads : WF_vars(ThreadStep(t))
  /\ \A l \in Loops : WF_vars(TakeJob(l))
  /\ WF_vars(\E job \in async : AsyncDone(job))
  /\ WF_vars(UnloadStep)

-----------------------------------------------------------------------------
Steps == {"push", "enter", "handle", "check", "continue", "resume"}
Frames == [event : Events, plugin : Plugins \cup {Inline}, step : Steps, size : Nat]
Jobs == [kind : {"event", "again", "resume"}, event : Events, plugin : Plugins]

TypeOK ==
  /\ processors \in [Events -> Seq(Plugins)]
  /\ hasFinish \in [Events -> BOOLEAN]
  /\ hasPending \in [Events -> BOOLEAN]
  /\ stack \in [Threads -> Seq(Frames)]
  /\ queue \in [Loops -> Seq(Jobs)]
  /\ async \in SUBSET Jobs
  /\ alive \in SUBSET Plugins
  /\ unload.plugin \in Unloadable \cup {Inline}
  /\ quit \in SUBSET Loops
  /\ slipped \in SUBSET (Plugins \X Events)
  /\ recycled \in [Events -> Nat]
  /\ emptyFront \in BOOLEAN
  /\ delays \in [Events -> 0..MaxDelays]
  /\ state \in [Events -> {"new", "travelling", "finished", "abandoned", "dropped"}]
  /\ route \in [Events -> Pipelines \cup {<<>>}]
  /\ reached \in [Events -> SUBSET Plugins]

Carries(t, i, e) ==
  /\ i <= Len(stack[t])
  /\ stack[t][i].event = e
  /\ stack[t][i].step = "check" => i = Len(stack[t]) /\ WouldContinue(stack[t][i])

Carriers(e) ==
  Cardinality({<<t, i>> \in Threads \X (1..(Cardinality(Plugins) + 1)) :
                 Carries(t, i, e)})
  + Cardinality({<<l, i>> \in Loops \X (1..(Cardinality(Events) + 1)) :
                 i <= Len(queue[l]) /\ queue[l][i].event = e /\ ~Cleared(l)})
  + Cardinality({job \in async : job.event = e})

(* At most one activation, queued job or suspended task will advance an     *)
(* event, and none once it has ended: the flags and the size comparison in  *)
(* OnEventProxy keep the framework, the plugin and a resuming timer from    *)
(* advancing the same event twice.                                          *)
OneCarrier ==
  \A e \in Events : Carriers(e) <= (IF state[e] = "travelling" THEN 1 ELSE 0)

(* Recycle is called exactly once for an event that ended in OnFinish, and  *)
(* never for another: the platform monitor counts costs there.              *)
RecycledOnce ==
  \A e \in Events : recycled[e] = (IF state[e] = "finished" THEN 1 ELSE 0)

(* OnContinue never takes front() of an empty processor list: it is not     *)
(* called on an event that has finished.                                    *)
NoEmptyFront == ~emptyFront

(* An event that ran to the end of its pipeline was offered to every plugin *)
(* of it that is interested and was never unloaded.                         *)
NobodyLeftOut ==
  \A e \in Events :
    state[e] = "finished" /\ processors[e] = <<>> =>
      \A p \in ToSet(route[e]) : p \in alive /\ <<p, e>> \in Interested => p \in reached[e]

Delivery == INSTANCE EventDelivery

(* The pipeline code implements EventDelivery: in order, at most once,      *)
(* nothing after the end.                                                   *)
ImplementsDelivery == Delivery!Spec

(* Every published event comes to its end. The exceptions are an event that *)
(* the plugin which suspended it gives up, and an event that OnContinue     *)
(* handed to a plugin after UnloadPlugin had counted the plugin's           *)
(* references: stopping the plugin's loop refuses, clears or keeps it.      *)
EventEnds ==
  \A e \in Events :
    (state[e] = "travelling") ~>
      \/ state[e] \in {"finished", "abandoned"}
      \/ state[e] = "dropped" /\ \E p \in Unloadable : <<p, e>> \in slipped
=============================================================================
