----------------------------- MODULE TraceState -----------------------------
(***************************************************************************)
(* TraceStateMachine and its state classes: which scenario owns the kernel *)
(* trace, how a scenario of a higher level displaces a lower one, how the  *)
(* recording switches bring the common scenarios back, and what a failing  *)
(* call of the hitrace library leaves behind.  Every operation runs under  *)
(* traceMutex_ and is one action; the callers (trace command, application  *)
(* traces with their delayed stop, switch watchers, dumps) interleave.     *)
(***************************************************************************)
EXTENDS Integers, FiniteSets

CONSTANTS Apps,             \* processes that ask for application traces
          IsDeveloperMode,  \* Parameter::IsDeveloperMode()
          FailureSets,      \* the sets of hitrace calls that may fail in one operation
          MaxStops          \* bound on pending app_trace_stop tasks per process

(* The calls of the hitrace library that one operation may make; f below is *)
(* the set of those that fail.                                              *)
Calls == {"close", "reclose", "preopen", "open", "record", "cache"}

ASSUME TraceStateAssumption ==
  /\ IsDeveloperMode \in BOOLEAN
  /\ FailureSets \subseteq SUBSET Calls
  /\ MaxStops \in Nat \ {0}

VARIABLES sm,      \* the TraceStateMachine object and the kernel trace it drives
          loaded,  \* how far UnifiedCollector::LoadTraceSwitch has run: 0..4
          stops,   \* pending app_trace_stop tasks of each process
          dumper,  \* the holder of TraceCollectorImpl::dumpMutex_ in an app dump
          stopFailed  \* history: a stop could not close the application trace

vars == <<sm, loaded, stops, dumper, stopFailed>>

None == "none"
Scenarios == {"close", "app_dynamic", "app_system", "telemetry", "common_beta",
              "common_drop", "command", "command_drop"}
Switches == {"dev", "freeze", "uc", "beta"}

Level == [s \in Scenarios |->
            CASE s = "close" -> 0
              [] s = "app_dynamic" -> 1
              [] s \in {"app_system", "telemetry"} -> 2
              [] s = "common_beta" -> 3
              [] s = "common_drop" -> 4
              [] OTHER -> 5]

-----------------------------------------------------------------------------
(* kernel is the scenario whose tags the kernel traces, rec and kc whether   *)
(* it records and caches.  astray and unserved are history: a failing call   *)
(* left the kernel different from the machine, or a switch unserved.         *)
(* isBeta is the device's Parameter::IsBetaVersion().                        *)

Result(m, r) == [m |-> m, ret |-> r]

Closed(m) == [m EXCEPT !.kernel = "close", !.rec = FALSE, !.kc = FALSE]

TransTo(m, s, app, f) ==
  [m EXCEPT !.cur = s,
            !.app = app,
            !.isCommandState = IF s = "command" THEN TRUE ELSE m.isCommandState,
            !.rec = (s = "common_drop"),
            !.kc = (s = "common_beta" /\ m.isCachSwitchOn /\ "cache" \notin f),
            !.astray = (s = "common_beta" /\ m.isCachSwitchOn /\ "cache" \in f)]

(* Mutant: the new scenario is opened without the level check.              *)
OpenUnchecked(m, s, app, f) ==
  IF "preopen" \in f THEN Result(m, "ERROR")
  ELSE IF "open" \in f THEN Result([Closed(m) EXCEPT !.astray = m.cur # "close"], "ERROR")
  ELSE IF s = "common_drop" /\ "record" \in f
       THEN Result([Closed(m) EXCEPT !.kernel = s, !.astray = TRUE], "ERROR")
  ELSE Result(TransTo([m EXCEPT !.kernel = s], s, app, f), "SUCCESS")

OpenTrace(m, s, app, f) ==
  IF Level[s] <= Level[m.cur] THEN Result(m, "DENY")
  ELSE IF "preopen" \in f THEN Result(m, "ERROR")
  ELSE IF "open" \in f THEN Result([Closed(m) EXCEPT !.astray = m.cur # "close"], "ERROR")
  ELSE IF s = "common_drop" /\ "record" \in f
       THEN Result([Closed(m) EXCEPT !.kernel = s, !.astray = TRUE], "ERROR")
  ELSE Result(TransTo([m EXCEPT !.kernel = s], s, app, f), "SUCCESS")

(* Hitrace::CloseTrace and, when it succeeds, TransToCloseState.            *)
CloseKernel(m, fails) ==
  IF fails THEN Result(m, "ERROR")
  ELSE Result([Closed(m) EXCEPT !.cur = "close", !.app = None, !.astray = FALSE], "SUCCESS")

(* Mutant: the flag is cleared although the close failed.                   *)
CloseCommandAlways(m, fails) ==
  LET r == CloseKernel(m, fails) IN Result([r.m EXCEPT !.isCommandState = FALSE], r.ret)

CloseCommand(m, fails) ==
  LET r == CloseKernel(m, fails) IN
  IF fails THEN r ELSE Result([r.m EXCEPT !.isCommandState = FALSE], r.ret)

(* Closing common_beta by command first clears the beta switch, so that the *)
(* machine does not come back to it.                                        *)
CloseBeta(m, fails) ==
  LET n == [m EXCEPT !.traceSwitchState = @ \ {"beta"}, !.unserved = fails \/ @] IN
  CloseKernel(n, fails)

(* The virtual CloseTrace of the current state.                             *)
CloseState(m, name, fails) ==
  IF m.cur = "close" THEN Result(m, "SUCCESS")
  ELSE IF m.cur = "command" /\ name = "command" THEN CloseCommand(m, fails)
  ELSE IF m.cur = "command_drop" /\ name \in {"command", "command_drop"} THEN CloseKernel(m, fails)
  ELSE IF m.cur = "common_beta" /\ name = "command" /\ ~m.isCommandState THEN CloseBeta(m, fails)
  ELSE IF m.cur = name THEN CloseKernel(m, fails)
  ELSE Result(m, "DENY")

(* Mutant: RefreshState forgets the recording switch.                       *)
RefreshNoDrop(m, f) ==
  LET common == m.cur \in {"common_beta", "common_drop"}
      c == IF common THEN CloseState(m, m.cur, "reclose" \in f).m ELSE m
      r == OpenTrace(c, "common_beta", None, f)
      miss == common /\ "reclose" \in f
  IN IF m.traceSwitchState = {} THEN Result([c EXCEPT !.unserved = miss], "SUCCESS")
     ELSE Result([r.m EXCEPT !.unserved = miss \/ r.ret = "ERROR"], r.ret)

(* Mutant: RefreshState does not look whether all switches are off.         *)
RefreshAlways(m, f) ==
  LET common == m.cur \in {"common_beta", "common_drop"}
      c == IF common THEN CloseState(m, m.cur, "reclose" \in f).m ELSE m
      r == OpenTrace(c, IF "dev" \in m.traceSwitchState THEN "common_drop" ELSE "common_beta",
                     None, f)
      miss == common /\ "reclose" \in f
  IN Result([r.m EXCEPT !.unserved = miss \/ r.ret = "ERROR"], r.ret)

RefreshState(m, f) ==
  LET common == m.cur \in {"common_beta", "common_drop"}
      c == IF common THEN CloseState(m, m.cur, "reclose" \in f).m ELSE m
      r == OpenTrace(c, IF "dev" \in m.traceSwitchState THEN "common_drop" ELSE "common_beta",
                     None, f)
      miss == common /\ "reclose" \in f
  IN IF m.traceSwitchState = {} THEN Result([c EXCEPT !.unserved = miss], "SUCCESS")
     ELSE Result([r.m EXCEPT !.unserved = miss \/ r.ret = "ERROR"], r.ret)

(* TraceStateMachine::CloseTrace.                                           *)
CloseTrace(m, name, f) ==
  LET r == CloseState(m, name, "close" \in f) IN
  IF r.ret = "SUCCESS" THEN RefreshState(r.m, f) ELSE r

-----------------------------------------------------------------------------
Init ==
  /\ \E b \in BOOLEAN :
       sm = [cur |-> "close", app |-> None, traceSwitchState |-> {}, isCommandState |-> FALSE,
             isCachSwitchOn |-> FALSE, kernel |-> "close", rec |-> FALSE, kc |-> FALSE,
             astray |-> FALSE, unserved |-> FALSE, isBeta |-> b]
  /\ loaded = 0
  /\ stops = [a \in Apps |-> 0]
  /\ dumper = [phase |-> "idle", app |-> None, name |-> None]
  /\ stopFailed = FALSE

(* HiviewService::OpenTrace (command) and TelemetryListener::HandleStart.   *)
Open ==
  \E s \in {"command", "telemetry"}, f \in FailureSets :
    /\ sm' = OpenTrace(sm, s, None, f).m
    /\ UNCHANGED <<loaded, stops, dumper, stopFailed>>

(* Mutant: the application trace is opened without scheduling its stop.     *)
StartAppTraceNoStop ==
  \E a \in Apps, f \in FailureSets :
    /\ stops[a] < MaxStops
    /\ sm' = OpenTrace(sm, "app_dynamic", a, f).m
    /\ UNCHANGED <<loaded, stops, dumper, stopFailed>>

(* HiviewService::InnerResponseStartAppTrace: open, then schedule the stop. *)
StartAppTrace ==
  \E a \in Apps, f \in FailureSets :
    LET r == OpenTrace(sm, "app_dynamic", a, f) IN
    /\ stops[a] < MaxStops
    /\ sm' = r.m
    /\ stops' = IF r.ret = "SUCCESS" THEN [stops EXCEPT ![a] = @ + 1] ELSE stops
    /\ stopFailed' = (stopFailed /\ r.ret # "SUCCESS")
    /\ UNCHANGED <<loaded, dumper>>

(* Mutant: the stop also runs when no task is pending.                      *)
AppTraceStopTwice ==
  \E a \in Apps, f \in FailureSets :
    /\ stops' = [stops EXCEPT ![a] = @ - 1]
    /\ sm' = CloseTrace(sm, "app_dynamic", f).m
    /\ stopFailed' = (sm.cur = "app_dynamic" /\ sm'.cur = "app_dynamic")
    /\ UNCHANGED <<loaded, dumper>>

(* The delayed task app_trace_stop.                                         *)
AppTraceStop ==
  \E a \in Apps, f \in FailureSets :
    /\ stops[a] > 0
    /\ stops' = [stops EXCEPT ![a] = @ - 1]
    /\ sm' = CloseTrace(sm, "app_dynamic", f).m
    /\ stopFailed' = (sm.cur = "app_dynamic" /\ sm'.cur = "app_dynamic")
    /\ UNCHANGED <<loaded, dumper>>

(* Mutant: the system trace is opened without dumpMutex_.                   *)
OpenAppSystemUnlocked ==
  \E a \in Apps, f \in FailureSets :
    /\ sm' = OpenTrace(sm, "app_system", a, f).m
    /\ UNCHANGED <<loaded, stops, dumper, stopFailed>>

(* TraceCollectorImpl::OpenAppSystemTrace, under dumpMutex_.                *)
OpenAppSystemTrace ==
  \E a \in Apps, f \in FailureSets :
    /\ dumper.phase = "idle"
    /\ sm' = OpenTrace(sm, "app_system", a, f).m
    /\ UNCHANGED <<loaded, stops, dumper, stopFailed>>

(* HiviewService::CloseTrace and the telemetry listener's close.            *)
CloseAs(s) ==
  \E f \in FailureSets :
    /\ sm' = CloseTrace(sm, s, f).m
    /\ UNCHANGED <<loaded, stops, dumper, stopFailed>>

(* HiviewService::RecordingTraceOn.                                         *)
TraceDropOn ==
  \E fails \in BOOLEAN :
    /\ sm' = IF sm.cur # "command" \/ fails THEN sm
             ELSE [sm EXCEPT !.cur = "command_drop", !.rec = TRUE]
    /\ UNCHANGED <<loaded, stops, dumper, stopFailed>>

(* HiviewService::RecordingTraceOff.                                        *)
TraceDropOff ==
  \E fails \in BOOLEAN :
    /\ sm' = IF sm.cur # "command_drop" \/ fails THEN sm
             ELSE [sm EXCEPT !.cur = "command", !.rec = FALSE, !.isCommandState = TRUE]
    /\ UNCHANGED <<loaded, stops, dumper, stopFailed>>

(* Mutant: the wish for the cache is not remembered in the machine.         *)
TraceCacheForget ==
  \E on \in BOOLEAN, fails \in BOOLEAN :
    /\ sm' = IF sm.cur # "common_beta" THEN sm
             ELSE IF fails THEN [sm EXCEPT !.astray = TRUE]
             ELSE [sm EXCEPT !.kc = on]
    /\ UNCHANGED <<loaded, stops, dumper, stopFailed>>

(* TraceStateMachine::TraceCacheOn and TraceCacheOff.                       *)
TraceCache ==
  \E on \in BOOLEAN, fails \in BOOLEAN :
    LET m == [sm EXCEPT !.isCachSwitchOn = on] IN
    /\ sm' = IF sm.cur # "common_beta" THEN m
             ELSE IF fails THEN [m EXCEPT !.astray = TRUE]
             ELSE [m EXCEPT !.kc = on]
    /\ UNCHANGED <<loaded, stops, dumper, stopFailed>>

SetSwitch(b, on, f) ==
  sm' = RefreshState([sm EXCEPT !.traceSwitchState = IF on THEN @ \cup {b} ELSE @ \ {b}], f).m

(* UnifiedCollector::LoadTraceSwitch, one switch after the other.           *)
LoadTraceSwitch ==
  /\ loaded < 4
  /\ loaded' = loaded + 1
  /\ LET b == CASE loaded = 0 -> "beta" [] loaded = 1 -> "uc" [] loaded = 2 -> "freeze" [] OTHER -> "dev"
         on == CASE loaded = 0 -> {sm.isBeta}
                 [] loaded = 3 /\ ~IsDeveloperMode -> {FALSE}
                 [] OTHER -> BOOLEAN
     IN \E isOn \in on, f \in FailureSets :
          IF isOn THEN SetSwitch(b, TRUE, f) ELSE UNCHANGED sm
  /\ UNCHANGED <<stops, dumper, stopFailed>>

(* The watchers that LoadTraceSwitch sets: OnFreezeDetectorParamChanged on  *)
(* a commercial version, the record switch in developer mode.               *)
OnParamChanged ==
  \E b \in {"freeze", "dev"}, on \in BOOLEAN, f \in FailureSets :
    /\ loaded >= (IF b = "freeze" THEN 1 ELSE 4)
    /\ IF b = "dev" THEN IsDeveloperMode ELSE ~sm.isBeta
    /\ SetSwitch(b, on, f)
    /\ UNCHANGED <<loaded, stops, dumper, stopFailed>>

(* The watcher of the collection switch, set later on a commercial version. *)
OnSwitchStateChanged ==
  \E on \in BOOLEAN, f \in FailureSets :
    /\ loaded = 4 /\ ~sm.isBeta
    /\ SetSwitch("uc", on, f)
    /\ UNCHANGED <<loaded, stops, dumper, stopFailed>>

(* The result of Hitrace::DumpTrace: the kernel must trace in snapshot mode.*)
DumpCodes ==
  IF sm.kernel \in {"close", "foreign"} \/ sm.rec THEN {"WRONG_TRACE_MODE", "ERROR"}
  ELSE {"SUCCESS", "ERROR"}

(* The scenarios a state dumps for. CommonState::DumpTraceAsync leaves out  *)
(* the command; a refused dump changes nothing.                             *)
Dumpable(name) ==
  CASE sm.cur = "common_beta" -> name \in {"common_beta", "command"}
    [] sm.cur \in {"command", "app_system", "app_dynamic"} -> name = sm.cur
    [] OTHER -> FALSE

(* TraceStateMachine::DumpTrace and DumpTraceAsync.                         *)
DumpTrace(name, f) ==
  \E code \in IF Dumpable(name) THEN DumpCodes ELSE {"FAIL"} :
    sm' = IF code = "WRONG_TRACE_MODE" THEN RefreshState(sm, f).m ELSE sm

(* The snapshot strategies and the trace command, under dumpMutex_.         *)
Dump ==
  \E name \in {"common_beta", "command"}, f \in FailureSets :
    /\ dumper.phase = "idle"
    /\ DumpTrace(name, f)
    /\ UNCHANGED <<loaded, stops, dumper, stopFailed>>

(* DumpAppSystemTrace and TraceAppStrategy::DoDump: GetCurrentAppInfo and   *)
(* the process check come first, without traceMutex_.                       *)
AppDumpCheck ==
  \E a \in Apps, name \in {"app_system", "app_dynamic"} :
    /\ dumper.phase = "idle"
    /\ sm.app = a /\ (name = "app_dynamic" => sm.cur = "app_dynamic")
    /\ dumper' = [phase |-> "checked", app |-> a, name |-> name]
    /\ UNCHANGED <<sm, loaded, stops, stopFailed>>

(* Then the dump itself ...                                                 *)
AppDump ==
  \E f \in FailureSets :
    /\ dumper.phase = "checked"
    /\ DumpTrace(dumper.name, f)
    /\ dumper' = IF dumper.name = "app_system" THEN [dumper EXCEPT !.phase = "dumped"]
                 ELSE [phase |-> "idle", app |-> None, name |-> None]
    /\ UNCHANGED <<loaded, stops, stopFailed>>

(* ... and, for a system trace, the close, whatever the dump returned.      *)
AppSystemClose ==
  \E f \in FailureSets :
    /\ dumper.phase = "dumped"
    /\ sm' = CloseTrace(sm, "app_system", f).m
    /\ dumper' = [phase |-> "idle", app |-> None, name |-> None]
    /\ UNCHANGED <<loaded, stops, stopFailed>>

(* Another process uses the hitrace interface (TRACE_IS_OCCUPIED).          *)
OtherProcess ==
  /\ sm.kernel # "foreign"
  /\ sm' = [sm EXCEPT !.kernel = "foreign", !.rec = FALSE, !.kc = FALSE, !.astray = TRUE]
  /\ UNCHANGED <<loaded, stops, dumper, stopFailed>>

Next ==
  \/ Open
  \/ StartAppTrace
  \/ AppTraceStop
  \/ OpenAppSystemTrace
  \/ \E s \in {"command", "telemetry"} : CloseAs(s)
  \/ TraceDropOn
  \/ TraceDropOff
  \/ TraceCache
  \/ LoadTraceSwitch
  \/ OnParamChanged
  \/ OnSwitchStateChanged
  \/ Dump
  \/ AppDumpCheck
  \/ AppDump
  \/ AppSystemClose
  \/ OtherProcess

Spec == Init /\ [][Next]_vars
-----------------------------------------------------------------------------
(* Type invariant of the machine, the pending stops and the dumper.         *)
TypeOK ==
  /\ sm \in [cur : Scenarios, app : Apps \cup {None}, traceSwitchState : SUBSET Switches,
             isCommandState : BOOLEAN, isCachSwitchOn : BOOLEAN,
             kernel : Scenarios \cup {"foreign"}, rec : BOOLEAN, kc : BOOLEAN,
             astray : BOOLEAN, unserved : BOOLEAN, isBeta : BOOLEAN]
  /\ loaded \in 0..4
  /\ stops \in [Apps -> 0..MaxStops]
  /\ dumper \in [phase : {"idle", "checked", "dumped"}, app : Apps \cup {None},
                 name : {"app_system", "app_dynamic", None}]
  /\ stopFailed \in BOOLEAN

(* While no failed hitrace call and no other process stands in between, the *)
(* kernel traces exactly what the machine believes: the tags of the current *)
(* scenario, recording in the two drop states only, and the cache on in     *)
(* common_beta exactly when the cache monitor wants it, also when it asked  *)
(* while another scenario owned the trace.                                  *)
KernelAgrees ==
  ~sm.astray =>
    /\ sm.kernel = IF sm.cur = "command_drop" THEN "command" ELSE sm.cur
    /\ sm.rec <=> (sm.cur \in {"common_drop", "command_drop"})
    /\ sm.kc <=> (sm.cur = "common_beta" /\ sm.isCachSwitchOn)

(* After RefreshState has served the switches, a scenario below the common  *)
(* ones runs only with every switch off, common_drop only with the record   *)
(* switch on, and common_beta only with another switch on and that one off: *)
(* displaced common recording always comes back.                            *)
SwitchesRule ==
  ~sm.unserved =>
    CASE sm.cur = "common_drop" -> "dev" \in sm.traceSwitchState
      [] sm.cur = "common_beta" -> sm.traceSwitchState # {} /\ "dev" \notin sm.traceSwitchState
      [] sm.cur \in {"command", "command_drop"} -> TRUE
      [] OTHER -> sm.traceSwitchState = {}

(* isCommandState_ is set in both command states: no other state clears it, *)
(* so that a trace command never takes the close of its own trace for the   *)
(* request to switch beta recording off.                                    *)
CommandFlagHeld == sm.cur \in {"command", "command_drop"} => sm.isCommandState

(* A trace gives way to one of a lower level only when it is closed in its  *)
(* owner's name, or when RefreshState re-evaluates common recording: no     *)
(* open call and no dump of a lower scenario takes the kernel trace away.   *)
OnlyOwnerLowers ==
  [][Level[sm'.cur] < Level[sm.cur] =>
       \/ sm.cur = "app_dynamic" /\ AppTraceStop
       \/ sm.cur = "app_system" /\ AppSystemClose
       \/ sm.cur = "telemetry" /\ CloseAs("telemetry")
       \/ sm.cur \in {"command", "command_drop", "common_beta"} /\ CloseAs("command")
       \/ sm.cur \in {"common_beta", "common_drop"} /\ (LoadTraceSwitch \/ OnParamChanged
              \/ OnSwitchStateChanged \/ Dump \/ AppDump)]_vars

(* When a system-trace dump is accepted, the trace is the one of the        *)
(* process it is handed to, although the process check and the dump are     *)
(* separate calls: every open of a system trace waits for dumpMutex_.       *)
SystemDumpIsOwn ==
  dumper.phase = "checked" /\ dumper.name = "app_system" /\ Dumpable("app_system")
    => sm.app = dumper.app

(* An application trace never runs without a stop to come, unless the       *)
(* last stop failed: whoever opened it, a delayed task will close it.       *)
DynamicHasStop ==
  sm.cur = "app_dynamic" => (\E a \in Apps : stops[a] > 0) \/ stopFailed

(* "beta version can close trace by trace command": a close in the name of  *)
(* the trace command is not denied while common_beta owns the trace.        *)
BetaClosable ==
  sm.cur = "common_beta" => CloseTrace(sm, "command", {}).ret # "DENY"
=============================================================================
