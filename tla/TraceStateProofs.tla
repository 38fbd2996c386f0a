-------------------------- MODULE TraceStateProofs --------------------------
(***************************************************************************)
(* Proofs about TraceState for any processes, any sets of failing hitrace  *)
(* calls and any bound on pending stops.  The operations on the machine    *)
(* are functions of the machine record, so each has a lemma of its own;    *)
(* the steps of the specification are then instances of the lemmas.        *)
(***************************************************************************)
EXTENDS TraceState, TLAPS

Machine == [cur : Scenarios, app : Apps \cup {None}, traceSwitchState : SUBSET Switches,
            isCommandState : BOOLEAN, isCachSwitchOn : BOOLEAN,
            kernel : Scenarios \cup {"foreign"}, rec : BOOLEAN, kc : BOOLEAN,
            astray : BOOLEAN, unserved : BOOLEAN, isBeta : BOOLEAN]

Agrees(m) ==
  ~m.astray =>
    /\ m.kernel = IF m.cur = "command_drop" THEN "command" ELSE m.cur
    /\ m.rec <=> (m.cur \in {"common_drop", "command_drop"})
    /\ m.kc <=> (m.cur = "common_beta" /\ m.isCachSwitchOn)

Rule(m) ==
  ~m.unserved =>
    CASE m.cur = "common_drop" -> "dev" \in m.traceSwitchState
      [] m.cur = "common_beta" -> m.traceSwitchState # {} /\ "dev" \notin m.traceSwitchState
      [] m.cur \in {"command", "command_drop"} -> TRUE
      [] OTHER -> m.traceSwitchState = {}

FlagHeld(m) == m.cur \in {"command", "command_drop"} => m.isCommandState

(* What every operation keeps, whether or not the switches are served.      *)
Sound(m) == m \in Machine /\ Agrees(m) /\ FlagHeld(m)

Openable == {"app_dynamic", "app_system", "telemetry", "common_beta", "common_drop", "command"}

(* The levels of trace_common.h.                                            *)
LEMMA Levels ==
  /\ Level["close"] = 0 /\ Level["app_dynamic"] = 1 /\ Level["app_system"] = 2
  /\ Level["telemetry"] = 2 /\ Level["common_beta"] = 3 /\ Level["common_drop"] = 4
  /\ Level["command"] = 5 /\ Level["command_drop"] = 5
BY DEF Level, Scenarios

OpenPost(m, s, r) ==
  /\ Sound(r.m)
  /\ r.m.traceSwitchState = m.traceSwitchState
  /\ r.m.unserved = m.unserved
  /\ r.ret # "SUCCESS" => r.m.app = m.app
  /\ \/ r.ret = "SUCCESS" /\ r.m.cur = s /\ Level[m.cur] < Level[s]
     \/ r.ret = "ERROR" /\ r.m.cur = m.cur
     \/ r.ret = "DENY" /\ r.m.cur = m.cur /\ ~(Level[m.cur] < Level[s])

(* TraceBaseState::OpenTrace keeps the machine sound, touches no switch,    *)
(* and moves to the new scenario exactly when it succeeds.                  *)
LEMMA OpenSound ==
  ASSUME NEW m, Sound(m), NEW s \in Openable, NEW app \in Apps \cup {None}, NEW f
  PROVE  OpenPost(m, s, OpenTrace(m, s, app, f))
<1> DEFINE r == OpenTrace(m, s, app, f)
<1> HIDE DEF r
<1> SUFFICES OpenPost(m, s, r)
  BY DEF r
<1> m \in Machine /\ s \in Scenarios
  BY DEF Sound, Openable, Scenarios
<1> Level[s] \in Int /\ Level[m.cur] \in Int
  BY Levels DEF Machine, Scenarios
<1>1. CASE Level[s] <= Level[m.cur]
  <2>1. r = [m |-> m, ret |-> "DENY"]
    BY <1>1 DEF r, OpenTrace, Result
  <2> QED BY <2>1, <1>1 DEF OpenPost
<1>2. CASE ~(Level[s] <= Level[m.cur]) /\ "preopen" \in f
  <2>1. r = [m |-> m, ret |-> "ERROR"]
    BY <1>2 DEF r, OpenTrace, Result
  <2> QED BY <2>1 DEF OpenPost
<1>3. CASE ~(Level[s] <= Level[m.cur]) /\ "preopen" \notin f /\ "open" \in f
  <2>1. r = [m |-> [Closed(m) EXCEPT !.astray = (m.cur # "close")], ret |-> "ERROR"]
    BY <1>3 DEF r, OpenTrace, Result
  <2> DEFINE stray == (m.cur # "close")
  <2>2. stray \in BOOLEAN /\ (~stray => m.cur = "close")
    OBVIOUS
  <2>3. r.m = [m EXCEPT !.kernel = "close", !.rec = FALSE, !.kc = FALSE, !.astray = stray]
    BY <2>1 DEF Closed, Machine
  <2> HIDE DEF stray
  <2>4. r.m \in Machine /\ FlagHeld(r.m)
    BY <2>2, <2>3, ZenonT(60) DEF Sound, Machine, FlagHeld, Scenarios
  <2>5. Agrees(r.m)
    BY <2>2, <2>3 DEF Machine, Agrees
  <2> QED BY <2>1, <2>3, <2>4, <2>5 DEF OpenPost, Sound, Machine
<1>4. CASE /\ ~(Level[s] <= Level[m.cur]) /\ "preopen" \notin f /\ "open" \notin f
           /\ s = "common_drop" /\ "record" \in f
  <2>1. r = [m |-> [Closed(m) EXCEPT !.kernel = s, !.astray = TRUE], ret |-> "ERROR"]
    BY <1>4 DEF r, OpenTrace, Result
  <2>2. Sound(r.m)
    BY <2>1, ZenonT(60) DEF Sound, Closed, Machine, Agrees, FlagHeld, Scenarios
  <2> QED BY <2>1, <2>2 DEF OpenPost, Closed, Machine
<1>5. CASE /\ ~(Level[s] <= Level[m.cur]) /\ "preopen" \notin f /\ "open" \notin f
           /\ ~(s = "common_drop" /\ "record" \in f)
  <2>1. r = [m |-> TransTo([m EXCEPT !.kernel = s], s, app, f), ret |-> "SUCCESS"]
    BY <1>5 DEF r, OpenTrace, Result
  <2> DEFINE flag == IF s = "command" THEN TRUE ELSE m.isCommandState
             rec == (s = "common_drop")
             kc == (s = "common_beta" /\ m.isCachSwitchOn /\ "cache" \notin f)
             stray == (s = "common_beta" /\ m.isCachSwitchOn /\ "cache" \in f)
  <2>2. r.m = [m EXCEPT !.kernel = s, !.cur = s, !.app = app, !.isCommandState = flag,
                        !.rec = rec, !.kc = kc, !.astray = stray]
    BY <2>1 DEF TransTo, Machine
  <2>3. flag \in BOOLEAN /\ rec \in BOOLEAN /\ kc \in BOOLEAN /\ stray \in BOOLEAN
    <3>1. m.isCommandState \in BOOLEAN
      BY DEF Machine
    <3> QED BY <3>1, Zenon
  <2>4. (s = "command" => flag) /\ (rec <=> s = "common_drop") /\ (~stray => (kc <=> (s = "common_beta" /\ m.isCachSwitchOn)))
    OBVIOUS
  <2> HIDE DEF flag, rec, kc, stray
  <2>5. r.m \in Machine
    BY <2>2, <2>3, ZenonT(60) DEF Machine
  <2>6. FlagHeld(r.m)
    BY <2>2, <2>4 DEF Machine, Openable, FlagHeld
  <2>7. Agrees(r.m)
    BY <2>2, <2>3, <2>4 DEF Machine, Openable, Agrees
  <2>8. /\ r.ret = "SUCCESS" /\ r.m.cur = s
        /\ r.m.traceSwitchState = m.traceSwitchState /\ r.m.unserved = m.unserved
    BY <2>1, <2>2 DEF Machine
  <2> QED BY <2>5, <2>6, <2>7, <2>8, <1>5 DEF OpenPost, Sound
<1> QED BY <1>1, <1>2, <1>3, <1>4, <1>5

(* The virtual CloseTrace keeps the machine sound; it succeeds only into    *)
(* the closed state, and otherwise leaves the scenario and, unless it marks *)
(* the switches as unserved, the switches as they were.                     *)
ClosePost(m, name, r) ==
  /\ Sound(r.m)
  /\ \/ r.ret = "SUCCESS" /\ r.m.cur = "close"
     \/ r.ret # "SUCCESS" /\ r.m.cur = m.cur /\ r.m.app = m.app
        /\ (r.m.unserved \/ (r.m.unserved = m.unserved /\ r.m.traceSwitchState = m.traceSwitchState))
  /\ r.m.cur # m.cur => m.cur = name \/ (name = "command" /\ m.cur \in {"command_drop", "common_beta"})
  /\ m.cur = name /\ name \in {"common_beta", "common_drop"} => r.m.traceSwitchState = m.traceSwitchState

LEMMA CloseKernelSound ==
  ASSUME NEW m, Sound(m), NEW fails \in BOOLEAN
  PROVE  LET r == CloseKernel(m, fails) IN
         /\ Sound(r.m)
         /\ r.m.traceSwitchState = m.traceSwitchState
         /\ fails => r.ret = "ERROR" /\ r.m = m
         /\ ~fails => /\ r.ret = "SUCCESS" /\ r.m.cur = "close"
                      /\ r.m.isCommandState = m.isCommandState
<1> DEFINE r == CloseKernel(m, fails)
<1> m \in Machine
  BY DEF Sound
<1>1. CASE fails
  <2>1. r = [m |-> m, ret |-> "ERROR"]
    BY <1>1 DEF CloseKernel, Result
  <2> QED BY <2>1, <1>1
<1>2. CASE ~fails
  <2>1. r = [m |-> [m EXCEPT !.kernel = "close", !.rec = FALSE, !.kc = FALSE, !.cur = "close",
                             !.app = None, !.astray = FALSE], ret |-> "SUCCESS"]
    BY <1>2 DEF CloseKernel, Result, Closed, Machine
  <2> HIDE DEF r
  <2>2. r.m \in Machine /\ FlagHeld(r.m)
    BY <2>1 DEF Machine, FlagHeld, Scenarios
  <2>3. Agrees(r.m)
    BY <2>1 DEF Machine, Agrees
  <2>4. /\ r.m.traceSwitchState = m.traceSwitchState /\ r.ret = "SUCCESS" /\ r.m.cur = "close"
        /\ r.m.isCommandState = m.isCommandState
    BY <2>1 DEF Machine
  <2>5. Sound(r.m)
    BY <2>2, <2>3 DEF Sound
  <2> QED BY <2>4, <2>5, <1>2 DEF r
<1> QED BY <1>1, <1>2

LEMMA CloseStateSound ==
  ASSUME NEW m, Sound(m), NEW name, NEW fails \in BOOLEAN
  PROVE  ClosePost(m, name, CloseState(m, name, fails))
<1> DEFINE r == CloseState(m, name, fails)
<1> HIDE DEF r
<1> SUFFICES ClosePost(m, name, r)
  BY DEF r
<1> m \in Machine
  BY DEF Sound
<1>1. CASE m.cur = "close"
  <2>1. r = [m |-> m, ret |-> "SUCCESS"]
    BY <1>1 DEF r, CloseState, Result
  <2> QED BY <2>1, <1>1 DEF ClosePost
<1>2. CASE m.cur = "command" /\ name = "command"
  <2> DEFINE k == CloseKernel(m, fails)
  <2>1. r = IF fails THEN k ELSE [m |-> [k.m EXCEPT !.isCommandState = FALSE], ret |-> k.ret]
    BY <1>2 DEF r, CloseState, CloseCommand, Result
  <2>2. Sound(k.m) /\ (fails => k.ret = "ERROR" /\ k.m = m) /\ (~fails => k.ret = "SUCCESS" /\ k.m.cur = "close")
    BY CloseKernelSound
  <2> HIDE DEF k
  <2>3. CASE fails
    BY <2>1, <2>2, <2>3, <1>2 DEF ClosePost
  <2>4. CASE ~fails
    <3>1. r = [m |-> [k.m EXCEPT !.isCommandState = FALSE], ret |-> "SUCCESS"]
      BY <2>1, <2>2, <2>4
    <3>2. Sound(r.m) /\ r.m.cur = "close"
      BY <3>1, <2>2, <2>4 DEF Sound, Machine, Agrees, FlagHeld
    <3> QED BY <3>1, <3>2, <1>2 DEF ClosePost
  <2> QED BY <2>3, <2>4
<1>3. CASE m.cur = "command_drop" /\ name \in {"command", "command_drop"}
  <2>1. r = CloseKernel(m, fails)
    BY <1>3 DEF r, CloseState
  <2> QED BY <2>1, <1>3, CloseKernelSound DEF ClosePost
<1>4. CASE m.cur = "common_beta" /\ name = "command" /\ ~m.isCommandState
  <2> DEFINE miss == (fails \/ m.unserved)
             n == [m EXCEPT !.traceSwitchState = m.traceSwitchState \ {"beta"}, !.unserved = miss]
  <2>1. r = CloseKernel(n, fails)
    BY <1>4 DEF r, CloseState, CloseBeta
  <2>2. miss \in BOOLEAN /\ (fails => miss)
    OBVIOUS
  <2> HIDE DEF miss
  <2>3. Sound(n) /\ n.cur = "common_beta" /\ n.app = m.app /\ n.unserved = miss
    BY <2>2, <1>4 DEF Sound, Machine, Agrees, FlagHeld
  <2> HIDE DEF n
  <2> QED BY <2>1, <2>2, <2>3, <1>4, CloseKernelSound, SMTT(40) DEF ClosePost
<1>5. CASE /\ m.cur = name /\ m.cur \notin {"close", "command", "command_drop"}
           /\ ~(m.cur = "common_beta" /\ name = "command" /\ ~m.isCommandState)
  <2>1. r = CloseKernel(m, fails)
    BY <1>5 DEF r, CloseState
  <2> QED BY <2>1, <1>5, CloseKernelSound DEF ClosePost
<1>6. CASE /\ m.cur # "close" /\ m.cur # name
           /\ ~(m.cur = "command_drop" /\ name \in {"command", "command_drop"})
           /\ ~(m.cur = "common_beta" /\ name = "command" /\ ~m.isCommandState)
  <2>1. r = [m |-> m, ret |-> "DENY"]
    BY <1>6 DEF r, CloseState, Result
  <2> QED BY <2>1 DEF ClosePost
<1> QED BY <1>1, <1>2, <1>3, <1>4, <1>5, <1>6

(* RefreshState serves the switches, unless it says it did not, moves only  *)
(* to the closed and the common states, and lowers only a common one.       *)
RefreshPost(m, r) ==
  /\ Sound(r.m) /\ Rule(r.m)
  /\ r.m.cur \notin {"close", "common_beta", "common_drop"} => r.m.cur = m.cur /\ r.m.app = m.app
  /\ Level[r.m.cur] < Level[m.cur] => m.cur \in {"common_beta", "common_drop"}

LEMMA RefreshSound ==
  ASSUME NEW m, Sound(m), NEW f
  PROVE  RefreshPost(m, RefreshState(m, f))
<1> DEFINE common == m.cur \in {"common_beta", "common_drop"}
           c == IF common THEN CloseState(m, m.cur, "reclose" \in f).m ELSE m
           s == IF "dev" \in m.traceSwitchState THEN "common_drop" ELSE "common_beta"
           o == OpenTrace(c, s, None, f)
           miss == (common /\ "reclose" \in f)
           missed == (miss \/ o.ret = "ERROR")
           r == RefreshState(m, f)
<1>1. r = IF m.traceSwitchState = {} THEN [m |-> [c EXCEPT !.unserved = miss], ret |-> "SUCCESS"]
          ELSE [m |-> [o.m EXCEPT !.unserved = missed], ret |-> o.ret]
  BY DEF RefreshState, Result
<1>2. miss \in BOOLEAN /\ missed \in BOOLEAN
  OBVIOUS
<1>3. missed <=> miss \/ o.ret = "ERROR"
  OBVIOUS
<1>4. /\ Sound(c) /\ c.traceSwitchState = m.traceSwitchState
      /\ ~common => c = m
      /\ common => c.cur = "close" \/ c.cur = m.cur
      /\ common /\ ~miss => c.cur = "close"
  <2>1. CASE ~common
    BY <2>1
  <2>2. CASE common
    <3>1. c = CloseState(m, m.cur, "reclose" \in f).m
      BY <2>2
    <3>2. ("reclose" \in f) \in BOOLEAN
      OBVIOUS
    <3>3. ClosePost(m, m.cur, CloseState(m, m.cur, "reclose" \in f))
      BY <3>2, CloseStateSound
    <3>4. Sound(c) /\ c.traceSwitchState = m.traceSwitchState /\ (c.cur = "close" \/ c.cur = m.cur)
      BY <3>1, <3>3, <2>2 DEF ClosePost
    <3>5. "reclose" \notin f => c.cur = "close"
      <4>1. SUFFICES ASSUME "reclose" \notin f PROVE c.cur = "close"
        OBVIOUS
      <4>2. CloseState(m, m.cur, "reclose" \in f) = CloseKernel(m, "reclose" \in f)
        BY <2>2 DEF CloseState
      <4>3. CloseKernel(m, "reclose" \in f).m.cur = "close"
        BY <4>1, <3>2, CloseKernelSound
      <4> QED BY <4>2, <4>3, <3>1
    <3> QED BY <2>2, <3>4, <3>5
  <2> QED BY <2>1, <2>2
<1>5. OpenPost(c, s, o)
  BY <1>4, OpenSound DEF Openable
<1>6. miss => common
  OBVIOUS
<1>7. s \in {"common_drop", "common_beta"} /\ (s = "common_drop" <=> "dev" \in m.traceSwitchState)
  OBVIOUS
<1> HIDE DEF r, c, o, miss, missed, s
<1>8. m \in Machine /\ c \in Machine /\ o.m \in Machine
  BY <1>4, <1>5 DEF Sound, OpenPost
<1>9. CASE m.traceSwitchState = {}
  <2>1. r.m = [c EXCEPT !.unserved = miss]
    BY <1>1, <1>9
  <2>2. Sound(r.m)
    BY <2>1, <1>2, <1>4, <1>8 DEF Sound, Machine, Agrees, FlagHeld
  <2>3. r.m.cur = c.cur /\ r.m.unserved = miss /\ r.m.traceSwitchState = {} /\ r.m.app = c.app
    BY <2>1, <1>4, <1>8, <1>9 DEF Machine
  <2>4. Rule(r.m)
    BY <2>3, <1>4 DEF Rule
  <2>5. Level[r.m.cur] < Level[m.cur] => common
    BY <2>3, <1>4, <1>8, Levels DEF Machine, Scenarios
  <2> QED BY <2>2, <2>3, <2>4, <2>5, <1>4 DEF RefreshPost, r
<1>10. CASE m.traceSwitchState # {}
  <2>1. r.m = [o.m EXCEPT !.unserved = missed]
    BY <1>1, <1>10
  <2>2. Sound(r.m)
    BY <2>1, <1>2, <1>5, <1>8 DEF OpenPost, Sound, Machine, Agrees, FlagHeld
  <2>3. /\ r.m.cur = o.m.cur /\ r.m.unserved = missed /\ r.m.app = o.m.app
        /\ r.m.traceSwitchState = m.traceSwitchState
    BY <2>1, <1>4, <1>5, <1>8 DEF Machine, OpenPost
  <2>4. \/ o.ret = "SUCCESS" /\ o.m.cur = s /\ Level[c.cur] < Level[s]
        \/ o.ret = "ERROR" /\ o.m.cur = c.cur /\ o.m.app = c.app
        \/ o.ret = "DENY" /\ o.m.cur = c.cur /\ o.m.app = c.app /\ ~(Level[c.cur] < Level[s])
    BY <1>5 DEF OpenPost
  <2>5. Rule(r.m)
    <3>1. ASSUME ~missed PROVE o.m.cur \in {s, "command", "command_drop"}
      <4>1. CASE common
        BY <4>1, <3>1, <2>4, <1>3, <1>4, <1>7, Levels
      <4>2. CASE ~common
        BY <4>2, <3>1, <2>4, <1>3, <1>4, <1>7, <1>8, Levels DEF Machine, Scenarios
      <4> QED BY <4>1, <4>2
    <3> QED BY <3>1, <2>3, <1>7, <1>10 DEF Rule
  <2>6. Level[r.m.cur] < Level[m.cur] => common
    BY <2>3, <2>4, <1>4, <1>7, <1>8, Levels DEF Machine, Scenarios
  <2>7. r.m.cur \notin {"close", "common_beta", "common_drop"} => r.m.cur = m.cur /\ r.m.app = m.app
    BY <2>3, <2>4, <1>4, <1>7
  <2> QED BY <2>2, <2>5, <2>6, <2>7 DEF RefreshPost, r
<1> QED BY <1>9, <1>10 DEF r

-----------------------------------------------------------------------------
Good(m) == Sound(m) /\ Rule(m)

(* The step neither starts an application trace nor changes its process.    *)
Kept(m, n) == n.cur \in {"app_dynamic", "app_system"} => n.cur = m.cur /\ n.app = m.app

Lowers(m, n) == Level[n.cur] < Level[m.cur]

(* TraceStateMachine::OpenTrace for the scenarios its callers use.          *)
LEMMA OpenGood ==
  ASSUME NEW m, Good(m), NEW s \in {"app_dynamic", "app_system", "telemetry", "command"},
         NEW app \in Apps \cup {None}, NEW f
  PROVE  LET r == OpenTrace(m, s, app, f) IN
         /\ Good(r.m) /\ ~Lowers(m, r.m)
         /\ r.ret # "SUCCESS" => r.m.cur = m.cur
         /\ r.m.cur = m.cur => r.m.app = m.app
         /\ r.m.cur = m.cur \/ r.m.cur = s
<1> DEFINE r == OpenTrace(m, s, app, f)
<1>1. OpenPost(m, s, r)
  BY OpenSound DEF Openable, Good
<1> HIDE DEF r
<1>2. m.cur \in Scenarios
  BY DEF Good, Sound, Machine
<1>3. \/ r.ret = "SUCCESS" /\ r.m.cur = s /\ Level[m.cur] < Level[s]
      \/ r.ret # "SUCCESS" /\ r.m.cur = m.cur /\ r.m.app = m.app
  BY <1>1 DEF OpenPost
<1>4. Rule(r.m)
  BY <1>1, <1>2, <1>3, Levels DEF OpenPost, Good, Rule, Scenarios
<1>5. ~Lowers(m, r.m) /\ (r.ret = "SUCCESS" => m.cur # s)
  BY <1>2, <1>3, Levels DEF Lowers, Scenarios
<1> QED BY <1>1, <1>3, <1>4, <1>5 DEF Good, OpenPost, r

(* RefreshState from any sound machine.                                     *)
LEMMA RefreshGood ==
  ASSUME NEW m, Sound(m), NEW f
  PROVE  LET n == RefreshState(m, f).m IN
         /\ Good(n) /\ Kept(m, n)
         /\ Lowers(m, n) => m.cur \in {"common_beta", "common_drop"}
BY RefreshSound DEF RefreshPost, Good, Kept, Lowers

CloseTracePost(m, name, n) ==
  /\ Good(n) /\ Kept(m, n)
  /\ Lowers(m, n) => m.cur = name \/ (name = "command" /\ m.cur \in {"command_drop", "common_beta"})

(* TraceStateMachine::CloseTrace: only the owner's name, or the trace       *)
(* command for its drop state and for beta recording, lowers the level.     *)
LEMMA CloseGood ==
  ASSUME NEW m, Good(m), NEW name, NEW f
  PROVE  CloseTracePost(m, name, CloseTrace(m, name, f).m)
<1> DEFINE c == CloseState(m, name, "close" \in f)
           n == CloseTrace(m, name, f).m
<1>1. ("close" \in f) \in BOOLEAN
  OBVIOUS
<1>2. ClosePost(m, name, c)
  BY <1>1, CloseStateSound DEF Good
<1>3. n = IF c.ret = "SUCCESS" THEN RefreshState(c.m, f).m ELSE c.m
  BY DEF CloseTrace
<1> HIDE DEF c, n
<1> SUFFICES CloseTracePost(m, name, n)
  BY DEF n
<1>4. CASE c.ret = "SUCCESS"
  <2>1. Sound(c.m) /\ c.m.cur = "close"
    BY <1>2, <1>4 DEF ClosePost
  <2>2. Good(n) /\ Kept(c.m, n)
    BY <2>1, <1>3, <1>4, RefreshGood
  <2>3. Kept(m, n)
    BY <2>1, <2>2 DEF Kept
  <2>4. Lowers(m, n) => m.cur # "close"
    BY <2>2, Levels DEF Lowers, Good, Sound, Machine, Scenarios
  <2>5. Lowers(m, n) => m.cur = name \/ (name = "command" /\ m.cur \in {"command_drop", "common_beta"})
    BY <2>1, <2>4, <1>2 DEF ClosePost
  <2> QED BY <2>2, <2>3, <2>5 DEF CloseTracePost
<1>5. CASE c.ret # "SUCCESS"
  <2>1. n = c.m /\ n.cur = m.cur /\ n.app = m.app /\ Sound(n)
    BY <1>2, <1>3, <1>5 DEF ClosePost
  <2>2. Rule(n)
    BY <2>1, <1>2, <1>5 DEF ClosePost, Good, Rule
  <2>3. ~Lowers(m, n)
    BY <2>1, Levels DEF Lowers, Good, Sound, Machine, Scenarios
  <2> QED BY <2>1, <2>2, <2>3 DEF Good, Kept, CloseTracePost
<1> QED BY <1>4, <1>5

(* The effect of one dump: no change, or a refresh.                         *)
LEMMA DumpGood ==
  ASSUME Good(sm), NEW name, NEW f, DumpTrace(name, f)
  PROVE  /\ Good(sm') /\ Kept(sm, sm')
         /\ Lowers(sm, sm') => sm.cur \in {"common_beta", "common_drop"}
<1>1. sm' = sm \/ sm' = RefreshState(sm, f).m
  BY DEF DumpTrace
<1>2. CASE sm' = sm
  BY <1>2, Levels DEF Kept, Lowers, Good, Sound, Machine, Scenarios
<1>3. CASE sm' = RefreshState(sm, f).m
  BY <1>3, RefreshGood DEF Good
<1> QED BY <1>1, <1>2, <1>3

(* Setting or clearing a switch and refreshing.                             *)
LEMMA SwitchGood ==
  ASSUME Good(sm), NEW b \in Switches, NEW on \in BOOLEAN, NEW f, SetSwitch(b, on, f)
  PROVE  /\ Good(sm') /\ Kept(sm, sm')
         /\ Lowers(sm, sm') => sm.cur \in {"common_beta", "common_drop"}
<1> DEFINE sw == IF on THEN sm.traceSwitchState \cup {b} ELSE sm.traceSwitchState \ {b}
           m == [sm EXCEPT !.traceSwitchState = sw]
<1>1. sm' = RefreshState(m, f).m
  BY DEF SetSwitch
<1>2. sw \in SUBSET Switches
  BY DEF Good, Sound, Machine
<1> HIDE DEF sw
<1>3. Sound(m) /\ m.cur = sm.cur /\ m.app = sm.app
  BY <1>2 DEF Good, Sound, Machine, Agrees, FlagHeld
<1> HIDE DEF m
<1> QED BY <1>1, <1>3, RefreshGood DEF Kept, Lowers

-----------------------------------------------------------------------------
(* The dump in progress for a system trace belongs to its process.          *)
Owned ==
  dumper.phase = "checked" /\ dumper.name = "app_system" /\ sm.cur = "app_system" => sm.app = dumper.app

Rest ==
  /\ loaded \in 0..4
  /\ stops \in [Apps -> 0..MaxStops]
  /\ dumper \in [phase : {"idle", "checked", "dumped"}, app : Apps \cup {None},
                 name : {"app_system", "app_dynamic", None}]
  /\ stopFailed \in BOOLEAN

IInv == Good(sm) /\ Rest /\ Owned /\ DynamicHasStop

(* The steps that only change the machine, and start no application trace.  *)
LEMMA KeptInv ==
  ASSUME IInv, Good(sm'), Kept(sm, sm'), UNCHANGED <<stops, dumper, stopFailed>>, loaded' \in 0..4
  PROVE  IInv'
<1>1. Rest'
  BY DEF IInv, Rest
<1>2. Owned'
  BY DEF IInv, Owned, Kept
<1>3. DynamicHasStop'
  BY DEF IInv, DynamicHasStop, Kept
<1> QED BY <1>1, <1>2, <1>3 DEF IInv

LEMMA InitInv == Init => IInv
<1> SUFFICES ASSUME Init PROVE IInv
  OBVIOUS
<1>1. sm \in Machine
  BY DEF Init, Machine, Scenarios
<1>2. /\ sm.cur = "close" /\ sm.kernel = "close" /\ sm.rec = FALSE /\ sm.kc = FALSE
      /\ sm.traceSwitchState = {}
  BY DEF Init
<1>5. Agrees(sm) /\ FlagHeld(sm) /\ Rule(sm)
  BY <1>2 DEF Agrees, FlagHeld, Rule
<1>3. Rest
  <2>1. stops \in [Apps -> 0..MaxStops]
    BY TraceStateAssumption DEF Init
  <2>2. dumper \in [phase : {"idle", "checked", "dumped"}, app : Apps \cup {None},
                    name : {"app_system", "app_dynamic", None}]
    BY DEF Init
  <2>3. loaded \in 0..4
    BY DEF Init
  <2>4. stopFailed \in BOOLEAN
    BY Zenon DEF Init
  <2> QED BY <2>1, <2>2, <2>3, <2>4 DEF Rest
<1>4. Owned /\ DynamicHasStop
  BY DEF Init, Owned, DynamicHasStop
<1> QED BY <1>1, <1>3, <1>4, <1>5 DEF IInv, Good, Sound

(* A step that leaves the scenario, or moves between the command states.    *)
SameOwner(m, n) ==
  /\ n \in Machine /\ Agrees(n)
  /\ n.cur = m.cur \/ (m.cur \in {"command", "command_drop"} /\ n.cur \in {"command", "command_drop"})
  /\ n.app = m.app /\ n.unserved = m.unserved /\ n.traceSwitchState = m.traceSwitchState
  /\ m.isCommandState => n.isCommandState

LEMMA SameOwnerGood ==
  ASSUME NEW m, NEW n, Good(m), SameOwner(m, n)
  PROVE  Good(n) /\ Kept(m, n) /\ ~Lowers(m, n)
<1>1. FlagHeld(n)
  BY DEF Good, Sound, FlagHeld, SameOwner
<1>2. Rule(n)
  BY DEF Good, Rule, SameOwner
<1>3. Kept(m, n)
  BY DEF Kept, SameOwner
<1>4. ~Lowers(m, n)
  BY Levels DEF Lowers, SameOwner, Good, Sound, Machine, Scenarios
<1> QED BY <1>1, <1>2, <1>3, <1>4 DEF Good, Sound, SameOwner

LEMMA DropOnOwner ==
  ASSUME NEW m, Good(m), m.cur = "command"
  PROVE  SameOwner(m, [m EXCEPT !.cur = "command_drop", !.rec = TRUE])
<1> DEFINE n == [m EXCEPT !.cur = "command_drop", !.rec = TRUE]
<1> m \in Machine /\ Agrees(m)
  BY DEF Good, Sound
<1>1. n \in Machine
  BY DEF Machine, Scenarios
<1>2. /\ n.cur = "command_drop" /\ n.rec /\ n.app = m.app /\ n.unserved = m.unserved
      /\ n.traceSwitchState = m.traceSwitchState /\ n.isCommandState = m.isCommandState
      /\ n.astray = m.astray /\ n.kernel = m.kernel /\ n.kc = m.kc
  BY DEF Machine
<1> HIDE DEF n
<1>3. Agrees(n)
  BY <1>2 DEF Agrees
<1> QED BY <1>1, <1>2, <1>3 DEF SameOwner, n

LEMMA DropOffOwner ==
  ASSUME NEW m, Good(m), m.cur = "command_drop"
  PROVE  SameOwner(m, [m EXCEPT !.cur = "command", !.rec = FALSE, !.isCommandState = TRUE])
<1> DEFINE n == [m EXCEPT !.cur = "command", !.rec = FALSE, !.isCommandState = TRUE]
<1> m \in Machine /\ Agrees(m)
  BY DEF Good, Sound
<1>1. n \in Machine
  BY DEF Machine, Scenarios
<1>2. /\ n.cur = "command" /\ ~n.rec /\ n.app = m.app /\ n.unserved = m.unserved
      /\ n.traceSwitchState = m.traceSwitchState /\ n.isCommandState
      /\ n.astray = m.astray /\ n.kernel = m.kernel /\ n.kc = m.kc
  BY DEF Machine
<1> HIDE DEF n
<1>3. Agrees(n)
  BY <1>2 DEF Agrees
<1> QED BY <1>1, <1>2, <1>3 DEF SameOwner, n

LEMMA CacheOwner ==
  ASSUME NEW m, Good(m), NEW on \in BOOLEAN, NEW fails \in BOOLEAN,
         NEW kc, kc = IF m.cur = "common_beta" /\ ~fails THEN on ELSE m.kc,
         NEW stray, stray = IF m.cur = "common_beta" /\ fails THEN TRUE ELSE m.astray
  PROVE  SameOwner(m, [m EXCEPT !.isCachSwitchOn = on, !.kc = kc, !.astray = stray])
<1> DEFINE n == [m EXCEPT !.isCachSwitchOn = on, !.kc = kc, !.astray = stray]
<1> m \in Machine /\ Agrees(m)
  BY DEF Good, Sound
<1>1. m.kc \in BOOLEAN /\ m.astray \in BOOLEAN
  BY DEF Machine
<1>2. kc \in BOOLEAN /\ stray \in BOOLEAN
  <2>1. CASE m.cur = "common_beta" /\ fails
    BY <1>1, <2>1, Zenon
  <2>2. CASE m.cur = "common_beta" /\ ~fails
    BY <1>1, <2>2, Zenon
  <2>3. CASE m.cur # "common_beta"
    BY <1>1, <2>3, Zenon
  <2> QED BY <2>1, <2>2, <2>3, Zenon
<1>3. n \in Machine
  BY <1>2, ZenonT(60) DEF Machine
<1>4. /\ n.cur = m.cur /\ n.rec = m.rec /\ n.app = m.app /\ n.unserved = m.unserved
      /\ n.traceSwitchState = m.traceSwitchState /\ n.isCommandState = m.isCommandState
      /\ n.astray = stray /\ n.kernel = m.kernel /\ n.kc = kc /\ n.isCachSwitchOn = on
  BY DEF Machine
<1> HIDE DEF n
<1>5. Agrees(n)
  <2>1. CASE m.cur = "common_beta" /\ fails
    BY <2>1, <1>4 DEF Agrees
  <2>2. CASE m.cur = "common_beta" /\ ~fails
    BY <2>2, <1>4 DEF Agrees
  <2>3. CASE m.cur # "common_beta"
    BY <2>3, <1>4 DEF Agrees
  <2> QED BY <2>1, <2>2, <2>3
<1> QED BY <1>3, <1>4, <1>5 DEF SameOwner, n

LEMMA ForeignOwner ==
  ASSUME NEW m, Good(m)
  PROVE  SameOwner(m, [m EXCEPT !.kernel = "foreign", !.rec = FALSE, !.kc = FALSE, !.astray = TRUE])
BY DEF Good, Sound, Machine, SameOwner, Agrees

(* What one step does to the invariant and to the level.                    *)
StepPost ==
  /\ IInv'
  /\ Lowers(sm, sm') =>
       \/ sm.cur = "app_dynamic" /\ AppTraceStop
       \/ sm.cur = "app_system" /\ AppSystemClose
       \/ sm.cur = "telemetry" /\ CloseAs("telemetry")
       \/ sm.cur \in {"command", "command_drop", "common_beta"} /\ CloseAs("command")
       \/ sm.cur \in {"common_beta", "common_drop"} /\ (LoadTraceSwitch \/ OnParamChanged
              \/ OnSwitchStateChanged \/ Dump \/ AppDump)

LEMMA StepInv == IInv /\ Next => StepPost
<1> SUFFICES ASSUME IInv, Next PROVE StepPost
  OBVIOUS
<1> Good(sm) /\ Rest /\ Owned /\ DynamicHasStop /\ sm \in Machine
  BY DEF IInv, Good, Sound
<1>0. sm' = sm => ~Lowers(sm, sm') /\ Kept(sm, sm') /\ Good(sm')
  BY Levels DEF Kept, Lowers, Machine, Scenarios
<1>1. CASE Open
  <2>1. PICK s \in {"command", "telemetry"}, f \in FailureSets : sm' = OpenTrace(sm, s, None, f).m
    BY <1>1 DEF Open
  <2>2. Good(sm') /\ ~Lowers(sm, sm') /\ Kept(sm, sm')
    BY <2>1, OpenGood DEF Kept
  <2>3. IInv'
    BY <2>2, <1>1, KeptInv DEF Open, Rest
  <2> QED BY <2>2, <2>3 DEF StepPost
<1>2. CASE StartAppTrace
  <2>1. PICK a \in Apps, f \in FailureSets :
          LET r == OpenTrace(sm, "app_dynamic", a, f) IN
          /\ stops[a] < MaxStops
          /\ sm' = r.m
          /\ stops' = IF r.ret = "SUCCESS" THEN [stops EXCEPT ![a] = @ + 1] ELSE stops
          /\ stopFailed' = (stopFailed /\ r.ret # "SUCCESS")
    BY <1>2 DEF StartAppTrace
  <2> DEFINE r == OpenTrace(sm, "app_dynamic", a, f)
  <2>2. /\ Good(sm') /\ ~Lowers(sm, sm')
        /\ r.ret # "SUCCESS" => sm'.cur = sm.cur
        /\ sm'.cur = sm.cur => sm'.app = sm.app
        /\ sm'.cur = sm.cur \/ sm'.cur = "app_dynamic"
    BY <2>1, OpenGood
  <2> HIDE DEF r
  <2>3. UNCHANGED <<loaded, dumper>>
    BY <1>2 DEF StartAppTrace
  <2>4. stopFailed' \in BOOLEAN
    BY <2>1, Zenon
  <2>5. stops[a] \in 0..MaxStops /\ MaxStops \in Nat
    BY TraceStateAssumption DEF Rest
  <2>6. stops' \in [Apps -> 0..MaxStops]
    BY <2>1, <2>5 DEF Rest
  <2>7. Rest'
    BY <2>3, <2>4, <2>6 DEF Rest
  <2>8. Owned'
    BY <2>2, <2>3 DEF Owned
  <2>9. DynamicHasStop'
    <3>1. CASE r.ret = "SUCCESS"
      <4>1. stops'[a] > 0
        BY <3>1, <2>1, <2>5 DEF Rest, r
      <4> QED BY <4>1 DEF DynamicHasStop
    <3>2. CASE r.ret # "SUCCESS"
      <4>1. stops' = stops /\ (stopFailed => stopFailed')
        BY <3>2, <2>1 DEF r
      <4> QED BY <4>1, <3>2, <2>2 DEF DynamicHasStop
    <3> QED BY <3>1, <3>2
  <2> QED BY <2>2, <2>7, <2>8, <2>9 DEF StepPost, IInv
<1>3. CASE AppTraceStop
  <2>1. PICK a \in Apps, f \in FailureSets :
          /\ stops[a] > 0
          /\ stops' = [stops EXCEPT ![a] = @ - 1]
          /\ sm' = CloseTrace(sm, "app_dynamic", f).m
          /\ stopFailed' = (sm.cur = "app_dynamic" /\ sm'.cur = "app_dynamic")
    BY <1>3 DEF AppTraceStop
  <2>2. CloseTracePost(sm, "app_dynamic", sm')
    BY <2>1, CloseGood
  <2>3. UNCHANGED <<loaded, dumper>>
    BY <1>3 DEF AppTraceStop
  <2>4. stopFailed' \in BOOLEAN
    BY <2>1, Zenon
  <2>5. stops' \in [Apps -> 0..MaxStops]
    BY <2>1, TraceStateAssumption DEF Rest
  <2>6. Rest'
    BY <2>3, <2>4, <2>5 DEF Rest
  <2>7. Owned'
    BY <2>2, <2>3 DEF Owned, CloseTracePost, Kept
  <2>8. DynamicHasStop'
    BY <2>1, <2>2 DEF DynamicHasStop, CloseTracePost, Kept
  <2> QED BY <2>2, <2>6, <2>7, <2>8, <1>3 DEF StepPost, IInv, CloseTracePost
<1>4. CASE OpenAppSystemTrace
  <2>1. PICK a \in Apps, f \in FailureSets : sm' = OpenTrace(sm, "app_system", a, f).m
    BY <1>4 DEF OpenAppSystemTrace
  <2>2. Good(sm') /\ ~Lowers(sm, sm') /\ (sm'.cur = sm.cur \/ sm'.cur = "app_system")
    BY <2>1, OpenGood
  <2>3. dumper.phase = "idle" /\ UNCHANGED <<loaded, stops, dumper, stopFailed>>
    BY <1>4 DEF OpenAppSystemTrace
  <2>4. Rest' /\ Owned'
    BY <2>3 DEF Rest, Owned
  <2>5. DynamicHasStop'
    BY <2>2, <2>3 DEF DynamicHasStop
  <2> QED BY <2>2, <2>4, <2>5 DEF StepPost, IInv
<1>5. CASE \E s \in {"command", "telemetry"} : CloseAs(s)
  <2>1. PICK s \in {"command", "telemetry"} : CloseAs(s)
    BY <1>5
  <2>2. PICK f \in FailureSets : sm' = CloseTrace(sm, s, f).m
    BY <2>1 DEF CloseAs
  <2>3. CloseTracePost(sm, s, sm')
    BY <2>2, CloseGood
  <2>4. IInv'
    BY <2>1, <2>3, KeptInv DEF CloseAs, Rest, CloseTracePost
  <2> QED BY <2>1, <2>3, <2>4 DEF StepPost, CloseTracePost
<1>6. CASE TraceDropOn
  <2>1. sm' = sm \/ (sm.cur = "command" /\ sm' = [sm EXCEPT !.cur = "command_drop", !.rec = TRUE])
    BY <1>6 DEF TraceDropOn
  <2>2. Good(sm') /\ Kept(sm, sm') /\ ~Lowers(sm, sm')
    BY <2>1, <1>0, DropOnOwner, SameOwnerGood, ZenonT(60)
  <2>3. IInv'
    BY <2>2, <1>6, KeptInv DEF TraceDropOn, Rest
  <2> QED BY <2>2, <2>3 DEF StepPost
<1>7. CASE TraceDropOff
  <2>1. \/ sm' = sm
        \/ /\ sm.cur = "command_drop"
           /\ sm' = [sm EXCEPT !.cur = "command", !.rec = FALSE, !.isCommandState = TRUE]
    BY <1>7 DEF TraceDropOff
  <2>2. Good(sm') /\ Kept(sm, sm') /\ ~Lowers(sm, sm')
    <3>1. CASE sm' = sm
      BY <3>1, <1>0
    <3>2. CASE sm' # sm
      <4>1. SameOwner(sm, sm')
        BY <2>1, <3>2, DropOffOwner
      <4> QED BY <4>1, SameOwnerGood
    <3> QED BY <3>1, <3>2
  <2>3. IInv'
    BY <2>2, <1>7, KeptInv DEF TraceDropOff, Rest
  <2> QED BY <2>2, <2>3 DEF StepPost
<1>8. CASE TraceCache
  <2>1. PICK on \in BOOLEAN, fails \in BOOLEAN :
          LET m == [sm EXCEPT !.isCachSwitchOn = on] IN
          sm' = IF sm.cur # "common_beta" THEN m
                ELSE IF fails THEN [m EXCEPT !.astray = TRUE]
                ELSE [m EXCEPT !.kc = on]
    BY <1>8, Zenon DEF TraceCache
  <2> DEFINE kc == IF sm.cur = "common_beta" /\ ~fails THEN on ELSE sm.kc
             stray == IF sm.cur = "common_beta" /\ fails THEN TRUE ELSE sm.astray
  <2>2. sm' = [sm EXCEPT !.isCachSwitchOn = on, !.kc = kc, !.astray = stray]
    <3>1. CASE sm.cur # "common_beta"
      <4>1. sm' = [sm EXCEPT !.isCachSwitchOn = on] /\ kc = sm.kc /\ stray = sm.astray
        BY <2>1, <3>1
      <4> QED BY <4>1 DEF Machine
    <3>2. CASE sm.cur = "common_beta" /\ fails
      <4>1. /\ sm' = [[sm EXCEPT !.isCachSwitchOn = on] EXCEPT !.astray = TRUE]
            /\ kc = sm.kc /\ stray = TRUE
        BY <2>1, <3>2
      <4> QED BY <4>1 DEF Machine
    <3>3. CASE sm.cur = "common_beta" /\ ~fails
      <4>1. /\ sm' = [[sm EXCEPT !.isCachSwitchOn = on] EXCEPT !.kc = on]
            /\ kc = on /\ stray = sm.astray
        BY <2>1, <3>3
      <4> QED BY <4>1 DEF Machine
    <3> QED BY <3>1, <3>2, <3>3
  <2>3. SameOwner(sm, sm')
    BY <2>2, CacheOwner
  <2>4. Good(sm') /\ Kept(sm, sm') /\ ~Lowers(sm, sm')
    BY <2>3, SameOwnerGood
  <2>5. IInv'
    BY <2>4, <1>8, KeptInv DEF TraceCache, Rest
  <2> QED BY <2>4, <2>5 DEF StepPost
<1>9. CASE LoadTraceSwitch
  <2>1. loaded < 4 /\ loaded' = loaded + 1 /\ UNCHANGED <<stops, dumper, stopFailed>>
    BY <1>9 DEF LoadTraceSwitch
  <2>2. \/ sm' = sm
        \/ \E b \in Switches, f \in FailureSets : SetSwitch(b, TRUE, f)
    BY <1>9 DEF LoadTraceSwitch, Switches
  <2>3. /\ Good(sm') /\ Kept(sm, sm')
        /\ Lowers(sm, sm') => sm.cur \in {"common_beta", "common_drop"}
    BY <2>2, <1>0, SwitchGood
  <2>4. loaded' \in 0..4
    BY <2>1 DEF Rest
  <2>5. IInv'
    BY <2>1, <2>3, <2>4, KeptInv
  <2> QED BY <2>3, <2>5, <1>9 DEF StepPost
<1>10. CASE OnParamChanged
  <2>1. PICK b \in {"freeze", "dev"}, on \in BOOLEAN, f \in FailureSets : SetSwitch(b, on, f)
    BY <1>10 DEF OnParamChanged
  <2>2. /\ Good(sm') /\ Kept(sm, sm')
        /\ Lowers(sm, sm') => sm.cur \in {"common_beta", "common_drop"}
    BY <2>1, SwitchGood DEF Switches
  <2>3. IInv'
    BY <1>10, <2>2, KeptInv DEF OnParamChanged, Rest
  <2> QED BY <2>2, <2>3, <1>10 DEF StepPost
<1>10a. CASE OnSwitchStateChanged
  <2>1. PICK on \in BOOLEAN, f \in FailureSets : SetSwitch("uc", on, f)
    BY <1>10a DEF OnSwitchStateChanged
  <2>2. /\ Good(sm') /\ Kept(sm, sm')
        /\ Lowers(sm, sm') => sm.cur \in {"common_beta", "common_drop"}
    BY <2>1, SwitchGood DEF Switches
  <2>3. IInv'
    BY <1>10a, <2>2, KeptInv DEF OnSwitchStateChanged, Rest
  <2> QED BY <2>2, <2>3, <1>10a DEF StepPost
<1>11. CASE Dump
  <2>1. PICK name \in {"common_beta", "command"}, f \in FailureSets : DumpTrace(name, f)
    BY <1>11 DEF Dump
  <2>2. /\ Good(sm') /\ Kept(sm, sm')
        /\ Lowers(sm, sm') => sm.cur \in {"common_beta", "common_drop"}
    BY <2>1, DumpGood
  <2>3. IInv'
    BY <1>11, <2>2, KeptInv DEF Dump, Rest
  <2> QED BY <2>2, <2>3, <1>11 DEF StepPost
<1>12. CASE AppDumpCheck
  <2>1. PICK a \in Apps, name \in {"app_system", "app_dynamic"} :
          sm.app = a /\ dumper' = [phase |-> "checked", app |-> a, name |-> name]
    BY <1>12 DEF AppDumpCheck
  <2>2. UNCHANGED <<sm, loaded, stops, stopFailed>>
    BY <1>12 DEF AppDumpCheck
  <2>3. Rest' /\ Owned'
    BY <2>1, <2>2 DEF Rest, Owned
  <2>4. DynamicHasStop' /\ Good(sm')
    BY <2>2, <1>0 DEF DynamicHasStop
  <2> QED BY <2>2, <2>3, <2>4, <1>0 DEF StepPost, IInv
<1>13. CASE AppDump
  <2>1. PICK f \in FailureSets : DumpTrace(dumper.name, f)
    BY <1>13 DEF AppDump
  <2>2. /\ Good(sm') /\ Kept(sm, sm')
        /\ Lowers(sm, sm') => sm.cur \in {"common_beta", "common_drop"}
    BY <2>1, DumpGood
  <2>3. UNCHANGED <<loaded, stops, stopFailed>>
    BY <1>13 DEF AppDump
  <2>4. \/ dumper' = [dumper EXCEPT !.phase = "dumped"]
        \/ dumper' = [phase |-> "idle", app |-> None, name |-> None]
    BY <1>13 DEF AppDump
  <2>5. Rest' /\ Owned'
    BY <2>3, <2>4 DEF Rest, Owned
  <2>6. DynamicHasStop'
    BY <2>2, <2>3 DEF DynamicHasStop, Kept
  <2> QED BY <2>2, <2>5, <2>6, <1>13 DEF StepPost, IInv
<1>14. CASE AppSystemClose
  <2>1. PICK f \in FailureSets : sm' = CloseTrace(sm, "app_system", f).m
    BY <1>14 DEF AppSystemClose
  <2>2. CloseTracePost(sm, "app_system", sm')
    BY <2>1, CloseGood
  <2>3. /\ UNCHANGED <<loaded, stops, stopFailed>>
        /\ dumper' = [phase |-> "idle", app |-> None, name |-> None]
    BY <1>14 DEF AppSystemClose
  <2>4. Rest' /\ Owned'
    BY <2>3 DEF Rest, Owned
  <2>5. DynamicHasStop'
    BY <2>2, <2>3 DEF DynamicHasStop, Kept, CloseTracePost
  <2> QED BY <2>2, <2>4, <2>5, <1>14 DEF StepPost, IInv, CloseTracePost
<1>15. CASE OtherProcess
  <2>1. sm' = [sm EXCEPT !.kernel = "foreign", !.rec = FALSE, !.kc = FALSE, !.astray = TRUE]
    BY <1>15 DEF OtherProcess
  <2>2. Good(sm') /\ Kept(sm, sm') /\ ~Lowers(sm, sm')
    BY <2>1, ForeignOwner, SameOwnerGood
  <2>3. IInv'
    BY <2>2, <1>15, KeptInv DEF OtherProcess, Rest
  <2> QED BY <2>2, <2>3 DEF StepPost
<1> QED
  BY <1>1, <1>2, <1>3, <1>4, <1>5, <1>6, <1>7, <1>8, <1>9, <1>10, <1>10a, <1>11, <1>12, <1>13,
     <1>14, <1>15 DEF Next

LEMMA StutterInv == IInv /\ UNCHANGED vars => IInv'
BY DEF vars, IInv, Good, Sound, Machine, Agrees, FlagHeld, Rule, Rest, Owned, DynamicHasStop

(* The invariant of the trace state machine holds in every reachable state. *)
THEOREM TraceInvariant == Spec => []IInv
<1>1. IInv /\ [Next]_vars => IInv'
  BY StepInv, StutterInv DEF StepPost
<1> QED BY InitInv, <1>1, PTL DEF Spec

(* Every variable keeps its type.                                           *)
THEOREM TypeCorrect == Spec => []TypeOK
<1>1. IInv => TypeOK
  BY DEF IInv, Good, Sound, Machine, Rest, TypeOK
<1> QED BY <1>1, TraceInvariant, PTL

(* The kernel traces what the machine believes while no call went astray.   *)
THEOREM KernelFollows == Spec => []KernelAgrees
<1>1. IInv => KernelAgrees
  BY DEF IInv, Good, Sound, Agrees, KernelAgrees
<1> QED BY <1>1, TraceInvariant, PTL

(* The recording switches decide the common scenarios.                      *)
THEOREM SwitchesServed == Spec => []SwitchesRule
<1>1. IInv => SwitchesRule
  BY DEF IInv, Good, Rule, SwitchesRule
<1> QED BY <1>1, TraceInvariant, PTL

(* The command flag is set in both command states.                          *)
THEOREM CommandFlag == Spec => []CommandFlagHeld
<1>1. IInv => CommandFlagHeld
  BY DEF IInv, Good, Sound, FlagHeld, CommandFlagHeld
<1> QED BY <1>1, TraceInvariant, PTL

(* A system-trace dump that is accepted hands out the caller's own trace.   *)
THEOREM SystemDumpOwned == Spec => []SystemDumpIsOwn
<1>1. IInv => SystemDumpIsOwn
  <2> SUFFICES ASSUME IInv, dumper.phase = "checked", dumper.name = "app_system", Dumpable("app_system")
               PROVE  sm.app = dumper.app
    BY DEF SystemDumpIsOwn
  <2>1. sm.cur = "app_system"
    BY DEF Dumpable
  <2> QED BY <2>1 DEF IInv, Owned
<1> QED BY <1>1, TraceInvariant, PTL

(* An application trace has a stop to come, or its stop failed.             *)
THEOREM DynamicStops == Spec => []DynamicHasStop
<1>1. IInv => DynamicHasStop
  BY DEF IInv
<1> QED BY <1>1, TraceInvariant, PTL

(* No trace gives way to a lower level but in its owner's name.             *)
THEOREM OwnersLower == Spec => OnlyOwnerLowers
<1>1. IInv /\ [Next]_vars => [Level[sm'.cur] < Level[sm.cur] =>
       \/ sm.cur = "app_dynamic" /\ AppTraceStop
       \/ sm.cur = "app_system" /\ AppSystemClose
       \/ sm.cur = "telemetry" /\ CloseAs("telemetry")
       \/ sm.cur \in {"command", "command_drop", "common_beta"} /\ CloseAs("command")
       \/ sm.cur \in {"common_beta", "common_drop"} /\ (LoadTraceSwitch \/ OnParamChanged
              \/ OnSwitchStateChanged \/ Dump \/ AppDump)]_vars
  BY StepInv DEF StepPost, Lowers
<1> QED BY <1>1, TraceInvariant, PTL DEF Spec, OnlyOwnerLowers
=============================================================================
