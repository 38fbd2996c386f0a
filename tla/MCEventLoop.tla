----------------------------- MODULE MCEventLoop -----------------------------
(* Small instances of EventLoop. The calls are interchangeable: MixedKinds, *)
(* where only e1 may be a one-shot timer, has every pair of its three kinds *)
(* except two one-shot timers.                                              *)
EXTENDS EventLoop, TLC

CONSTANT e1

MixedKinds ==
  [e \in Events |-> {"packaged", "repeat"} \cup IF e = e1 THEN {"timer"} ELSE {}]
OnlyTimers == [e \in Events |-> {"timer"}]
OnlyPackaged == [e \in Events |-> {"packaged"}]
=============================================================================
