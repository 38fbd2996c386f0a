---------------------------- MODULE EventDelivery ----------------------------
(***************************************************************************)
(* What the pipeline framework promises for an event: it travels through   *)
(* the plugins of one pipeline in their configured order, reaches each at  *)
(* most once, ends at most once, and after its end reaches nobody. A       *)
(* plugin that suspended the event may abandon it, and events for a        *)
(* plugin that is being unloaded may be dropped together.                  *)
(***************************************************************************)
EXTENDS Integers, Sequences, FiniteSets

CONSTANTS Events, Plugins, Pipelines  \* Pipelines: a set of plugin sequences

VARIABLES state, route, reached

dvars == <<state, route, reached>>

Position(s, p) == CHOOSE i \in 1..Len(s) : s[i] = p

Init ==
  /\ state = [e \in Events |-> "new"]
  /\ route = [e \in Events |-> <<>>]
  /\ reached = [e \in Events |-> {}]

Publish(e) ==
  /\ state[e] = "new"
  /\ state' = [state EXCEPT ![e] = "travelling"]
  /\ \E s \in Pipelines : route' = [route EXCEPT ![e] = s]
  /\ UNCHANGED reached

Reach(e, p) ==
  /\ state[e] = "travelling"
  /\ \E i \in 1..Len(route[e]) : route[e][i] = p
  /\ \A q \in reached[e] : Position(route[e], q) < Position(route[e], p)
  /\ reached' = [reached EXCEPT ![e] = @ \cup {p}]
  /\ UNCHANGED <<state, route>>

End(e) ==
  /\ state[e] = "travelling"
  /\ \E outcome \in {"finished", "abandoned"} : state' = [state EXCEPT ![e] = outcome]
  /\ UNCHANGED <<route, reached>>

Drop(lost) ==
  /\ \A e \in lost : state[e] = "travelling"
  /\ state' = [e \in Events |-> IF e \in lost THEN "dropped" ELSE state[e]]
  /\ UNCHANGED <<route, reached>>

Next ==
  \/ \E e \in Events : Publish(e) \/ End(e) \/ \E p \in Plugins : Reach(e, p)
  \/ \E lost \in SUBSET Events : Drop(lost)

Spec == Init /\ [][Next]_dvars
=============================================================================
