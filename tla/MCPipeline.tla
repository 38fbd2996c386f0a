------------------------------ MODULE MCPipeline -----------------------------
(* Instances of Pipeline: p1 and p2 have a loop each, p3 has none; p4 and   *)
(* p5 share a loop and may both be unloaded. Two rules match e2.            *)
EXTENDS Pipeline, TLC

CONSTANTS e1, e2, p1, p2, p3, p4, p5, l1, l2, l3, src

MCLoopOf == p1 :> l1 @@ p2 :> l2 @@ p3 :> Inline @@ p4 :> l3 @@ p5 :> l3
MCDefault == <<p1, p3, p4, p2>>
MCRules == << [pipeline |-> <<p2, p3, p5>>, events |-> {e2}],
              [pipeline |-> <<p5, p3>>, events |-> {e2}] >>
MCInterested == {p1, p2, p3, p4, p5} \X {e1, e2} \ {<<p3, e2>>}
=============================================================================
