----------------------------- MODULE MCPlatform -------------------------------
(* Instances of Platform: the platform's own config and one bundle; b is in *)
(* the platform's config and is named by the bundle's pipeline; b and d use *)
(* one thread, a has its own; f has none and is listed in both configs; u   *)
(* is not ready to load.                                                    *)
EXTENDS Platform, TLC

CONSTANTS a, b, d, f, u, v, w, pipe1, pipe2

MCGroups == << <<a, b, f>>, <<d, u, f>> >>
MCPipeGroup == pipe1 :> 1 @@ pipe2 :> 2
MCPipeDef == pipe1 :> <<a, f, d>> @@ pipe2 :> <<b, u, d>>
MCLoopName == a :> v @@ b :> w @@ d :> w @@ f :> None @@ u :> None
=============================================================================
