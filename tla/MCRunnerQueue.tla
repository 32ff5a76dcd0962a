--------------------------- MODULE MCRunnerQueue ---------------------------
(* Two runner rows, three workers of which two were started with one --id, *)
(* and two runs: x2 outranks x1, and only runner r1 matches x1.            *)
EXTENDS RunnerQueue, TLC

CONSTANTS r1, r2, w1, w2, w3, x1, x2

MCRunnerOf == (w1 :> r1) @@ (w2 :> r1) @@ (w3 :> r2)
MCMatches == {<<r1, x1>>, <<r1, x2>>, <<r2, x2>>}
MCPriority == (x1 :> 0) @@ (x2 :> 1)
=============================================================================
