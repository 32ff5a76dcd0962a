---------------------------- MODULE MCRunService ----------------------------
(* Two threads, of the desktop p and of the command line q (TwoProcesses)  *)
(* or both of the desktop (OneProcess), start and resume runs of one       *)
(* workflow.                                                               *)
EXTENDS RunService, TLC

CONSTANTS p, q, c1, c2, r1, r2, r3

TwoProcesses == (c1 :> p) @@ (c2 :> q)
\* The runs are alike, and so are the two processes with their threads.
Swapped == (p :> q) @@ (q :> p) @@ (c1 :> c2) @@ (c2 :> c1)
Symmetric == UNION {{f, f @@ Swapped} : f \in Permutations(Runs)}
OneProcess == (c1 :> p) @@ (c2 :> p)
=============================================================================
