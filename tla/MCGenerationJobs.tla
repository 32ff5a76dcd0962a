-------------------------- MODULE MCGenerationJobs --------------------------
(* Two commit jobs and a theme share one slot; two may be unfinished.      *)
EXTENDS GenerationJobs

CONSTANTS c1, c2, t1
=============================================================================
