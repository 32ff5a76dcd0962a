------------------------- MODULE MCSchedulerResume -------------------------
(* A run that fails or is cut off anywhere is resumed, up to twice.  Two   *)
(* initial nodes a and b signal the loop s, which needs both, so that      *)
(* their signals merge.                                                    *)
(* Its two iterations run at the same time and signal e, which may fail,   *)
(* and v, which may signal e again.  Only one e runs at a time: in a       *)
(* resumed run the e of one iteration can hold up that of the other, whose *)
(* result is saved, until live work has completed beside it.               *)
EXTENDS WorkflowScheduler, TLC

CONSTANTS a, b, s, e, v

To(t, m) == [target |-> t, mode |-> m]
Each(x) == [n \in Nodes |-> x]
ResumeRank == (a :> 1) @@ (b :> 2) @@ (s :> 3) @@ (e :> 4) @@ (v :> 5)
ResumeNeeds == (a :> {}) @@ (b :> {}) @@ (s :> {a, b}) @@ (e :> {s}) @@ (v :> {s})
ResumeRoutes == (a :> {To(s, "unconditional")}) @@ (b :> {To(s, "unconditional")})
             @@ (s :> {To(e, "unconditional"), To(v, "unconditional")})
             @@ (e :> {}) @@ (v :> {To(e, "conditional")})
ResumeOutcomes == (e :> {"success", "failure"}) @@ Each({"success"})
ResumeConcurrency == (v :> 2) @@ Each(1)
Unlimited == Each(NULL)
Sources == s :> [items |-> 2, infinite |-> FALSE, conc |-> 2, failFast |-> FALSE]
None == << >>
=============================================================================
