---------------------------- MODULE MCScheduler ----------------------------
(* Two initial nodes a and b may signal the join j, which needs both.  When *)
(* a fails (allowed) or its condition is false, its otherwise routes signal *)
(* b a second time and the failure terminal f, which waits for j.  j routes *)
(* back to b or to itself (cycles that only the budgets end), on to f, or   *)
(* to the break k outside its loop.  b may start the loop s over three      *)
(* items, two at a time, whose body w may fail and goes on to the break k   *)
(* or to the collector c, or else the infinite loop i, whose body v goes on *)
(* to its break x.                                                          *)
EXTENDS WorkflowScheduler, TLC

CONSTANTS a, b, j, f, s, w, k, c, i, v, x

To(t, m) == [target |-> t, mode |-> m]
Each(y) == [n \in Nodes |-> y]
GraphRank == (a :> 1) @@ (b :> 2) @@ (j :> 3) @@ (f :> 4) @@ (s :> 5) @@ (w :> 6)
          @@ (k :> 7) @@ (c :> 8) @@ (i :> 9) @@ (v :> 10) @@ (x :> 11)
GraphNeeds == (j :> {a, b}) @@ (f :> {j}) @@ (s :> {b}) @@ (w :> {s}) @@ (k :> {b})
           @@ (c :> {s, w}) @@ (i :> {b}) @@ (v :> {i}) @@ (x :> {v}) @@ Each({})
GraphRoutes == (a :> {To(j, "conditional"), To(b, "otherwise"), To(f, "otherwise")})
            @@ (b :> {To(j, "conditional"), To(s, "conditional"), To(i, "otherwise")})
            @@ (j :> {To(b, "conditional"), To(j, "conditional"), To(f, "conditional"),
                      To(k, "otherwise")})
            @@ (s :> {To(w, "conditional")})
            @@ (w :> {To(k, "conditional"), To(c, "otherwise")})
            @@ (i :> {To(v, "conditional")}) @@ (v :> {To(x, "conditional")})
            @@ Each({})
GraphOutcomes == (a :> {"success", "allowed_failure"}) @@ (j :> {"success", "failure"})
              @@ (w :> {"success", "failure"}) @@ Each({"success"})
GraphConcurrency == (j :> 2) @@ (w :> 2) @@ (v :> 2) @@ Each(1)
GraphMaxRuns == (b :> 3) @@ Each(NULL)
GraphFinish == (f :> "fail") @@ Each(NULL)
Sources == (s :> [items |-> 3, infinite |-> FALSE, conc |-> 2, failFast |-> FALSE])
        @@ (i :> [items |-> 0, infinite |-> TRUE, conc |-> 2, failFast |-> TRUE])
Targeted == (k :> s) @@ (x :> i)
=============================================================================
