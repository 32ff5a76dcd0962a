-------------------------- MODULE MCLegacyExecutor --------------------------
(***************************************************************************)
(* Two branches that join, then a loop whose body is two branches that     *)
(* join, then a for_each node with a successor, then an infinite loop that *)
(* a break or pass ends.  One of the first branches halts the run when     *)
(* it fails, the other has a failure route that may end in fail.           *)
(***************************************************************************)
EXTENDS LegacyExecutor

CONSTANTS c, d, q, w, m, lp, a, b, j, f, g, inf, x, y, k, z, p

MCOrder == <<c, d, q, w, m, lp, a, b, j, f, g, inf, x, y, k, z, p>>
MCNodes == Elements(MCOrder)
E(u, v, when) == [from |-> u, to |-> v, when |-> when]
MCEdges ==
  <<E(c, m, "always"), E(d, m, "success"), E(d, q, "failure"), E(q, w, "matches"), E(m, lp, "always"),
    E(lp, a, "always"), E(lp, b, "always"), E(a, j, "success"), E(b, j, "always"),
    E(lp, f, "after"), E(f, g, "nomatch"), E(f, inf, "after"),
    E(inf, x, "always"), E(x, k, "matches"), E(x, y, "always"), E(inf, z, "after"),
    E(y, p, "matches")>>
MCKind ==
  [n \in MCNodes |-> CASE n = lp -> "loop" [] n = inf -> "infinite" [] n = k -> "break"
                       [] n = p -> "pass" [] n = w -> "fail" [] OTHER -> "op"]
MCSource == [n \in MCNodes |-> n]
MCSize == [n \in MCNodes |-> CASE n = lp -> 3 [] n = f -> 2 [] OTHER -> 0]
MCWidth == [n \in MCNodes |-> IF n = lp THEN 2 ELSE 1]
MCRetries == [n \in MCNodes |-> IF n = d THEN 1 ELSE 0]
Ok == [ok |-> TRUE, hit |-> FALSE]
OkHit == [ok |-> TRUE, hit |-> TRUE]
Error == [ok |-> FALSE, hit |-> FALSE]
MCOutcomes ==
  [n \in MCNodes |-> CASE n \in {c, d, g} -> {Ok, Error} [] n \in {q, x, y} -> {Ok, OkHit}
                       [] n = w -> {Error} [] OTHER -> {Ok}]
MCForEach == {f}
MCChanges == {{}, {c}}
MCLosses == {{}, {q}}
MCNone == {}

\* The workflow is of the kind the theorems of LegacyExecutorProofs are about.
MCInside ==
  [n \in MCNodes |-> CASE n \in {a, b, j} -> lp [] n = g -> f [] n \in {x, y, k, p} -> inf [] OTHER -> NULL]
ASSUME MCComplete == Complete(MCInside)
=============================================================================
