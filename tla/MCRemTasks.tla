----------------------------- MODULE MCRemTasks -----------------------------
(* Instances of RemTasks: every kind of repetition at most once, apart from  *)
(* two kinds of recheck, which differ from the third only in their name.     *)
EXTENDS RemTasks

Once == [b \in Budgets |-> IF b \in {"format", "receipt"} THEN 0 ELSE 1]
=============================================================================
