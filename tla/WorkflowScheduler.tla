-------------------------- MODULE WorkflowScheduler --------------------------
(***************************************************************************)
(* The scheduler that executes one Rattish workflow:                       *)
(* src/gofer/rattish/workflow_runtime.py, class _WorkflowScheduler.        *)
(*                                                                         *)
(* The scheduler is one asyncio task.  It gives way to others only where   *)
(* it awaits a completion (pc = "await"); everything it does with one      *)
(* completion happens before the next await.  Here that handler is a chain *)
(* of steps, each forced by pc: the completion is recorded, the loop it    *)
(* opens or closes is handled, its routes are emitted ("routes"), loops    *)
(* are settled ("settle"), and runnable activations are started ("start"). *)
(*                                                                         *)
(* Node tasks run concurrently and end in any order; a task that has ended *)
(* but is not processed yet is still "running" here, which is how the      *)
(* scheduler sees it.  Outputs, predicates over them and the attempts of a *)
(* node are abstracted to the outcome of the activation and the set of     *)
(* conditional routes that match.                                          *)
(***************************************************************************)
EXTENDS Integers, Sequences, FiniteSets

CONSTANTS
  Nodes,             \* node ids of the IR
  Rank,              \* [Nodes -> Nat]: the order of node ids and of a node's routes
  Needs,             \* [Nodes -> SUBSET Nodes]: readiness.needs
  Routes,            \* [Nodes -> sets of [target, mode]]
  Outcomes,          \* [Nodes -> outcomes the node can end with]
  MaxConcurrency,    \* [Nodes -> execution.max_concurrency]
  MaxRuns,           \* [Nodes -> execution.max_runs], NULL for none
  WorkflowMaxRuns,   \* workflow.max_runs, NULL for none
  Finish,            \* [Nodes -> execution.finish]: NULL, "pass" or "fail"
  Loops,             \* nodes of type loop
  Source,            \* [Loops -> [items, infinite, conc, failFast]]: the handler's output
  Breaks,            \* nodes of type break
  BreakOf,           \* [Breaks -> Loops]: control.loop_node_id
  PublicOutputs,     \* TRUE if the workflow declares outputs
  MaxResumes,        \* bound: how often an ended run is resumed
  NULL

Reusable == {"success", "allowed_failure"}
Within(limit, k) == limit # NULL => k <= limit

ASSUME NodesAssumption == IsFiniteSet(Nodes)
ASSUME RankAssumption == Rank \in [Nodes -> Nat]
ASSUME NeedsAssumption == Needs \in [Nodes -> SUBSET Nodes]
ASSUME RoutesAssumption ==
  \A n \in Nodes : \A r \in Routes[n] :
    r.target \in Nodes /\ r.mode \in {"unconditional", "conditional", "otherwise"}
\* _matching_routes lists the unconditional routes first.
ASSUME RouteOrderAssumption ==
  \A n \in Nodes : \A r, q \in Routes[n] :
    r.mode = "unconditional" /\ q.mode = "conditional" => Rank[r.target] <= Rank[q.target]
ASSUME OutcomesAssumption ==
  \A n \in Nodes : Outcomes[n] \subseteq {"success", "allowed_failure", "failure"}
ASSUME ConcurrencyAssumption == MaxConcurrency \in [Nodes -> Nat \ {0}]
ASSUME BudgetAssumption ==
  /\ MaxRuns \in [Nodes -> Nat \union {NULL}]
  /\ WorkflowMaxRuns \in Nat \union {NULL}
  /\ NULL \notin Nat
ASSUME NoValueAssumption == NULL \notin {"node", "control", "budget", "output", "interrupted"}
ASSUME LoopsAssumption ==
  /\ Loops \subseteq Nodes
  /\ Source \in [Loops -> [items : Nat, infinite : BOOLEAN, conc : Nat \ {0},
                           failFast : BOOLEAN]]
ASSUME BreaksAssumption ==
  /\ Breaks \subseteq Nodes /\ Breaks \intersect Loops = {}
  /\ BreakOf \in [Breaks -> Loops]
\* ir_validation: a terminal node and a break node have no routes.
ASSUME TerminalAssumption == \A n \in Nodes : Finish[n] # NULL \/ n \in Breaks => Routes[n] = {}

VARIABLES
  pc,          \* where the scheduler is
  hand,        \* the completion whose routes are still to be emitted, or NULL
  pending,     \* self.pending: activations that have not started
  running,     \* self.running_groups, with the activation that runs
  satisfied,   \* self.satisfied_by_lineage, as pairs <<lineage, node>>
  loops,       \* self.loops: loop lineage -> its state
  runCounts,   \* self.run_counts
  totalRuns,   \* self.total_runs
  sequence,    \* self.sequence
  deferred,    \* self.deferred_loop_failures is not empty
  error,       \* self.error: its kind, or NULL
  records,     \* self.records, kept when the run may be resumed
  prior,       \* the records a resumed run replays
  replaying,   \* self.replaying
  starts,      \* self.replay_starts
  dirty,       \* self.dirty_lineages
  resumes,     \* how often the run was resumed
  cut          \* history: what the earlier run had running and pending at its end

budgetVars == <<runCounts, totalRuns>>
endVars == <<deferred, error>>
replayVars == <<prior, replaying, starts, resumes, cut>>
vars == <<pc, hand, pending, running, satisfied, loops, runCounts, totalRuns, sequence,
          deferred, error, records, prior, replaying, starts, dirty, resumes, cut>>

-----------------------------------------------------------------------------
(* Activations.  A group id is <<node>> for an initial activation, <<ids>> *)
(* for merged ones, and <<g, n, r, i>> for iteration i of the loop that    *)
(* run r of loop node n opened in group g; <<g, n, r>> is that loop's      *)
(* lineage.  An activation's scope is what it hands on to the activations  *)
(* it leads to; within lists the iterations it is part of, which the code  *)
(* reads off the prefixes of the group id.                                 *)

Root == <<>>
Initial(n) == <<n>>
Merged(groups) == <<groups>>
LoopLineage(group, n, run) == <<group, n, run>>
Iteration(l, i) == <<l[1], l[2], l[3], i>>

InitialScope(n) ==
  [group |-> Initial(n), lineage |-> Root, loops |-> {}, within |-> {}]

\* The scope of iteration i of loop lineage l, whose loop ran in scope s.
IterationScope(l, s, i) ==
  [group |-> Iteration(l, i), lineage |-> Iteration(l, i),
   loops |-> {m \in s.loops : m[2] # l[2]} \union {l},
   within |-> s.within \union {Iteration(l, i)}]

LineageIsUnlocked(n, lineage, sat) == \A m \in Needs[n] : <<lineage, m>> \in sat
IsUnlocked(a) == LineageIsUnlocked(a.node, a.scope.lineage, satisfied)

\* Mutant of Unlocks: the lineage is only looked at once satisfied was updated.
UnlocksTooLate(t, lineage, before, after) ==
  ~LineageIsUnlocked(t, lineage, after) /\ LineageIsUnlocked(t, lineage, after)

\* Taking in satisfied (before, then after) opens the node t in the lineage.
Unlocks(t, lineage, before, after) ==
  ~LineageIsUnlocked(t, lineage, before) /\ LineageIsUnlocked(t, lineage, after)

Groups(as) == {a.scope.group : a \in as}

\* Mutant of Fresh: a group that runs at the node is not looked for.
FreshWhilePending(offers) ==
  {o \in offers : ~\E a \in pending : a.node = o.node /\ a.scope.group = o.scope.group}

\* _enqueue ignores an activation whose group already runs or waits at the node.
Fresh(offers) ==
  {o \in offers : ~\E a \in pending \union running :
                     a.node = o.node /\ a.scope.group = o.scope.group}

\* The order in which one handler enqueues: loops as they were opened, the
\* iterations of a loop by index, and the targets of one scope by Rank.
EarlierOffer(o, p) ==
  LET g == o.scope.group
      h == p.scope.group
      l == SubSeq(g, 1, 3)
      m == SubSeq(h, 1, 3)
  IN \/ (g = h \/ Len(g) = 1) /\ Rank[o.node] < Rank[p.node]
     \/ g # h /\ Len(g) = 4 /\ IF l = m THEN g[4] < h[4] ELSE loops[l].order < loops[m].order

\* The sequence numbers that the offers of one handler take, after number k;
\* a handler makes finitely many.
Numberings(offers, k) ==
  {f \in [offers -> (k + 1)..(k + Cardinality(offers))] :
     /\ IsFiniteSet(offers)
     /\ \A o, p \in offers :
          /\ o # p => f[o] # f[p]
          /\ EarlierOffer(o, p) => f[o] < f[p]}

Queued(offers, f) ==
  {[node |-> o.node, scope |-> o.scope, seq |-> f[o], slot |-> f[o]] : o \in offers}

\* _enqueue for every offer of a handler.
Enqueue(offers) ==
  \E f \in Numberings(Fresh(offers), sequence) :
    /\ pending' = pending \union Queued(Fresh(offers), f)
    /\ sequence' = sequence + Cardinality(Fresh(offers))

-----------------------------------------------------------------------------
(* Loops.                                                                  *)

\* How many items _fill_loop_capacity takes: as many as there is room for.
\* Without routes an iteration ends as it opens, so all are taken.
Room(state) == state.conc - Cardinality(state.active)
Left(state) == IF state.infinite THEN Room(state) ELSE state.items - state.next

\* Mutant of Count: a broken loop goes on.
CountDespiteBreak(state) ==
  IF Room(state) <= 0 \/ Left(state) <= 0 THEN 0
  ELSE IF state.targets = {} \/ Left(state) < Room(state) THEN Left(state) ELSE Room(state)

Count(state) ==
  IF state.closed \/ Room(state) <= 0 \/ Left(state) <= 0 THEN 0
  ELSE IF state.targets = {} \/ Left(state) < Room(state) THEN Left(state) ELSE Room(state)
Opened(state) == state.next..(state.next + Count(state) - 1)

\* An open infinite loop without routes keeps _fill_loop_capacity going for ever.
Spins(state) == ~state.closed /\ state.infinite /\ state.targets = {} /\ Room(state) > 0

Filled(l, state) ==
  [state EXCEPT
     !.next = @ + Count(state),
     !.active = @ \union {Iteration(l, i) : i \in {j \in Opened(state) : state.targets # {}}}]

\* The activations that filling the loops ls (with their old states) enqueues.
BodyOffers(ls) ==
  UNION {{[node |-> t, scope |-> IterationScope(l, ls[l].scope, i)] :
            t \in ls[l].targets, i \in Opened(ls[l])} : l \in DOMAIN ls}

\* Each new iteration starts with what its loop's lineage has satisfied.
NewIterations(ls) ==
  UNION {{<<Iteration(l, i), l, ls[l].scope.lineage>> : i \in Opened(ls[l])} : l \in DOMAIN ls}
Inherited(ls, sat) ==
  {s \in sat : ~\E k \in NewIterations(ls) : k[1] = s[1]}
    \union {<<k[1], k[2][2]>> : k \in NewIterations(ls)}
    \union UNION {{<<k[1], s[2]>> : s \in {t \in sat : t[1] = k[3]}} : k \in NewIterations(ls)}
InheritedDirt(ls, soiled) ==
  soiled \union {k[1] : k \in {j \in NewIterations(ls) : j[3] \in soiled}}

Live(g) == \E a \in pending \union running : g \in a.scope.within

\* _settle_loop_groups: drop the iterations with nothing pending or running,
\* all judged before any loop opens another, then fill every loop.
Settle ==
  LET ls == [l \in DOMAIN loops |-> [loops[l] EXCEPT !.active = {g \in @ : Live(g)}]] IN
  /\ pc = "settle"
  /\ loops' = [l \in DOMAIN loops |-> Filled(l, ls[l])]
  /\ satisfied' = Inherited(ls, satisfied)
  /\ dirty' = InheritedDirt(ls, dirty)
  /\ Enqueue(BodyOffers(ls))
  /\ pc' = IF hand # NULL THEN "routes" ELSE "start"
  /\ UNCHANGED <<hand, running, budgetVars, endVars, records, replayVars>>

-----------------------------------------------------------------------------
(* Completions.                                                            *)

\* _matching_routes, given the conditional routes whose predicate holds.
Conditionals(n) == {r \in Routes[n] : r.mode = "conditional"}
MatchingRoutes(n, chosen) ==
  {r \in Routes[n] : \/ r.mode = "unconditional"
                     \/ r \in chosen
                     \/ r.mode = "otherwise" /\ chosen = {}}
Targets(n, chosen) == {r.target : r \in MatchingRoutes(n, chosen)}

\* _defer_loop_failure: some loop around the activation is not fail-fast.
Deferrable(a) == \E l \in a.scope.loops : ~loops[l].failFast

\* A failure inside a loop that is not fail-fast is left for the end.
DeferFailure(a, outcome) ==
  /\ outcome = "failure"
  /\ Deferrable(a)
  /\ deferred' = TRUE
  /\ pc' = "settle"
  /\ UNCHANGED <<hand, pending, satisfied, loops, sequence, error>>

\* Any other failure ends the run; what is still running is cancelled.
FatalFailure(a, outcome) ==
  /\ outcome = "failure"
  /\ ~Deferrable(a)
  /\ error' = "node"
  /\ pc' = "ended"
  /\ UNCHANGED <<hand, pending, satisfied, loops, sequence, deferred>>

\* What the loop handler returned; an allowed failure returned nothing.
OpenState(a, outcome, chosen) ==
  LET ok == outcome = "success" IN
  [items |-> IF ok THEN Source[a.node].items ELSE 0,
   infinite |-> ok /\ Source[a.node].infinite,
   conc |-> IF ok THEN Source[a.node].conc ELSE 1,
   failFast |-> ok /\ Source[a.node].failFast,
   targets |-> Targets(a.node, chosen),
   scope |-> a.scope, order |-> Cardinality(DOMAIN loops),
   next |-> 0, closed |-> FALSE, active |-> {}]

\* _open_loop.  The loop node counts as satisfied before its readers are
\* looked at, so unlocking by it never merges signals (Emit does).
OpenLoop(a, outcome, chosen, soiled) ==
  LET l == LoopLineage(a.scope.group, a.node, a.run)
      state == OpenState(a, outcome, chosen)
      ls == [m \in {l} |-> state]
  IN
  /\ outcome # "failure"
  /\ a.node \in Loops
  /\ loops' = [m \in DOMAIN loops \union {l} |-> IF m = l THEN Filled(l, state) ELSE loops[m]]
  /\ satisfied' = Inherited(ls, satisfied \union {<<a.scope.lineage, a.node>>})
  /\ dirty' = InheritedDirt(ls, soiled)
  /\ Enqueue(BodyOffers(ls))
  /\ pc' = IF Spins(state) THEN "spin" ELSE "settle"
  /\ hand' = IF Finish[a.node] = NULL THEN NULL ELSE [act |-> a, chosen |-> chosen]
  /\ UNCHANGED endVars

\* _close_loop: the loop takes no more items and what its lineage has pending
\* is dropped; a second break of the lineage finds it closed.
CloseLoop(a, outcome, chosen) ==
  /\ outcome # "failure"
  /\ a.node \in Breaks
  /\ \E l \in a.scope.loops :
       /\ l[2] = BreakOf[a.node]
       /\ loops' = [loops EXCEPT ![l].closed = TRUE]
       /\ pending' = {p \in pending : l \in p.scope.loops => loops[l].closed}
  /\ pc' = "settle"
  /\ hand' = [act |-> a, chosen |-> chosen]
  /\ UNCHANGED <<satisfied, sequence, endVars>>

BreakOutsideLoop(a, outcome) ==
  /\ outcome # "failure"
  /\ a.node \in Breaks
  /\ \A l \in a.scope.loops : l[2] # BreakOf[a.node]
  /\ error' = "control"
  /\ pc' = "ended"
  /\ UNCHANGED <<hand, pending, satisfied, loops, sequence, deferred>>

CompleteTask(a, outcome, chosen) ==
  /\ outcome # "failure"
  /\ a.node \notin Loops \union Breaks
  /\ pc' = "routes"
  /\ hand' = [act |-> a, chosen |-> chosen]
  /\ UNCHANGED <<pending, satisfied, loops, sequence, endVars>>

\* _process_completion, up to the routes; soiled is the set of dirty lineages.
Process(a, outcome, chosen, soiled) ==
  /\ running' = running \ {a}
  /\ records' = IF MaxResumes = 0 THEN records
                ELSE Append(records,
                       [node |-> a.node, scope |-> a.scope, outcome |-> outcome,
                        chosen |-> chosen, from |-> a.from])
  /\ \/ DeferFailure(a, outcome) /\ dirty' = soiled
     \/ FatalFailure(a, outcome) /\ dirty' = soiled
     \/ OpenLoop(a, outcome, chosen, soiled)
     \/ CloseLoop(a, outcome, chosen) /\ dirty' = soiled
     \/ BreakOutsideLoop(a, outcome) /\ dirty' = soiled
     \/ CompleteTask(a, outcome, chosen) /\ dirty' = soiled
  /\ UNCHANGED <<budgetVars, replayVars>>

Resuming == resumes > 0

\* The scheduler receives the completion of a node task.
Complete(a) ==
  /\ pc = "await"
  /\ ~replaying
  /\ a.from = 0
  /\ \A b \in running : b.from = 0
  /\ \E outcome \in Outcomes[a.node] :
     \E chosen \in IF outcome = "failure" THEN {{}} ELSE SUBSET Conditionals(a.node) :
       Process(a, outcome, chosen,
               IF Resuming THEN dirty \union {a.scope.lineage} ELSE dirty)

\* The signals that wait at a node in one lineage become one activation, which
\* goes to the back of the node's queue (slot k) and keeps the oldest number.
Merge(waiting, k) ==
  LET first == CHOOSE p \in waiting : TRUE
      oldest == CHOOSE p \in waiting : \A q \in waiting : p.seq <= q.seq
  IN [node |-> first.node, seq |-> oldest.seq, slot |-> k,
      scope |-> [first.scope EXCEPT !.group = Merged(Groups(waiting))]]

\* The end of _process_completion: a finish-fail node ends the run; any other
\* satisfies its readers, emits its routes and merges what this unlocks.
FinishFail ==
  /\ pc = "routes"
  /\ Finish[hand.act.node] = "fail"
  /\ error' = "control"
  /\ pc' = "ended"
  /\ hand' = NULL
  /\ UNCHANGED <<pending, running, satisfied, loops, budgetVars, sequence, deferred, records,
                 replayVars, dirty>>

Emit ==
  LET done == hand.act
      sat == satisfied \union {<<done.scope.lineage, done.node>>}
      offers == Fresh({[node |-> t, scope |-> done.scope] : t \in Targets(done.node, hand.chosen)})
  IN
  /\ pc = "routes"
  /\ Finish[done.node] # "fail"
  /\ satisfied' = sat
  /\ \E f \in Numberings(offers, sequence) :
       LET queued == pending \union Queued(offers, f)
           Waiting(t) == {p \in queued : p.node = t /\ p.scope.lineage = done.scope.lineage}
           merging == {t \in Nodes :
                         /\ Unlocks(t, done.scope.lineage, satisfied, sat)
                         /\ Cardinality(Waiting(t)) > 1}
           last == sequence + Cardinality(offers)
       IN /\ pending' = (queued \ UNION {Waiting(t) : t \in merging})
                          \union {Merge(Waiting(t), last + 1) : t \in merging}
          /\ sequence' = last + 1
  /\ pc' = "settle"
  /\ hand' = NULL
  /\ UNCHANGED <<running, loops, budgetVars, endVars, records, replayVars, dirty>>

-----------------------------------------------------------------------------
(* Starting activations, the end of a run, and resuming one.               *)

\* Mutant of Unlocked: a signal is enough to start a node.
UnlockedBySignal == pending

Unlocked == {p \in pending : IsUnlocked(p)}
Of(as, n) == {a \in as : a.node = n}

Capacity(n) == MaxConcurrency[n] - Cardinality(Groups(Of(running, n)))

\* Per node, the first unlocked activations that its free capacity allows.
Candidates ==
  {c \in SUBSET Unlocked :
     /\ \A n \in Nodes :
          \/ Cardinality(Of(c, n)) = Capacity(n)
          \/ Cardinality(Of(c, n)) < Capacity(n) /\ Of(c, n) = Of(Unlocked, n)
     /\ \A p \in c : \A q \in Of(Unlocked, p.node) : q.slot < p.slot => q \in c}

\* Mutant of Affordable: each activation is checked as if it were the only one.
AffordableOnce(s) ==
  /\ s # {} => Within(WorkflowMaxRuns, totalRuns + 1)
  /\ \A p \in s : Within(MaxRuns[p.node], runCounts[p.node] + 1)

\* _reserve_run for the activations of s, and its refusal of one more at n.
Affordable(s) ==
  /\ Within(WorkflowMaxRuns, totalRuns + Cardinality(s))
  /\ \A n \in Nodes : Within(MaxRuns[n], runCounts[n] + Cardinality(Of(s, n)))
Refused(s, p) ==
  \/ ~Within(WorkflowMaxRuns, totalRuns + Cardinality(s) + 1)
  \/ ~Within(MaxRuns[p.node], runCounts[p.node] + Cardinality(Of(s, p.node)) + 1)

\* _replayed: the saved record this start takes, 0 if it must run.
Key(a) == <<a.node, a.scope.group, a.scope.lineage>>
Matching(k) == {i \in DOMAIN prior : Key(prior[i]) = k}

Occurrence(k) == IF k \in DOMAIN starts THEN starts[k] ELSE 0
ReusedCount == Cardinality({i \in DOMAIN records : records[i].from # 0})
ReusableCount == Cardinality({i \in DOMAIN prior : prior[i].outcome \in Reusable})
Replayable == Resuming /\ ReusedCount < ReusableCount

\* Mutant of ReplayIndex: dirty lineages are not asked about.
ReplayIndexAnyLineage(p) ==
  LET found == {i \in Matching(Key(p)) :
                  /\ Replayable
                  /\ Cardinality({j \in Matching(Key(p)) : j < i}) = Occurrence(Key(p))
                  /\ prior[i].outcome \in Reusable}
  IN IF found = {} THEN 0 ELSE CHOOSE i \in found : TRUE

ReplayIndex(p) ==
  LET found == {i \in Matching(Key(p)) :
                  /\ Replayable
                  /\ p.scope.lineage \notin dirty
                  /\ Cardinality({j \in Matching(Key(p)) : j < i}) = Occurrence(Key(p))
                  /\ prior[i].outcome \in Reusable}
  IN IF found = {} THEN 0 ELSE CHOOSE i \in found : TRUE

\* The run numbers of the activations s of one pass, in the order they start.
RunNumbers(s) ==
  LET Mine(p) == (runCounts[p.node] + 1)..(runCounts[p.node] + Cardinality(Of(s, p.node))) IN
  {f \in [s -> UNION {Mine(p) : p \in s}] :
     /\ \A p \in s : f[p] \in Mine(p)
     /\ \A p, q \in s : p.node = q.node =>
          (p # q => f[p] # f[q]) /\ (p.seq < q.seq => f[p] < f[q])}

Begun(s, f) ==
  {[node |-> p.node, scope |-> p.scope, run |-> f[p], from |-> ReplayIndex(p)] : p \in s}

Start(s) ==
  /\ pending' = pending \ s
  /\ \E f \in RunNumbers(s) : running' = running \union Begun(s, f)
  /\ runCounts' = [n \in Nodes |-> runCounts[n] + Cardinality(Of(s, n))]
  /\ totalRuns' = totalRuns + Cardinality(s)
  /\ starts' = IF Replayable
               THEN [k \in DOMAIN starts \union {Key(p) : p \in s} |->
                       Occurrence(k) + IF \E p \in s : Key(p) = k THEN 1 ELSE 0]
               ELSE starts
  /\ UNCHANGED <<hand, satisfied, loops, sequence, deferred, records, prior, replaying,
                 dirty, resumes, cut>>

\* _start_runnable: in the order of their numbers the candidates reserve a run
\* and start; the first refusal ends the run.
StartRunnable ==
  /\ pc = "start"
  /\ \E c \in Candidates :
       /\ Affordable(c)
       /\ Start(c)
  /\ pc' = "await"
  /\ UNCHANGED error

BudgetExceeded ==
  /\ pc = "start"
  /\ \E c \in Candidates :
     \E s \in SUBSET c : \E p \in c \ s :
       /\ \A q \in c : q \in s <=> q.seq < p.seq
       /\ Affordable(s)
       /\ Refused(s, p)
       /\ Start(s)
  /\ error' = "budget"
  /\ pc' = "ended"

\* Mutant of ReplayNext: results are replayed in any order.
ReplayAny(a) ==
  /\ pc = "await"
  /\ a.from # 0
  /\ Process(a, prior[a.from].outcome, prior[a.from].chosen, dirty)

\* The next saved result is processed.
ReplayNext(a) ==
  /\ pc = "await"
  /\ a.from # 0
  /\ \A b \in running : b.from # 0 => a.from <= b.from
  /\ Process(a, prior[a.from].outcome, prior[a.from].chosen, dirty)

\* Nothing is left to replay for now: the work held back starts.
FinishReplay ==
  /\ pc = "await"
  /\ replaying
  /\ running # {}
  /\ \A a \in running : a.from = 0
  /\ replaying' = FALSE
  /\ UNCHANGED <<pc, hand, pending, running, satisfied, loops, budgetVars, sequence, endVars,
                 records, prior, starts, dirty, resumes, cut>>

\* Mutant of Quiesce: deferred failures are forgotten.
QuiesceForgetting ==
  /\ pc = "await"
  /\ running = {}
  /\ Unlocked = {}
  /\ pc' = "ended"
  /\ error' = IF pending # {} THEN "control" ELSE NULL
  /\ UNCHANGED <<hand, pending, running, satisfied, loops, budgetVars, sequence, deferred,
                 records, replayVars, dirty>>
\* Mutant of Quiesce: work that waits is looked at again and again.
QuiesceRetrying ==
  /\ pc = "await"
  /\ running = {}
  /\ Unlocked = {}
  /\ pc' = IF pending = {} THEN "ended" ELSE "start"
  /\ UNCHANGED <<hand, pending, running, satisfied, loops, budgetVars, sequence, endVars,
                 records, replayVars, dirty>>

\* Quiescence: the run ends with the first deferred failure, an unresolved
\* join, a missing public output, or passes (error = NULL).
Quiesce ==
  /\ pc = "await"
  /\ running = {}
  /\ Unlocked = {}
  /\ pc' = "ended"
  /\ error' \in IF deferred THEN {"node"}
               ELSE IF pending # {} THEN {"control"}
               ELSE IF PublicOutputs THEN {NULL, "output"} ELSE {NULL}
  /\ UNCHANGED <<hand, pending, running, satisfied, loops, budgetVars, sequence, deferred,
                 records, replayVars, dirty>>

\* The workflow timeout, a stop request or the death of the process: at an
\* await, with whatever is running cut off.  (A process that dies inside a
\* handler leaves the records it would leave at the await before or after.)
Interrupt ==
  /\ pc = "await"
  /\ pc' = "ended"
  /\ error' = "interrupted"
  /\ UNCHANGED <<hand, pending, running, satisfied, loops, budgetVars, sequence, deferred,
                 records, replayVars, dirty>>

\* The nodes without needs start the workflow.
InitialOffers ==
  {[node |-> n, scope |-> InitialScope(n)] : n \in {m \in Nodes : Needs[m] = {}}}

\* A new scheduler that replays the records saved.
Begin(saved, count) ==
  /\ pending' = Queued(InitialOffers, CHOOSE f \in Numberings(InitialOffers, 0) : TRUE)
  /\ sequence' = Cardinality(InitialOffers)
  /\ pc' = "start"
  /\ hand' = NULL
  /\ running' = {}
  /\ satisfied' = {}
  /\ loops' = << >>
  /\ runCounts' = [n \in Nodes |-> 0]
  /\ totalRuns' = 0
  /\ deferred' = FALSE
  /\ error' = NULL
  /\ records' = << >>
  /\ prior' = saved
  /\ replaying' = (saved # << >>)
  /\ starts' = << >>
  /\ dirty' = {}
  /\ resumes' = count

Resume ==
  /\ pc = "ended"
  /\ error \in {"node", "interrupted"}
  /\ resumes < MaxResumes
  /\ Begin(records, resumes + 1)
  /\ cut' = [running |-> {Key(a) : a \in running}, pending |-> {Key(p) : p \in pending}]

Init ==
  /\ pending = Queued(InitialOffers, CHOOSE f \in Numberings(InitialOffers, 0) : TRUE)
  /\ sequence = Cardinality(InitialOffers)
  /\ pc = "start"
  /\ hand = NULL
  /\ running = {}
  /\ satisfied = {}
  /\ loops = << >>
  /\ runCounts = [n \in Nodes |-> 0]
  /\ totalRuns = 0
  /\ deferred = FALSE
  /\ error = NULL
  /\ records = << >>
  /\ prior = << >>
  /\ replaying = FALSE
  /\ starts = << >>
  /\ dirty = {}
  /\ resumes = 0
  /\ cut = NULL

\* The run is over, or _fill_loop_capacity never returns.
Over == pc = "ended" /\ UNCHANGED vars
Spin == pc = "spin" /\ UNCHANGED vars

Step ==
  \/ \E a \in running : Complete(a) \/ ReplayNext(a)
  \/ FinishFail \/ Emit \/ Settle \/ StartRunnable \/ BudgetExceeded
  \/ FinishReplay \/ Quiesce

Next == Step \/ Interrupt \/ Resume \/ Over \/ Spin

Spec == Init /\ [][Next]_vars

\* The event loop keeps turning and every node task ends at last.
FairSpec == Spec /\ WF_vars(Step)

-----------------------------------------------------------------------------
(* Properties.                                                             *)

\* Type of the state.
TypeOK ==
  /\ pc \in {"await", "routes", "settle", "start", "spin", "ended"}
  /\ \A a \in pending \union running : a.node \in Nodes
  /\ \A p \in pending : p.seq \in Nat /\ p.slot \in Nat
  /\ \A a \in running : a.run \in Nat /\ a.from \in 0..Len(prior)
  /\ runCounts \in [Nodes -> Nat]
  /\ totalRuns \in Nat
  /\ sequence \in Nat
  /\ deferred \in BOOLEAN /\ replaying \in BOOLEAN
  /\ error \in {"node", "control", "budget", "output", "interrupted", NULL}

\* A node runs only in a lineage where everything it needs has completed, also
\* after the lineage of an iteration was set up from its loop's.
Readiness == \A a \in running : IsUnlocked(a)

\* No group waits or runs twice at a node: the signals of a group coalesce, and
\* a merged activation never meets one with its group.
SameGroup(a, b) == a.node = b.node /\ a.scope.group = b.scope.group
Coalesced ==
  /\ \A p, q \in pending : SameGroup(p, q) => p = q
  /\ \A a, b \in running : SameGroup(a, b) => a = b
  /\ \A p \in pending, a \in running : ~SameGroup(p, a)

\* No node has more activations running than its max_concurrency, although the
\* scheduler counts groups and not activations.
ConcurrencyBound == \A n \in Nodes : Cardinality(Of(running, n)) <= MaxConcurrency[n]

\* The workflow and node budgets are never overrun, whatever fans out.
BudgetBound ==
  /\ Within(WorkflowMaxRuns, totalRuns)
  /\ \A n \in Nodes : Within(MaxRuns[n], runCounts[n])

\* Concurrency and budgets hold together, in every pass of _start_runnable that
\* takes several candidates at once and in replays.
Limits == ConcurrencyBound /\ BudgetBound

\* A run passes only when its work is done: nothing waits, nothing runs, no
\* iteration failed, and every loop that was not broken went through its items.
PassIsEarned ==
  pc = "ended" /\ error = NULL =>
    /\ pending = {} /\ running = {} /\ ~deferred
    /\ \A l \in DOMAIN loops : loops[l].closed \/ loops[l].next = loops[l].items

\* The signals that wait at a locked node become one activation when it unlocks,
\* unless a loop's completion is what unlocks it: that one merges nothing.
UnlockCoalesces ==
  [][\A n \in Nodes : \A lineage \in {p.scope.lineage : p \in pending} :
       ~LineageIsUnlocked(n, lineage, satisfied)
         /\ LineageIsUnlocked(n, lineage, satisfied')
         /\ ~(\E l \in Loops : <<lineage, l>> \in satisfied' \ satisfied)
         => Cardinality({p \in Of(pending', n) : p.scope.lineage = lineage}) <= 1]_vars

\* A loop goes on although items fail: where the run comes to rest, a loop that is
\* neither broken nor through its items is held up by work that waits in one of
\* its own iterations.
FailuresDoNotStopLoops ==
  pc = "await" /\ running = {} =>
    \A l \in DOMAIN loops :
      \/ loops[l].closed
      \/ loops[l].next = loops[l].items
      \/ \E g \in loops[l].active : \E p \in pending : g \in p.scope.within

\* At most max-concurrency iterations of a loop have work pending or running.
LoopBound ==
  \A l \in DOMAIN loops :
    Cardinality({i \in 0..(loops[l].next - 1) : Live(Iteration(l, i))}) <= loops[l].conc

\* A broken loop stays broken and opens no iteration, although what runs of it
\* goes on and its places become free.  (A loop inside it may: it is not broken.)
BreakIsFinal ==
  [][\A l \in DOMAIN loops \intersect DOMAIN loops' :
       loops[l].closed => loops'[l].closed /\ loops'[l].next = loops[l].next]_vars

\* Loops run at most max-concurrency iterations, go on although some fail, and
\* open nothing once they are broken.
LoopRules == []LoopBound /\ []FailuresDoNotStopLoops /\ BreakIsFinal

\* Every run ends, unless an infinite loop that opens nothing keeps the scheduler
\* from ever giving way again.
Termination == <>(pc \in {"ended", "spin"})

\* A saved record stands for one activation of the resumed run at most.
ReusedOnce ==
  LET taken == [i \in DOMAIN records |-> records[i].from]
      ready == {a.from : a \in running} \ {0}
  IN /\ \A i, j \in DOMAIN taken : taken[i] = taken[j] /\ taken[i] # 0 => i = j
     /\ \A i \in DOMAIN taken : taken[i] \notin ready
     /\ \A a, b \in running : a.from = b.from /\ a.from # 0 => a = b

\* "never in a lineage where live work has completed" (rattish/spec/README.md:99):
\* once live work has completed in a lineage, its results may differ from the
\* saved ones, so nothing of that lineage is reused.
CleanReuse ==
  \A a \in running : a.from # 0 =>
    \A i \in DOMAIN records :
      records[i].scope.lineage = a.scope.lineage => records[i].from # 0

\* What a resumed run reuses was computed once, and before anything it could
\* depend on was computed anew.
ReuseIsSound == ReusedOnce /\ CleanReuse

\* The replay of a run that was cut off ends in the state that run was in: no
\* saved result is left over, the work held back is what was cut off, and the
\* same activations wait.
StateRebuilt ==
  /\ replaying /\ pc = "await" /\ running # {}
  /\ \A a \in running : a.from = 0
  /\ \A i \in DOMAIN prior : prior[i].outcome \in Reusable
  => /\ ReusedCount = Len(prior)
     /\ {Key(a) : a \in running} = cut.running
     /\ {Key(p) : p \in pending} = cut.pending

=============================================================================
