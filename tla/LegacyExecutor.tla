--------------------------- MODULE LegacyExecutor ---------------------------
(***************************************************************************)
(* The executor of TOML workflows: core/executor.py (WorkflowExecutor.run) *)
(* with its edges (core/graph.py), its loops and for_each nodes, and the   *)
(* resume of a run from its checkpoint.                                    *)
(*                                                                         *)
(* One coroutine, the scheduler, empties a queue of tasks into a task      *)
(* group, then waits for one result, records it, and queues what follows   *)
(* from it: successors, the next item of a loop, or the edges to take      *)
(* after a loop.  Nodes run concurrently but only while the scheduler      *)
(* waits; the stop marker is set by another process at any time.  Each     *)
(* result is checkpointed as it is recorded; the process may die and the   *)
(* run be resumed, and so may a run that failed or was stopped.            *)
(*                                                                         *)
(* A task is a node with the item it is run for: for every loop around it  *)
(* the index of the item.  Items of one loop are distinct.  What a node    *)
(* prints is abstracted to whether the node succeeded and whether its      *)
(* output matches the pattern on its edges.  Left out: directory loops     *)
(* that look again for new files, resuming from or for one chosen node,    *)
(* the cache shared between runs, nested executions and dry runs.          *)
(***************************************************************************)
EXTENDS Naturals, Sequences, FiniteSets

CONSTANTS
  Nodes,         \* the nodes of the workflow
  Order,         \* the nodes as they are declared: in a topological order, if there is one
  Edges,         \* the edges in the order they are declared: [from, to, when]
  Kind,          \* [Nodes -> Kinds]
  ForEach,       \* the nodes that run once per item of a list
  Source,        \* the node a for_each node takes its list from (else itself)
  Size,          \* the number of items of each loop and for_each node
  Width,         \* max_concurrency of each loop and for_each node
  FailFast,      \* loops whose first failure halts the run
  AwaitAll,      \* await_all_inputs
  AllowFailure,  \* allow_failure
  KeepGoing,     \* on_failure is not "halt"
  Retries,       \* retry_count
  Agents,        \* agent nodes: a checkpoint drops the item from their outputs
  Outcomes,      \* [Nodes -> what may come of running one]
  Changes,       \* the sets of nodes whose saved outputs a resume may find out of date
  Losses,        \* the sets of nodes whose part of a checkpoint a death may lose
  MaxTotalNodeRuns,
  MaxResumes,    \* bound on the resumes explored
  NULL

Kinds == {"op", "gate", "loop", "infinite", "break", "pass", "fail"}
Conditions == {"always", "success", "failure", "matches", "nomatch", "field", "after"}
Outcome == [ok : BOOLEAN, hit : BOOLEAN]

ASSUME GraphAssumption ==
  /\ NULL \notin Nodes \union Nat
  /\ Order \in Seq(Nodes)
  /\ Edges \in Seq([from : Nodes, to : Nodes, when : Conditions])
  /\ \A i, j \in 1 .. Len(Edges) :
       Edges[i].from = Edges[j].from /\ Edges[i].to = Edges[j].to => i = j
  /\ \A i, j \in 1 .. Len(Order) : Order[i] = Order[j] => i = j
  /\ Nodes = {Order[i] : i \in 1 .. Len(Order)}
  /\ Kind \in [Nodes -> Kinds]
  /\ ForEach \subseteq Nodes
  /\ Source \in [Nodes -> Nodes]
  /\ {FailFast, AwaitAll, AllowFailure, KeepGoing, Agents} \subseteq SUBSET Nodes
  /\ Size \in [Nodes -> Nat]
  /\ Width \in [Nodes -> Nat \ {0}]
  /\ Retries \in [Nodes -> Nat]
  /\ Outcomes \in [Nodes -> (SUBSET Outcome) \ {{}}]
  /\ Changes \subseteq SUBSET Nodes
  /\ Losses \subseteq SUBSET Nodes

ASSUME BoundAssumption == MaxTotalNodeRuns \in Nat /\ MaxResumes \in Nat

VARIABLES
  queue,    \* the tasks to dispatch
  running,  \* running_tasks: dispatched, and their results not yet received
  working,  \* the coroutines of the task group: [task, attempt]
  results,  \* the channel of results
  runs,     \* node_runs: [Nodes -> outputs in the order they were recorded]
  next,     \* loop_next_index
  done,     \* completed_loops
  broken,   \* the loops that a break node ended
  total,    \* total_node_runs
  stop,     \* the stop marker
  halted,   \* the run was halted
  verdict,  \* terminal_success
  pc,       \* where the scheduler is
  seeds,    \* _resume_seed_outputs
  stale,    \* the nodes whose saved outputs the last resume found out of date
  saved,    \* the checkpoint: [out, entries]
  resumes   \* the number of resumes so far

vars == <<queue, running, working, results, runs, next, done, broken, total, stop,
          halted, verdict, pc, seeds, stale, saved, resumes>>
loops == <<next, done, broken>>
ending == <<halted, verdict>>
resume == <<seeds, stale, resumes>>

Item == [Nodes -> Nat \union {NULL}]
NoItem == [n \in Nodes |-> NULL]
Task == [node : Nodes, after : Nodes \union {NULL}, origin : Nodes \union {NULL}, item : Item]

RootTask(n) == [node |-> n, after |-> NULL, origin |-> NULL, item |-> NoItem]
AfterTask(l, n) == [node |-> n, after |-> l, origin |-> NULL, item |-> NoItem]

Elements(s) == {s[i] : i \in 1 .. Len(s)}

\* The sequences of ss one after the other.
Flat(ss) ==
  LET upto[k \in 0 .. Len(ss)] == IF k = 0 THEN <<>> ELSE upto[k - 1] \o ss[k]
  IN upto[Len(ss)]

\* The element x, if it is wanted.
If(wanted, x) == IF wanted THEN <<x>> ELSE <<>>
Least(a, b) == IF a <= b THEN a ELSE b
Pending == Elements(queue) \union running

-----------------------------------------------------------------------------
(***************************************************************************)
(* Edges and inputs, over the outputs os recorded so far.                  *)
(***************************************************************************)

Outgoing == [n \in Nodes |-> Flat([k \in 1 .. Len(Edges) |-> If(Edges[k].from = n, Edges[k])])]
EdgesFrom(n) == Outgoing[n]

\* _edge_matches, with _has_matching_output_match_edge for output_no_match.
EdgeMatches(e, out) ==
  CASE e.when = "always" -> TRUE
    [] e.when = "success" -> out.ok
    [] e.when = "failure" -> ~out.ok
    [] e.when \in {"matches", "field"} -> out.hit
    [] e.when = "nomatch" ->
         ~(out.hit /\ \E f \in Elements(EdgesFrom(e.from)) : f.when = "matches")
    [] e.when = "after" -> FALSE

HasFailureRoute(n, out) ==
  \E e \in Elements(EdgesFrom(n)) :
    e.when \in {"failure", "matches", "nomatch"} /\ EdgeMatches(e, out)

Latest(os, n) == IF os[n] = <<>> THEN NULL ELSE os[n][Len(os[n])]

\* _matching_predecessor_output
MatchingOutput(os, p, item) ==
  LET same == {i \in 1 .. Len(os[p]) : os[p][i].item = item} IN
  IF item # NoItem /\ same # {}
    THEN os[p][CHOOSE i \in same : \A j \in same : j <= i]
  ELSE IF item = NoItem \/ item[p] # NULL
    THEN Latest(os, p)
  ELSE IF os[p] # <<>> /\ Latest(os, p).item = NoItem
    THEN Latest(os, p)
  ELSE NULL

\* Mutant of AllInputsReady: one predecessor is enough.
AnyInputReady(os, n, item) == TRUE

AllInputsReady(os, n, item) ==
  \A e \in Elements(Edges) :
    e.to = n /\ e.from # n =>
      LET o == MatchingOutput(os, e.from, item) IN o # NULL /\ EdgeMatches(e, o.out)

\* An output with loop_items: the node is a loop and could read its source.
StartsLoop(n, out) == Kind[n] \in {"loop", "infinite"} /\ out.ok

\* The tasks one output queues, successor by successor and item by item.
Successors(os, t, out) ==
  LET n == t.node
      starts == StartsLoop(n, out)
      each == IF Kind[n] = "infinite" THEN 1 ELSE Least(Width[n], Size[n])
      taken(e) ==
        EdgeMatches(e, out) /\ (e.to \in AwaitAll /\ ~starts => AllInputsReady(os, e.to, t.item))
      tasks(e) ==
        IF starts
        THEN [i \in 1 .. each |-> [node |-> e.to, after |-> NULL, origin |-> n,
                                   item |-> [t.item EXCEPT ![n] = i - 1]]]
        ELSE <<[node |-> e.to, after |-> NULL, origin |-> t.origin, item |-> t.item]>>
  IN Flat([k \in 1 .. Len(EdgesFrom(n)) |->
             IF taken(EdgesFrom(n)[k]) THEN tasks(EdgesFrom(n)[k]) ELSE <<>>])

\* Those of the tasks ts that are neither queued nor running.
Fresh(ts, pending) == Flat([i \in 1 .. Len(ts) |-> If(ts[i] \notin pending, ts[i])])

\* _queue_loop_done_successors; each loop gets here once, so its edges are
\* never met in queued_after_loop_edges or started_after_loop_edges again.
AfterLoop(l) ==
  IF l \in done THEN <<>>
  ELSE Flat([k \in 1 .. Len(EdgesFrom(l)) |->
               If(EdgesFrom(l)[k].when = "after", AfterTask(l, EdgesFrom(l)[k].to))])

-----------------------------------------------------------------------------
(***************************************************************************)
(* The scheduler empties its queue.  Nothing else of the process runs in   *)
(* between; only the stop marker may appear.                               *)
(***************************************************************************)

Halt(v) ==
  /\ halted' = TRUE /\ verdict' = v
  /\ pc' = "ended"
  /\ working' = {} /\ results' = <<>>

Dispatching == pc = "dispatch" /\ queue # <<>>
Seeded(t) == t.node \in seeds /\ t.origin = NULL /\ t.after = NULL
Active(l) == {t \in running : l \in {t.origin, t.after}}
Blocked(t) == t.origin # NULL /\ Cardinality(Active(t.origin)) >= Width[t.origin]
Expands(t) == t.node \in ForEach /\ t.origin # t.node

DispatchStopped ==
  /\ Dispatching /\ stop
  /\ Halt(NULL)
  /\ UNCHANGED <<queue, running, runs, loops, total, stop, resume, saved>>

DispatchSeeded ==
  /\ Dispatching /\ ~stop /\ Seeded(Head(queue))
  /\ queue' = Tail(queue)
  /\ UNCHANGED <<running, working, results, runs, loops, total, stop, ending, pc,
                 resume, saved>>

\* Mutant of DispatchBlocked: the scheduler goes on with the rest of the queue.
DispatchBlockedRetried ==
  /\ Dispatching /\ ~stop /\ ~Seeded(Head(queue)) /\ Blocked(Head(queue))
  /\ queue' = Append(Tail(queue), Head(queue))
  /\ UNCHANGED <<running, working, results, runs, loops, total, stop, ending, pc,
                 resume, saved>>

\* A loop at its width: the task goes to the back, the scheduler waits.
DispatchBlocked ==
  /\ Dispatching /\ ~stop /\ ~Seeded(Head(queue)) /\ Blocked(Head(queue))
  /\ queue' = Append(Tail(queue), Head(queue))
  /\ pc' = "receive"
  /\ UNCHANGED <<running, working, results, runs, loops, total, stop, ending, resume, saved>>

\* _for_each_tasks: the first items of the list, as many as may run at once.
DispatchForEach ==
  /\ Dispatching /\ ~stop /\ ~Seeded(Head(queue)) /\ ~Blocked(Head(queue))
  /\ Expands(Head(queue))
  /\ LET t == Head(queue)
         n == t.node
         first == Least(Width[n], Size[n])
         expanded == [i \in 1 .. first |->
                        [node |-> n, after |-> NULL, origin |-> n,
                         item |-> [t.item EXCEPT ![Source[n]] = i - 1, ![n] = i - 1]]]
     IN /\ queue' = Tail(queue) \o Fresh(expanded, Pending \ {t})
        /\ next' = IF first > 0 /\ next[n] = NULL THEN [next EXCEPT ![n] = first] ELSE next
  /\ UNCHANGED <<running, working, results, runs, done, broken, total, stop, ending, pc,
                 resume, saved>>

Startable ==
  /\ Dispatching /\ ~stop /\ ~Seeded(Head(queue)) /\ ~Blocked(Head(queue))
  /\ ~Expands(Head(queue))

DispatchLimit ==
  /\ Startable /\ total >= MaxTotalNodeRuns
  /\ Halt(NULL)
  /\ queue' = Tail(queue)
  /\ total' = total + 1
  /\ UNCHANGED <<running, runs, loops, stop, resume, saved>>

DispatchStart ==
  /\ Startable /\ total < MaxTotalNodeRuns
  /\ queue' = Tail(queue)
  /\ total' = total + 1
  /\ running' = running \union {Head(queue)}
  /\ working' = working \union {[task |-> Head(queue), attempt |-> 1]}
  /\ UNCHANGED <<results, runs, loops, stop, ending, pc, resume, saved>>

\* The queue is empty: wait for a result, or the run is over.
DispatchDone ==
  /\ pc = "dispatch" /\ queue = <<>>
  /\ pc' = IF running = {} THEN "ended" ELSE "receive"
  /\ UNCHANGED <<queue, running, working, results, runs, loops, total, stop, ending,
                 resume, saved>>

-----------------------------------------------------------------------------
(***************************************************************************)
(* Nodes run while the scheduler waits (_run_node).                        *)
(***************************************************************************)

\* _task_cache_key: the node and the index of its innermost item.
TaskKey(t) == <<t.node, IF t.origin = NULL THEN NULL ELSE t.item[t.origin]>>

\* _snapshot_node_output_contract and _compact_checkpoint_contract
Snapshot(n, item) == IF n \in Agents THEN NoItem ELSE item

Send(w, item, out, halt) ==
  /\ working' = working \ {w}
  /\ results' = Append(results, [task |-> w.task, item |-> item, out |-> out, halt |-> halt])
  /\ UNCHANGED <<queue, running, runs, loops, total, stop, ending, pc, resume, saved>>

\* A resumed run takes the output an earlier execution saved for this task.
\* Whether its inputs are still the same is left open.
Reuse(w) ==
  /\ pc = "receive" /\ resumes > 0
  /\ Kind[w.task.node] \notin {"loop", "infinite"}
  /\ \E e \in saved.entries :
       /\ e.key = TaskKey(w.task) /\ e.out.ok
       /\ Send(w, Snapshot(w.task.node, w.task.item), e.out, FALSE)

HaltsRun(n, out) ==
  ~out.ok /\ n \notin AllowFailure /\ n \notin KeepGoing /\ ~HasFailureRoute(n, out)

\* The last attempt: it succeeded, no retry is left, or the run was stopped.
Finish(w) ==
  /\ pc = "receive"
  /\ \E out \in Outcomes[w.task.node] :
       /\ out.ok \/ w.attempt > Retries[w.task.node] \/ stop
       /\ Send(w, w.task.item, out, HaltsRun(w.task.node, out) \/ stop)

Retry(w) ==
  /\ pc = "receive" /\ ~stop
  /\ \E out \in Outcomes[w.task.node] : ~out.ok
  /\ w.attempt <= Retries[w.task.node]
  /\ working' = (working \ {w}) \union {[w EXCEPT !.attempt = @ + 1]}
  /\ UNCHANGED <<queue, running, results, runs, loops, total, stop, ending, pc, resume, saved>>

-----------------------------------------------------------------------------
(***************************************************************************)
(* The scheduler receives a result, records it and saves the checkpoint.   *)
(***************************************************************************)

Recorded(r) == [runs EXCEPT ![r.task.node] = Append(@, [item |-> r.item, out |-> r.out])]

\* _persist_node_result: the latest output of each node, and one per task.
Saved(os, t, out) ==
  [out |-> [n \in Nodes |-> Latest(os, n)],
   entries |-> {e \in saved.entries : e.key # TaskKey(t)}
                 \union {[key |-> TaskKey(t), out |-> out]}]

Take(r) ==
  /\ running' = running \ {r.task}
  /\ runs' = Recorded(r)
  /\ saved' = Saved(runs', r.task, r.out)
  /\ UNCHANGED <<total, stop, resume>>

Receiving == pc = "receive" /\ results # <<>>
Received == Head(results)
\* (A break node whose inputs cannot be resolved fails like any other; that is left out.)
Breaks(r) == Kind[r.task.node] = "break"
Concludes(r) == Kind[r.task.node] \in {"pass", "fail"}
Halting(r) == r.halt /\ (r.task.origin = NULL \/ r.task.origin \in FailFast)

\* Those of the tasks ts that are not of loop l.
Outside(l, ts) == Flat([i \in 1 .. Len(ts) |-> If(ts[i].origin # l, ts[i])])

\* A break node ends the loop around it: what the loop has queued is dropped.
ReceiveBreak ==
  /\ Receiving /\ Breaks(Received)
  /\ Take(Received)
  /\ results' = Tail(results)
  /\ LET l == Received.task.origin
         kept == Outside(l, queue)
     IN IF l = NULL THEN UNCHANGED <<queue, done, broken>>
        ELSE /\ queue' = kept \o Fresh(AfterLoop(l),
                                       Elements(kept) \union (running \ {Received.task}))
             /\ done' = done \union {l}
             /\ broken' = broken \union {l}
  /\ pc' = "dispatch"
  /\ UNCHANGED <<working, next, ending>>

\* A pass or fail node ends the run with its verdict.
ReceiveTerminal ==
  /\ Receiving /\ Concludes(Received)
  /\ Take(Received)
  /\ Halt(Kind[Received.task.node] = "pass")
  /\ UNCHANGED <<queue, loops>>

\* A failure that nothing handles, or a stop, halts the run.
ReceiveHalt ==
  /\ Receiving /\ ~Breaks(Received) /\ ~Concludes(Received) /\ Halting(Received)
  /\ Take(Received)
  /\ Halt(NULL)
  /\ UNCHANGED <<queue, loops>>

\* The body of a loop: where an item starts.
BodyEdges(l) == Flat([k \in 1 .. Len(EdgesFrom(l)) |->
                        If(EdgesFrom(l)[k].when # "after", EdgesFrom(l)[k])])

ItemTasks(t, i) ==
  LET l == t.origin IN
  IF l \in ForEach
  THEN <<[t EXCEPT !.node = l, !.item = [@ EXCEPT ![Source[l]] = i, ![l] = i]]>>
  ELSE Flat([k \in 1 .. Len(EdgesFrom(l)) |->
               If(EdgesFrom(l)[k].when # "after",
                  [t EXCEPT !.node = EdgesFrom(l)[k].to, !.item = [@ EXCEPT ![l] = i]])])

\* Nothing of the item of t is queued or running.
ItemOver(t, pending) ==
  /\ t.origin # NULL
  /\ ~\E u \in pending : u.origin = t.origin /\ u.item[t.origin] = t.item[t.origin]

LoopOver(l, pending) == ~\E u \in pending : l \in {u.origin, u.after}

NextIndex(t) == IF next[t.origin] # NULL THEN next[t.origin] ELSE t.item[t.origin] + 1

Exhausted(l, i) == Kind[l] # "infinite" /\ i >= Size[l]

\* Any other result: queue its successors; if there are none, and nothing else
\* of its item is left, go on with the next item or after the loop.
ReceiveResult ==
  /\ Receiving /\ ~Breaks(Received) /\ ~Concludes(Received) /\ ~Halting(Received)
  /\ Take(Received)
  /\ results' = Tail(results)
  /\ \E due \in {Successors(Recorded(Received), Received.task, Received.out)} :
     LET t == Received.task
         out == Received.out
         n == t.node
         pending == Pending \ {t}
         successors == Fresh(due, pending)
         scheduled == successors # <<>>
         emptyLoop == StartsLoop(n, out) /\ ~scheduled
         after == IF emptyLoop THEN Fresh(AfterLoop(n), pending) ELSE <<>>
         pending1 == pending \union Elements(successors) \union Elements(after)
         next1 == IF StartsLoop(n, out) /\ next[n] = NULL
                  THEN [next EXCEPT ![n] = IF Kind[n] = "infinite" THEN 0
                                           ELSE Least(Width[n], Size[n])]
                  ELSE next
         advances == ~scheduled /\ ~stop /\ ItemOver(t, pending1)
         i == IF advances THEN NextIndex(t) ELSE 0
         last == advances /\ Exhausted(t.origin, i)
         over == last /\ LoopOver(t.origin, pending1)
         more == IF over THEN Fresh(AfterLoop(t.origin), pending1)
                 ELSE IF advances /\ ~last THEN Fresh(ItemTasks(t, i), pending1)
                 ELSE <<>>
     IN /\ queue' = queue \o successors \o after \o more
        /\ next' = IF advances /\ ~last THEN [next1 EXCEPT ![t.origin] = i + 1] ELSE next1
        /\ done' = done \union (IF emptyLoop THEN {n} ELSE {})
                        \union (IF over THEN {t.origin} ELSE {})
  /\ pc' = "dispatch"
  /\ UNCHANGED <<working, broken, ending>>

-----------------------------------------------------------------------------
(***************************************************************************)
(* Stop, crash and resume.                                                 *)
(***************************************************************************)

RequestStop ==
  /\ pc \in {"dispatch", "receive"} /\ ~stop
  /\ stop' = TRUE
  /\ UNCHANGED <<queue, running, working, results, runs, loops, total, ending, pc,
                 resume, saved>>

NoCheckpoint == [out |-> [n \in Nodes |-> NULL], entries |-> {}]

\* This execution has written its checkpoint at least once.  Each execution has a
\* file of its own.
Written == \E n \in Nodes : Len(runs[n]) > IF n \in seeds THEN 1 ELSE 0

\* What is read where an artifact is missing: an output that is empty and counts
\* as a success, whatever it was, and an entry that counts as a failure.
BlankOutput == [item |-> NoItem, out |-> [ok |-> TRUE, hit |-> FALSE]]
BlankEntry == [ok |-> FALSE, hit |-> FALSE]

\* _write_resume_checkpoint deletes the artifacts, writes those of now and then the
\* index.  A death in between leaves the old index over the old or the new
\* artifacts, without the outputs of the nodes blank and the entries of lost.
Torn(now, blank, lost) ==
  LET keys == {e.key : e \in saved.entries} IN
  [out |-> [n \in Nodes |-> IF saved.out[n] = NULL THEN NULL
                             ELSE IF n \in blank THEN BlankOutput ELSE now.out[n]],
   entries |-> {[key |-> e.key, out |-> IF e.key[1] \in lost THEN BlankEntry ELSE e.out] :
                  e \in {f \in now.entries : f.key \in keys}}]

\* The process dies, perhaps in the middle of writing the checkpoint: of the
\* artifacts, or of the index, which is then unreadable and counts as none.  An
\* execution that has not written one leaves none, or is resumed from the earlier one.
Crash ==
  /\ pc = "receive" /\ resumes < MaxResumes
  /\ \/ saved' = saved
     \/ (results # <<>> \/ ~Written) /\ saved' = NoCheckpoint
     \/ /\ results # <<>> /\ Written
        /\ \E blank, lost \in Losses,
              now \in {saved, Saved(Recorded(Received), Received.task, Received.out)} :
             saved' = Torn(now, blank, lost)
  /\ pc' = "crashed"
  /\ queue' = <<>> /\ running' = {} /\ working' = {} /\ results' = <<>>
  /\ UNCHANGED <<runs, loops, total, stop, ending, resume>>

\* The success of a run as it is reported.
Success ==
  IF verdict # NULL THEN verdict
  ELSE /\ ~halted
       /\ \A n \in Nodes, o \in UNION {Elements(runs[m]) : m \in Nodes} :
            o \in Elements(runs[n]) =>
              \/ o.out.ok
              \/ n \in AllowFailure
              \/ Kind[n] = "gate" /\ HasFailureRoute(n, o.out)

\* Descendants, as far as the graph is deep.
Below(S) == S \union {e.to : e \in {f \in Elements(Edges) : f.from \in S}}
DescendantsOf(S) ==
  LET down[k \in 0 .. Len(Order)] == IF k = 0 THEN S ELSE Below(down[k - 1])
  IN down[Len(Order)]

LoopNodes == {n \in Nodes : Kind[n] \in {"loop", "infinite"}}
RunAgain == DescendantsOf(LoopNodes)

\* Mutant of Kept: a checkpoint with a failure in it is not used.
KeptIfClean(changed) ==
  IF \E e \in saved.entries : ~e.out.ok THEN {}
  ELSE {n \in Nodes : saved.out[n] # NULL /\ saved.out[n].out.ok}
         \ (RunAgain \union DescendantsOf(changed))

\* _load_resume_state: the outputs of the checkpoint that are kept.  What failed
\* runs again, and so do loops, the nodes changed and all that follows them.
Kept(changed) ==
  {n \in Nodes : saved.out[n] # NULL /\ saved.out[n].out.ok}
    \ ({e.key[1] : e \in {f \in saved.entries : ~f.out.ok}}
          \union RunAgain \union DescendantsOf(changed))

\* _initial_node_ids
Roots ==
  LET roots == Flat([i \in 1 .. Len(Order) |->
        If(~\E e \in Elements(Edges) : e.to = Order[i] /\ e.from # Order[i], Order[i])])
  IN IF roots # <<>> THEN roots ELSE IF Order = <<>> THEN <<>> ELSE <<Order[1]>>

\* Each of the tasks once, where it comes first.
Unique(ts) == Flat([i \in 1 .. Len(ts) |-> If(\A j \in 1 .. i - 1 : ts[j] # ts[i], ts[i])])

\* Mutant of Frontier: a resume starts from the roots only.
FrontierRoots(os, kept) ==
  Flat([i \in 1 .. Len(Roots) |-> If(Roots[i] \notin kept, RootTask(Roots[i]))])

\* _queue_resume_frontier: the roots not kept, and what follows the kept
\* outputs and was not kept itself.
Frontier(os, kept) ==
  LET follow(n) == IF n \in kept THEN Successors(os, RootTask(n), Latest(os, n).out) ELSE <<>>
      all == Flat([i \in 1 .. Len(Roots) |-> <<RootTask(Roots[i])>>]
                    \o [i \in 1 .. Len(Order) |-> follow(Order[i])])
  IN Unique(Flat([i \in 1 .. Len(all) |-> If(all[i].node \notin kept, all[i])]))

Reread(kept) ==
  [n \in Nodes |-> IF n \in kept
                   THEN <<[saved.out[n] EXCEPT !.item = Snapshot(n, @)]>> ELSE <<>>]

\* A resume reads the checkpoint into a run of its own.  Saved outputs are out of
\* date where the node, its files or its inputs are not what they were (its
\* resumeSignature differs), or where a secret in them cannot be read any more.
Resume ==
  /\ pc = "crashed" \/ (pc = "ended" /\ ~Success)
  /\ resumes < MaxResumes
  /\ \E change \in Changes : stale' = {n \in change : saved.out[n] # NULL}
  /\ seeds' = Kept(stale')
  /\ runs' = Reread(seeds')
  /\ queue' = Frontier(runs', seeds')
  /\ running' = {} /\ working' = {} /\ results' = <<>>
  /\ next' = [n \in Nodes |-> NULL] /\ done' = {} /\ broken' = {}
  /\ total' = 0 /\ stop' = FALSE
  /\ halted' = FALSE /\ verdict' = NULL
  /\ pc' = "dispatch"
  /\ resumes' = resumes + 1
  /\ UNCHANGED saved

Init ==
  /\ queue = [i \in 1 .. Len(Roots) |-> RootTask(Roots[i])]
  /\ running = {} /\ working = {} /\ results = <<>>
  /\ runs = [n \in Nodes |-> <<>>]
  /\ next = [n \in Nodes |-> NULL] /\ done = {} /\ broken = {}
  /\ total = 0 /\ stop = FALSE
  /\ halted = FALSE /\ verdict = NULL
  /\ pc = "dispatch"
  /\ seeds = {} /\ stale = {} /\ saved = NoCheckpoint /\ resumes = 0

Scheduler ==
  \/ DispatchStopped \/ DispatchSeeded \/ DispatchBlocked \/ DispatchForEach
  \/ DispatchLimit \/ DispatchStart \/ DispatchDone
  \/ ReceiveBreak \/ ReceiveTerminal \/ ReceiveHalt \/ ReceiveResult

NodeSteps == \E w \in working : Reuse(w) \/ Finish(w) \/ Retry(w)

Over == pc = "ended" /\ UNCHANGED vars

Next == Scheduler \/ NodeSteps \/ RequestStop \/ Crash \/ Resume \/ Over

Spec == Init /\ [][Next]_vars

\* The event loop goes on, and every node ends in the end.
FairSpec == Spec /\ WF_vars(Scheduler) /\ WF_vars(NodeSteps)

-----------------------------------------------------------------------------
(***************************************************************************)
(* Structured workflows, which the theorems of LegacyExecutorProofs about  *)
(* loops, joins and resumes are about.  inside says of which loop or       *)
(* for_each node a node is part (NULL: of none).  Loops are not nested and *)
(* are left by their after edges only; a node with several inputs awaits   *)
(* them all; a loop that cannot start halts the run; and a resume, if      *)
(* there may be one, runs all for_each nodes and their parts again.        *)
(***************************************************************************)

Starters == LoopNodes \union ForEach

Structured(inside) ==
  /\ inside \in [Nodes -> Starters \union {NULL}]
  /\ LoopNodes \intersect ForEach = {}
  /\ \A n \in Starters : inside[n] = NULL /\ inside[Source[n]] = NULL
  /\ \A n \in Elements(Roots) : inside[n] = NULL /\ ~\E e \in Elements(Edges) : e.to = n
  /\ \A e \in Elements(Edges) :
       /\ e.from # e.to
       /\ e.when = "after" => e.from \in Starters
       /\ inside[e.to] = IF e.when = "after" THEN NULL
                         ELSE IF e.from \in Starters THEN e.from ELSE inside[e.from]
       /\ \A g \in Elements(Edges) : g.to = e.to /\ g # e =>
            e.to \in AwaitAll /\ e.when # "after" /\ e.from \notin LoopNodes
  /\ \A l \in LoopNodes : \A out \in Outcomes[l] : out.ok \/ HaltsRun(l, out)
  /\ MaxResumes > 0 =>
       \A n \in Nodes : n \in ForEach \/ inside[n] # NULL => n \in RunAgain \ Agents

\* Structured, and no for_each node has an empty list (its expansion would queue
\* nothing, its after edges included), a break is part of a loop, and a loop that
\* started takes its body edges.
Complete(inside) ==
  /\ Structured(inside)
  /\ \A n \in ForEach : Size[n] > 0
  /\ \A n \in Nodes : Kind[n] = "break" => inside[n] # NULL
  /\ \A e \in Elements(Edges) : e.from \in LoopNodes => e.when \in {"after", "always", "success"}

-----------------------------------------------------------------------------
(***************************************************************************)
(* Properties.                                                             *)
(***************************************************************************)

\* Type of the state.
TypeOK ==
  /\ queue \in Seq(Task)
  /\ running \subseteq Task
  /\ \A w \in working : w.task \in running /\ w.attempt \in 1 .. Retries[w.task.node] + 1
  /\ \A i \in 1 .. Len(results) :
       results[i].task \in running /\ results[i].out \in Outcome /\ results[i].halt \in BOOLEAN
  /\ \A n \in Nodes : \A o \in Elements(runs[n]) : o.item \in Item /\ o.out \in Outcome
  /\ next \in Item
  /\ broken \subseteq done /\ done \subseteq Nodes
  /\ total \in 0 .. MaxTotalNodeRuns + 1
  /\ stop \in BOOLEAN /\ halted \in BOOLEAN
  /\ verdict \in BOOLEAN \union {NULL}
  /\ pc \in {"dispatch", "receive", "ended", "crashed"}
  /\ seeds \subseteq Nodes /\ stale \subseteq Nodes
  /\ saved.out \in [Nodes -> [item : Item, out : Outcome] \union {NULL}]
  /\ resumes \in 0 .. MaxResumes

\* The run came to its end by itself.
RanOut == pc = "ended" /\ ~halted /\ ~stop

RanFor(n, l, i) == \E o \in Elements(runs[n]) : o.item[l] = i

\* A run that comes to its end has run the body of each of its loops for every
\* item, unless a break ended the loop, and what follows the loop: whatever
\* failed, in whatever order results came in, and also if the run was resumed.
LoopsFinish ==
  RanOut =>
    \A l \in LoopNodes : (\E o \in Elements(runs[l]) : o.out.ok) =>
      /\ Kind[l] = "loop" /\ l \notin broken =>
           \A e \in Elements(BodyEdges(l)), i \in 0 .. Size[l] - 1 : RanFor(e.to, l, i)
      /\ \A e \in Elements(EdgesFrom(l)) : e.when = "after" => runs[e.to] # <<>>

\* A run that comes to its end left out no node that an edge leads to from an
\* output and whose inputs were all there, although a join is looked at only
\* when one of its inputs arrives, and a resume looks at the kept outputs only.
\* Kept outputs count as what the checkpoint says they are: where a death in the
\* middle of writing it lost the text of an output, as the empty one read instead.
NoneLeftOut ==
  RanOut =>
    \A e \in Elements(Edges) : \A o \in Elements(runs[e.from]) :
      /\ EdgeMatches(e, o.out)
      /\ ~StartsLoop(e.from, o.out)
      /\ e.to \in AwaitAll => AllInputsReady(runs, e.to, o.item)
      /\ ~\E l \in broken : o.item[l] # NULL
      => \E v \in Elements(runs[e.to]) :
           v.item = o.item \/ (e.to \in ForEach /\ v.item[e.to] # NULL)

\* Whatever stops, kills and resumes the run: in its end no item of a loop and
\* no node that was due is missing.
NothingLeftOut == LoopsFinish /\ NoneLeftOut

\* A node that waits for all of its inputs runs once for an item, although
\* each of its inputs could have queued it.
JoinsOnce ==
  \A n \in AwaitAll : \A i, j \in 1 .. Len(runs[n]) :
    /\ runs[n][i].item = runs[n][j].item
    /\ \A l \in LoopNodes : Kind[l] = "infinite" => runs[n][i].item[l] = NULL
    => i = j

\* What follows a loop waits for all of it: once the loop is over, nothing of
\* it is queued or running, unless a break cut it short.
AfterLoopWaits ==
  \A l \in done \ broken : ~\E t \in Pending : t.origin = l

\* No more items of a loop are under way than its width allows.
InFlight ==
  \A l \in Nodes :
    Cardinality({t.item[l] : t \in {u \in Pending : u.origin = l}}) <= Width[l]

\* A break ends a loop that runs one item at a time: nothing of the loop
\* starts after it, on whatever branches the item still had work.
BreakEndsLoop ==
  \A l \in broken : Width[l] = 1 => ~\E t \in Pending : t.origin = l

\* Joins and loops keep their order in every interleaving of results, breaks
\* and resumes.
Consistent == TypeOK /\ JoinsOnce /\ AfterLoopWaits /\ InFlight /\ BreakEndsLoop

\* A resume does not repeat what the checkpoint holds: outside of loops and
\* for_each nodes no node runs whose success was saved, although others failed.
\* Excepted are what a resume found out of date, with all that follows it, and what
\* the checkpoint has as a success and its entry as a failure: the entry was lost
\* by a death in the middle of writing it.
NothingRepeated ==
  \A w \in working :
    w.task.item = NoItem /\ w.task.node \notin RunAgain \union DescendantsOf(stale)
      => \/ saved.out[w.task.node] = NULL
         \/ ~saved.out[w.task.node].out.ok
         \/ \E e \in saved.entries : e.key[1] = w.task.node /\ ~e.out.ok

\* Every execution comes to an end; an infinite loop by the limit of node runs.
Terminates == []<>(pc \in {"ended", "crashed"})

=============================================================================
