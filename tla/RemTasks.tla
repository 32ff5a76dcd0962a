------------------------------ MODULE RemTasks ------------------------------
(***************************************************************************)
(* Rem's managed task runs (ui/rem_home.py, ui/rem_home_store.py).         *)
(*                                                                         *)
(* The runs of one task share a thread of the desktop chat.  A monitor     *)
(* starts a worker thread for a queued run; the worker lets a provider do  *)
(* the work, lets another session of it review the result, and repairs,    *)
(* rechecks, waits or concludes.  Meanwhile users run, edit, follow up and *)
(* cancel, the server closes, dies and starts again, and another server    *)
(* takes over while the workers of the former one still drain.             *)
(*                                                                         *)
(* Every transaction on the database is one step.  A worker keeps the      *)
(* epoch it read; commands advance the epoch of a run, and what the worker *)
(* writes is guarded by it.  What the worker says and finds is left open.  *)
(***************************************************************************)
EXTENDS Naturals, FiniteSets

CONSTANTS
  NULL,
  MaxRuns,      \* bound: runs of the task
  MaxCommands,  \* bound: occurrences, commands of users, and servers that take
                \* over from one that is not gone
  MaxEnds,      \* bound: how often a server closes or dies
  Limit         \* how often an attempt may be repeated, for each reason

\* The budgets of a run: repair_count (2), review_refresh_count (2, the files
\* changed), review_format_retry (1), review_receipt_retry (1), proof_waits (3,
\* MAX_PROOF_WAITS) and transient_retries (3, TRANSIENT_RETRY_SECONDS).
Rechecks == {"files", "format", "receipt"}
Budgets == Rechecks \union {"repair", "wait", "transient"}

ASSUME BoundsAssumption ==
  {MaxRuns, MaxCommands, MaxEnds} \subseteq Nat /\ Limit \in [Budgets -> Nat]

Runs == 1 .. MaxRuns

VARIABLES
  task,      \* the recipe of the task: its revision, and the event it comes from
  managed,   \* managedRunId of the thread
  run,       \* the row of each run
  outbox,    \* outcomes to be told
  up,        \* the server that has the lease: "up", "closing" or "down"
  jobs,      \* its jobs of the thread whose provider is at work
  worker,    \* the worker thread of each run: where it is and why, and its copy
             \* of the run's epoch and recipe
  cancel,    \* runs whose worker has its cancel event set
  seen,      \* runs the monitor has read and is about to signal
  former,    \* the worker threads left of the server that had the lease before
  commands, ends,  \* count what MaxCommands and MaxEnds bound
  unsure,    \* history: runs whose work was cut off, how far it got is not known
  contested  \* history: runs that a worker of a former server has written

database == <<task, managed, run, outbox>>
threads == <<worker, cancel, seen>>
events == <<commands, ends>>
history == <<unsure, contested>>
vars == <<database, up, jobs, threads, former, events, history>>

ACTIVE == {"queued", "executing", "verifying", "repairing", "cancelling"}

Existing == {r \in Runs : run[r] # NULL}
Active == {r \in Existing : run[r].state \in ACTIVE}
Newest == CHOOSE r \in Existing : \A s \in Existing : s <= r

\* The thread has a job that is going on, whichever run it belongs to.
Live == jobs # {}

-----------------------------------------------------------------------------
(* Cycles.                                                                 *)

NewRun(recipe) ==
  [state |-> "queued", epoch |-> 0, recipe |-> recipe, pending |-> NULL,
   result |-> FALSE, resume |-> FALSE, inspect |-> FALSE, verifier |-> FALSE,
   reviewing |-> FALSE, used |-> [b \in Budgets |-> 0], turn |-> NULL, told |-> FALSE]

Unused(m, bs) == [m EXCEPT !.used = [b \in Budgets |-> IF b \in bs THEN 0 ELSE @[b]]]
Use(m, b) == [m EXCEPT !.used[b] = @ + 1]
MayUse(m, b) == m.used[b] < Limit[b]

\* begin_cycle without the epoch: back to the queue with fresh budgets.  The
\* result of an earlier attempt stays.
Reset(m, kind) ==
  [Unused(m, IF kind = "recover" THEN Budgets \ {"repair"} ELSE Budgets) EXCEPT
     !.state = "queued", !.told = FALSE, !.reviewing = FALSE,
     !.resume = (kind # "work"),
     !.inspect = IF kind = "work" THEN FALSE ELSE @]

BeginCycle(m, kind) == [Reset(m, kind) EXCEPT !.epoch = @ + 1]

\* The top of the worker's loop takes over the recipe that is pending; the
\* command that left it has advanced the epoch.
Applied(m) == [Reset(m, "work") EXCEPT !.recipe = m.pending, !.pending = NULL]

\* _recover, for one run: a result in the journal is kept, also an empty one,
\* which counts as none, and work that was cut off is looked at before anything
\* goes on.  A new server has no job of its own to leave alone.
Recovered(m) ==
  LET completed == m.turn # NULL /\ m.turn.role = "execute" /\ m.turn.status \in {"final", "empty"}
      result == IF completed THEN m.turn.status = "final" ELSE m.result
      inspectFirst == m.state \in {"executing", "repairing"} /\ ~completed
  IN  IF m.state \notin ACTIVE \ {"queued", "cancelling"} THEN m
      ELSE [BeginCycle(m, "recover") EXCEPT
              !.result = result, !.inspect = inspectFirst \/ ~result]

InterruptedReview(m) ==
  m.state \in {"blocked", "cancelled"} /\ m.result /\ m.verifier /\ m.reviewing

-----------------------------------------------------------------------------
(* The end of a run.                                                       *)

\* _update with expected_epoch, by the worker w of the run.
GuardedBy(w, r) == run[r].epoch = w.epoch /\ run[r].state # "cancelling"
Guarded(r) == GuardedBy(worker[r], r)

\* Mutant of Enqueue: an outcome is identified by its run alone.
EnqueuePerRun(row) ==
  outbox' = IF \E o \in outbox : o.run = row.run THEN outbox ELSE outbox \union {row}

\* enqueue_outcome: INSERT OR IGNORE, by run and epoch.
Enqueue(row) ==
  outbox' = IF \E o \in outbox : o.run = row.run /\ o.epoch = row.epoch
              THEN outbox ELSE outbox \union {row}

\* Mutant of MayFinish: the epoch of the worker is not compared.
MayFinishLate(w, r, byEpoch) == run[r].state \in ACTIVE

MayFinish(w, r, byEpoch) == run[r].state \in ACTIVE /\ (byEpoch => GuardedBy(w, r))

\* _finish: the outcome is committed together with the message that tells it.
\* One that comes too late changes nothing.  The row forgets its turn, unless
\* the end of it could not be confirmed; the provider is not touched.
Ended(m, state) ==
  [m EXCEPT !.state = state,
            !.reviewing = state \in {"blocked", "cancelled"} /\ m.state = "verifying",
            !.turn = IF state = "outcome_unknown" THEN @ ELSE NULL]

\* What is not read again before a cycle sets it is cleared: the budgets, and
\* for a run that no cycle takes up again also what it had saved.
Tidy(m) ==
  LET again == m.state \in {"blocked", "cancelled"}
  IN  [Unused(m, Budgets) EXCEPT !.resume = FALSE, !.result = @ /\ again,
         !.verifier = @ /\ again, !.inspect = @ /\ again]

\* No thread but w, which ends, may still write the run.
Alone(w, r) == former[r] = NULL \/ (w # NULL /\ worker[r] = NULL)

Finish(w, r, state, byEpoch) ==
  IF ~MayFinish(w, r, byEpoch) THEN UNCHANGED <<run, outbox>>
  ELSE /\ run' = [run EXCEPT ![r] = IF Alone(w, r) THEN Tidy(Ended(@, state)) ELSE Ended(@, state)]
       /\ Enqueue([run |-> r, epoch |-> run[r].epoch, state |-> state])

-----------------------------------------------------------------------------
(* The worker thread, _run.                                                *)

At(r, pc) == worker[r] # NULL /\ worker[r].pc = pc
GoWith(r, pc, how) == worker' = [worker EXCEPT ![r].pc = pc, ![r].how = how]
Go(r, pc) == GoWith(r, pc, NULL)
ThreadEnds(r) == worker' = [worker EXCEPT ![r] = NULL] /\ cancel' = cancel \ {r}
Failed(how) == [pc |-> "except", how |-> how, epoch |-> NULL, recipe |-> NULL]
Leaves == [pc |-> "stop", how |-> NULL, epoch |-> NULL, recipe |-> NULL]
Drains == [pc |-> "working", how |-> NULL, epoch |-> NULL, recipe |-> NULL]
Raise(r, how) == worker' = [worker EXCEPT ![r] = Failed(how)]
Put(r, m) == run' = [run EXCEPT ![r] = m]

outside == <<task, up, seen, former, events, contested>>

\* The top of the loop: the run is read, a pending recipe is applied, and the
\* phase is written; saved work goes on with its review.  A command between the
\* two transactions makes the next guarded update fail just the same.
Top(r) ==
  /\ At(r, "top")
  /\ LET pending == run[r].state # "cancelling" /\ run[r].pending # NULL /\ up = "up"
         m == IF pending THEN Applied(run[r]) ELSE run[r]
         stops == up # "up" \/ m.state = "cancelling"
         saved == m.resume /\ (m.result \/ m.inspect)
         phase == IF stops THEN m.state ELSE IF m.resume THEN "verifying"
                  ELSE IF m.used["repair"] = 0 THEN "executing" ELSE "repairing"
     IN  /\ Put(r, [m EXCEPT !.state = phase])
         /\ cancel' = IF pending THEN cancel \ {r} ELSE cancel
         /\ managed' = IF pending THEN r ELSE managed
         /\ unsure' = IF pending THEN unsure \ {r} ELSE unsure
         /\ worker' = [worker EXCEPT ![r] =
                         [pc |-> IF stops THEN "stop" ELSE IF saved THEN "worked" ELSE "begin",
                          how |-> IF saved /\ ~stops THEN "saved" ELSE NULL,
                          epoch |-> m.epoch, recipe |-> m.recipe]]
  /\ UNCHANGED <<outside, jobs, outbox>>

\* Mutant of StartTurn: a job of the thread that may still be at work is not
\* noticed.
StartTurnAnyway(r, role, m) ==
  /\ Put(r, [m EXCEPT !.turn = [role |-> role, status |-> "running"]])
  /\ jobs' = jobs \union {[run |-> r, role |-> role]}
  /\ Go(r, IF role = "execute" THEN "working" ELSE "reviewing")

\* _turn: recorded in the run, then started, unless the thread has a job.
StartTurn(r, role, m) ==
  IF Live
    THEN /\ Put(r, [m EXCEPT !.turn = [role |-> role, status |-> "failed"]])
         /\ Raise(r, "error")
         /\ UNCHANGED jobs
    ELSE /\ Put(r, [m EXCEPT !.turn = [role |-> role, status |-> "running"]])
         /\ jobs' = jobs \union {[run |-> r, role |-> role]}
         /\ Go(r, IF role = "execute" THEN "working" ELSE "reviewing")

Begin(r) ==
  /\ At(r, "begin") /\ Guarded(r)
  /\ StartTurn(r, "execute", run[r])
  /\ UNCHANGED <<outside, managed, outbox, cancel, unsure>>

\* The journal of the turn that the row of the run names gets its last record.
Recorded(m, status) ==
  IF m.turn # NULL /\ m.turn.status = "running" THEN [m EXCEPT !.turn.status = status] ELSE m

Waiting == {"working", "reviewing"}

\* The provider ends a turn, by itself or because it was stopped, and perhaps
\* without a word; also one that no worker waits for any more.
TurnEnds(job) ==
  /\ up # "down" /\ job \in jobs
  /\ jobs' = jobs \ {job}
  /\ LET r == job.run IN
       \E status \in {"final", "empty", "failed"} :
         /\ Put(r, Recorded(run[r], status))
         /\ worker' = IF worker[r] # NULL /\ worker[r].pc \in Waiting
                        THEN [worker EXCEPT ![r].how = status] ELSE worker
  /\ UNCHANGED <<outside, managed, outbox, cancel, unsure>>

\* _await_turn: a turn that is over, one that was stopped in the meantime, and
\* one whose stop (asked for, or due to a limit of time) is not confirmed.
AwaitTurn(r) ==
  /\ worker[r] # NULL /\ worker[r].pc \in Waiting
  /\ LET status == worker[r].how IN
       \/ status = NULL /\ Raise(r, "timeout")
       \/ status # NULL /\ (r \in cancel \/ up # "up") /\ Raise(r, "error")
       \/ /\ status # NULL /\ r \notin cancel /\ up = "up"
          /\ \/ /\ status # "failed"
                /\ IF worker[r].pc = "working" THEN GoWith(r, "worked", status) ELSE Go(r, "reviewed")
             \/ status = "failed" /\ Raise(r, "transient")
             \/ Raise(r, "error")
  /\ UNCHANGED <<outside, managed, run, jobs, outbox, cancel, unsure>>

\* After a turn the worker looks for what overtook it.
Overtaken(r) ==
  /\ worker[r] # NULL /\ worker[r].pc \in {"worked", "reviewed", "asked"}
  /\ run[r].epoch # worker[r].epoch \/ r \in cancel
  /\ Go(r, IF run[r].pending # NULL THEN "top" ELSE "stop")
  /\ UNCHANGED <<outside, jobs, managed, run, outbox, cancel, unsure>>

\* A guarded update finds another epoch, or the run cancelled; or the worker
\* ended without a result.
Superseded(r) ==
  /\ worker[r] # NULL /\ worker[r].pc \in {"begin", "worked", "gate", "reviewed", "asked"}
  /\ ~Guarded(r) \/ worker[r].how = "empty"
  /\ Raise(r, "error")
  /\ UNCHANGED <<outside, jobs, managed, run, outbox, cancel, unsure>>

\* Mutant of FreshReview: every review gets fresh retries.
FreshReviewAlways(m, how) == Unused(m, Rechecks)

\* "Review budgets belong to one worker result."
FreshReview(m, how) == IF how = "saved" THEN m ELSE Unused(m, Rechecks)

\* The result is saved.
Worked(r) ==
  /\ At(r, "worked") /\ Guarded(r) /\ worker[r].how # "empty"
  /\ Put(r, [FreshReview(run[r], worker[r].how) EXCEPT
               !.state = "verifying", !.result = TRUE, !.resume = FALSE])
  /\ Go(r, "gate")
  /\ UNCHANGED <<outside, jobs, managed, outbox, cancel, unsure>>

Repair(r, m) ==
  /\ MayUse(m, "repair")
  /\ Put(r, [Use(m, "repair") EXCEPT !.state = "repairing"])
  /\ Go(r, "top")

\* A report that is missing is asked for before the review, or given up; after
\* a restart the review comes first.
ReportMissing(r) ==
  /\ At(r, "gate") /\ ~run[r].inspect
  /\ \/ Guarded(r) /\ Repair(r, run[r])
     \/ GoWith(r, "conclude", "blocked") /\ UNCHANGED run
  /\ UNCHANGED <<outside, jobs, managed, outbox, cancel, unsure>>

BeginReview(r) ==
  /\ At(r, "gate") /\ Guarded(r)
  /\ StartTurn(r, "verify", [run[r] EXCEPT !.verifier = TRUE])
  /\ managed' = r
  /\ UNCHANGED <<outside, outbox, cancel, unsure>>

\* The answer cannot be used, the files changed under it, or it lacks receipts:
\* the saved result is reviewed again, as often as the budgets allow.
Recheck(r, why) ==
  /\ At(r, "reviewed")
  /\ IF MayUse(run[r], why)
       THEN Guarded(r) /\ Put(r, [Use(run[r], why) EXCEPT !.resume = TRUE]) /\ Go(r, "top")
       ELSE why # "receipt" /\ Raise(r, "error") /\ UNCHANGED run
  /\ UNCHANGED <<outside, jobs, managed, outbox, cancel, unsure>>

Accept(r) ==
  /\ At(r, "reviewed") /\ Guarded(r)
  /\ GoWith(r, "conclude", "succeeded")
  /\ UNCHANGED <<outside, jobs, managed, run, outbox, cancel, unsure>>

\* The proof is an event to come: back to the queue, with the review to do.
ProofWait(r) ==
  /\ At(r, "reviewed") /\ Guarded(r)
  /\ ~run[r].inspect /\ MayUse(run[r], "wait")
  /\ Put(r, [Use(run[r], "wait") EXCEPT !.state = "queued", !.resume = TRUE, !.turn = NULL])
  /\ ThreadEnds(r)
  /\ UNCHANGED <<outside, jobs, managed, outbox, unsure>>

\* Something is missing.  After a restart the review must also say that the
\* work can go on safely; then the worker gets its findings, perhaps after a
\* question was answered, unless that was tried often enough.
Unresolved(r) ==
  /\ At(r, "reviewed") /\ Guarded(r)
  /\ LET m == [run[r] EXCEPT !.inspect = FALSE] IN
       \/ GoWith(r, "conclude", "blocked") /\ UNCHANGED <<run, unsure>>
       \/ /\ unsure' = IF run[r].inspect THEN unsure \ {r} ELSE unsure
          /\ \/ Repair(r, m)
             \/ MayUse(m, "repair") /\ Put(r, m) /\ Go(r, "asked")
             \/ Put(r, m) /\ GoWith(r, "conclude", "blocked")
  /\ UNCHANGED <<outside, jobs, managed, outbox, cancel>>

\* Rem answers the worker's question, or hands it to the user, or cannot.
Answer(r) ==
  /\ At(r, "asked")
  /\ \/ Guarded(r) /\ Repair(r, run[r])
     \/ Guarded(r) /\ GoWith(r, "conclude", "blocked") /\ UNCHANGED run
     \/ Raise(r, "error") /\ UNCHANGED run
  /\ UNCHANGED <<outside, jobs, managed, outbox, cancel, unsure>>

\* The last step of a worker that reached an outcome: a command may have come
\* since its last guarded update.
Conclude(r) ==
  /\ At(r, "conclude")
  /\ Finish(worker[r], r, worker[r].how, TRUE)
  /\ ThreadEnds(r)
  /\ UNCHANGED <<outside, jobs, managed, unsure>>

\* The loop was left.
Stop(r) ==
  /\ At(r, "stop")
  /\ Finish(worker[r], r, "cancelled", FALSE)
  /\ ThreadEnds(r)
  /\ UNCHANGED <<outside, jobs, managed, unsure>>

\* The except clause reads the run once more and decides ...
Decision(m, how) ==
  CASE how = "timeout" -> "outcome_unknown"
    [] how # "timeout" /\ m.state = "cancelling" -> "cancelled"
    [] how # "timeout" /\ m.state # "cancelling" /\ m.pending # NULL -> "queued"
    [] OTHER -> IF how = "transient" /\ MayUse(m, "transient") THEN "retry" ELSE "blocked"

Caught(r) ==
  /\ At(r, "except")
  /\ worker' = [worker EXCEPT ![r].pc = "act", ![r].epoch = run[r].epoch,
                              ![r].how = Decision(run[r], worker[r].how)]
  /\ UNCHANGED <<outside, jobs, managed, run, outbox, cancel, unsure>>

\* ... and acts on that in transactions of its own; only a retry and a failure
\* look at the epoch, which is the one it has just read.
RetryLater(w, r) ==
  IF ~GuardedBy(w, r) THEN UNCHANGED run
  ELSE Put(r, [Use(run[r], "transient") EXCEPT !.state = "queued", !.turn = NULL,
                 !.resume = (run[r].state = "verifying" /\ run[r].result) \/ @])

ActOn(w, r) ==
  CASE w.how = "queued" -> /\ Put(r, [run[r] EXCEPT !.state = "queued", !.turn = NULL])
                           /\ UNCHANGED outbox
    [] w.how = "retry" -> RetryLater(w, r) /\ UNCHANGED outbox
    [] OTHER -> Finish(w, r, w.how, w.how = "blocked")

Act(r) ==
  /\ At(r, "act")
  /\ ActOn(worker[r], r)
  /\ ThreadEnds(r)
  /\ UNCHANGED <<outside, jobs, managed, unsure>>

WorkerStep(r) ==
  \/ Top(r) \/ Begin(r) \/ AwaitTurn(r) \/ Overtaken(r) \/ Superseded(r)
  \/ Worked(r) \/ ReportMissing(r) \/ BeginReview(r) \/ Accept(r)
  \/ (\E why \in Rechecks : Recheck(r, why))
  \/ ProofWait(r) \/ Unresolved(r) \/ Answer(r) \/ Conclude(r) \/ Stop(r)
  \/ Caught(r) \/ Act(r)

-----------------------------------------------------------------------------
(* The monitor, tick.                                                      *)

\* It reads the runs, and then signals the workers of those that are cancelled
\* or have a new recipe: by then a worker may have taken that recipe over.
Look ==
  /\ up = "up" /\ seen = {}
  /\ seen' = {r \in Existing :
                worker[r] # NULL /\ (run[r].state = "cancelling" \/ run[r].pending # NULL)}
  /\ seen' # {}
  /\ UNCHANGED <<database, up, jobs, worker, cancel, former, events, history>>

Signal(r) ==
  /\ up = "up" /\ r \in seen
  /\ seen' = seen \ {r}
  /\ cancel' = IF worker[r] # NULL THEN cancel \union {r} ELSE cancel
  /\ UNCHANGED <<database, up, jobs, worker, former, events, history>>

FinishCancelling(r) ==
  /\ up = "up" /\ r \in Existing /\ r \notin seen
  /\ run[r].state = "cancelling" /\ worker[r] = NULL
  /\ ~(run[r].turn # NULL /\ Live)
  /\ Finish(NULL, r, "cancelled", FALSE)
  /\ UNCHANGED <<task, managed, up, jobs, threads, former, events, history>>

\* A queued run waits until nothing speaks against it: the desktop has
\* connected, the time of a retry or of the awaited proof has come, a worker and
\* memory are free and no other task works in the project.  None of this is up
\* to the runs of the task, so the step may be put off, also for good.
StartWorker(r) ==
  /\ up = "up" /\ r \in Existing /\ r \notin seen
  /\ run[r].state = "queued" /\ worker[r] = NULL
  /\ worker' = [worker EXCEPT ![r] = [pc |-> "top", epoch |-> NULL, recipe |-> NULL, how |-> NULL]]
  /\ cancel' = cancel \ {r}
  /\ UNCHANGED <<database, up, jobs, seen, former, events, history>>

\* _deliver: an outcome the run has left behind is dropped, or told of an
\* earlier epoch.
Deliver(row) ==
  /\ up # "down" /\ row \in outbox
  /\ outbox' = outbox \ {row}
  /\ run' = IF run[row.run].state = row.state /\ run[row.run].epoch = row.epoch
              THEN [run EXCEPT ![row.run].told = TRUE] ELSE run
  /\ UNCHANGED <<task, managed, up, jobs, threads, former, events, history>>

Monitor == Look \/ \E r \in Runs : Signal(r) \/ FinishCancelling(r)
Admission == \E r \in Runs : StartWorker(r)

-----------------------------------------------------------------------------
(* Users, and the schedule.                                                *)

Counted == commands < MaxCommands /\ commands' = commands + 1 /\ UNCHANGED ends

\* A command with a request id that was used is answered from its receipt.
Command == up = "up" /\ Counted

others == <<outbox, up, jobs, threads, former, contested>>

\* add_run, when no run is active: the new run shares the thread.
AddRun(recipe) ==
  /\ Cardinality(Existing) < MaxRuns
  /\ LET r == Cardinality(Existing) + 1
     IN  run' = [run EXCEPT ![r] = NewRun(recipe)] /\ managed' = r

\* due: not while the outcome of an earlier run is unknown.
Due ==
  /\ Command
  /\ Active = {} /\ ~\E r \in Existing : run[r].state = "outcome_unknown"
  /\ AddRun(task)
  /\ UNCHANGED <<task, others, unsure>>

Busy(r) == \E s \in Existing \ {r} : run[s].state \in ACTIVE \union {"outcome_unknown"}

QueueReview(r) ==
  /\ ~Busy(r)
  /\ Put(r, BeginCycle(run[r], "review"))
  /\ UNCHANGED managed

Retryable(r) == InterruptedReview(run[r]) /\ run[r].recipe.rev = task.rev

RetryReview(r) ==
  /\ Command /\ r \in Existing
  /\ Retryable(r)
  /\ QueueReview(r)
  /\ UNCHANGED <<task, others, unsure>>

\* mutate_task, "run": goes on with an interrupted review if there is one.
Run ==
  /\ Command
  /\ IF Existing # {} /\ Retryable(Newest) THEN QueueReview(Newest)
     ELSE Active = {} /\ AddRun(task)
  /\ UNCHANGED <<task, others, unsure>>

\* mutate_task, "edit", for the current run too: every active run is to start
\* again with the new recipe.
Edit ==
  /\ Command
  /\ task' = [rev |-> task.rev + 1, event |-> commands']
  /\ run' = [r \in Runs |-> IF r \in Active
                             THEN [run[r] EXCEPT !.epoch = @ + 1, !.pending = task']
                             ELSE run[r]]
  /\ UNCHANGED <<managed, others, unsure>>

\* mutate_run, "cancel", and manual_stop.
Cancel(r) ==
  /\ Command /\ r \in Active
  /\ run' = [run EXCEPT ![r].state = "cancelling", ![r].epoch = @ + 1]
  /\ UNCHANGED <<task, managed, others, unsure>>

\* instruct: a follow-up in the thread goes to the run that manages it.
Instruct ==
  /\ Command /\ managed # NULL
  /\ LET r == managed
         m == run[r]
         source == IF m.pending # NULL THEN m.pending ELSE m.recipe
         updated == [rev |-> source.rev, event |-> commands']
     IN  \/ /\ m.state \in ACTIVE \ {"cancelling"}
            /\ Put(r, [m EXCEPT !.epoch = @ + 1, !.pending = updated])
            /\ UNCHANGED <<managed, unsure>>
         \/ /\ m.state \in {"blocked", "cancelled"} /\ ~Busy(r)
            /\ Put(r, [BeginCycle(m, "work") EXCEPT !.recipe = updated])
            /\ unsure' = unsure \ {r}
            /\ UNCHANGED managed
         \/ /\ m.state \in {"succeeded", "outcome_unknown"} /\ Active = {}
            /\ AddRun([rev |-> task.rev, event |-> commands'])
            /\ UNCHANGED unsure
  /\ UNCHANGED <<task, others>>

-----------------------------------------------------------------------------
(* The server.                                                             *)

Ends == ends < MaxEnds /\ ends' = ends + 1 /\ UNCHANGED commands

\* close: the workers are told to stop, and the monitor ends.
Close ==
  /\ up = "up" /\ Ends
  /\ up' = "closing"
  /\ cancel' = {r \in Runs : worker[r] # NULL}
  /\ seen' = {}
  /\ UNCHANGED <<database, jobs, worker, former, history>>

NoThreads == /\ worker' = [r \in Runs |-> NULL]
             /\ cancel' = {} /\ seen' = {} /\ jobs' = {}

CutOff == {job.run : job \in {j \in jobs : j.role = "execute"}}

\* The process ends, after close or without it, and its threads with it.  A
\* provider runs in a session of its own and may go on for a while; no server
\* hears of it again.
Exit ==
  /\ \/ up = "closing" /\ UNCHANGED events
     \/ up = "up" /\ Ends
  /\ up' = "down"
  /\ run' = [r \in Runs |-> IF \E job \in jobs : job.run = r THEN Recorded(run[r], "failed")
                                                           ELSE run[r]]
  /\ unsure' = unsure \union CutOff
  /\ NoThreads
  /\ UNCHANGED <<task, managed, outbox, former, contested>>

RecoverRuns == run' = [r \in Runs |-> IF run[r] = NULL THEN NULL ELSE Recovered(run[r])]

\* A server that gets the lease recovers the runs: after the former one is gone,
Restart ==
  /\ up = "down"
  /\ up' = "up"
  /\ RecoverRuns
  /\ UNCHANGED <<task, managed, outbox, jobs, threads, former, events, history>>

\* The worker of a server that stops: how it goes on, by itself.  It leaves its
\* loop, or what it guards by its epoch fails.
Leaving(w) ==
  CASE w = NULL -> {NULL}
    [] w # NULL /\ w.pc \in {"conclude", "except", "act"} -> {w}
    [] w # NULL /\ w.pc \in {"top", "stop"} -> {Leaves}
    [] w # NULL /\ w.pc \in {"begin", "gate"} -> {Failed("error")}
    [] w # NULL /\ w.pc \in {"worked", "reviewed", "asked"} -> {Leaves, Failed("error")}
    [] w # NULL /\ w.pc \in Waiting -> IF w.how = NULL THEN {Drains} ELSE {Failed("error")}

\* or 15 seconds after the former one renewed the lease for the last time, be it
\* closed or held up: its workers may still be there, and its providers at work.
TakeOver ==
  /\ up # "down" /\ Counted
  /\ \A r \in Runs : former[r] = NULL
  /\ up' = "up"
  /\ RecoverRuns
  /\ unsure' = unsure \union CutOff
  /\ former' \in [Runs -> UNION {Leaving(worker[r]) : r \in Runs}]
  /\ \A r \in Runs : former'[r] \in Leaving(worker[r])
  /\ NoThreads
  /\ UNCHANGED <<task, managed, outbox, contested>>

\* A worker of the former server waits for its turn to end, or to be confirmed
\* in time; and reads the run in its except clause.
FormerWaits(r) ==
  /\ former[r] = Drains
  /\ \/ former' = [former EXCEPT ![r] = Failed("timeout")] /\ UNCHANGED run
     \/ /\ former' = [former EXCEPT ![r] = Failed("error")]
        /\ \E status \in {"final", "empty", "failed"} :
             Put(r, IF \E job \in jobs : job.run = r THEN run[r] ELSE Recorded(run[r], status))
  /\ UNCHANGED <<task, managed, outbox, up, jobs, threads, events, history>>

FormerCaught(r) ==
  /\ former[r] # NULL /\ former[r].pc = "except"
  /\ former' = [former EXCEPT ![r].pc = "act", ![r].epoch = run[r].epoch,
                              ![r].how = Decision(run[r], former[r].how)]
  /\ UNCHANGED <<database, up, jobs, threads, events, history>>

\* Its last step: it leaves the loop, concludes, or acts on what it read.  Only
\* a conclusion is guarded by the epoch of the work it belongs to.
FormerEnds(r) ==
  /\ former[r] # NULL
  /\ LET w == former[r] IN
       \/ w.pc = "stop" /\ Finish(w, r, "cancelled", FALSE)
       \/ w.pc = "conclude" /\ Finish(w, r, w.how, TRUE)
       \/ w.pc = "act" /\ ActOn(w, r)
  /\ contested' = IF run' = run THEN contested ELSE contested \union {r}
  /\ former' = [former EXCEPT ![r] = NULL]
  /\ UNCHANGED <<task, managed, up, jobs, threads, events, unsure>>

\* The former process ends.
FormerExit ==
  /\ \E r \in Runs : former[r] # NULL
  /\ former' = [r \in Runs |-> NULL]
  /\ UNCHANGED <<database, up, jobs, threads, events, history>>

FormerStep(r) == FormerWaits(r) \/ FormerCaught(r) \/ FormerEnds(r)

Init ==
  /\ task = [rev |-> 0, event |-> 0]
  /\ managed = NULL
  /\ run = [r \in Runs |-> NULL]
  /\ outbox = {}
  /\ up = "up"
  /\ worker = [r \in Runs |-> NULL]
  /\ cancel = {} /\ seen = {} /\ jobs = {}
  /\ former = [r \in Runs |-> NULL]
  /\ commands = 0 /\ ends = 0
  /\ unsure = {} /\ contested = {}

Next ==
  \/ \E r \in Runs : WorkerStep(r) \/ FormerStep(r) \/ RetryReview(r) \/ Cancel(r)
  \/ \E job \in jobs : TurnEnds(job)
  \/ \E row \in outbox : Deliver(row)
  \/ Monitor \/ Admission
  \/ Due \/ Run \/ Edit \/ Instruct
  \/ Close \/ Exit \/ Restart \/ TakeOver \/ FormerExit

Spec == Init /\ [][Next]_vars

\* A worker that can go on does so, the monitor ticks, and updates are
\* delivered; the limit of a turn ends it if nothing else does.  That a queued
\* run is admitted is not assumed.
Fairness ==
  /\ WF_vars(\E r \in Runs : WorkerStep(r))
  /\ WF_vars(\E r \in Runs : FormerStep(r))
  /\ WF_vars(\E job \in jobs : TurnEnds(job))
  /\ WF_vars(Monitor)
  /\ WF_vars(\E row \in outbox : Deliver(row))

FairSpec == Spec /\ Fairness

-----------------------------------------------------------------------------
(* Values.                                                                 *)

ENDS == {"succeeded", "blocked", "cancelled", "outcome_unknown"}

Recipes == [rev : Nat, event : Nat]
TurnRecords == [role : {"execute", "verify"}, status : {"running", "final", "empty", "failed"}]

Rows ==
  [state : ACTIVE \union ENDS, epoch : Nat, recipe : Recipes, pending : Recipes \union {NULL},
   result : BOOLEAN, resume : BOOLEAN, inspect : BOOLEAN, verifier : BOOLEAN,
   reviewing : BOOLEAN, used : [Budgets -> Nat], turn : TurnRecords \union {NULL}, told : BOOLEAN]

Workers ==
  [pc : {"top", "begin", "working", "reviewing", "worked", "gate", "reviewed", "asked", "conclude", "stop",
         "except", "act"},
   how : {"saved", "final", "empty", "failed", "succeeded", "blocked", "cancelled", "outcome_unknown", "queued", "retry",
          "error", "timeout", "transient", NULL},
   epoch : Nat \union {NULL}, recipe : Recipes \union {NULL}]

ASSUME NoValueAssumption ==
  NULL \notin Rows /\ NULL \notin Workers /\ NULL \notin Recipes /\ NULL \notin TurnRecords

-----------------------------------------------------------------------------
(* Properties.                                                             *)

\* A run succeeds only with the recipe a review accepted: no edit or follow-up
\* that arrived during the review, or just before the end, is passed over.
SuccessIsReviewed ==
  [][\A r \in Existing : run'[r].state = "succeeded" /\ run[r].state # "succeeded" =>
       /\ run[r].pending = NULL
       /\ \E w \in {worker[r], former[r]} \ {NULL} :
            w.pc = "conclude" /\ w.recipe = run[r].recipe]_vars

\* The thread of a task has one provider at work at most, also beside a run
\* whose stop could not be confirmed; and a run is not said to be over while its
\* provider works, only that its outcome is unknown, and no two runs are active,
\* whatever is retried, followed up and recovered.  All this is about the server
\* that has the lease: a worker of a former one may end or requeue a run that is
\* no longer its own.
OneAtWork ==
  /\ Cardinality(jobs) <= 1
  /\ Cardinality(Active \ contested) <= 1
  /\ \A job \in jobs : job.run \in contested
                        \/ run[job.run].state \in ACTIVE \union {"outcome_unknown"}

Over(r) == run[r].state \notin ACTIVE

\* Every outcome is told: it is committed with its message, which outlives the
\* server and which no other outcome of the run replaces.
OutcomeTold ==
  /\ [](\A r \in Existing \ contested : Over(r) =>
          \/ run[r].told
          \/ \E o \in outbox : o.run = r /\ o.epoch = run[r].epoch)
  /\ []<>(outbox = {} \/ up = "down")

\* A command reached the run after the last guarded update of its worker.
Stranded(r) ==
  run[r].pending # NULL /\ worker[r] = NULL /\ run[r].state \notin {"queued", "cancelling"}

\* Every run comes to an end while the server is up and admits it: repairs,
\* rechecks, retries and waits are bounded together, and nothing but the queue
\* holds a run up.  The one exception is a command that arrives while the worker
\* concludes, which is left to the next restart.
RunsEnd ==
  /\ []<>(up # "up" \/ \A r \in Active : Stranded(r) \/ (run[r].state = "queued" /\ worker[r] = NULL))
  /\ WF_vars(Admission) => []<>(up # "up" \/ \A r \in Active : Stranded(r))

\* "mutating work continues only if that inspection establishes it can safely
\* resume": work that was cut off is not executed again before a review has
\* found that safe, or the user has asked for it.
RecoveryInspects ==
  \A job \in jobs : job.run \in unsure => job.role = "verify"
=============================================================================
