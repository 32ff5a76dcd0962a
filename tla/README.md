# Raticode: models, checks and proofs of its execution core

Raticode (package `gofer`, source under `src/src/gofer`) compiles workflows written in
the Rattish language to a graph, executes them (and older workflows written in TOML) from a
command line or a desktop application, keeps records from which an unfinished run can be
resumed, and lets agents chat, generate and work on managed tasks in the background. This
directory holds TLA+ models of the parts where the order of events decides whether the
program is right: the two executors, the service and the queue around them, approvals, and
the desktop's chat turns, generation jobs and managed tasks.

Paths below are relative to the repository root; `gofer/` abbreviates `src/gofer/`.

## 1. Inventory

### Parts of the system

| part | state | operations | how it interacts |
|---|---|---|---|
| Workflow scheduler, `gofer/rattish/workflow_runtime.py` (`_WorkflowScheduler`) | pending activations, running tasks, satisfied needs per lineage, open loops, run counts, saved records, replay state | enqueue, start, process a completion, open/fill/close/settle loops, merge signals, end, replay | one asyncio task; node handlers run as concurrent tasks; publishes node events to the run service |
| Run service, `gofer/rattish/run_service.py` with the callers in `gofer/ui/api.py` and `gofer/cli/commands/rattish.py` | one JSON record per run on disk, tables of active and resuming runs in each process, a lock file per resumed run | start, stop, read and judge a record, claim a resume, look for an earlier resume, save, let go | several processes and threads over one directory; calls the scheduler |
| Runner queue, `gofer/core/runner.py`, `gofer/cli/commands/runner.py` | SQLite tables of runs and runners; a worker's claimed run and cancel flag | enqueue, register, claim, heartbeat, cancel, finish, mark lost | any number of worker processes, each with a monitor thread |
| Node handlers, `gofer/rattish/runtime.py` | none that lasts | run a shell command, edit files, call HTTP or an agent | called by the scheduler, return an outcome |
| Compiler, `gofer/rattish/{lexer,parser,compiler,ir_validation,...}.py` | none | source text to validated IR | its output is the scheduler's constants |
| Artifacts and registry, `gofer/rattish/{artifacts,workspaces,storage,bundles}.py` | cached IR, registered sources | compile, register, export | gives the run service its source revision |
| TOML executor, `gofer/core/{executor,planner,graph}.py` | a queue of tasks, running nodes, outputs, loops, a checkpoint per result | dispatch, receive a result, route, join, open the next item, stop, resume | one coroutine with concurrent node tasks; a stop marker on disk; started by the runner queue |
| Approvals, `gofer/core/approvals.py` | one JSON file per request, without a lock | ask, mark waiting, decide, expire, cancel, claim a resume | gates of both executors wait for it; command line and desktop decide and resume |
| Chat steering and jobs, `gofer/ui/{chat_steering,chat_jobs}.py`, handlers in `gofer/ui/server.py` | turns, receipts in memory and on disk, journals, a table of jobs | start, steer, stop, look up, restart the provider | a job thread per turn, requests on other threads |
| Generation jobs, `gofer/ui/generation_jobs.py` | job records in memory and on disk, slots | start, generate, commit, dismiss, recover | threads; the user's git repository |
| Rem home, `gofer/ui/rem_home.py`, `gofer/ui/rem_home_store.py` | SQLite tables of tasks, runs, threads, outbox; worker threads with a cancel event | run, edit, follow up, cancel, retry a review; work, review, repair, recheck, wait, finish, tell, recover | a monitor thread, a worker thread per run, delivery threads; chat jobs for turns |
| Command slots, `gofer/core/command_slots.py` | saved commands | allocate, reuse, free | node handlers |
| Schedules and watches, `gofer/core/{scheduler,watcher,operations,revisions}.py` | OS schedule entries, file versions | install, remove, react | start runs |
| Devices, `gofer/devices` | paired devices, sessions | pair, authenticate, control | the desktop server |
| Desktop server and chat, `gofer/ui/{server,chat,chat_sessions}.py` | sessions, histories | HTTP routing, providers | calls all of the above |
| Swarms and organizations, `gofer/ui/{swarms,organizations}.py` | teams of agents | create, run, message | chat jobs |
| Providers, `gofer/subscriptions` | usage | call external CLIs and APIs | node handlers, chat |
| CLI, utilities, frontend, website, packaging | | parsing, display, build | |

### What is hard, and what makes the modelled parts correct

*Scheduler.* Completions come in any order; what a node waits for is decided per lineage
and an iteration copies its loop's; several signals for one node must become one
activation; loops are filled, settled, broken and nested; a failure may be kept for the
end; a resumed run replays records into a fresh scheduler. Correct means: a node runs
only when what it needs has completed in its lineage, no group runs twice at once at a
node, concurrency and budgets hold, a broken loop stays broken, a run passes only when its
work is done, runs end, and a replay rebuilds the state without reusing a result twice or
next to newer live work.

*Run service.* Processes die between any two steps, threads and processes resume the
same run, records are judged by a pid that may have gone meanwhile, the source is edited,
writes fail. Correct means: a run is resumed once, only when nobody executes it and never
after it passed; its record is then left alone; results are replayed only into the source
they came from; a finished run does not look active; calls return.

*Runner queue.* Each store method is a transaction, but a worker's life is several; it may
be declared lost while it works, die and be restarted with its id, or be cancelled at any
point. Correct means: the two tables never disagree, no run is executed twice, and the end
of a run is final.

*TOML executor.* Results come in any order while items of several loops are under way; a
join is looked at only when one of its inputs arrives; a break drops what is queued while
siblings run; a checkpoint holds one output per node, and a resume has to find from those
alone what is left. Correct means: joins run once per item, a loop has no more items under
way than its width and is over when its last item is, nothing is left out or repeated, and
runs end.

*Approvals.* Every operation on the request file is a read, a second read and a write that
empties the file first, done by processes that know nothing of each other; requests expire
in whoever reads them. Correct means: nobody goes on as approved without an approval by
somebody the gate accepts, no request of a finished run stays open, an answer given after
the gate died resumes the run, and a gate with a timeout ends.

*Chat turns.* Instructions and stops arrive between any two steps of the thread that
follows a provider; saves fail; the server dies. Correct means: instructions reach the
provider in order and once, a final answer leaves none behind, a stop ends the restarts,
receipts on disk and in memory agree, and every instruction and job is settled.

*Generation jobs.* The branch and the staged changes move while a message is generated,
and the server may die between the commit and its record. Correct means: a commit lands
only on the base it was generated for, and the job says of it what happened.

*Rem home.* Commands change a run while its worker or reviewer is busy with an earlier
version, runs of one task share a thread, the server dies with work half done or is replaced while its
workers still drain, and six budgets bound the repetitions of a run. Correct means: one run of a task works at a time, a
run succeeds only with what was reviewed, work that was cut off is inspected before it goes
on, every outcome is told and every run that is admitted ends.

`PROJECT.json` lists each of these hazards at its line, with the properties that would
catch it and, for the two without, the reason.

## 2. Modules

| module | models |
|---|---|
| `WorkflowScheduler` | one scheduler: `_WorkflowScheduler` |
| `RunService` | processes and threads that start, execute and resume the runs of one workflow |
| `RunnerQueue` | the SQLite store and its workers |
| `LegacyExecutor` | one run of a TOML workflow: `WorkflowExecutor.run`, with its resumes |
| `Approvals` | one gate, its request file, and the people who answer |
| `InstructionQueue` | what the steering API promises (abstract) |
| `ChatTurns` | the turns of one conversation; implements `InstructionQueue` |
| `GenerationJobs` | the desktop's commit and theme jobs beside a git branch |
| `RemTasks` | the runs of one managed task |
| `WorkflowSchedulerProofs`, `RunServiceProofs`, `RunnerQueueProofs`, `LegacyExecutorProofs`, `ApprovalsProofs`, `ChatTurnsProofs`, `GenerationJobsProofs`, `RemTasksProofs` | theorems about each of these, section 4 |
| `MCScheduler`, `MCSchedulerResume`, `MCRunService`, `MCRunnerQueue`, `MCLegacyExecutor`, `MCApprovals`, `MCChatTurns`, `MCGenerationJobs`, `MCRemTasks` | instances for TLC |

Definitions marked "Mutant of ..." are wrong versions of the definition below them; no
specification uses them. Each stands for a plausible slip in that code, and replacing the
definition by it makes TLC report the property it is kept for.

### WorkflowScheduler

The scheduler gives way only at an `await`, so what it does with one completion is not
interleaved with anything. The model splits that handler into steps forced by `pc`:
`Complete` or `ReplayNext` (`_process_completion` up to the routes, with `DeferFailure`,
`FatalFailure`, `OpenLoop`, `CloseLoop`, `BreakOutsideLoop`, `CompleteTask` as its
branches), `FinishFail` or `Emit` (its end: satisfy readers, emit routes, merge what this
unlocks), `Settle` (`_settle_loop_groups` with `_fill_loop_capacity`), `StartRunnable` or
`BudgetExceeded` (`_start_runnable`, `_reserve_run`). `Quiesce` is the end of `run`,
`FinishReplay` is `_finish_replay`, `Interrupt` a timeout, stop or death, and `Resume` the
constructor with the saved records. Group ids, which the code builds as strings, are
tuples with the same structure. Node outputs and route predicates are abstracted to a
nondeterministic outcome and set of matching conditional routes; retries inside one
activation are part of its completion. Two orders that the code takes from lists are kept:
activations are numbered in the order in which the handler enqueues them (`EarlierOffer`),
and candidates of a node start in queue order (`slot`). The graph is a constant, with the
facts `ir_validation.py` enforces as assumptions.

### RunService

`ReadRecord`, `ReadAgain` and `Judge` are the callers' reading of a record and
`effective_run_status`; `Reserve`, `Claim`, `CheckChild`, `Unlock` and `Unreserve` are
`resume_rattish_run` with its table and lock file; `Refuse`, `Launch`, `InvalidInputs`,
`WriteLive` the beginning of `run_rattish_file`; `ReplayStep`, `StartStep`, `FinishStep`,
`FailStep`, `PublishFails`, `EndWork` and `Stopped` its middle; `FinalWrite`,
`FinalWriteFails`, `Fallback` and `Untrack` its end. `RequestStop` is the desktop's stop,
`EditSource` and `Die` are the surroundings. A record keeps what the code decides by:
status, pid, number of finished steps, the run it resumes, source revision and kind of
error. A save replaces the record as a whole, which is what `utils/atomic_output.py`
provides. The workflow is a row of steps here; the graph is `WorkflowScheduler`'s.

### RunnerQueue

One action per transaction of `RunnerQueueStore` and per step of a worker: `Enqueue`,
`CancelRun`, `MarkLostRuns`, `RegisterRunner`, `ClaimNext`, `ClaimNothing`,
`IdleHeartbeat`, `Launch`, `Execute`, `FinishRun`, `FinishRaises`, the monitor thread's
`MonitorCancel` and `MonitorHeartbeat`, and `Exit` for a worker that ends or dies.
`Expire` is the passing of 60 seconds without a heartbeat.

### LegacyExecutor

`pc` says whether the scheduler coroutine dispatches or waits. `DispatchStopped`,
`DispatchSeeded`, `DispatchBlocked`, `DispatchForEach`, `DispatchLimit`, `DispatchStart` and
`DispatchDone` are the branches of the loop that empties the queue; `ReceiveBreak`,
`ReceiveTerminal`, `ReceiveHalt` and `ReceiveResult` those of the handling of one result,
with the saving of the checkpoint (`Recorded`, `Saved`), successors and joins
(`Successors`, `AllInputsReady`, `Fresh`) and the next item of a loop (`ItemOver`,
`NextIndex`, `Exhausted`, `LoopOver`). `NodeSteps` are the node tasks: reuse of a saved
output, an attempt, a retry, the result. `RequestStop` is the stop marker, `Crash` the death
of the process, and `Resume` `_load_resume_state` with `_queue_resume_frontier`. What a node
prints is reduced to whether it succeeded and whether it matches the pattern of its edges.

A checkpoint is an index over one artifact per output, and rewriting it deletes the artifacts
first and replaces the index last. A death in between (`Torn`) leaves the old index over the
artifacts that happen to be there: an output that is missing is read as an empty success
(`BlankOutput`), an entry that is missing as a failure (`BlankEntry`); a death in the index itself
leaves none. `Kept(changed)` are the outputs that a resume uses: what failed, loops, and
the nodes in `changed` with all that follows them run again. `changed` is chosen at each resume
and stands for nodes whose `resumeSignature` no longer fits (an edited file or input,
`executor.py:3744-3758`) and for redacted outputs whose secrets are gone (`3701-3707`).

### Approvals

`at` is where each actor stands in an operation of the store: `Get` reads (and expires),
the operation decides what to write, `Again` is the second read of `create_or_update`, and
the file is `Torn` until `FillExpired` or `Stored` has filled it. Both writers start at offset 0,
so a file that somebody else filled in the meantime may end with the tail of the longer text:
then it is `Garbled`, and no reader makes anything of it (`Filled`). The gate's operations are
`Created`, `Poll`, `MarkWaiting`, `LeaveGate`, `Sweep` and `EndRun`; a user's are `Find`,
`Decide`, `Reread`, `Claim`, `ResumeRuns`, `ResumeFails`, `Release` and `List`. `Tick` passes the
due time of the request and then the gate's own deadline. `kind` is chosen in the initial
state: a TOML or a Rattish gate.

### InstructionQueue and ChatTurns

`ChatTurns` has the job thread's steps (`Begin`, `Announce`, `StartProvider`, `Follow`,
`SourceEnds`, `Handle`, `CloseSource`, `Decide`, `Conclude`, `Finally`, `Report`, `Leave`), the
requests of clients (`StartJob`, `Steer`, `Stop`, `LookUp`, `Close`, `Forget`) and `Restart`.
`Store` is a change of the receipts together with its save; with `IoFailures` each save may
fail (`StoreFails`). The refinement mapping takes a receipt's status, the turn's pending
instructions, and those among the messages given to its processes; `KeepsPromise` is
`InstructionQueue`'s specification under it.

### GenerationJobs

A request captures the repository (`Capture`) before it asks for the lock (`Refuse`,
`Start`); its thread waits for a slot (`Run`), generates, builds the commit apart and saves
the candidate (`Prepare`), moves the branch by compare and swap (`UpdateRef`) and ends
(`Complete`, `Review`, `Fail`, `End`). `Restart` reads the files and settles every job that was
not finished, by comparing its candidate with the branch (`Recovered`). Git may fail where it is
asked (`GitFails`, and the argument `mute` of `Restart`): update-ref may be reported as failed
although it moved the branch, and at the start a failing rev-parse is passed over. On a branch
without commits the capture takes two readings, which the compare and swap makes harmless.

### RemTasks

Each transaction on the database is a step. The worker (`_run`) reads the run and applies a
pending recipe (`Top`), starts a turn (`Begin`, `StartTurn`), waits for it (`AwaitTurn`), saves
the result (`Worked`), checks the report (`ReportMissing`), starts the review (`BeginReview`)
and then accepts, rechecks, waits for proof, repairs, asks or gives up (`Accept`, `Recheck`,
`ProofWait`, `Unresolved`, `Answer`, `Conclude`); `Overtaken` and `Superseded` are how it notices
a command, `Stop`, `Caught` and `Act` the end of its loop and its `except` clause, which reads
the run in one transaction and acts in the next. `Look` and `Signal` split the monitor's tick:
the runs are read once and the cancel events set afterwards. `FinishCancelling`,
`StartWorker`, `Deliver`, `Due` are the rest of it; `Run`, `RetryReview`, `Edit`, `Cancel` and
`Instruct` the commands; `Close`, `Exit` and `Restart` the server. Recipes are reduced to the
revision and the event they come from, the verdict of a review to what the worker does next.

The row of a run and the job of its provider are apart: `turn` is what the row says, `jobs` what
is at work. `Ended` clears the row and leaves the job, `TurnEnds` ends the job with or without a
worker that waits for it, and `StartTurn` refuses to start beside any job of the thread, which
is what `_turn` checks. `TakeOver` is `_lease` by another server: the lease runs out 15 seconds
after its owner renewed it for the last time, while a worker may wait 30 for its provider. The
workers of the former server (`former`) go on as they would with `stop` set (`Leaving`,
`FormerWaits`, `FormerCaught`, `FormerEnds`), on the same database, until they or their process
end. `contested` remembers the runs that one of them has written after the take-over.
`Tidy` clears, when a run ends and no other thread can write it, the fields that are set again
before anything reads them; it keeps the number of states down and changes nothing else.
`StartWorker` is the admission of a queued run; the reasons to put it off (the desktop has not
connected, `not_before`, limits of workers and memory, a busy project) have nothing to do with
the task and are left open, which is why fairness does not include it.

### How the parts meet

`RunService` and `WorkflowScheduler` share the saved records: `Publish` saves what
`Process` appends, and the replayed prefix of `RunService` (`ReplayStep`) is what
`scheduler_resume` examines in a graph. `RunnerQueue!Execute` stands for a whole run of
`LegacyExecutor`. `Approvals` contains the gates of both executors and the two things around
them that touch its file, the end of a Rattish run and the resume of a TOML run, as far as
they do. A turn of `RemTasks` is a job as in `ChatTurns`: it is recorded, runs, and ends with
a final answer, fails, or is lost with the server.

## 3. Runs

State counts are distinct states. Deadlock is checked in the scheduler, queue, executor and
chat runs; in the others everybody may be done, dead or out of events.

| run | instance | properties | states |
|---|---|---|---|
| `runner_queue` | 2 runners, 3 workers (two with one id), 2 runs | `TablesAgree SingleExecution EndedIsFinal` | 188 thousand |
| `scheduler` | 11 nodes: a join with cycles, a loop of 3 items two at a time, an infinite loop, breaks, failures, budgets, outputs | `Readiness Coalesced Limits PassIsEarned UnlockCoalesces LoopRules Termination` | 152 thousand |
| `scheduler_resume` | merged signals, a loop with two parallel iterations, a node that may run twice in a group, failures; up to 2 resumes | `ReuseIsSound StateRebuilt` | 1.0 million |
| `run_service` | 2 processes with a thread each, 3 runs, stops | `ResumedOnce RecordsAgree EarlierUnchanged` | 3.2 million |
| `run_service_desktop` | 1 process with 2 threads, 2 runs, 2 revisions, writes that fail | `SameRevision PassedStaysPassed OnlyUnfinished Returns` | 1.0 million |
| `run_service_stale` | 2 processes, 2 runs | `PassedStaysPassed` is violated | |
| `chat_turns` | 2 turns, 2 instructions, failing saves, restarts | `Consistent FinalKeepsInstructions StopHolds KeepsPromise Settles` | 376 thousand |
| `executor` | 17 nodes: joins, a loop of 3 items two at a time, a for_each node, an infinite loop with a break, retries, failure routes; 1 resume, with changed inputs or a torn checkpoint | `Consistent NothingLeftOut NothingRepeated Terminates` | 421 thousand |
| `approvals` | a gate with a timeout, TOML or Rattish, and two users in two processes | `Consistent ApprovalIsEarned AnswerResumes GateEnds` | 1.9 million |
| `generation_jobs` | 2 commit jobs and a theme for one slot; one failing save, unconfirmed commit, edit, commit and restart each | `Consistent OnItsBase CommitsAreKnown EndsOnce` | 712 thousand |
| `rem_tasks` | 2 runs of a task, 2 occurrences, commands or take-overs, 1 end of the server, each repetition once | `OneAtWork SuccessIsReviewed OutcomeTold RunsEnd` | 687 thousand |
| `rem_recovery` | 1 run, 1 occurrence, 2 ends of the server | `RecoveryInspects` is violated | |

`Limits` is concurrency and budgets together; `LoopRules` is the bound on iterations, that
failures do not stop loops (where the run comes to rest, a loop that is neither broken nor
through is held up by work waiting in one of its own iterations), and that a broken loop stays
broken and opens nothing; `ReuseIsSound` that a record is reused
once and never beside newer live work; `RecordsAgree` that nobody resumes a run that is being
executed and that no record looks active for nothing. Each `Consistent` joins the type
invariant of its module with the relations between its pieces of state.

### Why the bounds are enough

*Scheduler graphs.* A join needs two producers and a cycle to be signalled while it waits
and while it runs; a loop needs one more item than it has places, so that an iteration must
end before the last one opens; a replay needs two iterations that compete for one place for
a saved result to be overtaken by live work, and a node with two records under one key.
`WorkflowMaxRuns` and `MaxRuns` end the cycles through the code's own budgets; only
`MaxResumes` is a bound of the model. All the safety properties of `scheduler` and
`ReuseIsSound` are proved for every graph (`LoopRules` where loops are not nested), so the
instances matter for `StateRebuilt` and `Termination`.

*Run service.* Three runs are one run and two resumes of it, two threads are the two
that compete. One step tells "before", "in" and "after" work apart. Each run enables the
endings its properties depend on (`Endings`): a stop, a node failure, a preflight that fails
and a record that cannot be encoded in `run_service`; workflow failures, bad inputs and disk
failures in `run_service_desktop`. Runs are interchangeable, and so are the two processes,
which justifies the symmetry; the liveness run does not use it.

*Runner queue.* Two workers share an id because restarts and duplicates are how one row
gets two users; a third worker is the rival with another id. The safety properties are
proved for all sizes, as are those of the run service, approvals, chat turns, generation jobs
and managed tasks, under the hypotheses section 4 names.

*TOML executor.* One loop has an item more than its width and a join in its body, the
for_each node runs one item at a time, the infinite loop ends by break, pass or the limit of
18 node runs. One resume follows a stop, a failure or a death at any point. `Changes` lets a
resume find one of the first nodes changed, with the join, both loops and the rest below it;
`Losses` lets a torn checkpoint lose the output of a node on whose text a route depends.

*Approvals.* The user at the desktop answers under a name the gate accepts or under one it
does not; both users may list instead. They are in different processes because the
desktop's outlives its commands. A request is early, due or late.

*Chat turns.* Two turns are the current one and one whose receipts are old; two
instructions have an order, and one can arrive while the other is being delivered.

*Generation jobs.* Two jobs of one kind compete, a third waits for the slot; one edit and
one commit of the user's are enough to move the branch and the index between any two steps.
`MaxUnconfirmed` lets Git fail for one job, so that others are there for which it did not.

*Rem tasks.* Two runs share the thread; an occurrence starts one, and what follows is a
command (a follow-up to a run whose stop was not confirmed starts the second) or a server that
takes over, and a server that closes or dies. One repetition of each kind distinguishes the first attempt, the last
allowed and the first refused; two of the three kinds of recheck are not repeated at all,
since they differ from the third in name only. `rem_recovery` has the occurrence and two
deaths.

### Fairness

`scheduler` assumes `WF_vars(Step)`: the event loop turns and every node task ends. The
first is what asyncio does; the second is a premise about handlers, whose own timeouts are
outside this model. `Resume` and `Interrupt` are not fair. `run_service_desktop` assumes
`WF_vars(Advance(c))` for each call: a thread that lives goes on. `executor` makes the same
two assumptions as `scheduler`. `chat_turns` assumes that the job thread goes on, that a
provider's stream ends (it has a deadline and is terminated by a stop; strong fairness, since
a stream that is restarted is another stream), and that among repeated lookups of receipts
some save succeeds. `approvals` assumes that the gate's process goes on while it lives and
that time passes, nothing about users. `generation_jobs` assumes that threads are scheduled.
`rem_tasks` assumes that some worker that can go on does, of a former server too, that a turn
ends (its limits of time see to it), that the monitor ticks and that updates are delivered,
which the code retries until they are. It does not assume that queued runs are admitted:
`tests/unit/test_rem_home.py:2528` has one wait until the desktop connects. `RunsEnd` says that
nothing but the queue holds a run up, and that every run ends if queued runs are admitted
(`WF_vars(Admission)` is the hypothesis of its second half). Nothing is assumed about deaths, edits, stops or commands.

### Disagreements the runs show

* **A run that passed is resumed** (`run_service_stale`, `run_service.py:109`). A copy that
  says "running" is read; its process saves "passed" and exits; then the pid is found dead
  and the stale copy counts as interrupted. The second reading covers runs of the reader's
  own process only. The docstring at line 131: "a copy read while the run was going must not
  count as interrupted once that run has finished".
* **Work that was cut off is executed again without inspection** (`rem_recovery`,
  `rem_home.py:962`). The server dies while a task is executed; the recovery asks for an
  inspection, which starts by saving a placeholder as the worker's result. If the server
  dies again before the verdict, the next recovery finds a result, no longer asks for an
  inspection, and an ordinary repair executes the task. `docs/rem-home.md:109`: "mutating
  work continues only if that inspection establishes it can safely resume".

Other deviations came up as counterexamples on instances that are not kept here. They are
recorded for the maintainers, and explain why some properties are stated as they are.

Scheduler and run service:

* nested loops exceed `max-concurrency` (`workflow_runtime.py:605`): an outer iteration whose
  inner loop opens its next item in the same pass looks idle and is dropped
  (`website/docs/nodes/loop.md:40`: "`source.max-concurrency` limits iterations");
* a break leaves inner loops open (`workflow_runtime.py:627`;
  `rattish/spec/node-contracts.md:243`: "The executor discards iterations and loop-owned
  activations that have not started."); `BreakIsFinal` is about the broken loop itself, and
  `scheduler` has no loop in a loop;
* on Windows a run of another process that is still running is reported "interrupted" and
  resumed (`run_service.py:107`, where the comment says "report unknown instead");
* with a join in a loop body, a failed item leaves an activation waiting for ever, its
  iteration keeps its place, and a loop that is not fail-fast stops short of its items
  (`workflow_runtime.py:607`); `FailuresDoNotStopLoops` names this case and no other;
* an infinite loop none of whose routes match never leaves `_fill_loop_capacity`
  (`workflow_runtime.py:560`; the model's `Spin`), so no run limit or timeout ends it;
* a loop node counts as satisfied before its readers are looked at
  (`workflow_runtime.py:498`), so signals that wait for it stay separate activations;
* a record that becomes ready late is replayed after records saved later
  (`workflow_runtime.py:308`), and starts after `_finish_replay` may still take records
  (`workflow_runtime.py:281`); `ReuseIsSound` and `StateRebuilt` say what holds all the same;
* if the second write of the final record fails too, the record keeps saying "running"
  (`run_service.py:539`); `RecordsAgree` is checked without disk failures;
* a resume stopped after its first write and before its first step counts as the resume of
  its run (`run_service.py:221`), and one that is cut off before it has replayed everything
  saves only what it replayed, so that a later resume repeats work (`run_service.py:454`).

TOML executor:

* a for_each node that is cut off in its list counts as finished when the run is resumed,
  and its remaining items never run (`executor.py:3711-3735`); `NothingLeftOut` asks of a
  for_each node only that some item ran;
* outputs of agents lose their item in a checkpoint (`executor.py:2772-2798`), so that a join
  in a resumed loop may run twice; `Agents` is empty in `executor`;
* an infinite loop runs its index 0 twice (`executor.py:4195-4199`, `6568`); `JoinsOnce` does
  not count these;
* a stop while the last node of an item runs may end a run as a success with items left
  (`executor.py:4162-4175`, `4212`); `RanOut` excludes stopped runs;
* after a break, siblings in a loop that is wider than one may start further items;
  `BreakEndsLoop` is about loops of width one;
* a death while the checkpoint is rewritten (`executor.py:3467-3506`) leaves the old index over
  missing artifacts. An output that is gone is read as an empty success (`2849`, `3172`), so a
  route that depended on its text is not taken and a node is kept that may have failed;
  `NothingLeftOut` is about the outputs as they are read. A resume with changed inputs runs
  saved successes again, as it should (`tests/unit/test_executor.py:1053`); `NothingRepeated`
  leaves out what follows a changed node (`stale`);
* a node whose inputs cannot be resolved (`executor.py:5384-5443`) fails whatever its kind; here
  that is left out for break and terminal nodes;
* nested loops never reset their index, the edges after a for_each node are not taken when
  it is kept by a resume, nor when its list is empty.

Approvals:

* `mark_waiting`, called every 0.1 s, may overwrite a decision made between its read and its
  write, and a decision or an expiry may overwrite a cancel (`approvals.py:260`: "can no
  longer be decided or time out");
* a request answered before the gate's first `mark_waiting` lets the answering user resume
  the run beside the living gate (`approvals.py:297`), and a listing resumes a request that
  timed out once more when the first claimer has exited;
* an answer given just before the gate's process dies is followed by nobody; `AnswerResumes`
  is about answers given after;
* two writers that have both emptied the file both write from its beginning
  (`approvals.py:206`, `364`); where the shorter text comes last the file never parses again, and
  nobody follows the answer. `AnswerResumes` names this case (`Garbled`);
* an answer under the name "gofer" passes for the gate's own (`approvals.py:227-257`); the run has
  no such user, and the theorem says so (`People`);
* at its deadline a gate that finds its request already expired fails with an error, and
  the identity "raticode" of a Rattish gate's own timeout is not on the list of approvers.

Generation jobs: when the save of the last update fails, a job whose commit was made is
called failed; when the user commits on top before a restart, it is called interrupted; a
job whose first save failed stays queued for ever. `CommitsAreKnown` and `EndsOnce` exclude
jobs of which a save failed. An update-ref that runs out of time after it moved the branch
(`generation_jobs.py:138-146`, `322`) leaves the job in need of review, and a rev-parse that fails
when the server starts (`168-176`) leaves it interrupted, although the branch points to its commit;
`CommitsAreKnown` names these jobs (`unconfirmed`) and asks of them only that the record has the
candidate.

Rem home:

* a command that arrives between the worker's last guarded update and `_finish` leaves the
  run "verifying" with a pending recipe and no worker until the next restart
  (`rem_home.py:2141`; `docs/rem-home.md:107` says the current turn is stopped "before
  restarting with the latest contract"); `RunsEnd` has this exception (`Stranded`);
* the `except` clause queues a run for its pending recipe without looking at the epoch
  (`rem_home.py:2941`), and may so undo a cancel made since it read the run;
* the monitor may set the cancel event of a worker that has just taken over a follow-up
  (`rem_home.py:1054`), which then ends as cancelled;
* a pending recipe that is left on a cancelled run is applied over the recipe of a later
  follow-up (`rem_home.py:3963`, `2462`);
* a follow-up to a finished run of a task that has an older run active is dropped
  (`add_run` answers with the active run);
* the lease lasts 15 seconds and a stop may take 30 to be confirmed (`rem_home.py:905`, `3811`), so
  another server may recover a run while the worker of the former one still waits. That worker's
  `except` clause reads the epoch anew (`2929`) and may end or requeue the run of the new owner,
  and its `_finish` without an epoch (`2922`, `2931`) does so in any case; the comment in `close`
  says "so a replacement backend cannot race old provider processes". `OneAtWork` and `OutcomeTold`
  leave out the runs to which this happened (`contested`); `SuccessIsReviewed` holds for them too;
* providers run in sessions of their own and may outlive a server that is killed; no server hears
  of them again. `OneAtWork` is about the jobs of the server that has the lease.

Of the take-over the model has one former server at a time, and its workers behave as if `stop`
were set from then on, which for a server that was only held up is true after its next tick.

## 4. Proofs

`tlapm` checks every proof to the last leaf. The theorems hold for all values of the
constants that satisfy the modules' named assumptions.

**RunnerQueueProofs.** `TypesHold`, `TablesAlwaysAgree`, `RunsExecuteOnce`, `EndedRunsStay`,
`RunsClaimedOnce`. The inductive invariant is `TypeOK /\ TablesAgree /\ SingleExecution /\
Claims`. `Claims` adds that a run that is absent or queued has no owner and that whoever
holds a run holds one that a runner was given. Since only queued runs are claimed, a claim
gives a run its first holder, also after the holder's row was lost or restarted.
The two action properties follow from it.

**WorkflowSchedulerProofs**, for every graph, loops and resumes included.

* `RunsAreReady`, `SignalsCoalesce`, `LimitsHold` (from `ConcurrencyIsBounded` and
  `BudgetsHold`). The invariant `IInv` adds to the first three: `Placed` (every activation and
  loop has a scope made of loops that were opened), `Finite` (finitely many activations, so
  that cardinalities mean something), `LoopsOK` (loop lineages are well formed and carry a run
  number their node has used) and `Numbered` (a run number is used once). With `ScopeOK`, by
  which every known iteration lies below its loop's next item, they make new iterations and new
  loop lineages really new, which readiness and coalescing need when a lineage is set up from
  its loop's. `Grows` says what `Settle` and `OpenLoop` have in common, `QueueOK` and `Joined`
  what `Emit` does to the queue; the later proofs use these summaries and not the actions.
* `ReuseSound`. `Passed(i)` says that the key of record i started more often than there are
  records before it, so that no later start is given record i. Every record taken is passed
  (`TakenClean`, `RecordsPassed`), and live work of a resumed run leaves its lineage dirty
  (`DirtKnown`); this replaces the histories of records by counters.
* `PassesAreEarned` and `LoopsRunOut`. At each "start" and "await" a loop is broken, through,
  or has an iteration with work (`Held`, in `Paced`); filling a loop establishes it and dropping
  idle iterations keeps it, because an activation of an iteration counts for it (`Scoped`).
* `UnlocksMerge`, from `IInv` alone: only `Emit` unlocks a node without a loop's completion,
  and only in the root lineage do several groups wait at one node (`MergeShape`).
* `LoopRulesHold`, from `LoopsAreBounded`, `LoopsRunOut` and `BrokenLoopsStop`. The first has
  the hypothesis `[]Flat`: no loop is opened inside another, since nested loops do exceed their
  width (section 3). `WidthInv` says that every iteration with work is counted by its loop;
  what is dropped in `Settle` has none, and a completion that waits while loops settle has no
  routes (`HandKept`), so nothing is emitted for an iteration that was dropped.
* `TypesHold`. The oldest of the merged signals exists (`OldestSignal`, by well-foundedness of
  the naturals), and so does a numbering of the initial activations (`Numberable`).

**RunServiceProofs**, for any processes, threads, runs, steps and revisions, whoever dies when.

* `TypesHold`, `RunsAreResumedOnce`, `ResumesFitTheSource`. Every step is one of six kinds as
  far as records go (`Kind`), and `KindInv` shows once that each kind preserves `Data`: records
  are typed, the record read, the one in memory and the saved one tell one story, no two calls
  have the same run, and a resumed run has its origin's revision. `Locked` says that a resume
  past its claim holds the lock file, `Given` that a call has the records its place requires,
  and `Alone` that once a call has found no earlier resume of its run, only its own can be one.
  With `NewChild` this gives that a second child cannot appear.
* `ResumesNeverOverlap`, `RecordsAndRunsAgree`, `EarlierRunsUnchanged`, `PassedIsFinal`,
  `FinishedStepsAreReused` rest on a second invariant, `Dealings`: a call that executes is
  tracked and its record says "running" under its pid (`Working`); a copy that was read is of a
  run that is over, or of one its own process executes (`AsRead`), and once judged resumable
  its run is over (`AsJudged`). Hypotheses: `Tells` (processes can be asked whether they live,
  or there is only one; on Windows the code does not ask), no disk failures for `RecordsAgree`
  and `SameProcess` for the last two. Without them TLC finds the counterexamples of section 3.

**ChatTurnsProofs**, for any turns and instructions, failing saves and restarts: `Agreement`
(`Consistent`), `NothingDropped` (`FinalKeepsInstructions`), `StopIsKept` (`StopHolds`) and
`Implementation` (`KeepsPromise`). Receipts live in memory, on disk, or only in what a restart
makes of the file; `Moved` describes what a handler does to all three at once. `Owned` (the
active turn has accepted exactly the instructions whose receipts name it), `Confirmed` and
`GivenUp` carry an instruction from its acceptance to the final answer. For the refinement the
initial state maps to an initial state, and each action to one action of `InstructionQueue` or
a stutter.

**GenerationJobsProofs**, for any jobs, slots and bounds: `TableIsConsistent`,
`CommitOnItsBase`, `BranchIsKnown`, `FinishedIsFinal`. The invariant is one statement per job
(`JobInv`): where its thread stands tells what its record says and whether it committed
(`AtStep`), and while the branch points to its commit the file says so, or names the candidate
for the server that starts next, or Git failed for this job (`AtTip`).

**RemTasksProofs**, for any runs, budgets, commands, deaths and take-overs: `OneRunAtWork`,
`SuccessReviewed`, `NoOutcomeLost`. The invariant `IInv` says of each run (`Good`):

* a run with a worker is active and the worker's epoch is at most the run's; where they are equal
  the worker holds the recipe of the run and none is pending (`Held`, `Fits`), so that the guard of
  `_finish` on the epoch rejects every worker that a command overtook. What a former worker still
  holds fits in the same way (`Left`), which is why a success is reviewed there as well;
* a provider at work has a worker that has not heard of its end, or had one that could not
  confirm the stop, and then the outcome is unknown (`AtWork`). Without it nothing would exclude a
  run that is over while its provider works, since ending a run does not touch the job;
* the outbox says of a run what the run says itself, or something a later epoch left behind
  (`Mailed`), and every outcome was told or waits to be (`Told`, the safety half of `OutcomeTold`).

`OneActive` and `OneJob` are about runs together, and `Numbered` makes a new run new. `Follows` is
what a step must do to a row for what its workers know to stay true: keep epoch and recipe, or
advance the epoch. `WorkerWrites`, the lemmas about commands, recoveries and former workers each
show once that a kind of step is of this form. Of `contested` runs the parts about being active,
at work and told are not claimed.

**ApprovalsProofs**, for any users, answers and approvers: `ApprovalEarned`,
`StoreIsConsistent`, `RunLeavesNoQuestion`, `AnswerTakenUp`, `TypeCorrect`. The file has no
lock, so the invariant `Base` is about what each actor may still write: every request that is
read, held or on disk is `Good`, and at each step of an operation `Local` bounds what it may
become. `Sweeping` adds the end of a Rattish run, `Driven` that as long as an answer has not
been taken up somebody is on the way to do so, unless the file is beyond reading. Hypotheses: `People` for the first (nobody
answers under the name reserved for gates, which the code does not prevent) and `OwnProcess`
for the second (no two users share a server process, since claims name processes).

**LegacyExecutorProofs**, for every workflow: `TypeCorrect`, `WidthsHold` (a loop or for_each
node never has more tasks running than its `max_concurrency`) and `NeverWaitsInVain` (the
scheduler waits only while a node is at work or a result is in the channel). The type invariant
`TInv` says more than `TypeOK`: no task is queued twice or while it runs, and a task of a loop has
an index in it. Without that, taking one task off could leave its copy. `IInv` adds `Tracked`: a
task that counts as running has a coroutine or a result in the channel.

The other invariants of the executor do not hold for every graph (section 3), so their theorems
name the graphs, as the predicates `Structured` and `Complete` of `LegacyExecutor`:

* `Structured(inside)`: `inside` says of which loop or for_each node a node is part. Loops are not
  nested and are left by their after edges only; a node with several inputs awaits them all; a
  loop that cannot start halts the run; a resume runs all for_each nodes and their parts again.
  The clauses keep out what section 3 lists: nested loops, agents' outputs and for_each nodes that
  a resume keeps; and joins that do not await their inputs, which run once for each of them.
* `Complete(inside)`: also, no for_each node has an empty list (it queues nothing, its after
  edges included: section 3), breaks are inside loops, and a loop that starts takes its body
  edges.

For structured workflows `JoinsAndLoops` proves `Consistent` and `ResumesRepeatNothing` proves
`NothingRepeated`; for complete ones `RunsToTheEnd` proves `NothingLeftOut`. `MCLegacyExecutor`
assumes `Complete(MCInside)`, which TLC evaluates: the instance is one of the graphs that the
theorems are about. The argument:

* `Moves(t, o)` is what all steps that matter have in common: task t goes, its output is recorded,
  and what is queued is a successor of t for the same item, a first item of the loop t starts,
  the next item of the loop t is part of, or what follows a loop that is over. `ResultMoves`,
  `BreakMoves` and `ForEachMoves` show that the code's steps are of this kind; a resume
  (`Restarts`) establishes the invariant anew, and all other steps (`Idles`) only lose tasks.
* `SInv` is inductive under these: tasks and outputs belong to the loop their node is part of
  (`ShapeOK`); a node starts once and after all that leads to it (`StartsOK`); a loop's next index
  is beyond every index in use (`IndexOK`); no node runs twice for an item, because what it rests
  on has run for the same item, and so its last input arrives once (`OnceOK`); and the execution
  has all that its checkpoint shows to have succeeded, but for what it found changed and what a
  torn write lost (`SavedOK`).
* `CInv` says that nothing is forgotten while the execution goes on: every edge that an output
  calls for leads to a node that has run or is pending (`CalledOK`), a loop that started is over
  or has tasks, and has reached each index up to the next one (`ProgressOK`), and what follows a
  loop that is over is reached (`FollowedOK`). At the end nothing is pending, so all of it has run.

The queue is put together by `Flat` and the nodes to run again by `DescendantsOf`, both recursive
functions over a range of numbers. That these go on from k to k + 1 is proved, and induction
along them is done by a least counterexample (`LeastNumber`, `UpTo`).

Only model-checked:

* liveness (`Termination`, `Returns`, `Settles`, `Terminates`, `GateEnds`, `EndsOnce`,
  `OutcomeTold`, `RunsEnd`), which with `ENABLED` is outside what the prover handles; of
  `EndsOnce` and `OutcomeTold` the safety parts are proved;
* `StateRebuilt`, which compares a run with the replay of its history. The state holds the records
  of the earlier run and what was cut off, not the states in between, and a replay may take records
  in another order than they were saved in; a proof would need the state as a function of the
  records, induction over them, and that their order does not matter;
* `Consistent`, `NothingLeftOut` and `NothingRepeated` of the TOML executor outside of the
  structured and the complete workflows: they do not hold for every graph (section 3);
* `LoopRules` for nested loops, for which it does not hold.

No module here uses a `RECURSIVE` operator.

## 5. Not modelled

Node handlers, providers, the CLI's display, the frontend and packaging are input, output or
other programs; the models leave their outcomes open. The compiler's text processing is
sequential and covered by examples in `tests/`. Reused pids are left out of `RunService`
because the code keeps nothing that could tell two processes with one pid apart; records
that cannot be read for a moment and the limit of 32 active runs (one comparison under a
lock) are left out too. Of the TOML executor: directory loops that look for new files while
they run, resuming from or for one chosen node, the cache shared between runs, nested
workflows, dry runs. Of Rem home: the one-time recovery of runs that an earlier version blocked
(`rem_home.py:920-929`), the conversation with the user (replies, delegation,
memories), discussions between agents, reminders, worktrees, revoked permissions, changes of
project, edits for the future only, pausing and deleting tasks, and the clearing and
cleaning up of history. Command slots, devices, swarms and organizations have state
machines of their own that are not modelled yet.

## 6. Plan

1. Scheduler, run service, runner queue with their first theorems: done.
2. TOML executor, approvals, chat turns with the abstract `InstructionQueue`, generation
   jobs, managed tasks: done.
3. Theorems about all modules, with the refinement behind `KeepsPromise`: done, up to the
   list at the end of section 4.
4. The graphs for which the TOML executor's properties hold, stated as predicates, and the
   proofs for all of them: done (`Structured`, `Complete`).
5. The conversation of Rem home with its queue of messages, command slots, and device
   pairing, each with its own module; `CompilerGraph` (`rattish/compiler.py:1690-1875`):
   reachability and loop membership as operators, compared with reference definitions.
