---------------------------- MODULE RunnerQueue ----------------------------
(***************************************************************************)
(* The durable runner queue of src/gofer/core/runner.py: a SQLite database *)
(* with a table of runs and a table of runners, used by any number of      *)
(* worker processes.  Every store method is one SQLite transaction (BEGIN  *)
(* IMMEDIATE or a single statement), so each is one action here; a worker  *)
(* is a sequence of such transactions with the execution of the workflow   *)
(* in between, and it can die between any two of them.                     *)
(*                                                                         *)
(* Abstractions: timestamps are kept only as far as the code compares them *)
(* (created_at orders the queue, last_seen_at is fresh or stale), messages *)
(* and JSON columns are left out, and label/capability matching is the     *)
(* relation Matches.                                                       *)
(***************************************************************************)
EXTENDS Naturals

CONSTANTS
  Runners,     \* runner ids (rows of table runners)
  Runs,        \* run ids that enqueue may hand out
  Workers,     \* worker processes
  RunnerOf,    \* [Workers -> Runners]: the --id each worker was started with
  Matches,     \* set of <<runner, run>> pairs for which capabilities_match holds
  Priority,    \* [Runs -> Nat]: the priority given at enqueue
  NULL         \* SQL NULL / Python None

ASSUME RunnerOfAssumption == RunnerOf \in [Workers -> Runners]
ASSUME MatchesAssumption == Matches \subseteq (Runners \X Runs)
ASSUME PriorityAssumption == Priority \in [Runs -> Nat]
ASSUME NullAssumption == NULL \notin (Runners \union Runs \union Workers)

VARIABLES
  \* table runs
  status,      \* status[x]: "absent" before enqueue inserts the row
  owner,       \* owner[x]: column runner_id, the runner the run was given to
  earlier,     \* earlier[x]: the runs whose created_at is before that of x
  \* table runners
  state,       \* state[r]: column status, "absent" before register_runner
  current,     \* current[r]: column current_run_id
  fresh,       \* fresh[r]: last_seen_at is less than RUNNER_STALE_AFTER_SECONDS old
  \* worker processes
  phase,       \* phase[w]: where w is in run_worker_once / execute_queued_run
  holds,       \* holds[w]: the QueuedRun in w's hands
  cancel,      \* cancel[w]: the cancel event of w's current execution is set
  result       \* result[w]: the status w is about to pass to finish_run

runVars == <<status, owner, earlier>>
runnerVars == <<state, current, fresh>>
workerVars == <<phase, holds, cancel, result>>
vars == <<status, owner, earlier, state, current, fresh, phase, holds, cancel, result>>

Active == {"running", "cancel_requested"}
Ended == {"completed", "failed", "canceled"}
RunStatus == {"absent", "queued", "lost_runner"} \union Active \union Ended
RunnerStatus == {"absent", "idle", "running", "lost"}
Holding == {"claimed", "executing", "finishing"}
Phase == {"off", "ready", "unclaimed"} \union Holding

TypeOK ==
  /\ status \in [Runs -> RunStatus]
  /\ owner \in [Runs -> Runners \union {NULL}]
  /\ earlier \in [Runs -> SUBSET Runs]
  /\ state \in [Runners -> RunnerStatus]
  /\ current \in [Runners -> Runs \union {NULL}]
  /\ fresh \in [Runners -> BOOLEAN]
  /\ phase \in [Workers -> Phase]
  /\ holds \in [Workers -> Runs \union {NULL}]
  /\ cancel \in [Workers -> BOOLEAN]
  /\ result \in [Workers -> Ended \union {NULL}]

Init ==
  /\ status = [x \in Runs |-> "absent"]
  /\ owner = [x \in Runs |-> NULL]
  /\ earlier = [x \in Runs |-> {}]
  /\ state = [r \in Runners |-> "absent"]
  /\ current = [r \in Runners |-> NULL]
  /\ fresh = [r \in Runners |-> FALSE]
  /\ phase = [w \in Workers |-> "off"]
  /\ holds = [w \in Workers |-> NULL]
  /\ cancel = [w \in Workers |-> FALSE]
  /\ result = [w \in Workers |-> NULL]

-----------------------------------------------------------------------------
(* Store methods called by users and by the listing views.                 *)

Enqueue(x) ==
  /\ status[x] = "absent"
  /\ status' = [status EXCEPT ![x] = "queued"]
  /\ earlier' = [earlier EXCEPT ![x] = {y \in Runs : status[y] # "absent"}]
  /\ UNCHANGED <<owner, runnerVars, workerVars>>

\* A queued run is canceled at once, an active one is asked to stop, and an
\* ended one is returned as it is.
CancelRun(x) ==
  /\ \/ /\ status[x] = "queued"
        /\ status' = [status EXCEPT ![x] = "canceled"]
     \/ /\ status[x] \in Active
        /\ status' = [status EXCEPT ![x] = "cancel_requested"]
  /\ UNCHANGED <<owner, earlier, runnerVars, workerVars>>

StaleRunners == {r \in Runners : current[r] # NULL /\ ~fresh[r]}

\* Mutant of MarkLostRuns: every run of a stale runner is lost, ended or not.
MarkLostRunsEnded ==
  /\ StaleRunners # {}
  /\ status' = [x \in Runs |-> IF owner[x] \in StaleRunners THEN "lost_runner" ELSE status[x]]
  /\ state' = [r \in Runners |-> IF r \in StaleRunners THEN "lost" ELSE state[r]]
  /\ current' = [r \in Runners |-> IF r \in StaleRunners THEN NULL ELSE current[r]]
  /\ UNCHANGED <<owner, earlier, fresh, workerVars>>

\* list_runs and list_runners call this first: every runner that holds a run
\* and whose last_seen_at is too old loses it, and so do its active runs.
MarkLostRuns ==
  /\ StaleRunners # {}
  /\ status' = [x \in Runs |->
                  IF owner[x] \in StaleRunners /\ status[x] \in Active
                  THEN "lost_runner" ELSE status[x]]
  /\ state' = [r \in Runners |-> IF r \in StaleRunners THEN "lost" ELSE state[r]]
  /\ current' = [r \in Runners |-> IF r \in StaleRunners THEN NULL ELSE current[r]]
  /\ UNCHANGED <<owner, earlier, fresh, workerVars>>

\* RUNNER_STALE_AFTER_SECONDS pass without a heartbeat of runner r: its
\* process died, hangs, or the machine slept.
Expire(r) ==
  /\ fresh[r]
  /\ fresh' = [fresh EXCEPT ![r] = FALSE]
  /\ UNCHANGED <<runVars, state, current, workerVars>>

-----------------------------------------------------------------------------
(* The worker: register, claim, execute, finish.                           *)

\* Worker w leaves what it was doing for phase p, holding nothing.
Rest(w, p) ==
  /\ phase' = [phase EXCEPT ![w] = p]
  /\ holds' = [holds EXCEPT ![w] = NULL]
  /\ cancel' = [cancel EXCEPT ![w] = FALSE]
  /\ result' = [result EXCEPT ![w] = NULL]

\* The upsert keeps the claim of a runner row that already holds a run.
RegisterRunner(w) ==
  LET r == RunnerOf[w] IN
  /\ phase[w] = "off"
  /\ state' = [state EXCEPT ![r] = IF current[r] = NULL THEN "idle" ELSE @]
  /\ fresh' = [fresh EXCEPT ![r] = TRUE]
  /\ Rest(w, "ready")
  /\ UNCHANGED <<runVars, current>>

\* ORDER BY priority DESC, created_at ASC
Before(x, y) ==
  \/ Priority[x] > Priority[y]
  \/ Priority[x] = Priority[y] /\ x \in earlier[y]

\* Mutant of Claimable: runs of lost runners are handed out again.
ClaimableAgain(r) ==
  {x \in Runs : status[x] \in {"queued", "lost_runner"} /\ <<r, x>> \in Matches}

Claimable(r) == {x \in Runs : status[x] = "queued" /\ <<r, x>> \in Matches}

\* claim_next: the first queued run in queue order that this runner matches,
\* unless the runner row already holds a run.
ClaimNext(w) ==
  LET r == RunnerOf[w] IN
  /\ phase[w] = "ready"
  /\ current[r] = NULL
  /\ \E x \in Claimable(r) :
       /\ \A y \in Claimable(r) \ {x} : Before(x, y)
       /\ status' = [status EXCEPT ![x] = "running"]
       /\ owner' = [owner EXCEPT ![x] = r]
       /\ current' = [current EXCEPT ![r] = x]
       /\ holds' = [holds EXCEPT ![w] = x]
  /\ state' = [state EXCEPT ![r] = "running"]
  /\ fresh' = [fresh EXCEPT ![r] = TRUE]
  /\ phase' = [phase EXCEPT ![w] = "claimed"]
  /\ UNCHANGED <<earlier, cancel, result>>

ClaimNothing(w) ==
  LET r == RunnerOf[w] IN
  /\ phase[w] = "ready"
  /\ current[r] # NULL \/ Claimable(r) = {}
  /\ phase' = [phase EXCEPT ![w] = "unclaimed"]
  /\ UNCHANGED <<runVars, runnerVars, holds, cancel, result>>

\* heartbeat(runner_id, "idle", None) after an empty claim: a transaction of
\* its own, so another worker with this id may have claimed in between.
IdleHeartbeat(w) ==
  LET r == RunnerOf[w] IN
  /\ phase[w] = "unclaimed"
  /\ \/ /\ current[r] = NULL
        /\ state' = [state EXCEPT ![r] = "idle"]
        /\ fresh' = [fresh EXCEPT ![r] = TRUE]
     \/ /\ current[r] # NULL
        /\ UNCHANGED <<state, fresh>>
  /\ phase' = [phase EXCEPT ![w] = "ready"]
  /\ UNCHANGED <<runVars, current, holds, cancel, result>>

\* execute_queued_run looks for an early cancel, then starts the executor.
Launch(w) ==
  /\ phase[w] = "claimed"
  /\ \/ /\ cancel[w] \/ status[holds[w]] = "cancel_requested"
        /\ phase' = [phase EXCEPT ![w] = "finishing"]
        /\ result' = [result EXCEPT ![w] = "canceled"]
     \/ /\ ~cancel[w] /\ status[holds[w]] # "cancel_requested"
        /\ phase' = [phase EXCEPT ![w] = "executing"]
        /\ UNCHANGED result
  /\ UNCHANGED <<runVars, runnerVars, holds, cancel>>

\* The executor returns or raises (loading and validating the file included).
Execute(w) ==
  /\ phase[w] = "executing"
  /\ phase' = [phase EXCEPT ![w] = "finishing"]
  /\ \E outcome \in {"completed", "failed"} :
       result' = [result EXCEPT ![w] = outcome]
  /\ UNCHANGED <<runVars, runnerVars, holds, cancel>>

\* The transaction of finish_run fails (database locked): the except clause
\* of execute_queued_run then finishes the run as failed.
FinishRaises(w) ==
  /\ phase[w] = "finishing"
  /\ result[w] # "failed"
  /\ result' = [result EXCEPT ![w] = "failed"]
  /\ UNCHANGED <<runVars, runnerVars, phase, holds, cancel>>

\* A cancel request wins over whatever the execution returned.
FinalStatus(x, outcome) ==
  IF status[x] \in {"cancel_requested", "canceled"} THEN "canceled" ELSE outcome

\* Mutant of FinishRun: the runner row is released whatever run it holds.
FinishRunAnyClaim(w) ==
  LET x == holds[w] IN
  /\ phase[w] = "finishing"
  /\ status' = [status EXCEPT ![x] = FinalStatus(x, result[w])]
  /\ state' = [state EXCEPT ![owner[x]] = "idle"]
  /\ current' = [current EXCEPT ![owner[x]] = NULL]
  /\ fresh' = [fresh EXCEPT ![owner[x]] = TRUE]
  /\ Rest(w, "ready")
  /\ UNCHANGED <<owner, earlier>>

\* finish_run releases the runner row only if that row still holds the run:
\* after mark_lost_runs it does not, and may already hold another.
FinishRun(w) ==
  LET x == holds[w]
      r == owner[x]
  IN
  /\ phase[w] = "finishing"
  /\ status' = [status EXCEPT ![x] = FinalStatus(x, result[w])]
  /\ \/ /\ current[r] = x
        /\ state' = [state EXCEPT ![r] = "idle"]
        /\ current' = [current EXCEPT ![r] = NULL]
        /\ fresh' = [fresh EXCEPT ![r] = TRUE]
     \/ /\ current[r] # x
        /\ UNCHANGED runnerVars
  /\ Rest(w, "ready")
  /\ UNCHANGED <<owner, earlier>>

\* The monitor thread of a worker that holds a run: one tick may see a cancel
\* request, another may refresh the heartbeat of the row that holds the run.
MonitorCancel(w) ==
  /\ phase[w] \in {"claimed", "executing"}
  /\ status[holds[w]] = "cancel_requested"
  /\ ~cancel[w]
  /\ cancel' = [cancel EXCEPT ![w] = TRUE]
  /\ UNCHANGED <<runVars, runnerVars, phase, holds, result>>

MonitorHeartbeat(w) ==
  /\ phase[w] \in Holding
  /\ \E r \in Runners : current[r] = holds[w] /\ ~fresh[r]
  /\ fresh' = [r \in Runners |-> fresh[r] \/ current[r] = holds[w]]
  /\ UNCHANGED <<runVars, state, current, workerVars>>

\* The worker process ends (--once, a signal, a crash); its rows stay as they are.
Exit(w) ==
  /\ phase[w] # "off"
  /\ Rest(w, "off")
  /\ UNCHANGED <<runVars, runnerVars>>

WorkerStep(w) ==
  \/ RegisterRunner(w) \/ ClaimNext(w) \/ ClaimNothing(w) \/ IdleHeartbeat(w)
  \/ Launch(w) \/ Execute(w) \/ FinishRaises(w) \/ FinishRun(w)
  \/ MonitorCancel(w) \/ MonitorHeartbeat(w) \/ Exit(w)

Next ==
  \/ \E x \in Runs : Enqueue(x) \/ CancelRun(x)
  \/ \E r \in Runners : Expire(r)
  \/ MarkLostRuns
  \/ \E w \in Workers : WorkerStep(w)

Spec == Init /\ [][Next]_vars

-----------------------------------------------------------------------------
(* Properties.                                                             *)

\* The two tables agree: a runner row points at a run exactly while that run
\* is active and names the runner, so mark_lost_runs can find every active run
\* of a dead runner, and a busy runner's status is "running".  finish_run,
\* mark_lost_runs and the idle heartbeat race each other to break it.
TablesAgree ==
  /\ \A r \in Runners :
       /\ (state[r] = "running") <=> (current[r] # NULL)
       /\ current[r] # NULL =>
            status[current[r]] \in Active /\ owner[current[r]] = r
  /\ \A x \in Runs : status[x] \in Active =>
       owner[x] \in Runners /\ current[owner[x]] = x

\* No run is ever executed by two workers, whether the first one lost its
\* runner row or not, and a worker holds only a run that has not ended.
SingleExecution ==
  /\ \A v, w \in Workers :
       v # w /\ phase[v] \in Holding /\ phase[w] \in Holding => holds[v] # holds[w]
  /\ \A w \in Workers : phase[w] \in Holding =>
       /\ holds[w] \in Runs
       /\ status[holds[w]] \in Active \union {"lost_runner"}

\* A run that completed, failed or was canceled keeps that status for ever: a
\* late finish_run or mark_lost_runs never rewrites it.
EndedIsFinal ==
  [][\A x \in Runs : status[x] \in Ended => status'[x] = status[x]]_vars

\* A run is claimed at most once: the runner it was given to is never replaced,
\* and a lost run is not handed out again.
ClaimedOnce ==
  [][\A x \in Runs :
       /\ owner[x] # NULL => owner'[x] = owner[x]
       /\ status[x] = "lost_runner" => status'[x] \in Ended \union {"lost_runner"}]_vars

=============================================================================
