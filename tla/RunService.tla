----------------------------- MODULE RunService -----------------------------
(***************************************************************************)
(* Starting, saving and resuming the runs of one workflow:                 *)
(* src/gofer/rattish/run_service.py, with the callers that read a saved    *)
(* run before they resume it (ui/api.py and cli/commands/rattish.py).      *)
(*                                                                         *)
(* The CLI and the desktop are processes that share the directory of run   *)
(* records and one lock file per resumed run, and nothing else.  Inside a  *)
(* process several threads may run or resume; each such call is a sequence *)
(* of steps: read the record, judge whether its runner is alive, reserve   *)
(* and claim the resume, look for an earlier resume, compile and check,    *)
(* save the live record, run, save the final record, let go.  Any call may *)
(* act between two steps of another, and a process may die between any     *)
(* two; the OS then frees its lock files.                                  *)
(*                                                                         *)
(* Executing the workflow is abstracted to a row of steps that finish in   *)
(* order (WorkflowScheduler has the graph), a record to how many of them   *)
(* it holds, and an error to what resume_refusal tells apart.              *)
(***************************************************************************)
EXTENDS Integers

CONSTANTS
  Procs,        \* processes, each standing for its pid
  Calls,        \* threads that run or resume
  ProcOf,       \* [Calls -> Procs]
  Runs,         \* run ids
  Steps,        \* bound: how many steps the workflow has
  Revisions,    \* bound: how many revisions the source goes through
  Endings,      \* bound: how runs may end, besides passing
  Windows,      \* TRUE if os.name = "nt"
  IoFailures,   \* TRUE if a write of a record may fail for the disk's sake
  NULL

ASSUME ProcOfAssumption == ProcOf \in [Calls -> Procs]
ASSUME BoundsAssumption == Steps \in Nat /\ Revisions \in Nat \ {0}
ASSUME EndingsAssumption ==
  Endings \subseteq {"preflight_failed", "invalid_inputs", "stopped", "node", "workflow", "record"}
ASSUME FlagsAssumption == Windows \in BOOLEAN /\ IoFailures \in BOOLEAN
ASSUME NullAssumption == NULL \notin Procs \union Calls \union Runs

NeverStarted == {"preflight_failed", "invalid_inputs"}
Resumable == {"failed", "stopped", "interrupted"}
Deterministic == {"workflow", "record"}
Status == {"running", "passed"} \union NeverStarted \union Resumable
Errors == {"node", "unexpected"} \union Deterministic

VARIABLES
  disk,      \* the record saved for each run, NULL before the first write
  source,    \* revision of the source file
  alive,     \* processes that live
  active,    \* _active_rattish_ids of all processes
  resuming,  \* _resuming of all processes, as pairs <<process, run>>
  lock,      \* lock[r]: the call that holds the lock file of run r
  pc,        \* where a call is
  copy,      \* the record a resuming call was given, NULL in a new run
  settled,   \* the record was read a second time
  live,      \* the record of the call's own run, as the call has it in memory
  stop       \* calls whose cancel_event is set

vars == <<disk, source, alive, active, resuming, lock, pc, copy, settled, live, stop>>
fileVars == <<disk, source>>
claimVars == <<active, resuming, lock>>
callVars == <<copy, settled, live, stop>>

Record == [run : Runs, status : Status, pid : Procs \union {NULL}, done : 0..Steps,
           begun : BOOLEAN, from : Runs \union {NULL}, rev : 1..Revisions,
           error : Errors \union {NULL}]

ASSUME NoRecordAssumption == NULL \notin Record

Claimed == {"child", "compile", "live", "work", "step", "final", "fallback", "untrack", "unlock"}
Reserved == Claimed \union {"claim", "unreserve"}
Executing == {"live", "work", "step", "final", "fallback"}
Places == Reserved \union {"idle", "judge", "reserve", "dead"}

TypeOK ==
  /\ disk \in [Runs -> Record \union {NULL}]
  /\ source \in 1..Revisions
  /\ alive \subseteq Procs
  /\ active \subseteq Runs
  /\ resuming \subseteq Procs \X Runs
  /\ lock \in [Runs -> Calls \union {NULL}]
  /\ pc \in [Calls -> Places]
  /\ copy \in [Calls -> Record \union {NULL}]
  /\ settled \in [Calls -> BOOLEAN]
  /\ live \in [Calls -> Record \union {NULL}]
  /\ stop \subseteq Calls

Init ==
  /\ disk = [r \in Runs |-> NULL]
  /\ source = 1
  /\ alive = Procs
  /\ active = {}
  /\ resuming = {}
  /\ lock = [r \in Runs |-> NULL]
  /\ pc = [c \in Calls |-> "idle"]
  /\ copy = [c \in Calls |-> NULL]
  /\ settled = [c \in Calls |-> FALSE]
  /\ live = [c \in Calls |-> NULL]
  /\ stop = {}

Go(c, place) == pc' = [pc EXCEPT ![c] = place]

\* The call returns or raises; its locals are gone.
Return(c) ==
  /\ Go(c, "idle")
  /\ copy' = [copy EXCEPT ![c] = NULL]
  /\ settled' = [settled EXCEPT ![c] = FALSE]
  /\ live' = [live EXCEPT ![c] = NULL]
  /\ stop' = stop \ {c}

\* It leaves run_rattish_file: a resume still has to let go of its claim.
Leave(c) ==
  \/ copy[c] = NULL /\ Return(c)
  \/ copy[c] # NULL /\ Go(c, "unlock") /\ UNCHANGED callVars

-----------------------------------------------------------------------------
(* A call begins: a new run, or the resume of a saved one.                 *)

NewRun(c) ==
  /\ pc[c] = "idle"
  /\ Go(c, "compile")
  /\ UNCHANGED <<fileVars, alive, claimVars, callVars>>

ReadRecord(c, r) ==
  /\ pc[c] = "idle"
  /\ disk[r] # NULL
  /\ Go(c, "judge")
  /\ copy' = [copy EXCEPT ![c] = disk[r]]
  /\ UNCHANGED <<fileVars, alive, claimVars, settled, live, stop>>

\* Mutant of EffectiveRunStatus: only the own process is looked at.
EffectiveRunStatusOwn(p, d) ==
  IF d.status # "running" THEN d.status
  ELSE IF d.pid = p /\ d.run \in active THEN "running" ELSE "interrupted"

\* effective_run_status: what process p makes of the record d now.
EffectiveRunStatus(p, d) ==
  IF d.status # "running" THEN d.status
  ELSE IF d.pid = p THEN IF d.run \in active THEN "running" ELSE "interrupted"
  ELSE IF Windows \/ d.pid \notin alive THEN "interrupted" ELSE "running"

\* Mutants of Doubtful: no second reading, and a third and a fourth.
DoubtfulNever(c) == FALSE
DoubtfulAlways(c) ==
  /\ copy[c].status = "running"
  /\ copy[c].pid = ProcOf[c]
  /\ EffectiveRunStatus(ProcOf[c], copy[c]) = "interrupted"

\* A run of this very process that seems interrupted may just have ended since
\* the record was read: _read_rattish_run_artifact reads it once more.
Doubtful(c) ==
  /\ copy[c].status = "running"
  /\ copy[c].pid = ProcOf[c]
  /\ EffectiveRunStatus(ProcOf[c], copy[c]) = "interrupted"
  /\ ~settled[c]

\* Mutant of ReadAgain: only the status is taken from the second reading.
ReadAgainStatus(c) ==
  /\ pc[c] = "judge"
  /\ Doubtful(c)
  /\ copy' = [copy EXCEPT ![c].status = disk[copy[c].run].status]
  /\ settled' = [settled EXCEPT ![c] = TRUE]
  /\ UNCHANGED <<fileVars, alive, claimVars, pc, live, stop>>

ReadAgain(c) ==
  /\ pc[c] = "judge"
  /\ Doubtful(c)
  /\ copy' = [copy EXCEPT ![c] = disk[copy[c].run]]
  /\ settled' = [settled EXCEPT ![c] = TRUE]
  /\ UNCHANGED <<fileVars, alive, claimVars, pc, live, stop>>

Judge(c) ==
  /\ pc[c] = "judge"
  /\ ~Doubtful(c)
  /\ copy' = [copy EXCEPT ![c] = [@ EXCEPT !.status = EffectiveRunStatus(ProcOf[c], copy[c])]]
  /\ Go(c, "reserve")
  /\ UNCHANGED <<fileVars, alive, claimVars, settled, live, stop>>

-----------------------------------------------------------------------------
(* resume_rattish_run: one resume of a run at a time, and only one.        *)

Reservation(c) == <<ProcOf[c], copy[c].run>>

Reserve(c) ==
  /\ pc[c] = "reserve"
  /\ \/ /\ Reservation(c) \in resuming
        /\ Return(c)
        /\ UNCHANGED resuming
     \/ /\ Reservation(c) \notin resuming
        /\ resuming' = resuming \union {Reservation(c)}
        /\ Go(c, "claim")
        /\ UNCHANGED callVars
  /\ UNCHANGED <<fileVars, alive, active, lock>>

\* Mutant of Claim: the lock is taken without asking who holds it.
ClaimAnyway(c) ==
  /\ pc[c] = "claim"
  /\ lock' = [lock EXCEPT ![copy[c].run] = c]
  /\ Go(c, "child")
  /\ UNCHANGED <<fileVars, alive, active, resuming, callVars>>

\* _resume_claim: a lock that no other process can hold, given up by the OS
\* when its holder dies.
Claim(c) ==
  /\ pc[c] = "claim"
  /\ \/ /\ lock[copy[c].run] # NULL
        /\ Go(c, "unreserve")
        /\ UNCHANGED lock
     \/ /\ lock[copy[c].run] = NULL
        /\ lock' = [lock EXCEPT ![copy[c].run] = c]
        /\ Go(c, "child")
  /\ UNCHANGED <<fileVars, alive, active, resuming, callVars>>

\* resumed_run_id: the run that the saved run x counts as resuming.
ResumedRunId(x) ==
  IF disk[x] = NULL \/ disk[x].status \in NeverStarted THEN NULL ELSE disk[x].from
ResumedChildren(r) == {x \in Runs : ResumedRunId(x) = r}

CheckChild(c) ==
  /\ pc[c] = "child"
  /\ Go(c, IF ResumedChildren(copy[c].run) = {} THEN "compile" ELSE "unlock")
  /\ UNCHANGED <<fileVars, alive, claimVars, callVars>>

-----------------------------------------------------------------------------
(* run_rattish_file.                                                       *)

\* Mutants of Refused: a run that is going passes, and any revision does.
RefusedIfOver(d) ==
  \/ d.status \in {"passed"} \union NeverStarted
  \/ d.error \in Deterministic
  \/ d.rev # source
RefusedAnyRevision(d) ==
  \/ d.status \notin Resumable
  \/ d.error \in Deterministic

\* resume_refusal against the source just compiled.
Refused(d) ==
  \/ d.status \notin Resumable
  \/ d.error \in Deterministic
  \/ d.rev # source

\* The resume is refused, or the source does not compile, is not the expected
\* revision, or the record has what a resume cannot rebuild (inputs, events,
\* the memory of an agent).
Refuse(c) ==
  /\ pc[c] = "compile"
  /\ Leave(c)
  /\ UNCHANGED <<fileVars, alive, claimVars>>

\* A run id that nobody has used.
Unused(x) == disk[x] = NULL /\ \A c \in Calls : live[c] # NULL => live[c].run # x

\* _run_document for the run that call c starts.
NewRecord(c, x) ==
  [run |-> x, status |-> "running", pid |-> ProcOf[c], done |-> 0, begun |-> FALSE,
   from |-> IF copy[c] = NULL THEN NULL ELSE copy[c].run, rev |-> source, error |-> NULL]

\* The call's run ends with this status and error, the final record unsaved.
Conclude(c, status, error) ==
  /\ live' = [live EXCEPT ![c] = [@ EXCEPT !.status = status, !.error = error]]
  /\ Go(c, "final")

\* The source compiles and the checks pass; the run gets its id.  Preflight
\* may find the deployment not ready.
Launch(c) ==
  /\ pc[c] = "compile"
  /\ copy[c] # NULL => ~Refused(copy[c])
  /\ \E x \in Runs :
       /\ Unused(x)
       /\ active' = active \union {x}
       /\ \/ /\ live' = [live EXCEPT ![c] = NewRecord(c, x)]
             /\ Go(c, "live")
          \/ /\ "preflight_failed" \in Endings
             /\ live' = [live EXCEPT ![c] = [NewRecord(c, x) EXCEPT !.status = "preflight_failed"]]
             /\ Go(c, "final")
  /\ UNCHANGED <<fileVars, alive, resuming, lock, copy, settled, stop>>

Save(d) == disk' = [disk EXCEPT ![d.run] = d]

\* Inputs are only given to a new run.
InvalidInputs(c) ==
  /\ pc[c] = "live"
  /\ copy[c] = NULL
  /\ "invalid_inputs" \in Endings
  /\ Conclude(c, "invalid_inputs", NULL)
  /\ UNCHANGED <<fileVars, alive, claimVars, copy, settled, stop>>

WriteLive(c) ==
  /\ pc[c] = "live"
  /\ \/ /\ Save(live[c])
        /\ \/ c \in stop /\ Conclude(c, "stopped", NULL)
           \/ c \notin stop /\ Go(c, "work") /\ UNCHANGED live
     \/ /\ IoFailures
        /\ Conclude(c, "failed", "unexpected")
        /\ UNCHANGED disk
  /\ UNCHANGED <<source, alive, claimVars, copy, settled, stop>>

\* publish_node_event: the record in memory and the saved one change together.
Publish(c, d) == live' = [live EXCEPT ![c] = d] /\ Save(d)

\* How many results a resumed run has to replay.
Reusable(c) == IF copy[c] = NULL THEN 0 ELSE copy[c].done

ReplayStep(c) ==
  /\ pc[c] = "work"
  /\ live[c].done < Reusable(c)
  /\ Publish(c, [live[c] EXCEPT !.done = @ + 1, !.begun = TRUE])
  /\ UNCHANGED <<source, alive, claimVars, pc, copy, settled, stop>>

StartStep(c) ==
  /\ pc[c] = "work"
  /\ live[c].done \in Reusable(c)..(Steps - 1)
  /\ Publish(c, [live[c] EXCEPT !.begun = TRUE])
  /\ Go(c, "step")
  /\ UNCHANGED <<source, alive, claimVars, copy, settled, stop>>

FinishStep(c) ==
  /\ pc[c] = "step"
  /\ Publish(c, [live[c] EXCEPT !.done = @ + 1])
  /\ Go(c, "work")
  /\ UNCHANGED <<source, alive, claimVars, copy, settled, stop>>

\* The node fails, or its result is nothing that can be saved.
FailStep(c) ==
  /\ pc[c] = "step"
  /\ \E error \in {"node", "record"} \intersect Endings : Conclude(c, "failed", error)
  /\ UNCHANGED <<fileVars, alive, claimVars, copy, settled, stop>>

\* An event cannot be saved: it is dropped from the record and the run fails.
PublishFails(c) ==
  /\ pc[c] = "step" \/ (pc[c] = "work" /\ live[c].done < Steps)
  /\ IoFailures
  /\ Conclude(c, "failed", "record")
  /\ UNCHANGED <<fileVars, alive, claimVars, copy, settled, stop>>

\* Quiescence: the workflow passes, or fails for the way it is built.
EndWork(c) ==
  /\ pc[c] = "work"
  /\ live[c].done = Steps
  /\ \/ Conclude(c, "passed", NULL)
     \/ "workflow" \in Endings /\ Conclude(c, "failed", "workflow")
  /\ UNCHANGED <<fileVars, alive, claimVars, copy, settled, stop>>

\* A stop request, or the start was not acknowledged in time.
RequestStop(c) ==
  /\ pc[c] \in {"reserve", "claim", "child", "compile", "live", "work", "step"}
  /\ c \notin stop
  /\ "stopped" \in Endings
  /\ stop' = stop \union {c}
  /\ UNCHANGED <<fileVars, alive, claimVars, pc, copy, settled, live>>

\* watch_stop sees it.
Stopped(c) ==
  /\ pc[c] \in {"work", "step"}
  /\ c \in stop
  /\ Conclude(c, "stopped", NULL)
  /\ UNCHANGED <<fileVars, alive, claimVars, copy, settled, stop>>

\* The final record names no process.
FinalWrite(c) ==
  /\ pc[c] = "final"
  /\ Save([live[c] EXCEPT !.pid = NULL])
  /\ Go(c, "untrack")
  /\ UNCHANGED <<source, alive, claimVars, callVars>>

\* The record cannot be saved as produced: a failed one is saved instead.
FinalWriteFails(c) ==
  /\ pc[c] = "final"
  /\ IoFailures \/ "record" \in Endings
  /\ Go(c, "fallback")
  /\ UNCHANGED <<fileVars, alive, claimVars, callVars>>

Fallback(c) ==
  /\ pc[c] = "fallback"
  /\ \/ Save([live[c] EXCEPT !.pid = NULL, !.status = "failed", !.error = "record"])
     \/ IoFailures /\ UNCHANGED disk
  /\ Go(c, "untrack")
  /\ UNCHANGED <<source, alive, claimVars, callVars>>

Untrack(c) ==
  /\ pc[c] = "untrack"
  /\ active' = active \ {live[c].run}
  /\ Leave(c)
  /\ UNCHANGED <<fileVars, alive, resuming, lock>>

Unlock(c) ==
  /\ pc[c] = "unlock"
  /\ lock' = [lock EXCEPT ![copy[c].run] = NULL]
  /\ Go(c, "unreserve")
  /\ UNCHANGED <<fileVars, alive, active, resuming, callVars>>

Unreserve(c) ==
  /\ pc[c] = "unreserve"
  /\ resuming' = resuming \ {Reservation(c)}
  /\ Return(c)
  /\ UNCHANGED <<fileVars, alive, active, lock>>

-----------------------------------------------------------------------------
(* The surroundings.                                                       *)

\* A process dies: its memory is gone and the OS frees its locks.
Die(p) ==
  /\ p \in alive
  /\ alive' = alive \ {p}
  /\ pc' = [c \in Calls |-> IF ProcOf[c] = p THEN "dead" ELSE pc[c]]
  /\ active' = {x \in active :
                  ~\E c \in Calls : ProcOf[c] = p /\ live[c] # NULL /\ live[c].run = x}
  /\ resuming' = {k \in resuming : k[1] # p}
  /\ lock' = [r \in Runs |->
                IF lock[r] # NULL /\ ProcOf[lock[r]] = p THEN NULL ELSE lock[r]]
  /\ copy' = [c \in Calls |-> IF ProcOf[c] = p THEN NULL ELSE copy[c]]
  /\ settled' = [c \in Calls |-> ProcOf[c] # p /\ settled[c]]
  /\ live' = [c \in Calls |-> IF ProcOf[c] = p THEN NULL ELSE live[c]]
  /\ stop' = {c \in stop : ProcOf[c] # p}
  /\ UNCHANGED fileVars

EditSource ==
  /\ source < Revisions
  /\ source' = source + 1
  /\ UNCHANGED <<disk, alive, claimVars, pc, callVars>>

Begin(c) == NewRun(c) \/ \E r \in Runs : ReadRecord(c, r)

Advance(c) ==
  \/ ReadAgain(c) \/ Judge(c) \/ Reserve(c) \/ Claim(c) \/ CheckChild(c)
  \/ Refuse(c) \/ Launch(c) \/ InvalidInputs(c) \/ WriteLive(c)
  \/ ReplayStep(c) \/ StartStep(c) \/ FinishStep(c) \/ FailStep(c) \/ PublishFails(c)
  \/ EndWork(c) \/ Stopped(c)
  \/ FinalWrite(c) \/ FinalWriteFails(c) \/ Fallback(c)
  \/ Untrack(c) \/ Unlock(c) \/ Unreserve(c)

Next ==
  \/ \E c \in Calls : Begin(c) \/ Advance(c) \/ RequestStop(c)
  \/ \E p \in Procs : Die(p)
  \/ EditSource

Spec == Init /\ [][Next]_vars

\* A thread that lives goes on.
FairSpec == Spec /\ \A c \in Calls : WF_vars(Advance(c))

-----------------------------------------------------------------------------
(* Properties.                                                             *)

\* The calls that execute run r, or have yet to save how it ended.
Running(r) == {c \in Calls : pc[c] \in Executing /\ live[c].run = r}

\* A run is resumed once: however processes, threads and crashes interleave, at
\* most one saved run that started counts as resuming it (resume_rattish_run).
ResumedOnce == \A r \in Runs : \A x, y \in ResumedChildren(r) : x = y

\* A run is only resumed when nobody is executing it, so the earlier run and
\* the new one never work at the same time.
NoOverlap ==
  \A c \in Calls : pc[c] \in Executing /\ copy[c] # NULL => Running(copy[c].run) = {}

\* "The earlier run's artifact is never changed": from the moment a run that
\* started counts as resuming it, nothing rewrites its record.
EarlierUnchanged ==
  [][\A r \in Runs : ResumedChildren(r) # {} => disk'[r] = disk[r]]_vars

\* A record that says "running" under a living process is that of a run which
\* some call still executes: "Never leave a run looking active".
LooksActive ==
  \A r \in Runs :
    disk[r] # NULL /\ disk[r].status = "running" /\ disk[r].pid \in alive => Running(r) # {}

\* Records and executions agree, whatever dies between two steps: a run that is
\* resumed is executed by nobody else, and one that looks active by somebody.
RecordsAgree == NoOverlap /\ LooksActive

\* A saved result is replayed only into the source revision that produced it,
\* even if the source is edited while the resume is being prepared.
SameRevision ==
  \A x \in Runs : disk[x] # NULL /\ disk[x].from # NULL => disk[disk[x].from].rev = disk[x].rev

\* "a copy read while the run was going must not count as interrupted once that
\* run has finished": no run that passed is resumed.
PassedStaysPassed ==
  \A r \in Runs : ResumedChildren(r) # {} => disk[r].status # "passed"

\* A resumed run executes only what its earlier run had not saved as finished.
OnlyUnfinished ==
  \A c \in Calls : pc[c] = "step" /\ copy[c] # NULL => live[c].done >= disk[copy[c].run].done

\* Every call returns, unless its process dies.
Returns == \A c \in Calls : [](pc[c] # "idle" => <>(pc[c] \in {"idle", "dead"}))

=============================================================================
