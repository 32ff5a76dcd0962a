---------------------------- MODULE GenerationJobs ----------------------------
(* The desktop's background generation jobs (ui/generation_jobs.py): a     *)
(* commit message, optionally committed, or a report theme.  Each job is a *)
(* record in memory and a file on disk, written memory first; its thread   *)
(* waits for one of a few slots.  An automatic commit builds the captured  *)
(* tree apart, saves the candidate, and moves the branch by compare and    *)
(* swap, so that a server that starts after a crash can tell from the      *)
(* branch whether the commit was made.  The user stages and commits        *)
(* meanwhile.                                                              *)
EXTENDS Naturals, Sequences, SequencesExt, FiniteSets

CONSTANTS
  Jobs,         \* the jobs users may ask for
  Themes,       \* those that generate a theme; the others a commit message
  Slots,        \* threads that generate at the same time (4 in the code)
  Limit,        \* unfinished jobs there may be (24 in the code)
  MaxUnsaved,   \* bound: jobs of which saves may fail
  MaxUnconfirmed, \* bound: jobs of which Git may fail to say what became of the branch
  MaxEdits,     \* bound: times the user stages changes
  MaxCommits,   \* bound: times the user commits
  MaxRestarts,  \* bound: times the server is started again
  NULL

ASSUME BoundAssumption ==
  /\ Themes \subseteq Jobs /\ NULL \notin Jobs
  /\ Slots \in Nat \ {0} /\ Limit \in Nat \ {0}
  /\ MaxUnsaved \in Nat /\ MaxUnconfirmed \in Nat
  /\ MaxEdits \in Nat /\ MaxCommits \in Nat /\ MaxRestarts \in Nat

VARIABLES
  up,       \* the server's process runs
  stopped,  \* close was called
  asked,    \* requests under way: what each captured of the repository
  memory,   \* the jobs of the process
  disk,     \* the files of the jobs
  thread,   \* where the thread of each job is
  free,     \* the slots nobody holds
  history,  \* the commits of the branch, oldest first
  index,    \* the tree that is staged, a version number
  edits,    \* times the user has staged changes
  commits,  \* times the user has committed
  restarts, \* times the server has been started again
  unsaved,  \* the jobs of which a save has failed
  unconfirmed \* the jobs of which Git failed when it was asked about the branch

repository == <<history, index, edits, commits, unconfirmed>>
vars == <<up, stopped, asked, memory, disk, thread, free, history, index, edits, commits,
          restarts, unsaved, unconfirmed>>

Unfinished == {"queued", "running"}
Finished == {"completed", "needs_review", "failed", "interrupted"}

Kind(j) == IF j \in Themes THEN "theme" ELSE "commit"

(* The commit the branch points to, and its tree; a branch may be unborn. *)
Tip == IF history = << >> THEN NULL ELSE Last(history).id
TipTree == IF history = << >> THEN 0 ELSE Last(history).tree

Init ==
  /\ up = TRUE /\ stopped = FALSE
  /\ asked = [j \in Jobs |-> NULL]
  /\ memory = [j \in Jobs |-> NULL]
  /\ disk = [j \in Jobs |-> NULL]
  /\ thread = [j \in Jobs |-> NULL]
  /\ free = Slots
  /\ history = << >> /\ index = 0 /\ edits = 0 /\ commits = 0
  /\ restarts = 0 /\ unsaved = {} /\ unconfirmed = {}

------------------------------------------------------------------------------
(* _update and _save: the memory changes first, then the file, unless the  *)
(* save fails.                                                             *)
Save(j, job, ok) ==
  /\ ok \/ Cardinality(unsaved \union {j}) <= MaxUnsaved
  /\ memory' = [memory EXCEPT ![j] = job]
  /\ disk' = IF ok THEN [disk EXCEPT ![j] = job] ELSE disk
  /\ unsaved' = IF ok THEN unsaved ELSE unsaved \union {j}

Goto(j, step) == thread' = [thread EXCEPT ![j] = step]

(* The thread ends and its slot is given back. *)
End(j) == Goto(j, NULL) /\ free' = free + 1

(* An update by the thread: its failure is handled like any other error. *)
Update(j, job, next) ==
  \E ok \in BOOLEAN :
    /\ Save(j, job, ok)
    /\ IF ok THEN Goto(j, next) ELSE Goto(j, "failing")
    /\ UNCHANGED free

(* An update that is the thread's last. *)
Conclude(j, job) ==
  \E ok \in BOOLEAN :
    /\ Save(j, job, ok)
    /\ IF ok THEN End(j) ELSE Goto(j, "failing") /\ UNCHANGED free

With(j, s) == [memory[j] EXCEPT !.status = s]

(* start, first half: the repository is read outside the lock.  There must *)
(* be staged changes.  commit_snapshot checks that HEAD did not move while *)
(* it read, so that what it returns was true at one moment; of a branch    *)
(* that was unborn it does not check it, and what it then returns is only  *)
(* as good as the compare and swap that follows.                           *)
Capture(j) ==
  /\ up /\ ~stopped /\ asked[j] = NULL /\ memory[j] = NULL /\ disk[j] = NULL
  /\ Kind(j) = "commit" => index # TipTree
  /\ asked' = [asked EXCEPT ![j] = IF Kind(j) = "theme" THEN [head |-> NULL, tree |-> 0]
                                                         ELSE [head |-> Tip, tree |-> index]]
  /\ UNCHANGED <<up, stopped, memory, disk, thread, free, repository, restarts, unsaved>>

Active == {j \in Jobs : memory[j] # NULL /\ memory[j].status \in Unfinished}

(* Mutant of Refused: only a job that has a slot counts as unfinished. *)
RefusedIfRunning(j) ==
  (\E k \in Active : Kind(k) = Kind(j) /\ memory[k].status = "running") \/ Cardinality(Active) >= Limit

(* Under the lock: an unfinished job of the same kind is returned instead. *)
Refused(j) == (\E k \in Active : Kind(k) = Kind(j)) \/ Cardinality(Active) >= Limit

(* start, second half: the job is recorded and its thread started; when    *)
(* the first save fails there is no thread, and the record stays.          *)
Start(j, auto, ok) ==
  /\ up /\ asked[j] # NULL /\ ~Refused(j)
  /\ auto => Kind(j) = "commit"
  /\ Save(j, [status |-> "queued", base |-> asked[j], auto |-> auto, candidate |-> NULL,
              commit |-> NULL, dismissed |-> FALSE], ok)
  /\ asked' = [asked EXCEPT ![j] = NULL]
  /\ Goto(j, IF ok THEN "queued" ELSE NULL)
  /\ UNCHANGED <<up, stopped, free, repository, restarts>>

(* start returns the job that is there, or refuses one too many. *)
Refuse(j) ==
  /\ up /\ asked[j] # NULL /\ Refused(j)
  /\ asked' = [asked EXCEPT ![j] = NULL]
  /\ UNCHANGED <<up, stopped, memory, disk, thread, free, repository, restarts, unsaved>>

------------------------------------------------------------------------------
(* _run *)

rest == <<up, stopped, asked, restarts>>

(* A slot is free; a server that is closing fails the job. *)
Run(j) ==
  /\ thread[j] = "queued" /\ free > 0
  /\ IF stopped
       THEN Goto(j, "failing") /\ free' = free - 1 /\ UNCHANGED <<memory, disk, unsaved>>
       ELSE \E ok \in BOOLEAN :
              /\ Save(j, With(j, "running"), ok)
              /\ Goto(j, IF ok THEN "running" ELSE "failing")
              /\ free' = free - 1
  /\ UNCHANGED <<rest, repository>>

(* Reading the diff or asking the provider fails, or is cancelled. *)
GenerateFails(j) ==
  /\ thread[j] = "running"
  /\ Goto(j, "failing")
  /\ UNCHANGED <<rest, repository, memory, disk, free, unsaved>>

(* The message or the theme is there; a message may be committed. *)
Generate(j) ==
  /\ thread[j] = "running"
  /\ IF memory[j].auto
       THEN Update(j, memory[j], "committing")
       ELSE Update(j, memory[j], "generated")
  /\ UNCHANGED <<rest, repository>>

(* Mutant of Prepare: the candidate is not written to the file. *)
PrepareInMemory(j) ==
  /\ thread[j] = "committing" /\ ~stopped
  /\ memory' = [memory EXCEPT ![j].candidate = j]
  /\ Goto(j, "prepared")
  /\ UNCHANGED <<rest, repository, free, disk, unsaved>>

(* commit_captured_changes, up to prepare: the commit is built apart and   *)
(* saved as the candidate.                                                 *)
Prepare(j) ==
  /\ thread[j] = "committing" /\ ~stopped
  /\ \E ok \in BOOLEAN :
       /\ Save(j, [memory[j] EXCEPT !.candidate = j], ok)
       /\ Goto(j, IF ok THEN "prepared" ELSE "review")
  /\ UNCHANGED <<rest, repository, free>>

(* The hook or Git refuses, or the server is closing. *)
PrepareFails(j) ==
  /\ thread[j] = "committing"
  /\ Goto(j, "review")
  /\ UNCHANGED <<rest, repository, memory, disk, free, unsaved>>

(* Mutant of UpdateRef: the branch is moved without its old value. *)
UpdateRefAnyway(j) ==
  /\ thread[j] = "prepared"
  /\ history' = Append(history, [id |-> j, base |-> memory[j].base.head, tree |-> memory[j].base.tree])
  /\ Goto(j, "generated")
  /\ UNCHANGED <<rest, memory, disk, free, index, edits, commits, unsaved, unconfirmed>>

(* Git fails, or runs out of its 60 seconds, when it is asked about the    *)
(* branch of these jobs.                                                   *)
GitFails(js) ==
  /\ Cardinality(unconfirmed \union js) <= MaxUnconfirmed
  /\ unconfirmed' = unconfirmed \union js

(* update-ref moves the branch if it still is where it was captured; it    *)
(* may be reported as failed although it moved it.  Otherwise the branch   *)
(* has moved on, or Git fails, and it stays where it is.                   *)
UpdateRef(j) ==
  /\ thread[j] = "prepared"
  /\ \/ /\ Tip = memory[j].base.head
        /\ history' = Append(history, [id |-> j, base |-> memory[j].base.head,
                                       tree |-> memory[j].base.tree])
        /\ \/ Goto(j, "generated") /\ UNCHANGED unconfirmed
           \/ Goto(j, "review") /\ GitFails({j})
     \/ Goto(j, "review") /\ UNCHANGED <<history, unconfirmed>>
  /\ UNCHANGED <<rest, memory, disk, free, index, edits, commits, unsaved>>

(* The last update: completed, with the commit if one was made. *)
Complete(j) ==
  /\ thread[j] = "generated"
  /\ Conclude(j, [memory[j] EXCEPT !.status = "completed",
                                   !.commit = IF memory[j].auto THEN j ELSE NULL])
  /\ UNCHANGED <<rest, repository>>

(* The message is kept for the user when the commit could not be made. *)
Review(j) ==
  /\ thread[j] = "review"
  /\ Conclude(j, With(j, "needs_review"))
  /\ UNCHANGED <<rest, repository>>

(* Mutant of Fail: the slot of a failed job is not given back. *)
FailHoldingSlot(j) ==
  /\ thread[j] = "failing"
  /\ \E ok \in BOOLEAN : Save(j, With(j, IF stopped THEN "interrupted" ELSE "failed"), ok)
  /\ Goto(j, NULL)
  /\ UNCHANGED <<rest, repository, free>>

(* The handler of every error; when its own save fails, the thread ends    *)
(* with the memory changed and the file as it was.                         *)
Fail(j) ==
  /\ thread[j] = "failing"
  /\ \E ok \in BOOLEAN : Save(j, With(j, IF stopped THEN "interrupted" ELSE "failed"), ok)
  /\ End(j)
  /\ UNCHANGED <<rest, repository>>

(* dismiss: a job that is not running is hidden. *)
Dismiss(j) ==
  /\ up /\ memory[j] # NULL /\ memory[j].status \notin Unfinished /\ ~memory[j].dismissed
  /\ \E ok \in BOOLEAN : Save(j, [memory[j] EXCEPT !.dismissed = TRUE], ok)
  /\ UNCHANGED <<rest, repository, thread, free>>

------------------------------------------------------------------------------
(* The user and the server's process. *)

(* The user stages other changes. *)
Stage ==
  /\ edits < MaxEdits
  /\ index' = edits + 1 /\ edits' = edits + 1
  /\ UNCHANGED <<rest, memory, disk, thread, free, history, commits, unsaved, unconfirmed>>

(* The user commits what is staged. *)
UserCommit ==
  /\ commits < MaxCommits /\ index # TipTree
  /\ history' = Append(history, [id |-> <<commits>>, base |-> Tip, tree |-> index])
  /\ commits' = commits + 1
  /\ UNCHANGED <<rest, memory, disk, thread, free, index, edits, unsaved, unconfirmed>>

(* server_close *)
Close ==
  /\ up /\ ~stopped
  /\ stopped' = TRUE
  /\ UNCHANGED <<up, asked, restarts, memory, disk, thread, free, repository, unsaved>>

(* The process ends, cleanly or not; its daemon threads end with it. *)
Exit ==
  /\ up
  /\ up' = FALSE /\ stopped' = FALSE
  /\ asked' = [j \in Jobs |-> NULL]
  /\ memory' = [j \in Jobs |-> NULL]
  /\ thread' = [j \in Jobs |-> NULL]
  /\ free' = Slots
  /\ UNCHANGED <<disk, repository, restarts, unsaved>>

(* What the server makes of a file: an unfinished job is interrupted,      *)
(* unless Git answers that the branch points to its candidate.             *)
Recovered(job, answers) ==
  IF job.status \notin Unfinished THEN job
  ELSE IF job.candidate # NULL /\ answers /\ Tip = job.candidate
    THEN [job EXCEPT !.status = "completed", !.commit = job.candidate]
    ELSE [job EXCEPT !.status = "interrupted"]

(* The files that ask Git where the branch is. *)
Asking == {j \in Jobs : disk[j] # NULL /\ disk[j].status \in Unfinished /\ disk[j].candidate # NULL}

(* __init__: every file is read, and written if it changed; a job whose    *)
(* save fails is left out, and Git's failure is passed over.               *)
Restart(lost, mute) ==
  /\ ~up /\ restarts < MaxRestarts
  /\ lost \subseteq {j \in Jobs : disk[j] # NULL /\ disk[j].status \in Unfinished}
  /\ Cardinality(unsaved \union lost) <= MaxUnsaved
  /\ mute \subseteq Asking /\ GitFails(mute)
  /\ up' = TRUE
  /\ disk' = [j \in Jobs |-> IF disk[j] = NULL \/ j \in lost THEN disk[j]
                             ELSE Recovered(disk[j], j \notin mute)]
  /\ memory' = [j \in Jobs |-> IF disk[j] = NULL \/ j \in lost THEN NULL
                               ELSE Recovered(disk[j], j \notin mute)]
  /\ unsaved' = unsaved \union lost
  /\ restarts' = restarts + 1
  /\ UNCHANGED <<stopped, asked, thread, free, history, index, edits, commits>>

ThreadStep(j) ==
  \/ Run(j) \/ GenerateFails(j) \/ Generate(j) \/ Prepare(j) \/ PrepareFails(j)
  \/ UpdateRef(j) \/ Complete(j) \/ Review(j) \/ Fail(j)

Next ==
  \/ \E j \in Jobs : Capture(j) \/ Refuse(j) \/ ThreadStep(j) \/ Dismiss(j)
  \/ \E j \in Jobs, auto \in BOOLEAN, ok \in BOOLEAN : Start(j, auto, ok)
  \/ Stage \/ UserCommit \/ Close \/ Exit
  \/ \E lost, mute \in SUBSET Jobs : Restart(lost, mute)

Spec == Init /\ [][Next]_vars

(* Threads are scheduled. *)
Fairness == \A j \in Jobs : WF_vars(ThreadStep(j))

FairSpec == Spec /\ Fairness

------------------------------------------------------------------------------
Ids == Jobs \union {NULL} \union {<<n>> : n \in 0..MaxCommits}

Base == [head : Ids, tree : 0..MaxEdits]

Job == [status : Unfinished \union Finished, base : Base, auto : BOOLEAN,
        candidate : Jobs \union {NULL}, commit : Jobs \union {NULL}, dismissed : BOOLEAN]

Steps == {"queued", "running", "committing", "prepared", "generated", "review", "failing"}

(* NULL is none of these values, and no job is called like a commit of the *)
(* user.                                                                   *)
ASSUME NoValueAssumption ==
  /\ NULL \notin Job /\ NULL \notin Base /\ NULL \notin Steps
  /\ \A n \in 0 .. MaxCommits : <<n>> \notin Jobs \union {NULL}

(* The types; the slots that are not free are those of threads that have   *)
(* one, and a thread runs for every job that is not finished, apart from   *)
(* one whose first save failed.                                            *)
TypeOK ==
  /\ up \in BOOLEAN /\ stopped \in BOOLEAN
  /\ asked \in [Jobs -> Base \union {NULL}]
  /\ memory \in [Jobs -> Job \union {NULL}]
  /\ disk \in [Jobs -> Job \union {NULL}]
  /\ history \in Seq([id : Ids, base : Ids, tree : 0..MaxEdits])
  /\ free + Cardinality({j \in Jobs : thread[j] \notin {NULL, "queued"}}) = Slots
  /\ \A j \in Active : thread[j] # NULL \/ j \in unsaved

(* A job's commit has the parent it was generated for, and changes it: a   *)
(* commit the user makes meanwhile is never lost under it, nor repeated.   *)
OnItsBase ==
  \A i \in DOMAIN history : history[i].id \in Jobs =>
    /\ history[i].base = (IF i = 1 THEN NULL ELSE history[i - 1].id)
    /\ history[i].tree # (IF i = 1 THEN 0 ELSE history[i - 1].tree)

Landed(j) == \E i \in DOMAIN history : history[i].id = j

(* A job said to have committed has committed, whatever was lost in        *)
(* crashes and failed saves on the way.                                    *)
CompletedIsCommitted ==
  \A j \in Jobs : \A job \in {memory[j], disk[j]} \ {NULL} : job.commit # NULL => Landed(j)

(* A commit that was made is known: while the branch points to it and its  *)
(* saves worked, the record names the commit once its thread is gone, and  *)
(* says that the job is completed, after a crash between the two as well.  *)
(* The exception is a job of which Git failed when it was asked: an        *)
(* update-ref that ran out of time after it moved the branch, or rev-parse *)
(* at the start, whose failure __init__ passes over.  Its record says that *)
(* the commit was not made.                                                *)
CommittedIsKnown ==
  \A j \in Jobs \ unsaved :
    up /\ memory[j] # NULL /\ thread[j] = NULL /\ Tip = j =>
      /\ memory[j].candidate = j
      /\ j \in unconfirmed \/ (memory[j].status = "completed" /\ memory[j].commit = j)

(* The table says of a commit what happened to the branch: never that one  *)
(* was made that was not, and that it was made unless Git did not say so.  *)
CommitsAreKnown == CompletedIsCommitted /\ CommittedIsKnown

(* One job of a kind at a time, and never more than the limit: a second    *)
(* one would work on the same staged changes.                              *)
OneAtATime ==
  /\ \A j, k \in Active : Kind(j) = Kind(k) => j = k
  /\ Cardinality(Active) <= Limit

(* Slots, threads and the table fit together.                              *)
Consistent == TypeOK /\ OneAtATime

(* A finished job stays as it is, in the files too: a restart or a late    *)
(* thread does not change what the user was told.                          *)
FinishedStays ==
  [][\A j \in Jobs \ unsaved :
       disk[j] # NULL /\ disk[j].status \in Finished =>
         disk'[j].status = disk[j].status /\ disk'[j].commit = disk[j].commit]_vars

(* Every job whose thread was started ends, with the server or before it:  *)
(* no failure keeps a slot from those that wait.                           *)
JobsEnd == \A j \in Jobs : thread[j] # NULL ~> thread[j] = NULL

(* A job ends, and once: it does not come back after a restart.            *)
EndsOnce == JobsEnd /\ FinishedStays
===============================================================================
