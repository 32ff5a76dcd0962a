------------------------ MODULE GenerationJobsProofs ------------------------
(***************************************************************************)
(* Proofs about GenerationJobs, for any jobs, slots and bounds.            *)
(*                                                                         *)
(* Almost everything is said of one job at a time, so the invariant is a   *)
(* statement about each job: a step of one job cannot disturb the others   *)
(* unless it moves the branch.                                             *)
(***************************************************************************)
EXTENDS GenerationJobs, FiniteSetTheorems, SequenceTheorems, TLAPS

USE BoundAssumption, NoValueAssumption

-----------------------------------------------------------------------------
(* The invariant.                                                          *)

Commit == [id : Ids, base : Ids, tree : 0..MaxEdits]

Types ==
  /\ up \in BOOLEAN /\ stopped \in BOOLEAN
  /\ asked \in [Jobs -> Base \union {NULL}]
  /\ memory \in [Jobs -> Job \union {NULL}]
  /\ disk \in [Jobs -> Job \union {NULL}]
  /\ thread \in [Jobs -> Steps \union {NULL}]
  /\ history \in Seq(Commit)
  /\ index \in 0..MaxEdits /\ edits \in 0..MaxEdits /\ commits \in 0..MaxCommits
  /\ unsaved \subseteq Jobs /\ unconfirmed \subseteq Jobs

\* No two commits of the branch have the same id, and the user's are numbered.
Branch ==
  /\ \A i, k \in DOMAIN history : history[i].id = history[k].id => i = k
  /\ \A i \in DOMAIN history :
       \/ history[i].id \in Jobs
       \/ \E n \in 0..MaxCommits : history[i].id = <<n>> /\ n < commits

\* A captured base is a commit of the branch, or none, and the staged tree is
\* not the tree it has.
Fresh(base) ==
  IF base.head = NULL THEN base.tree # 0
  ELSE /\ \E i \in DOMAIN history : history[i].id = base.head
       /\ \A i \in DOMAIN history : history[i].id = base.head => history[i].tree # base.tree

\* What a record of j, in memory or on disk, says is true.
Sound(j, job) ==
  /\ job.auto => Kind(j) = "commit"
  /\ job.candidate \in {NULL, j}
  /\ job.commit # NULL => Landed(j)
  /\ Kind(j) = "commit" => Fresh(job.base)

\* Where a thread stands tells what its record says and whether it committed.
AtStep(j) ==
  thread[j] # NULL =>
    /\ memory[j] # NULL /\ disk[j] # NULL
    /\ thread[j] = "queued" => memory[j].status = "queued"
    /\ thread[j] \in Steps \ {"queued", "failing"} => memory[j].status = "running"
    /\ j \notin unsaved => memory[j].status \in Unfinished
    /\ thread[j] \in {"committing", "prepared"} => memory[j].auto
    /\ thread[j] = "prepared" => memory[j].candidate = j
    /\ thread[j] \in {"queued", "running", "committing", "prepared"} => ~Landed(j)
    /\ thread[j] = "review" => ~Landed(j) \/ j \in unconfirmed
    /\ thread[j] = "generated" /\ memory[j].auto => Landed(j)

\* While the branch points to j's commit, the file of j says so, or its thread
\* is about to, or the file names the candidate for the server that starts; or
\* Git did not say so when it was asked.
AtTip(j) ==
  Tip = j /\ j \notin unsaved =>
    /\ disk[j] # NULL /\ disk[j].candidate = j /\ disk[j].auto
    /\ \/ j \in unconfirmed
       \/ thread[j] = "generated"
       \/ thread[j] = NULL /\ disk[j].status = "completed" /\ disk[j].commit = j
       \/ ~up /\ disk[j].status \in Unfinished

JobInv(j) ==
  /\ asked[j] # NULL => memory[j] = NULL /\ disk[j] = NULL /\ thread[j] = NULL
  /\ ~up => asked[j] = NULL /\ memory[j] = NULL /\ thread[j] = NULL
  /\ up /\ j \notin unsaved => memory[j] = disk[j]
  /\ memory[j] # NULL /\ memory[j].status \in Unfinished => thread[j] # NULL \/ j \in unsaved
  /\ asked[j] # NULL /\ Kind(j) = "commit" => Fresh(asked[j])
  /\ memory[j] # NULL => Sound(j, memory[j])
  /\ disk[j] # NULL => Sound(j, disk[j])
  /\ Landed(j) => disk[j] # NULL
  /\ AtStep(j) /\ AtTip(j)

\* The unfinished jobs are few and of different kinds.
Table == OneAtATime /\ IsFiniteSet(Active)

\* The threads that hold a slot.
Busy == {j \in Jobs : thread[j] \notin {NULL, "queued"}}

Pool == free \in Nat /\ IsFiniteSet(Busy) /\ free + Cardinality(Busy) = Slots

IInv == Types /\ Branch /\ (\A j \in Jobs : JobInv(j)) /\ Table /\ Pool /\ OnItsBase

-----------------------------------------------------------------------------
(* Steps and what they leave alone.                                        *)

\* Nothing that JobInv(k) is about changes.
Same(k) ==
  /\ up' = up /\ history' = history
  /\ asked'[k] = asked[k] /\ memory'[k] = memory[k] /\ disk'[k] = disk[k]
  /\ thread'[k] = thread[k] /\ (k \in unsaved' <=> k \in unsaved)
  /\ (k \in unconfirmed' <=> k \in unconfirmed)

LEMMA Other == ASSUME NEW k \in Jobs, JobInv(k), Same(k) PROVE JobInv(k)'
<1> USE DEF Same
<1>1. (Landed(k)' <=> Landed(k)) /\ Tip' = Tip
  BY DEF Landed, Tip, Last
<1>2. /\ asked[k] # NULL /\ Kind(k) = "commit" => Fresh(asked[k])'
      /\ memory[k] # NULL => Sound(k, memory[k])'
      /\ disk[k] # NULL => Sound(k, disk[k])'
  BY DEF JobInv, Sound, Fresh, Landed
<1>3. AtStep(k)' /\ AtTip(k)'
  BY <1>1 DEF JobInv, AtStep, AtTip
<1> QED
  BY <1>1, <1>2, <1>3 DEF JobInv

LEMMA SameBranch ==
  ASSUME Branch, OnItsBase, history' = history, commits' = commits PROVE Branch' /\ OnItsBase'
BY DEF Branch, OnItsBase

\* A step that makes no job unfinished keeps the table.
LEMMA SmallerTable == ASSUME Table, Active' \subseteq Active PROVE Table'
<1>1. IsFiniteSet(Active') /\ Cardinality(Active') <= Cardinality(Active)
  BY FS_Subset DEF Table
<1>2. Cardinality(Active) \in Nat /\ Cardinality(Active') \in Nat
  BY <1>1, FS_CardinalityType DEF Table
<1> QED
  BY <1>1, <1>2 DEF Table, OneAtATime

\* A thread moves on, and has a slot before and after or neither.
LEMMA SamePool == ASSUME Pool, Busy' = Busy, free' = free PROVE Pool'
BY DEF Pool

\* A thread that has no slot takes one.
LEMMA TakesSlot ==
  ASSUME Pool, NEW j \in Jobs, j \notin Busy, Busy' = Busy \union {j}, free > 0, free' = free - 1
  PROVE  Pool'
<1>1. IsFiniteSet(Busy') /\ Cardinality(Busy') = Cardinality(Busy) + 1
  BY FS_AddElement DEF Pool
<1>2. Cardinality(Busy) \in Nat
  BY FS_CardinalityType DEF Pool
<1> QED
  BY <1>1, <1>2 DEF Pool

\* A thread that ends gives its slot back.
LEMMA GivesSlot ==
  ASSUME Pool, NEW j \in Jobs, j \in Busy, Busy' = Busy \ {j}, free' = free + 1
  PROVE  Pool'
<1>1. IsFiniteSet(Busy') /\ Cardinality(Busy') = Cardinality(Busy) - 1
  BY FS_RemoveElement DEF Pool
<1>2. Cardinality(Busy) \in Nat
  BY FS_CardinalityType DEF Pool
<1> QED
  BY <1>1, <1>2 DEF Pool

LEMMA Saved ==
  ASSUME Types, NEW j \in Jobs, NEW job \in Job, NEW ok \in BOOLEAN, Save(j, job, ok)
  PROVE  /\ memory' \in [Jobs -> Job \union {NULL}] /\ disk' \in [Jobs -> Job \union {NULL}]
         /\ unsaved' \subseteq Jobs
         /\ memory'[j] = job /\ disk'[j] = (IF ok THEN job ELSE disk[j])
         /\ j \in unsaved' <=> ~ok \/ j \in unsaved
         /\ \A k \in Jobs \ {j} : /\ memory'[k] = memory[k] /\ disk'[k] = disk[k]
                                  /\ k \in unsaved' <=> k \in unsaved
BY DEF Types, Save

LEMMA Gone ==
  ASSUME Types, NEW j \in Jobs, NEW s \in Steps \union {NULL}, Goto(j, s)
  PROVE  /\ thread' \in [Jobs -> Steps \union {NULL}]
         /\ thread'[j] = s /\ \A k \in Jobs \ {j} : thread'[k] = thread[k]
         /\ Busy' = IF s \in {NULL, "queued"} THEN Busy \ {j} ELSE Busy \union {j}
<1>1. /\ thread' \in [Jobs -> Steps \union {NULL}]
      /\ thread'[j] = s /\ \A k \in Jobs \ {j} : thread'[k] = thread[k]
  BY DEF Types, Goto
<1> QED
  BY <1>1 DEF Busy

\* A step of one job's thread.
LEMMA OneJob ==
  ASSUME IInv, NEW j \in Jobs, UNCHANGED <<rest, repository>>, Types',
         \A k \in Jobs \ {j} : /\ memory'[k] = memory[k] /\ disk'[k] = disk[k]
                               /\ thread'[k] = thread[k] /\ (k \in unsaved' <=> k \in unsaved),
         JobInv(j)', j \in Active' => j \in Active, Pool'
  PROVE  IInv'
<1> USE DEF IInv, rest, repository
<1>1. ASSUME NEW k \in Jobs PROVE JobInv(k)'
  <2>1. CASE k = j
    BY <2>1
  <2>2. CASE k # j
    <3>1. Same(k)
      BY <2>2 DEF Same
    <3> QED
      BY <3>1, Other
  <2> QED
    BY <2>1, <2>2
<1>2. Active' \subseteq Active
  BY DEF Active
<1> QED
  BY <1>1, <1>2, SmallerTable, SameBranch

\* A thread writes its record and goes on, to a step that fits what it wrote.
LEMMA Writes ==
  ASSUME IInv, NEW j \in Jobs, NEW job \in Job, NEW ok \in BOOLEAN, NEW s \in Steps \union {NULL},
         Save(j, job, ok), Goto(j, s), UNCHANGED <<rest, repository>>, Pool',
         thread[j] # NULL, s # "queued",
         job.auto = memory[j].auto, job.base = memory[j].base, job.candidate \in {NULL, j},
         job.commit # NULL => Landed(j),
         job.status \in Unfinished => memory[j].status \in Unfinished /\ s # NULL,
         s \in Steps \ {"failing"} => job.status = "running",
         ok /\ s # NULL => job.status \in Unfinished,
         s \in {"committing", "prepared"} => job.auto,
         s = "prepared" => job.candidate = j,
         s \in {"running", "committing", "prepared"} => ~Landed(j),
         s = "review" => ~Landed(j) \/ j \in unconfirmed,
         s = "generated" /\ job.auto => Landed(j),
         Tip = j /\ ok /\ j \notin unsaved =>
            /\ job.candidate = j /\ job.auto
            /\ \/ j \in unconfirmed \/ s = "generated"
               \/ (s = NULL /\ job.status = "completed" /\ job.commit = j)
  PROVE  IInv'
<1> USE DEF IInv
<1>1. /\ memory' \in [Jobs -> Job \union {NULL}] /\ disk' \in [Jobs -> Job \union {NULL}]
      /\ unsaved' \subseteq Jobs
      /\ memory'[j] = job /\ disk'[j] = (IF ok THEN job ELSE disk[j])
      /\ j \in unsaved' <=> ~ok \/ j \in unsaved
      /\ \A k \in Jobs \ {j} : /\ memory'[k] = memory[k] /\ disk'[k] = disk[k]
                               /\ k \in unsaved' <=> k \in unsaved
  BY Saved
<1>2. /\ thread' \in [Jobs -> Steps \union {NULL}]
      /\ thread'[j] = s /\ \A k \in Jobs \ {j} : thread'[k] = thread[k]
  BY Gone
<1>3. Types'
  BY <1>1, <1>2 DEF Types, rest, repository
<1>4. /\ up /\ up' = up /\ asked' = asked /\ asked[j] = NULL /\ history' = history
      /\ unconfirmed' = unconfirmed
      /\ memory[j] # NULL /\ disk[j] # NULL /\ job # NULL /\ disk'[j] # NULL
      /\ ok /\ j \notin unsaved => disk[j] = memory[j]
  BY <1>1 DEF JobInv, AtStep, rest, repository
<1>5. (Landed(j)' <=> Landed(j)) /\ Tip' = Tip
  BY <1>4 DEF Landed, Tip, Last
<1>6. Sound(j, memory[j]) /\ Sound(j, disk[j])
  BY <1>4 DEF JobInv
<1>7. Sound(j, memory[j])'
  BY <1>1, <1>4, <1>6 DEF Sound, Landed, Fresh
<1>8. Sound(j, disk[j])'
  <2>1. CASE ok
    BY <1>1, <1>4, <1>6, <2>1 DEF Sound, Landed, Fresh
  <2>2. CASE ~ok
    BY <1>1, <1>4, <1>6, <2>2 DEF Sound, Landed, Fresh
  <2> QED
    BY <2>1, <2>2
<1>9. AtStep(j)'
  BY <1>1, <1>2, <1>4, <1>5 DEF AtStep, Steps
<1>10. AtTip(j)'
  BY <1>1, <1>2, <1>4, <1>5 DEF AtTip
<1>11. JobInv(j)'
  BY <1>1, <1>2, <1>4, <1>5, <1>7, <1>8, <1>9, <1>10 DEF JobInv
<1>12. j \in Active' => j \in Active
  BY <1>1, <1>4 DEF Active
<1> QED
  BY <1>1, <1>2, <1>3, <1>11, <1>12, OneJob

\* A thread goes on without writing.
LEMMA Goes ==
  ASSUME IInv, NEW j \in Jobs, NEW s \in {"failing", "review"}, Goto(j, s),
         UNCHANGED <<rest, repository, memory, disk, unsaved>>, Pool',
         thread[j] \notin {NULL, "generated"},
         s = "review" => ~Landed(j) /\ memory[j].status = "running"
  PROVE  IInv'
<1> USE DEF IInv, Steps
<1>1. /\ thread' \in [Jobs -> Steps \union {NULL}]
      /\ thread'[j] = s /\ \A k \in Jobs \ {j} : thread'[k] = thread[k]
  BY Gone
<1>2. Types'
  BY <1>1 DEF Types, rest, repository
<1>3. /\ up' = up /\ asked' = asked /\ history' = history /\ unconfirmed' = unconfirmed
      /\ memory[j] # NULL /\ disk[j] # NULL
  BY DEF JobInv, AtStep, rest, repository
<1>4. (Landed(j)' <=> Landed(j)) /\ Tip' = Tip
  BY <1>3 DEF Landed, Tip, Last
<1>5. Sound(j, memory[j])' /\ Sound(j, disk[j])'
  BY <1>3 DEF JobInv, Sound, Landed, Fresh
<1>6. AtStep(j)' /\ AtTip(j)'
  BY <1>1, <1>3, <1>4 DEF JobInv, AtStep, AtTip
<1>7. JobInv(j)'
  BY <1>1, <1>3, <1>4, <1>5, <1>6 DEF JobInv
<1>8. j \in Active' => j \in Active
  BY DEF Active
<1> QED
  BY <1>1, <1>2, <1>7, <1>8, OneJob

-----------------------------------------------------------------------------
(* The steps of a thread.                                                  *)

\* What a thread that has not ended finds.
LEMMA ThreadHas ==
  ASSUME IInv, NEW j \in Jobs, thread[j] # NULL
  PROVE  /\ up /\ memory[j] \in Job /\ memory[j] # NULL /\ Sound(j, memory[j])
         /\ AtStep(j) /\ AtTip(j)
BY DEF IInv, JobInv, AtStep, Types

\* The branch points to a commit it has.
LEMMA TipLanded == ASSUME Types, NEW j \in Jobs, Tip = j PROVE Landed(j)
<1>1. history # << >> /\ history[Len(history)].id = j
  BY DEF Tip, Last
<1>2. Len(history) \in DOMAIN history
  BY <1>1, LenProperties DEF Types
<1> QED
  BY <1>1, <1>2 DEF Landed

LEMMA InvRun == ASSUME IInv, NEW j \in Jobs, Run(j) PROVE IInv'
<1>1. /\ memory[j] \in Job /\ Sound(j, memory[j]) /\ memory[j].status = "queued" /\ ~Landed(j)
      /\ (Tip # j \/ j \in unsaved) /\ j \notin Busy /\ thread[j] = "queued"
  BY ThreadHas, TipLanded DEF Run, AtStep, AtTip, Busy, Steps, IInv
<1>2. ASSUME NEW s \in Steps \ {"queued"}, Goto(j, s), free > 0, free' = free - 1 PROVE Pool'
  <2>1. Busy' = Busy \union {j}
    BY <1>2, Gone DEF IInv
  <2> QED
    BY <1>1, <1>2, <2>1, TakesSlot DEF IInv
<1>3. CASE stopped
  <2>1. Pool'
    BY <1>3, <1>2 DEF Run, Steps
  <2> QED
    BY <1>1, <1>3, <2>1, Goes DEF Run, Steps
<1>4. CASE ~stopped
  <2>1. PICK ok \in BOOLEAN : /\ Save(j, With(j, "running"), ok)
                              /\ Goto(j, IF ok THEN "running" ELSE "failing")
                              /\ free' = free - 1
    BY <1>4 DEF Run
  <2>2. PICK s \in {"running", "failing"} : Goto(j, s) /\ s = IF ok THEN "running" ELSE "failing"
    BY <2>1
  <2>3. Pool'
    BY <1>2, <2>1, <2>2 DEF Run, Steps
  <2> DEFINE job == With(j, "running")
  <2>4. /\ job \in Job /\ job.status = "running"
        /\ job.auto = memory[j].auto /\ job.base = memory[j].base
        /\ job.candidate = memory[j].candidate /\ job.commit = memory[j].commit
    BY <1>1 DEF With, Job, Unfinished
  <2> HIDE DEF job
  <2>5. Save(j, job, ok)
    BY <2>1 DEF job
  <2> QED
    BY <1>1, <2>2, <2>3, <2>4, <2>5, Writes DEF Run, Steps, Unfinished, Sound
<1> QED
  BY <1>3, <1>4

\* A thread that goes on without writing keeps its slot.
LEMMA KeepsSlot ==
  ASSUME IInv, NEW j \in Jobs, j \in Busy, NEW s \in Steps \ {"queued"}, Goto(j, s), free' = free
  PROVE  Pool'
<1>1. Busy' = Busy
  BY Gone DEF IInv
<1> QED
  BY <1>1, SamePool DEF IInv

LEMMA EndsThread ==
  ASSUME IInv, NEW j \in Jobs, j \in Busy, End(j)
  PROVE  Pool'
<1>1. Busy' = Busy \ {j}
  BY Gone DEF IInv, End
<1> QED
  BY <1>1, GivesSlot DEF IInv, End

LEMMA InvGenerateFails == ASSUME IInv, NEW j \in Jobs, GenerateFails(j) PROVE IInv'
<1>1. Pool'
  BY KeepsSlot DEF GenerateFails, Busy, Steps
<1> QED
  BY <1>1, Goes DEF GenerateFails, Steps

LEMMA InvPrepareFails == ASSUME IInv, NEW j \in Jobs, PrepareFails(j) PROVE IInv'
<1>1. Pool'
  BY KeepsSlot DEF PrepareFails, Busy, Steps
<1>2. ~Landed(j) /\ memory[j].status = "running"
  BY ThreadHas DEF PrepareFails, AtStep, Steps
<1> QED
  BY <1>1, <1>2, Goes DEF PrepareFails, Steps

LEMMA InvGenerate == ASSUME IInv, NEW j \in Jobs, Generate(j) PROVE IInv'
<1>1. /\ memory[j] \in Job /\ Sound(j, memory[j]) /\ memory[j].status = "running" /\ ~Landed(j)
      /\ (Tip # j \/ j \in unsaved) /\ j \in Busy
  BY ThreadHas, TipLanded DEF Generate, AtStep, AtTip, Busy, Steps, IInv
<1>2. PICK s \in {"committing", "generated"} :
        /\ (s = "committing" <=> memory[j].auto)
        /\ Update(j, memory[j], s)
  BY DEF Generate
<1>3. PICK ok \in BOOLEAN : /\ Save(j, memory[j], ok)
                            /\ IF ok THEN Goto(j, s) ELSE Goto(j, "failing")
                            /\ UNCHANGED free
  BY <1>2 DEF Update
<1>4. PICK t \in {s, "failing"} : Goto(j, t) /\ (t = s <=> ok)
  BY <1>3
<1>5. Pool'
  BY <1>1, <1>3, <1>4, KeepsSlot DEF Steps
<1>6. PICK job \in Job : job = memory[j]
  BY <1>1
<1> QED
  BY <1>1, <1>2, <1>3, <1>4, <1>5, <1>6, Writes DEF Generate, Steps, Unfinished, Sound

LEMMA InvPrepare == ASSUME IInv, NEW j \in Jobs, Prepare(j) PROVE IInv'
<1>1. /\ memory[j] \in Job /\ Sound(j, memory[j]) /\ memory[j].status = "running" /\ ~Landed(j)
      /\ (Tip # j \/ j \in unsaved) /\ j \in Busy /\ memory[j].auto
  BY ThreadHas, TipLanded DEF Prepare, AtStep, AtTip, Busy, Steps, IInv
<1>2. PICK ok \in BOOLEAN : /\ Save(j, [memory[j] EXCEPT !.candidate = j], ok)
                            /\ Goto(j, IF ok THEN "prepared" ELSE "review")
  BY DEF Prepare
<1>3. PICK s \in {"prepared", "review"} : Goto(j, s) /\ (s = "prepared" <=> ok)
  BY <1>2
<1>4. Pool'
  BY <1>1, <1>3, KeepsSlot DEF Steps, Prepare
<1> DEFINE job == [memory[j] EXCEPT !.candidate = j]
<1>5. /\ job \in Job /\ job.candidate = j
      /\ job.auto = memory[j].auto /\ job.base = memory[j].base
      /\ job.status = memory[j].status /\ job.commit = memory[j].commit
  BY <1>1 DEF Job
<1> HIDE DEF job
<1>6. Save(j, job, ok)
  BY <1>2 DEF job
<1> QED
  BY ZenonT(60), <1>1, <1>3, <1>4, <1>5, <1>6, Writes DEF Prepare, Steps, Unfinished, Sound

\* The last step of a thread: it ends, or the failure of its save is handled.
LEMMA Concludes ==
  ASSUME IInv, NEW j \in Jobs, NEW job \in Job, Conclude(j, job), UNCHANGED <<rest, repository>>,
         j \in Busy, thread[j] # NULL,
         job.auto = memory[j].auto, job.base = memory[j].base, job.candidate \in {NULL, j},
         job.commit # NULL => Landed(j), job.status \notin Unfinished,
         Tip = j /\ j \notin unsaved =>
            /\ job.candidate = j /\ job.auto
            /\ j \in unconfirmed \/ (job.status = "completed" /\ job.commit = j)
  PROVE  IInv'
<1>1. PICK ok \in BOOLEAN : /\ Save(j, job, ok)
                            /\ IF ok THEN End(j) ELSE Goto(j, "failing") /\ UNCHANGED free
  BY DEF Conclude
<1>2. CASE ok
  <2>1. Pool' /\ Goto(j, NULL)
    BY <1>1, <1>2, EndsThread DEF End
  <2> QED
    BY <1>1, <1>2, <2>1, Writes DEF Steps
<1>3. CASE ~ok
  <2>1. Pool'
    BY <1>1, <1>3, KeepsSlot DEF Steps
  <2> QED
    BY <1>1, <1>3, <2>1, Writes DEF Steps
<1> QED
  BY <1>2, <1>3

LEMMA InvComplete == ASSUME IInv, NEW j \in Jobs, Complete(j) PROVE IInv'
<1>1. /\ memory[j] \in Job /\ Sound(j, memory[j]) /\ (memory[j].auto => Landed(j))
      /\ j \in Busy /\ thread[j] = "generated"
  BY ThreadHas DEF Complete, AtStep, Busy, Steps
<1>2. Tip = j /\ j \notin unsaved => memory[j].candidate = j /\ memory[j].auto
  BY <1>1 DEF IInv, JobInv, AtTip
<1> DEFINE job == [memory[j] EXCEPT !.status = "completed",
                                    !.commit = IF memory[j].auto THEN j ELSE NULL]
<1>3. /\ job \in Job /\ job.status = "completed"
      /\ job.auto = memory[j].auto /\ job.base = memory[j].base
      /\ job.candidate = memory[j].candidate
      /\ job.commit = IF memory[j].auto THEN j ELSE NULL
  BY <1>1 DEF Job, Finished
<1> HIDE DEF job
<1>4. Conclude(j, job) /\ UNCHANGED <<rest, repository>>
  BY DEF Complete, job
<1> QED
  BY <1>1, <1>2, <1>3, <1>4, Concludes DEF Unfinished, Sound, Steps

LEMMA InvReview == ASSUME IInv, NEW j \in Jobs, Review(j) PROVE IInv'
<1>1. /\ memory[j] \in Job /\ Sound(j, memory[j])
      /\ j \in Busy /\ thread[j] = "review"
      /\ Tip = j /\ j \notin unsaved =>
           j \in unconfirmed /\ memory[j].candidate = j /\ memory[j].auto
  BY ThreadHas DEF Review, AtStep, AtTip, Busy, Steps, IInv, JobInv
<1> DEFINE job == With(j, "needs_review")
<1>2. /\ job \in Job /\ job.status = "needs_review"
      /\ job.auto = memory[j].auto /\ job.base = memory[j].base
      /\ job.candidate = memory[j].candidate /\ job.commit = memory[j].commit
  BY <1>1 DEF With, Job, Finished
<1> HIDE DEF job
<1>3. Conclude(j, job) /\ UNCHANGED <<rest, repository>>
  BY DEF Review, job
<1> QED
  BY <1>1, <1>2, <1>3, Concludes DEF Unfinished, Sound, Steps

LEMMA InvFail == ASSUME IInv, NEW j \in Jobs, Fail(j) PROVE IInv'
<1>1. /\ memory[j] \in Job /\ Sound(j, memory[j])
      /\ j \in Busy /\ thread[j] = "failing"
      /\ Tip = j /\ j \notin unsaved =>
           j \in unconfirmed /\ memory[j].candidate = j /\ memory[j].auto
  BY ThreadHas DEF Fail, AtTip, Busy, Steps, IInv, JobInv
<1>2. PICK s \in {"interrupted", "failed"}, ok \in BOOLEAN : Save(j, With(j, s), ok)
  BY DEF Fail
<1> DEFINE job == With(j, s)
<1>3. /\ job \in Job /\ job.status = s
      /\ job.auto = memory[j].auto /\ job.base = memory[j].base
      /\ job.candidate = memory[j].candidate /\ job.commit = memory[j].commit
  BY <1>1 DEF With, Job, Finished
<1> HIDE DEF job
<1>5. Save(j, job, ok)
  BY <1>2 DEF job
<1>4. Pool' /\ Goto(j, NULL)
  BY <1>1, EndsThread DEF Fail, End
<1> QED
  BY <1>1, <1>3, <1>4, <1>5, Writes DEF Fail, Unfinished, Sound, Steps

-----------------------------------------------------------------------------
(* Steps that move the branch.                                             *)

\* A commit with a new id on top of the branch.
LEMMA Appended ==
  ASSUME Types, NEW c \in Commit, history' = Append(history, c),
         c.id # NULL, \A i \in DOMAIN history : history[i].id # c.id
  PROVE  /\ history' \in Seq(Commit)
         /\ Tip' = c.id
         /\ DOMAIN history' = 1 .. Len(history) + 1 /\ DOMAIN history = 1 .. Len(history)
         /\ Len(history) \in Nat
         /\ history'[Len(history) + 1] = c
         /\ \A i \in DOMAIN history : history'[i] = history[i]
         /\ \A j \in Jobs : Landed(j)' <=> Landed(j) \/ j = c.id
         /\ \A b \in Base : Fresh(b) => Fresh(b)'
<1>1. /\ history \in Seq(Commit) /\ history' \in Seq(Commit)
      /\ Len(history) \in Nat /\ Len(history') = Len(history) + 1
      /\ DOMAIN history' = 1 .. Len(history) + 1 /\ DOMAIN history = 1 .. Len(history)
      /\ history'[Len(history) + 1] = c
      /\ \A i \in 1 .. Len(history) : history'[i] = history[i]
  BY AppendProperties, LenProperties DEF Types
<1>2. Tip' = c.id
  BY <1>1 DEF Tip, Last
<1>3. \A j \in Jobs : Landed(j)' <=> Landed(j) \/ j = c.id
  BY <1>1 DEF Landed
<1>4. ASSUME NEW b \in Base, Fresh(b) PROVE Fresh(b)'
  BY <1>1, <1>4 DEF Fresh
<1> QED
  BY <1>1, <1>2, <1>3, <1>4

\* A job whose thread stands still, while the branch gets a commit that is not
\* its own.
LEMMA Bystander ==
  ASSUME IInv, NEW k \in Jobs, NEW c \in Commit, history' = Append(history, c), c.id # k,
         c.id # NULL, \A i \in DOMAIN history : history[i].id # c.id,
         up' = up, asked'[k] = asked[k], memory'[k] = memory[k], disk'[k] = disk[k],
         thread'[k] = thread[k], unsaved' = unsaved, k \in unconfirmed' <=> k \in unconfirmed
  PROVE  JobInv(k)'
<1> USE DEF IInv
<1>1. /\ Tip' = c.id /\ (Landed(k)' <=> Landed(k)) /\ \A b \in Base : Fresh(b) => Fresh(b)'
  BY Appended
<1>2. /\ asked[k] # NULL => asked[k] \in Base
      /\ memory[k] # NULL => memory[k].base \in Base
      /\ disk[k] # NULL => disk[k].base \in Base
  BY DEF Types, Job
<1>3. JobInv(k)
  OBVIOUS
<1>4. /\ asked[k] # NULL /\ Kind(k) = "commit" => Fresh(asked[k])'
      /\ memory[k] # NULL /\ Kind(k) = "commit" => Fresh(memory[k].base)'
      /\ disk[k] # NULL /\ Kind(k) = "commit" => Fresh(disk[k].base)'
  <2>1. ASSUME NEW b \in Base, Fresh(b) PROVE Fresh(b)'
    BY <1>1, <2>1
  <2>2. ASSUME asked[k] # NULL, Kind(k) = "commit" PROVE Fresh(asked[k])'
    <3>1. Fresh(asked[k])
      BY <1>3, <2>2 DEF JobInv
    <3> QED
      BY <1>2, <2>1, <2>2, <3>1 DEF Fresh
  <2>3. ASSUME memory[k] # NULL, Kind(k) = "commit" PROVE Fresh(memory[k].base)'
    <3>1. Fresh(memory[k].base)
      BY <1>3, <2>3 DEF JobInv, Sound
    <3> QED
      BY <1>2, <2>1, <2>3, <3>1 DEF Fresh
  <2>4. ASSUME disk[k] # NULL, Kind(k) = "commit" PROVE Fresh(disk[k].base)'
    <3>1. Fresh(disk[k].base)
      BY <1>3, <2>4 DEF JobInv, Sound
    <3> QED
      BY <1>2, <2>1, <2>4, <3>1 DEF Fresh
  <2> QED
    BY <2>2, <2>3, <2>4
<1>5. /\ memory[k] # NULL => Sound(k, memory[k])'
      /\ disk[k] # NULL => Sound(k, disk[k])'
  BY <1>1, <1>3, <1>4 DEF JobInv, Sound
<1>6. AtStep(k)' /\ AtTip(k)'
  BY <1>1, <1>3 DEF JobInv, AtStep, AtTip
<1> QED
  BY <1>1, <1>3, <1>4, <1>5, <1>6 DEF JobInv

LEMMA InvUserCommit == ASSUME IInv, UserCommit PROVE IInv'
<1> USE DEF IInv, UserCommit, rest
<1> DEFINE c == [id |-> <<commits>>, base |-> Tip, tree |-> index]
<1>1. commits \in 0 .. MaxCommits /\ commits + 1 \in 0 .. MaxCommits /\ Tip \in Ids
  <2>1. history # << >> => history[Len(history)] \in Commit
    BY LenProperties, ElementOfSeq DEF Types
  <2> QED
    BY <2>1 DEF Types, Tip, Last, Commit, Ids
<1>2. c \in Commit /\ c.id = <<commits>> /\ c.id \in Ids
  BY <1>1 DEF Commit, Ids, Types
<1>3. c.id # NULL /\ c.id \notin Jobs
  BY <1>1
<1>4. \A i \in DOMAIN history : history[i].id # c.id
  <2> SUFFICES ASSUME NEW i \in DOMAIN history PROVE history[i].id # <<commits>>
    OBVIOUS
  <2>1. ASSUME NEW n \in 0 .. MaxCommits, n < commits PROVE <<n>> # <<commits>>
    BY <1>1, <2>1
  <2> QED
    BY <1>3, <2>1 DEF Branch
<1>5. history' = Append(history, c)
  OBVIOUS
<1> HIDE DEF c
<1>6. /\ history' \in Seq(Commit)
      /\ DOMAIN history' = 1 .. Len(history) + 1 /\ DOMAIN history = 1 .. Len(history)
      /\ Len(history) \in Nat
      /\ history'[Len(history) + 1] = c
      /\ \A i \in DOMAIN history : history'[i] = history[i]
  BY <1>2, <1>3, <1>4, <1>5, Appended
<1>7. Types'
  BY <1>1, <1>6 DEF Types
<1>8. Branch'
  <2>1. \A i, k \in DOMAIN history' : history'[i].id = history'[k].id => i = k
    BY <1>4, <1>6 DEF Branch
  <2>2. ASSUME NEW i \in DOMAIN history'
        PROVE  \/ history'[i].id \in Jobs
               \/ \E n \in 0..MaxCommits : history'[i].id = <<n>> /\ n < commits'
    <3>1. CASE i \in DOMAIN history
      BY <1>1, <1>6, <3>1 DEF Branch
    <3>2. CASE i = Len(history) + 1
      BY <1>1, <1>2, <1>6, <3>2
    <3> QED
      BY <1>6, <2>2, <3>1, <3>2
  <2> QED
    BY <2>1, <2>2 DEF Branch
<1>9. \A k \in Jobs : JobInv(k)'
  BY <1>2, <1>3, <1>4, <1>5, Bystander
<1>10. Table' /\ Pool'
  BY SmallerTable, SamePool DEF Active, Busy
<1>11. OnItsBase'
  <2> SUFFICES ASSUME NEW i \in DOMAIN history', history'[i].id \in Jobs
               PROVE  /\ history'[i].base = (IF i = 1 THEN NULL ELSE history'[i - 1].id)
                      /\ history'[i].tree # (IF i = 1 THEN 0 ELSE history'[i - 1].tree)
    BY DEF OnItsBase
  <2>1. i \in DOMAIN history
    BY SMTT(30), <1>3, <1>6
  <2>2. i # 1 => i - 1 \in DOMAIN history
    BY <1>6, <2>1
  <2> QED
    BY <1>6, <2>1, <2>2 DEF OnItsBase
<1> QED
  BY <1>7, <1>8, <1>9, <1>10, <1>11

\* The branch moves to j's commit only from the base it was generated for,
\* whose tree is another.
LEMMA InvUpdateRef == ASSUME IInv, NEW j \in Jobs, UpdateRef(j) PROVE IInv'
<1>0. /\ up /\ memory[j] \in Job /\ Sound(j, memory[j]) /\ ~Landed(j) /\ memory[j].auto
      /\ memory[j].candidate = j /\ memory[j].status = "running" /\ j \in Busy
      /\ thread[j] = "prepared"
  BY ThreadHas DEF UpdateRef, AtStep, Busy, Steps
<1>1. CASE Goto(j, "review") /\ UNCHANGED <<history, unconfirmed>>
  <2>1. Pool'
    BY <1>0, <1>1, KeepsSlot DEF UpdateRef, Steps
  <2> QED
    BY <1>0, <1>1, <2>1, Goes DEF UpdateRef, Steps, repository
<1>2. CASE /\ Tip = memory[j].base.head
           /\ history' = Append(history, [id |-> j, base |-> memory[j].base.head,
                                          tree |-> memory[j].base.tree])
           /\ \/ Goto(j, "generated") /\ UNCHANGED unconfirmed
              \/ Goto(j, "review") /\ GitFails({j})
  <2> USE DEF IInv, rest
  <2> DEFINE c == [id |-> j, base |-> memory[j].base.head, tree |-> memory[j].base.tree]
  <2>1. c \in Commit /\ c.id = j /\ c.id # NULL /\ c.base = Tip /\ c.tree = memory[j].base.tree
    BY <1>0, <1>2 DEF Commit, Job, Base, Ids
  <2>2. \A i \in DOMAIN history : history[i].id # c.id
    BY <1>0, <2>1 DEF Landed
  <2>3. history' = Append(history, c)
        /\ UNCHANGED <<up, stopped, asked, memory, disk, free, index, edits, commits, unsaved>>
    BY <1>2 DEF UpdateRef
  <2>a. PICK s \in {"generated", "review"} :
          /\ Goto(j, s) /\ unconfirmed' \subseteq Jobs
          /\ s = "review" => j \in unconfirmed'
          /\ \A k \in Jobs \ {j} : k \in unconfirmed' <=> k \in unconfirmed
    BY <1>2 DEF GitFails, Types
  <2> HIDE DEF c
  <2>4. /\ history' \in Seq(Commit) /\ Tip' = j
        /\ DOMAIN history' = 1 .. Len(history) + 1 /\ DOMAIN history = 1 .. Len(history)
        /\ Len(history) \in Nat
        /\ history'[Len(history) + 1] = c
        /\ \A i \in DOMAIN history : history'[i] = history[i]
        /\ Landed(j)'
        /\ \A b \in Base : Fresh(b) => Fresh(b)'
    BY <2>1, <2>2, <2>3, Appended
  <2>5. /\ thread' \in [Jobs -> Steps \union {NULL}]
        /\ thread'[j] = s /\ \A k \in Jobs \ {j} : thread'[k] = thread[k]
        /\ Pool'
    BY <1>0, <2>3, <2>a, Gone, KeepsSlot DEF Steps
  <2>6. Types'
    BY <2>3, <2>4, <2>5, <2>a DEF Types
  <2>7. Branch'
    <3>1. \A i, k \in DOMAIN history' : history'[i].id = history'[k].id => i = k
      BY <2>2, <2>4 DEF Branch
    <3>2. \A i \in DOMAIN history' :
            \/ history'[i].id \in Jobs
            \/ \E n \in 0..MaxCommits : history'[i].id = <<n>> /\ n < commits'
      BY <2>1, <2>3, <2>4 DEF Branch
    <3> QED
      BY <3>1, <3>2 DEF Branch
  <2>8. ASSUME NEW k \in Jobs PROVE JobInv(k)'
    <3>1. CASE k # j
      BY <2>1, <2>2, <2>3, <2>5, <2>a, <3>1, Bystander
    <3>2. CASE k = j
      <4>1. memory[j] # NULL /\ disk[j] # NULL /\ asked[j] = NULL /\ disk[j].base \in Base
            /\ memory[j].base \in Base
        BY <1>0 DEF JobInv, AtStep, Types, Job, Steps
      <4>2. Fresh(memory[j].base)' /\ Fresh(disk[j].base)'
        <5>1. Fresh(memory[j].base) /\ Fresh(disk[j].base)
          BY <1>0, <4>1 DEF JobInv, Sound
        <5>2. ASSUME NEW b \in Base, Fresh(b) PROVE Fresh(b)'
          BY <2>4, <5>2
        <5>3. Fresh(memory[j].base)'
          BY SMTT(60), <2>3, <4>1, <5>1, <5>2 DEF Fresh
        <5>4. Fresh(disk[j].base)'
          BY SMTT(30), <2>3, <4>1, <5>1, <5>2 DEF Fresh
        <5> QED
          BY <5>3, <5>4
      <4>3. Sound(j, memory[j])' /\ Sound(j, disk[j])'
        BY <1>0, <2>3, <2>4, <4>1, <4>2 DEF JobInv, Sound
      <4>4. AtStep(j)'
        BY <1>0, <2>3, <2>4, <2>5, <2>a, <4>1 DEF JobInv, AtStep, Steps
      <4>5. AtTip(j)'
        BY <1>0, <2>3, <2>4, <2>5, <2>a, <4>1 DEF JobInv, AtTip
      <4> QED
        BY <1>0, <2>3, <2>4, <2>5, <3>2, <4>1, <4>3, <4>4, <4>5 DEF JobInv, Steps
    <3> QED
      BY <3>1, <3>2
  <2>9. Table'
    BY <2>3, SmallerTable DEF Active
  <2>10. OnItsBase'
    <3> SUFFICES ASSUME NEW i \in DOMAIN history', history'[i].id \in Jobs
                 PROVE  /\ history'[i].base = (IF i = 1 THEN NULL ELSE history'[i - 1].id)
                        /\ history'[i].tree # (IF i = 1 THEN 0 ELSE history'[i - 1].tree)
      BY DEF OnItsBase
    <3>1. CASE i \in DOMAIN history
      <4>1. i # 1 => i - 1 \in DOMAIN history
        BY <2>4, <3>1
      <4> QED
        BY <2>4, <3>1, <4>1 DEF OnItsBase
    <3>2. CASE i = Len(history) + 1
      <4>1. Kind(j) = "commit" /\ Fresh(memory[j].base)
        BY <1>0 DEF Sound
      <4>2. CASE history = << >>
        <5>1. i = 1 /\ Tip = NULL
          BY <3>2, <4>2 DEF Tip
        <5>2. Tip = memory[j].base.head
          BY <1>2
        <5>3. memory[j].base.tree # 0
          BY <4>1, <5>1, <5>2 DEF Fresh
        <5> QED
          BY <2>1, <2>4, <3>2, <5>1, <5>3
      <4>3. CASE history # << >>
        <5>1. Len(history) \in DOMAIN history /\ i # 1 /\ i - 1 = Len(history)
          BY <2>4, <3>2, <4>3, LenProperties DEF Types
        <5>2. Tip = history[Len(history)].id
          BY <4>3 DEF Tip, Last
        <5>3. Tip # NULL
          BY <5>1, <5>2 DEF Branch
        <5> QED
          BY <1>2, <2>1, <2>4, <3>2, <4>1, <5>1, <5>2, <5>3 DEF Fresh
      <4> QED
        BY <4>2, <4>3
    <3> QED
      BY <2>4, <3>1, <3>2
  <2> QED
    BY <2>5, <2>6, <2>7, <2>8, <2>9, <2>10
<1> QED
  BY <1>1, <1>2 DEF UpdateRef

-----------------------------------------------------------------------------
(* Requests, the user and the process.                                     *)

\* What a request captures is the branch at one moment.
LEMMA InvCapture == ASSUME IInv, NEW j \in Jobs, Capture(j) PROVE IInv'
<1> USE DEF IInv
<1> DEFINE base == IF Kind(j) = "theme" THEN [head |-> NULL, tree |-> 0]
                                        ELSE [head |-> Tip, tree |-> index]
<1>1. UNCHANGED <<up, stopped, memory, disk, thread, free, history, index, edits, commits,
                  restarts, unsaved, unconfirmed>>
  BY DEF Capture, repository
<1>2. history # << >> => /\ history[Len(history)] \in Commit /\ Len(history) \in DOMAIN history
                         /\ history[Len(history)].id # NULL
  <2>1. history # << >> => Len(history) \in DOMAIN history
    BY LenProperties DEF Types
  <2>2. history # << >> => history[Len(history)] \in Commit
    BY LenProperties, ElementOfSeq DEF Types
  <2>3. \A i \in DOMAIN history : history[i].id # NULL
    BY DEF Branch
  <2> QED
    BY <2>1, <2>2, <2>3
<1>3. base \in Base
  BY <1>2 DEF Base, Ids, Tip, Last, Commit, Types
<1>4. Kind(j) = "commit" => Fresh(base)
  <2> SUFFICES ASSUME Kind(j) = "commit" PROVE Fresh(base)
    OBVIOUS
  <2>0. base.head = Tip /\ base.tree = index /\ index # TipTree
    BY DEF Capture
  <2> HIDE DEF base
  <2>1. CASE history = << >>
    BY <2>0, <2>1 DEF Fresh, Tip, TipTree
  <2>2. CASE history # << >>
    <3>1. Tip = history[Len(history)].id /\ TipTree = history[Len(history)].tree
      BY <2>2 DEF Tip, TipTree, Last
    <3> QED
      BY <1>2, <2>0, <2>2, <3>1 DEF Fresh, Branch
  <2> QED
    BY <2>1, <2>2
<1> HIDE DEF base
<1>5. asked' = [asked EXCEPT ![j] = base]
  BY DEF Capture, base
<1>6. Types'
  BY <1>1, <1>3, <1>5 DEF Types
<1>7. ASSUME NEW k \in Jobs PROVE JobInv(k)'
  <2>1. CASE k # j
    <3>1. Same(k)
      BY <1>1, <1>5, <2>1 DEF Same, Types
    <3> QED
      BY <3>1, Other
  <2>2. CASE k = j
    <3>1. up /\ memory[j] = NULL /\ disk[j] = NULL /\ asked'[j] = base
      BY <1>5 DEF Capture, Types
    <3>2. thread[j] = NULL
      BY <3>1 DEF JobInv, AtStep
    <3>3. (Landed(j)' <=> Landed(j)) /\ Tip' = Tip
      BY <1>1 DEF Landed, Tip, Last
    <3>4. Kind(j) = "commit" => Fresh(asked[j])'
      BY <1>1, <1>4, <3>1 DEF Fresh
    <3>5. AtStep(j)' /\ AtTip(j)'
      BY <1>1, <3>1, <3>2, <3>3 DEF JobInv, AtStep, AtTip
    <3> QED
      BY <1>1, <2>2, <3>1, <3>2, <3>3, <3>4, <3>5 DEF JobInv
  <2> QED
    BY <2>1, <2>2
<1>8. Table' /\ Pool'
  BY <1>1, SmallerTable, SamePool DEF Active, Busy
<1> QED
  BY <1>1, <1>6, <1>7, <1>8, SameBranch

LEMMA InvRefuse == ASSUME IInv, NEW j \in Jobs, Refuse(j) PROVE IInv'
<1> USE DEF IInv
<1>1. /\ UNCHANGED <<up, stopped, memory, disk, thread, free, history, index, edits, commits,
                     restarts, unsaved, unconfirmed>>
      /\ asked' = [asked EXCEPT ![j] = NULL]
  BY DEF Refuse, repository
<1>2. Types'
  BY <1>1 DEF Types
<1>3. ASSUME NEW k \in Jobs PROVE JobInv(k)'
  <2>1. CASE k # j
    <3>1. Same(k)
      BY <1>1, <2>1 DEF Same, Types
    <3> QED
      BY <3>1, Other
  <2>2. CASE k = j
    <3>1. up /\ memory[j] = NULL /\ disk[j] = NULL /\ asked'[j] = NULL /\ thread[j] = NULL
      BY <1>1 DEF Refuse, Types, JobInv
    <3>3. (Landed(j)' <=> Landed(j)) /\ Tip' = Tip
      BY <1>1 DEF Landed, Tip, Last
    <3>5. AtStep(j)' /\ AtTip(j)'
      BY <1>1, <3>1, <3>3 DEF JobInv, AtStep, AtTip
    <3> QED
      BY <1>1, <2>2, <3>1, <3>3, <3>5 DEF JobInv
  <2> QED
    BY <2>1, <2>2
<1>4. Table' /\ Pool'
  BY <1>1, SmallerTable, SamePool DEF Active, Busy
<1> QED
  BY <1>1, <1>2, <1>3, <1>4, SameBranch

\* A job is added to the table when none of its kind is there and there is room.
LEMMA InvStart ==
  ASSUME IInv, NEW j \in Jobs, NEW auto \in BOOLEAN, NEW ok \in BOOLEAN, Start(j, auto, ok)
  PROVE  IInv'
<1> USE DEF IInv
<1> DEFINE job == [status |-> "queued", base |-> asked[j], auto |-> auto, candidate |-> NULL,
                   commit |-> NULL, dismissed |-> FALSE]
<1>0. /\ up /\ asked[j] # NULL /\ asked[j] \in Base /\ memory[j] = NULL /\ disk[j] = NULL
      /\ thread[j] = NULL /\ ~Landed(j) /\ ~Refused(j) /\ (auto => Kind(j) = "commit")
      /\ (Kind(j) = "commit" => Fresh(asked[j])) /\ (Tip # j \/ j \in unsaved)
      /\ UNCHANGED <<up, stopped, free, history, index, edits, commits, restarts, unconfirmed>>
      /\ asked' = [asked EXCEPT ![j] = NULL]
  BY DEF Start, JobInv, Types, repository, AtTip
<1>1. /\ job \in Job /\ job # NULL /\ job.status = "queued" /\ job.auto = auto /\ job.base = asked[j]
      /\ job.candidate = NULL /\ job.commit = NULL
  <2>1. FALSE \in BOOLEAN
    OBVIOUS
  <2>2. job \in Job
    BY <1>0, <2>1 DEF Job, Unfinished
  <2> QED
    BY <2>2
<1>2. Save(j, job, ok)
  BY DEF Start
<1> HIDE DEF job
<1>3. /\ memory' \in [Jobs -> Job \union {NULL}] /\ disk' \in [Jobs -> Job \union {NULL}]
      /\ unsaved' \subseteq Jobs
      /\ memory'[j] = job /\ disk'[j] = (IF ok THEN job ELSE disk[j])
      /\ j \in unsaved' <=> ~ok \/ j \in unsaved
      /\ \A k \in Jobs \ {j} : /\ memory'[k] = memory[k] /\ disk'[k] = disk[k]
                               /\ k \in unsaved' <=> k \in unsaved
  BY <1>1, <1>2, Saved
<1>4. PICK s \in {"queued", NULL} : Goto(j, s) /\ (s = "queued" <=> ok)
  BY DEF Start, Steps
<1>5. /\ thread' \in [Jobs -> Steps \union {NULL}]
      /\ thread'[j] = s /\ \A k \in Jobs \ {j} : thread'[k] = thread[k]
      /\ Busy' = Busy \ {j} /\ j \notin Busy
  BY <1>0, <1>4, Gone DEF Steps, Busy
<1>6. Types'
  BY <1>0, <1>3, <1>5 DEF Types
<1>7. ASSUME NEW k \in Jobs PROVE JobInv(k)'
  <2>1. CASE k # j
    <3>1. Same(k)
      BY <1>0, <1>3, <1>5, <2>1 DEF Same, Types
    <3> QED
      BY <3>1, Other
  <2>2. CASE k = j
    <3>1. (Landed(j)' <=> Landed(j)) /\ Tip' = Tip /\ asked'[j] = NULL
      BY <1>0 DEF Landed, Tip, Last, Types
    <3>2. Sound(j, memory[j])'
      BY <1>0, <1>1, <1>3 DEF Sound, Fresh
    <3>3. disk'[j] # NULL => Sound(j, disk[j])'
      BY <1>0, <1>1, <1>3 DEF Sound, Fresh
    <3>4. AtStep(j)'
      BY <1>0, <1>1, <1>3, <1>4, <1>5, <3>1 DEF AtStep, Steps, Unfinished
    <3>5. AtTip(j)'
      BY <1>0, <1>3, <3>1 DEF AtTip
    <3> QED
      BY <1>0, <1>1, <1>3, <1>4, <1>5, <2>2, <3>1, <3>2, <3>3, <3>4, <3>5 DEF JobInv, Steps
  <2> QED
    BY <2>1, <2>2
<1>8. Table'
  <2>1. Active' = Active \union {j} /\ j \notin Active
    BY <1>0, <1>1, <1>3 DEF Active, Unfinished
  <2>2. IsFiniteSet(Active') /\ Cardinality(Active') = Cardinality(Active) + 1
    BY <2>1, FS_AddElement DEF Table
  <2>3. Cardinality(Active) \in Nat /\ ~(Cardinality(Active) >= Limit)
        /\ \A k \in Active : Kind(k) # Kind(j)
    BY <1>0, FS_CardinalityType DEF Table, Refused
  <2>4. Cardinality(Active') <= Limit
    BY <2>2, <2>3
  <2> QED
    BY <2>1, <2>2, <2>3, <2>4 DEF Table, OneAtATime
<1>9. Pool'
  BY <1>0, <1>5, SamePool
<1> QED
  BY <1>0, <1>6, <1>7, <1>8, <1>9, SameBranch

LEMMA InvDismiss == ASSUME IInv, NEW j \in Jobs, Dismiss(j) PROVE IInv'
<1> USE DEF IInv
<1> DEFINE job == [memory[j] EXCEPT !.dismissed = TRUE]
<1>0. /\ up /\ memory[j] \in Job /\ memory[j] # NULL /\ memory[j].status \notin Unfinished
      /\ UNCHANGED <<rest, repository, thread, free>>
  BY DEF Dismiss, Types
<1>1. /\ job \in Job /\ job # NULL /\ job.status = memory[j].status /\ job.auto = memory[j].auto
      /\ job.base = memory[j].base /\ job.candidate = memory[j].candidate
      /\ job.commit = memory[j].commit
  BY <1>0 DEF Job
<1>2. PICK ok \in BOOLEAN : Save(j, job, ok)
  BY DEF Dismiss
<1> HIDE DEF job
<1>3. /\ memory' \in [Jobs -> Job \union {NULL}] /\ disk' \in [Jobs -> Job \union {NULL}]
      /\ unsaved' \subseteq Jobs
      /\ memory'[j] = job /\ disk'[j] = (IF ok THEN job ELSE disk[j])
      /\ j \in unsaved' <=> ~ok \/ j \in unsaved
      /\ \A k \in Jobs \ {j} : /\ memory'[k] = memory[k] /\ disk'[k] = disk[k]
                               /\ k \in unsaved' <=> k \in unsaved
  BY <1>1, <1>2, Saved
<1>4. Types'
  BY <1>0, <1>3 DEF Types, rest, repository
<1>5. /\ up' = up /\ asked' = asked /\ asked[j] = NULL /\ history' = history /\ thread' = thread
      /\ unconfirmed' = unconfirmed
      /\ j \notin unsaved => disk[j] = memory[j]
  BY <1>0 DEF JobInv, rest, repository
<1>6. (Landed(j)' <=> Landed(j)) /\ Tip' = Tip
  BY <1>5 DEF Landed, Tip, Last
<1>7. Sound(j, memory[j]) /\ (disk[j] # NULL => Sound(j, disk[j]))
  BY <1>0 DEF JobInv
<1>8. Sound(j, memory[j])' /\ (disk'[j] # NULL => Sound(j, disk[j])')
  BY <1>1, <1>3, <1>5, <1>7 DEF Sound, Landed, Fresh
<1>9. AtStep(j)' /\ AtTip(j)'
  BY <1>0, <1>1, <1>3, <1>5, <1>6 DEF JobInv, AtStep, AtTip
<1>10. JobInv(j)'
  BY <1>0, <1>1, <1>3, <1>5, <1>6, <1>8, <1>9 DEF JobInv
<1>11. Pool' /\ (j \in Active' => j \in Active)
  BY <1>0, <1>1, <1>3, SamePool DEF Busy, Active
<1> QED
  BY <1>0, <1>3, <1>4, <1>5, <1>10, <1>11, OneJob

LEMMA InvQuiet == ASSUME IInv, Stage \/ Close \/ UNCHANGED vars PROVE IInv'
<1> USE DEF IInv
<1>1. UNCHANGED <<up, asked, memory, disk, thread, free, history, commits, unsaved, unconfirmed>>
  BY DEF Stage, Close, rest, repository, vars
<1>2. Types'
  <2>1. stopped' \in BOOLEAN
    <3>1. CASE Stage \/ UNCHANGED vars
      BY <3>1 DEF Types, Stage, rest, vars
    <3>2. CASE Close
      BY <3>2 DEF Close
    <3> QED
      BY <3>1, <3>2
  <2>2. index' \in 0..MaxEdits /\ edits' \in 0..MaxEdits
    BY DEF Types, Stage, Close, repository, vars
  <2> QED
    BY <1>1, <2>1, <2>2 DEF Types
<1>3. \A k \in Jobs : JobInv(k)'
  BY <1>1, Other DEF Same
<1>4. Table' /\ Pool'
  BY <1>1, SmallerTable, SamePool DEF Active, Busy
<1> QED
  BY <1>1, <1>2, <1>3, <1>4, SameBranch

\* With the process its memory and its threads are gone.
LEMMA InvExit == ASSUME IInv, Exit PROVE IInv'
<1> USE DEF IInv, Exit, repository
<1>1. Types'
  BY DEF Types
<1>2. ASSUME NEW k \in Jobs PROVE JobInv(k)'
  <2>1. (Landed(k)' <=> Landed(k)) /\ Tip' = Tip
    BY DEF Landed, Tip, Last
  <2>2. asked'[k] = NULL /\ memory'[k] = NULL /\ thread'[k] = NULL /\ disk'[k] = disk[k]
    OBVIOUS
  <2>3. disk[k] # NULL => Sound(k, disk[k])'
    BY DEF JobInv, Sound, Landed, Fresh
  <2>4. AtStep(k)'
    BY <2>2 DEF AtStep
  <2>5. AtTip(k)'
    BY <2>1, <2>2 DEF JobInv, AtTip, AtStep, Steps
  <2> QED
    BY <2>1, <2>2, <2>3, <2>4, <2>5 DEF JobInv
<1>3. Table'
  BY SmallerTable DEF Active
<1>4. Pool'
  <2>1. Busy' = {}
    BY DEF Busy
  <2>2. IsFiniteSet(Busy') /\ Cardinality(Busy') = 0
    BY <2>1, FS_EmptySet
  <2> QED
    BY <2>2 DEF Pool
<1> QED
  BY <1>1, <1>2, <1>3, <1>4, SameBranch

\* The server that starts makes no job unfinished, and finds a commit that was
\* made by its candidate.
LEMMA InvRestart == ASSUME IInv, NEW lost \in SUBSET Jobs, NEW mute \in SUBSET Jobs, Restart(lost, mute) PROVE IInv'
<1> USE DEF IInv
<1> DEFINE Rec(k) == Recovered(disk[k], k \notin mute)
<1>0. ~up /\ up' /\ UNCHANGED <<stopped, asked, thread, free, history, index, edits, commits>>
  BY DEF Restart
<1>1. ASSUME NEW k \in Jobs, disk[k] # NULL
      PROVE  /\ Rec(k) \in Job
             /\ Rec(k) # NULL
             /\ Rec(k).status \notin Unfinished
             /\ Rec(k).base = disk[k].base
             /\ Rec(k).auto = disk[k].auto
             /\ Rec(k).candidate = disk[k].candidate
             /\ \/ Rec(k).commit = disk[k].commit
                \/ Rec(k).commit = k /\ Tip = k
             /\ disk[k].status \in Unfinished /\ Tip = k /\ disk[k].candidate = k /\ k \notin mute =>
                  Rec(k).commit = k /\ Rec(k).status = "completed"
             /\ disk[k].status \notin Unfinished => Rec(k) = disk[k]
  <2>1. disk[k] \in Job /\ disk[k].candidate \in {NULL, k}
    BY <1>1 DEF Types, JobInv, Sound
  <2>2. CASE disk[k].status \notin Unfinished
    BY <2>1, <2>2 DEF Recovered
  <2>3. CASE disk[k].status \in Unfinished /\ disk[k].candidate # NULL /\ k \notin mute /\ Tip = disk[k].candidate
    <3> DEFINE job == [disk[k] EXCEPT !.status = "completed", !.commit = disk[k].candidate]
    <3>1. Rec(k) = job
      BY <2>3 DEF Recovered
    <3>2. /\ job \in Job /\ job.status = "completed" /\ job.base = disk[k].base
          /\ job.auto = disk[k].auto /\ job.candidate = disk[k].candidate /\ job.commit = k
      BY <2>1, <2>3 DEF Job, Finished
    <3> HIDE DEF job
    <3> QED
      BY <2>1, <2>3, <3>1, <3>2 DEF Unfinished
  <2>4. CASE disk[k].status \in Unfinished /\ ~(disk[k].candidate # NULL /\ k \notin mute /\ Tip = disk[k].candidate)
    <3> DEFINE job == [disk[k] EXCEPT !.status = "interrupted"]
    <3>1. Rec(k) = job
      BY <2>4 DEF Recovered
    <3>2. /\ job \in Job /\ job.status = "interrupted" /\ job.base = disk[k].base
          /\ job.auto = disk[k].auto /\ job.candidate = disk[k].candidate
          /\ job.commit = disk[k].commit
      BY <2>1, <2>4 DEF Job, Finished
    <3> HIDE DEF job
    <3> QED
      BY <2>1, <2>4, <3>1, <3>2 DEF Unfinished
  <2> QED
    BY <2>2, <2>3, <2>4
<1>2. ASSUME NEW k \in Jobs
      PROVE  /\ disk[k] = NULL => disk'[k] = NULL /\ memory'[k] = NULL
             /\ k \in lost => disk'[k] = disk[k] /\ memory'[k] = NULL
             /\ disk[k] # NULL /\ k \notin lost => disk'[k] = Rec(k)
                                                   /\ memory'[k] = Rec(k)
             /\ k \in unsaved' <=> k \in unsaved \/ k \in lost
             /\ k \in unconfirmed' <=> k \in unconfirmed \/ k \in mute
  BY DEF Restart, GitFails
<1> HIDE DEF Rec
<1>3. Types'
  <2>1. \A k \in Jobs : disk[k] # NULL => Rec(k) \in Job
    BY <1>1
  <2>2. /\ disk' \in [Jobs -> Job \union {NULL}] /\ memory' \in [Jobs -> Job \union {NULL}]
        /\ unsaved' \subseteq Jobs /\ unconfirmed' \subseteq Jobs
    BY <2>1 DEF Restart, GitFails, Types, Rec
  <2> QED
    BY <1>0, <2>2 DEF Types, Restart
<1>4. ASSUME NEW k \in Jobs PROVE JobInv(k)'
  <2>1. (Landed(k)' <=> Landed(k)) /\ Tip' = Tip
    BY <1>0 DEF Landed, Tip, Last
  <2>2. asked[k] = NULL /\ thread[k] = NULL /\ asked'[k] = NULL /\ thread'[k] = NULL
    BY <1>0 DEF JobInv
  <2>3. Tip = k => Landed(k)
    BY TipLanded
  <2>4. CASE disk[k] = NULL
    <3>1. AtStep(k)' /\ AtTip(k)'
      BY <1>2, <2>1, <2>2, <2>3, <2>4 DEF AtStep, AtTip, JobInv
    <3> QED
      BY <1>0, <1>2, <2>1, <2>2, <2>4, <3>1 DEF JobInv
  <2>5. CASE disk[k] # NULL /\ k \in lost
    <3>1. AtStep(k)' /\ AtTip(k)'
      BY <1>2, <2>1, <2>2, <2>5 DEF AtStep, AtTip
    <3>2. Sound(k, disk[k])'
      BY <1>0, <1>2, <2>5 DEF JobInv, Sound, Fresh, Landed
    <3> QED
      BY <1>0, <1>2, <2>1, <2>2, <2>5, <3>1, <3>2 DEF JobInv
  <2>6. CASE disk[k] # NULL /\ k \notin lost
    <3>0. memory'[k] = disk'[k] /\ disk'[k] = Rec(k) /\ disk'[k] # NULL
      BY <1>1, <1>2, <2>6
    <3>1. AtStep(k)' /\ AtTip(k)'
      BY <1>0, <1>1, <1>2, <2>1, <2>2, <2>6, <3>0 DEF AtStep, AtTip, JobInv, Steps
    <3>2. Sound(k, disk[k])
      BY <2>6 DEF JobInv
    <3>3. Sound(k, disk[k])' /\ Sound(k, memory[k])'
      BY <1>0, <1>1, <2>3, <2>6, <3>0, <3>2 DEF Sound, Fresh, Landed
    <3> QED
      BY <1>0, <1>1, <1>2, <2>1, <2>2, <2>6, <3>0, <3>1, <3>3 DEF JobInv
  <2> QED
    BY <2>4, <2>5, <2>6
<1>5. Table'
  <2>1. Active' = {}
    BY <1>1, <1>2 DEF Active
  <2> QED
    BY <2>1, SmallerTable
<1>6. Pool'
  BY <1>0, SamePool DEF Busy
<1> QED
  BY <1>0, <1>3, <1>4, <1>5, <1>6, SameBranch

-----------------------------------------------------------------------------
(* The theorems.                                                           *)

LEMMA InitInv == ASSUME Init PROVE IInv
<1> USE DEF Init
<1>1. Types
  <2>1. up \in BOOLEAN /\ stopped \in BOOLEAN
    OBVIOUS
  <2> QED
    BY <2>1 DEF Types
<1>2. Branch /\ OnItsBase
  BY DEF Branch, OnItsBase
<1>3. \A j \in Jobs : JobInv(j)
  BY DEF JobInv, AtStep, AtTip, Landed, Tip
<1>4. Active = {} /\ Busy = {}
  BY DEF Active, Busy
<1>5. Table /\ Pool
  BY <1>4, FS_EmptySet DEF Table, Pool, OneAtATime
<1> QED
  BY <1>1, <1>2, <1>3, <1>5 DEF IInv

LEMMA StepInv == ASSUME IInv, [Next]_vars PROVE IInv'
<1>1. ASSUME NEW j \in Jobs, ThreadStep(j) PROVE IInv'
  BY <1>1, InvRun, InvGenerateFails, InvGenerate, InvPrepare, InvPrepareFails, InvUpdateRef,
     InvComplete, InvReview, InvFail DEF ThreadStep
<1>2. ASSUME NEW j \in Jobs, Capture(j) \/ Refuse(j) \/ Dismiss(j) PROVE IInv'
  BY <1>2, InvCapture, InvRefuse, InvDismiss
<1> QED
  BY <1>1, <1>2, InvStart, InvQuiet, InvUserCommit, InvExit, InvRestart DEF Next

\* The invariant holds in every state of the generation jobs.
THEOREM Invariant == Spec => []IInv
<1>1. Init => IInv
  BY InitInv
<1>2. IInv /\ [Next]_vars => IInv'
  BY StepInv
<1> QED
  BY <1>1, <1>2, PTL DEF Spec

\* Slots, threads and the table fit together: no failure loses or invents a
\* slot, a job that is not finished has a thread unless its save failed, and
\* there is never a second unfinished job of a kind.
THEOREM TableIsConsistent == Spec => []Consistent
<1>1. ASSUME IInv PROVE Consistent
  <2>1. \A j \in Active : thread[j] # NULL \/ j \in unsaved
    BY <1>1 DEF IInv, JobInv, Active
  <2>2. history \in Seq([id : Ids, base : Ids, tree : 0..MaxEdits])
    BY <1>1 DEF IInv, Types, Commit
  <2>3. free + Cardinality({j \in Jobs : thread[j] \notin {NULL, "queued"}}) = Slots
    BY <1>1 DEF IInv, Pool, Busy
  <2> QED
    BY <1>1, <2>1, <2>2, <2>3 DEF IInv, Types, Table, Consistent, TypeOK
<1> QED
  BY <1>1, Invariant, PTL

\* A job's commit has the parent it was generated for, and changes it: the
\* compare and swap of update-ref loses no commit the user makes meanwhile.
THEOREM CommitOnItsBase == Spec => []OnItsBase
<1>1. IInv => OnItsBase
  BY DEF IInv
<1> QED
  BY <1>1, Invariant, PTL

\* The table says of a commit what happened to the branch, across crashes
\* between the commit and the record of it: a job said to have committed has,
\* and a job whose commit the branch points to names it and is said to be
\* completed, unless Git failed when update-ref or __init__ asked it.
THEOREM BranchIsKnown == Spec => []CommitsAreKnown
<1>1. ASSUME IInv PROVE CommitsAreKnown
  <2>1. CompletedIsCommitted
    BY <1>1 DEF IInv, JobInv, Sound, CompletedIsCommitted
  <2>2. CommittedIsKnown
    BY <1>1 DEF IInv, JobInv, AtTip, CommittedIsKnown, Steps
  <2> QED
    BY <2>1, <2>2 DEF CommitsAreKnown
<1> QED
  BY <1>1, Invariant, PTL

\* The file of a finished job is not written by a thread.
LEMMA FinishedStep ==
  ASSUME IInv, Next, NEW j \in Jobs, j \notin unsaved, disk[j] # NULL, disk[j].status \in Finished
  PROVE  disk'[j].status = disk[j].status /\ disk'[j].commit = disk[j].commit
<1> USE DEF IInv
<1>1. thread[j] = NULL /\ disk[j].status \notin Unfinished /\ disk[j] \in Job /\ asked[j] = NULL
  BY DEF JobInv, AtStep, Finished, Unfinished, Types
<1>2. ASSUME NEW k \in Jobs, k # j, NEW job, NEW ok \in BOOLEAN, Save(k, job, ok) PROVE disk'[j] = disk[j]
  BY <1>2 DEF Save, Types
<1>3. ASSUME NEW k \in Jobs, ThreadStep(k) PROVE disk'[j] = disk[j]
  <2>1. k # j
    BY <1>1, <1>3 DEF ThreadStep, Run, GenerateFails, Generate, Prepare, PrepareFails, UpdateRef,
                      Complete, Review, Fail, Steps
  <2> QED
    BY <1>2, <1>3, <2>1 DEF ThreadStep, Run, GenerateFails, Generate, Prepare, PrepareFails,
                      UpdateRef, Complete, Review, Fail, Update, Conclude
<1>4. ASSUME NEW k \in Jobs, NEW auto \in BOOLEAN, NEW ok \in BOOLEAN, Start(k, auto, ok)
      PROVE  disk'[j] = disk[j]
  BY <1>1, <1>2, <1>4 DEF Start
<1>5. ASSUME NEW k \in Jobs, Dismiss(k)
      PROVE  disk'[j].status = disk[j].status /\ disk'[j].commit = disk[j].commit
  <2>1. CASE k # j
    BY <1>2, <1>5, <2>1 DEF Dismiss
  <2>2. CASE k = j
    <3> DEFINE job == [disk[j] EXCEPT !.dismissed = TRUE]
    <3>1. memory[j] = disk[j]
      BY <1>5, <2>2 DEF Dismiss, JobInv
    <3>2. job.status = disk[j].status /\ job.commit = disk[j].commit
      BY <1>1 DEF Job
    <3>3. disk'[j] \in {job, disk[j]}
      BY <1>5, <2>2, <3>1 DEF Dismiss, Save, Types
    <3> HIDE DEF job
    <3> QED
      BY <3>2, <3>3
  <2> QED
    BY <2>1, <2>2
<1>6. ASSUME NEW lost \in SUBSET Jobs, NEW mute \in SUBSET Jobs, Restart(lost, mute) PROVE disk'[j] = disk[j]
  BY <1>1, <1>6 DEF Restart, Recovered
<1>7. CASE Stage \/ UserCommit \/ Close \/ Exit \/ \E k \in Jobs : Capture(k) \/ Refuse(k)
  BY <1>7 DEF Stage, UserCommit, Close, Exit, Capture, Refuse
<1> QED
  BY <1>3, <1>4, <1>5, <1>6, <1>7 DEF Next

\* A finished job stays as it is, in the files too: a restart or a late thread
\* does not change what the user was told.
THEOREM FinishedIsFinal == Spec => FinishedStays
<1>1. IInv /\ [Next]_vars =>
        [\A j \in Jobs \ unsaved :
           disk[j] # NULL /\ disk[j].status \in Finished =>
             disk'[j].status = disk[j].status /\ disk'[j].commit = disk[j].commit]_vars
  BY FinishedStep
<1> QED
  BY <1>1, Invariant, PTL DEF Spec, FinishedStays
=============================================================================
