-------------------------- MODULE RunServiceProofs --------------------------
(***************************************************************************)
(* Proofs about RunService, for any number of processes, threads, runs,    *)
(* steps and revisions.                                                    *)
(*                                                                         *)
(* Who may save a run as a resume of r is a matter of who holds the lock   *)
(* of r and of what that call has seen, so the invariant follows the call: *)
(* from its claim to its release it holds the lock (Locked), and from its  *)
(* look for an earlier resume on, only its own run can be one (Alone).     *)
(* What a step does to the records is one of six kinds (Kind); that a kind *)
(* keeps the records in order is proved once for all the steps of it.      *)
(*                                                                         *)
(* That nobody resumes a run that is executed, and that a resumed run is   *)
(* left as it is, depends on what a copy still tells when it is judged.    *)
(* A second invariant (Dealings) follows the executing call and its        *)
(* record, and the copies that others have read of it.                     *)
(***************************************************************************)
EXTENDS RunService, TLAPS

USE ProcOfAssumption, BoundsAssumption, FlagsAssumption, NullAssumption, EndingsAssumption,
    NoRecordAssumption

\* Where a call has a run of its own.
Underway == Executing \union {"untrack"}

\* TypeOK in two halves.
RecordsTyped ==
  /\ disk \in [Runs -> Record \union {NULL}]
  /\ copy \in [Calls -> Record \union {NULL}]
  /\ live \in [Calls -> Record \union {NULL}]
ClaimsTyped ==
  /\ source \in 1..Revisions
  /\ alive \subseteq Procs
  /\ active \subseteq Runs
  /\ resuming \subseteq Procs \X Runs
  /\ lock \in [Runs -> Calls \union {NULL}]
  /\ pc \in [Calls -> Places]
  /\ settled \in [Calls -> BOOLEAN]
  /\ stop \subseteq Calls

\* The record read, the one in memory and the one on disk tell one story.
Story ==
  /\ \A r \in Runs : disk[r] # NULL => disk[r].run = r
  /\ \A c \in Calls : copy[c] # NULL =>
       disk[copy[c].run] # NULL /\ disk[copy[c].run].rev = copy[c].rev
  /\ \A c \in Calls : live[c] # NULL =>
       /\ live[c].from = IF copy[c] = NULL THEN NULL ELSE copy[c].run
       /\ copy[c] # NULL => live[c].rev = copy[c].rev
       /\ disk[live[c].run] # NULL =>
            disk[live[c].run].from = live[c].from /\ disk[live[c].run].rev = live[c].rev

\* No two calls have the same run.
Distinct ==
  \A c, d \in Calls : live[c] # NULL /\ live[d] # NULL /\ live[c].run = live[d].run => c = d

\* SameRevision, with the record it looks up.
Revised ==
  \A x \in Runs : disk[x] # NULL /\ disk[x].from # NULL =>
    disk[disk[x].from] # NULL /\ disk[disk[x].from].rev = disk[x].rev

Data == RecordsTyped /\ Story /\ Distinct /\ Revised

-----------------------------------------------------------------------------
(* The kinds of steps.                                                     *)

Alike(d, e) == d.run = e.run /\ d.from = e.from /\ d.rev = e.rev

Quiet == UNCHANGED <<disk, copy, live>>
Forget(c) ==
  /\ copy' = [copy EXCEPT ![c] = NULL]
  /\ live' = [live EXCEPT ![c] = NULL]
  /\ disk' = disk
Take(c, d) ==
  /\ disk[d.run] # NULL /\ disk[d.run].rev = d.rev
  /\ live[c] = NULL
  /\ copy' = [copy EXCEPT ![c] = d]
  /\ UNCHANGED <<disk, live>>
Open(c, d) ==
  /\ live[c] = NULL
  /\ Unused(d.run)
  /\ d.from = IF copy[c] = NULL THEN NULL ELSE copy[c].run
  /\ copy[c] # NULL => d.rev = copy[c].rev
  /\ live' = [live EXCEPT ![c] = d]
  /\ UNCHANGED <<disk, copy>>
Note(c, d) ==
  /\ live[c] # NULL
  /\ Alike(d, live[c])
  /\ live' = [live EXCEPT ![c] = d]
  /\ UNCHANGED <<disk, copy>>
Store(c, d, e) ==
  /\ live[c] # NULL
  /\ Alike(d, live[c]) /\ Alike(e, live[c])
  /\ live' = [live EXCEPT ![c] = d]
  /\ disk' = [disk EXCEPT ![live[c].run] = e]
  /\ UNCHANGED copy

Kind(c) ==
  \/ Quiet \/ Forget(c)
  \/ \E d \in Record : Take(c, d) \/ Open(c, d) \/ Note(c, d)
  \/ \E d, e \in Record : Store(c, d, e)

\* A record has the fields it should have.
LEMMA Fields ==
  ASSUME NEW d \in Record
  PROVE  d.run \in Runs /\ d.from \in Runs \union {NULL} /\ d # NULL
BY DEF Record

\* Every kind of step keeps the records in order.
LEMMA KindInv == ASSUME Data, NEW c \in Calls, Kind(c) PROVE Data'
<1> USE DEF Data, RecordsTyped
<1>1. CASE Quiet
  BY <1>1 DEF Quiet, Story, Distinct, Revised
<1>2. CASE Forget(c)
  BY <1>2 DEF Forget, Story, Distinct, Revised
<1>3. ASSUME NEW d \in Record, Take(c, d) PROVE Data'
  BY <1>3, Fields DEF Take, Story, Distinct, Revised
<1>4. ASSUME NEW d \in Record, Open(c, d) PROVE Data'
  BY <1>4, Fields DEF Open, Unused, Story, Distinct, Revised
<1>5. ASSUME NEW d \in Record, Note(c, d) PROVE Data'
  BY <1>5, Fields DEF Note, Alike, Story, Distinct, Revised
<1>6. ASSUME NEW d \in Record, NEW e \in Record, Store(c, d, e) PROVE Data'
  <2> USE <1>6 DEF Store, Alike
  <2>1. live[c] \in Record /\ live[c].run \in Runs /\ d.run \in Runs /\ e # NULL /\ d # NULL
    BY Fields
  <2>2. RecordsTyped'
    BY <2>1
  <2>3. Story'
    BY <2>1 DEF Story, Distinct
  <2>4. Distinct'
    BY <2>1 DEF Distinct
  <2>5. Revised'
    BY <2>1, Fields DEF Revised, Story
  <2> QED
    BY <2>2, <2>3, <2>4, <2>5
<1> QED
  BY <1>1, <1>2, <1>3, <1>4, <1>5, <1>6 DEF Kind

-----------------------------------------------------------------------------
(* The places of the calls.                                                *)

\* A call that resumes has a record to resume, and one that runs has its own.
Given ==
  \A c \in Calls :
    /\ pc[c] \in {"judge", "reserve", "claim", "child", "unlock", "unreserve"} => copy[c] # NULL
    /\ pc[c] \in Underway => live[c] # NULL
    /\ pc[c] \in {"idle", "judge", "reserve", "claim", "child", "compile", "dead"} => live[c] = NULL
    /\ pc[c] = "idle" => copy[c] = NULL

\* A step is only started when one is left.
StepLeft == \A c \in Calls : pc[c] = "step" => live[c].done < Steps

\* A call holds the lock of the run it resumes from its claim to its release.
Locked == \A c \in Calls : pc[c] \in Claimed /\ copy[c] # NULL => lock[copy[c].run] = c

Basis == Data /\ ClaimsTyped /\ Given /\ StepLeft /\ Locked

\* From here on only the call's own run may count as a resume.
Bound == Underway \union {"compile"}

\* A step of call c leaves the other calls alone, saves only while it executes,
\* and is bound only after it has found no earlier resume.
Course(c) ==
  /\ \A d \in Calls \ {c} : pc'[d] = pc[d] /\ copy'[d] = copy[d] /\ live'[d] = live[d]
  /\ disk' # disk => pc[c] \in Executing
  /\ pc'[c] \in Bound /\ copy'[c] # NULL =>
       /\ copy'[c] = copy[c]
       /\ pc[c] \in Bound \/ ResumedChildren(copy[c].run) = {}

\* What the steps make of a record is a record of the same run.
LEMMA Changed ==
  ASSUME NEW d \in Record, NEW s \in Status, NEW e \in Errors \union {NULL}
  PROVE  LET f == [d EXCEPT !.status = s, !.error = e]
             g == [d EXCEPT !.status = s]
             h == [d EXCEPT !.pid = NULL]
         IN /\ f \in Record /\ Alike(f, d)
            /\ g \in Record /\ Alike(g, d)
            /\ h \in Record /\ Alike(h, d)
BY DEF Record, Alike

\* Concluding a run only changes the record in memory.
LEMMA NoteConclude ==
  ASSUME Data, NEW c \in Calls, live[c] # NULL,
         NEW s \in Status, NEW e \in Errors \union {NULL},
         Conclude(c, s, e), UNCHANGED <<disk, copy>>
  PROVE  Kind(c) /\ live'[c] # NULL
<1> DEFINE d == [live[c] EXCEPT !.status = s, !.error = e]
<1>1. live[c] \in Record
  BY DEF Data, RecordsTyped
<1>2. d \in Record /\ Alike(d, live[c])
  BY <1>1, Changed
<1>3. live' = [live EXCEPT ![c] = d]
  BY DEF Conclude
<1> HIDE DEF d
<1> QED
  BY <1>2, <1>3 DEF Kind, Note, Data, RecordsTyped

\* Saving a record of the call's own run, whatever the call keeps in memory.
LEMMA StoreSaved ==
  ASSUME Data, NEW c \in Calls, live[c] # NULL,
         NEW d \in Record, NEW e \in Record, Alike(d, live[c]), Alike(e, live[c]),
         Save(e), live' = [live EXCEPT ![c] = d], UNCHANGED copy
  PROVE  Kind(c) /\ live'[c] # NULL
<1>1. Store(c, d, e)
  BY DEF Store, Save, Alike
<1> QED
  BY <1>1 DEF Kind, Data, RecordsTyped

\* A new run begins.
LEMMA BasisNewRun ==
  ASSUME Basis, NEW c \in Calls, NewRun(c)
  PROVE Kind(c) /\ Course(c) /\ Basis'
<1> USE DEF Basis
<1>0. Kind(c)
  BY DEF Kind, Quiet, Forget, NewRun, Go, fileVars, callVars, Data, RecordsTyped, Given
<1>1. Data'
  BY <1>0, KindInv
<1>2. ClaimsTyped'
  BY DEF ClaimsTyped, Places, Reserved, Claimed, Executing, Data, RecordsTyped, Given, NewRun,
     Go, fileVars, claimVars, callVars
<1>3. Given'
  BY <1>0, <1>1 DEF Given, Data, RecordsTyped, Executing, Underway, ClaimsTyped, NewRun, Go,
     fileVars, claimVars, callVars
<1>4. StepLeft'
  BY DEF StepLeft, ClaimsTyped, Data, RecordsTyped, NewRun, Go, fileVars, claimVars, callVars
<1>5. Locked'
  BY <1>1, Fields DEF Locked, Data, RecordsTyped, ClaimsTyped, Given, Claimed, Executing,
     Underway, NewRun, Go, fileVars, claimVars, callVars
<1>6. Course(c)
  BY DEF Course, Given, Data, RecordsTyped, ClaimsTyped, Bound, Executing, Underway, NewRun, Go,
     fileVars, callVars
<1> QED
  BY <1>0, <1>1, <1>2, <1>3, <1>4, <1>5, <1>6

\* A saved run is read for a resume.
LEMMA BasisReadRecord ==
  ASSUME Basis, NEW c \in Calls, NEW r \in Runs, ReadRecord(c, r)
  PROVE Kind(c) /\ Course(c) /\ Basis'
<1> USE DEF Basis
<1>0. Kind(c) /\ copy'[c] # NULL
  <2> DEFINE d == disk[r]
  <2>1. d \in Record /\ disk[d.run] # NULL /\ disk[d.run].rev = d.rev
    BY DEF ReadRecord, Data, RecordsTyped, Story
  <2>2. copy' = [copy EXCEPT ![c] = d] /\ UNCHANGED <<disk, live>> /\ live[c] = NULL
    BY DEF ReadRecord, fileVars, claimVars, Given
  <2> HIDE DEF d
  <2> QED
    BY <2>1, <2>2 DEF Kind, Take, Data, RecordsTyped
<1>1. Data'
  BY <1>0, KindInv
<1>2. ClaimsTyped'
  BY DEF ClaimsTyped, Places, Reserved, Claimed, Executing, Data, RecordsTyped, Given,
     ReadRecord, Go, fileVars, claimVars
<1>3. Given'
  BY <1>0, <1>1 DEF Given, Data, RecordsTyped, Executing, Underway, ClaimsTyped, ReadRecord, Go,
     fileVars, claimVars
<1>4. StepLeft'
  BY DEF StepLeft, ClaimsTyped, Data, RecordsTyped, ReadRecord, Go, fileVars, claimVars
<1>5. Locked'
  BY <1>1, Fields DEF Locked, Data, RecordsTyped, ClaimsTyped, Given, Claimed, Executing,
     Underway, ReadRecord, Go, fileVars, claimVars
<1>6. Course(c)
  BY DEF Course, Given, Data, RecordsTyped, ClaimsTyped, Bound, Executing, Underway, ReadRecord,
     Go, fileVars
<1> QED
  BY <1>0, <1>1, <1>2, <1>3, <1>4, <1>5, <1>6

\* The record is read once more.
LEMMA BasisReadAgain ==
  ASSUME Basis, NEW c \in Calls, ReadAgain(c)
  PROVE Kind(c) /\ Course(c) /\ Basis'
<1> USE DEF Basis
<1>0. Kind(c) /\ copy'[c] # NULL
  <2> DEFINE d == disk[copy[c].run]
  <2>1. d \in Record /\ disk[d.run] # NULL /\ disk[d.run].rev = d.rev
    BY Fields DEF ReadAgain, Data, RecordsTyped, Story, Given
  <2>2. copy' = [copy EXCEPT ![c] = d] /\ UNCHANGED <<disk, live>> /\ live[c] = NULL
    BY DEF ReadAgain, fileVars, claimVars, Given
  <2> HIDE DEF d
  <2> QED
    BY <2>1, <2>2 DEF Kind, Take, Data, RecordsTyped
<1>1. Data'
  BY <1>0, KindInv
<1>2. ClaimsTyped'
  BY DEF ClaimsTyped, Places, Reserved, Claimed, Executing, Data, RecordsTyped, Given,
     ReadAgain, fileVars, claimVars
<1>3. Given'
  BY <1>0, <1>1 DEF Given, Data, RecordsTyped, Executing, Underway, ClaimsTyped, ReadAgain,
     fileVars, claimVars
<1>4. StepLeft'
  BY DEF StepLeft, ClaimsTyped, Data, RecordsTyped, ReadAgain, fileVars, claimVars
<1>5. Locked'
  BY <1>1, Fields DEF Locked, Data, RecordsTyped, ClaimsTyped, Given, Claimed, Executing,
     Underway, ReadAgain, fileVars, claimVars
<1>6. Course(c)
  BY DEF Course, Given, Data, RecordsTyped, ClaimsTyped, Bound, Executing, Underway, ReadAgain,
     fileVars
<1> QED
  BY <1>0, <1>1, <1>2, <1>3, <1>4, <1>5, <1>6

\* The record gets the status its runner justifies.
LEMMA BasisJudge ==
  ASSUME Basis, NEW c \in Calls, Judge(c)
  PROVE Kind(c) /\ Course(c) /\ Basis'
<1> USE DEF Basis
<1>0. Kind(c) /\ copy'[c] # NULL
  <2> DEFINE d == [copy[c] EXCEPT !.status = EffectiveRunStatus(ProcOf[c], copy[c])]
  <2>1. d \in Record /\ disk[d.run] # NULL /\ disk[d.run].rev = d.rev
    <3>1. copy[c] \in Record
      BY DEF Judge, Given, Data, RecordsTyped
    <3>2. EffectiveRunStatus(ProcOf[c], copy[c]) \in Status
      BY <3>1 DEF EffectiveRunStatus, Record, Status, Resumable
    <3>3. Alike(d, copy[c]) /\ d \in Record
      BY <3>1, <3>2, Changed
    <3> QED
      BY <3>1, <3>3 DEF Alike, Data, Story
  <2>2. copy' = [copy EXCEPT ![c] = d] /\ UNCHANGED <<disk, live>> /\ live[c] = NULL
    BY DEF Judge, fileVars, claimVars, Given
  <2> HIDE DEF d
  <2> QED
    BY <2>1, <2>2 DEF Kind, Take, Data, RecordsTyped
<1>1. Data'
  BY <1>0, KindInv
<1>2. ClaimsTyped'
  BY DEF ClaimsTyped, Places, Reserved, Claimed, Executing, Data, RecordsTyped, Given, Judge,
     Go, fileVars, claimVars
<1>3. Given'
  BY <1>0, <1>1 DEF Given, Data, RecordsTyped, Executing, Underway, ClaimsTyped, Judge, Go,
     fileVars, claimVars
<1>4. StepLeft'
  BY DEF StepLeft, ClaimsTyped, Data, RecordsTyped, Judge, Go, fileVars, claimVars
<1>5. Locked'
  BY <1>1, Fields DEF Locked, Data, RecordsTyped, ClaimsTyped, Given, Claimed, Executing,
     Underway, Judge, Go, fileVars, claimVars
<1>6. Course(c)
  BY DEF Course, Given, Data, RecordsTyped, ClaimsTyped, Bound, Executing, Underway, Judge, Go,
     fileVars
<1> QED
  BY <1>0, <1>1, <1>2, <1>3, <1>4, <1>5, <1>6

\* The resume is reserved in its process, or refused.
LEMMA BasisReserve ==
  ASSUME Basis, NEW c \in Calls, Reserve(c)
  PROVE Kind(c) /\ Course(c) /\ Basis'
<1> USE DEF Basis
<1>0. Kind(c)
  BY DEF Kind, Quiet, Forget, Reserve, Go, Return, fileVars, callVars, Data, RecordsTyped, Given
<1>1. Data'
  BY <1>0, KindInv
<1>2. ClaimsTyped'
  <2>1. Reservation(c) \in Procs \X Runs
    BY Fields DEF Reserve, Reservation, Given, Data, RecordsTyped
  <2> QED
    BY <2>1, Fields DEF ClaimsTyped, Places, Reserved, Claimed, Executing, Data, RecordsTyped,
       Given, Reserve, Go, Return, Reservation, fileVars, callVars
<1>3. Given'
  BY <1>0, <1>1 DEF Given, Data, RecordsTyped, Executing, Underway, ClaimsTyped, Reserve, Go,
     Return, Reservation, fileVars, callVars
<1>4. StepLeft'
  BY DEF StepLeft, ClaimsTyped, Data, RecordsTyped, Reserve, Go, Return, fileVars, callVars
<1>5. Locked'
  BY <1>1, Fields DEF Locked, Data, RecordsTyped, ClaimsTyped, Given, Claimed, Executing,
     Underway, Reserve, Go, Return, fileVars, callVars
<1>6. Course(c)
  BY DEF Course, Given, Data, RecordsTyped, ClaimsTyped, Bound, Executing, Underway, Reserve,
     Go, Return, fileVars, callVars
<1> QED
  BY <1>0, <1>1, <1>2, <1>3, <1>4, <1>5, <1>6

\* The lock file is taken, or held by another.
LEMMA BasisClaim ==
  ASSUME Basis, NEW c \in Calls, Claim(c)
  PROVE Kind(c) /\ Course(c) /\ Basis'
<1> USE DEF Basis
<1>0. Kind(c)
  BY DEF Kind, Quiet, Forget, Claim, Go, fileVars, callVars, Data, RecordsTyped, Given
<1>1. Data'
  BY <1>0, KindInv
<1>2. ClaimsTyped'
  BY DEF ClaimsTyped, Places, Reserved, Claimed, Executing, Data, RecordsTyped, Given, Claim,
     Go, fileVars, callVars
<1>3. Given'
  BY <1>0, <1>1 DEF Given, Data, RecordsTyped, Executing, Underway, ClaimsTyped, Claim, Go,
     fileVars, callVars
<1>4. StepLeft'
  BY DEF StepLeft, ClaimsTyped, Data, RecordsTyped, Claim, Go, fileVars, callVars
<1>5. Locked'
  BY <1>1, Fields DEF Locked, Data, RecordsTyped, ClaimsTyped, Given, Claimed, Executing,
     Underway, Claim, Go, fileVars, callVars
<1>6. Course(c)
  BY DEF Course, Given, Data, RecordsTyped, ClaimsTyped, Bound, Executing, Underway, Claim, Go,
     fileVars, callVars
<1> QED
  BY <1>0, <1>1, <1>2, <1>3, <1>4, <1>5, <1>6

\* The call looks for an earlier resume.
LEMMA BasisCheckChild ==
  ASSUME Basis, NEW c \in Calls, CheckChild(c)
  PROVE Kind(c) /\ Course(c) /\ Basis'
<1> USE DEF Basis
<1>0. Kind(c)
  BY DEF Kind, Quiet, Forget, CheckChild, Go, fileVars, callVars, Data, RecordsTyped, Given
<1>1. Data'
  BY <1>0, KindInv
<1>2. ClaimsTyped'
  BY DEF ClaimsTyped, Places, Reserved, Claimed, Executing, Data, RecordsTyped, Given,
     CheckChild, Go, fileVars, claimVars, callVars
<1>3. Given'
  BY <1>0, <1>1 DEF Given, Data, RecordsTyped, Executing, Underway, ClaimsTyped, CheckChild, Go,
     fileVars, claimVars, callVars
<1>4. StepLeft'
  BY DEF StepLeft, ClaimsTyped, Data, RecordsTyped, CheckChild, Go, fileVars, claimVars,
     callVars
<1>5. Locked'
  BY <1>1, Fields DEF Locked, Data, RecordsTyped, ClaimsTyped, Given, Claimed, Executing,
     Underway, CheckChild, Go, fileVars, claimVars, callVars
<1>6. Course(c)
  BY DEF Course, Given, Data, RecordsTyped, ClaimsTyped, Bound, Executing, Underway, CheckChild,
     Go, fileVars, callVars
<1> QED
  BY <1>0, <1>1, <1>2, <1>3, <1>4, <1>5, <1>6

\* The run is refused.
LEMMA BasisRefuse ==
  ASSUME Basis, NEW c \in Calls, Refuse(c)
  PROVE Kind(c) /\ Course(c) /\ Basis'
<1> USE DEF Basis
<1>0. Kind(c)
  BY DEF Kind, Quiet, Forget, Refuse, Go, Return, Leave, fileVars, callVars, Data, RecordsTyped,
     Given
<1>1. Data'
  BY <1>0, KindInv
<1>2. ClaimsTyped'
  BY DEF ClaimsTyped, Places, Reserved, Claimed, Executing, Data, RecordsTyped, Given, Refuse,
     Go, Return, Leave, fileVars, claimVars, callVars
<1>3. Given'
  BY <1>0, <1>1 DEF Given, Data, RecordsTyped, Executing, Underway, ClaimsTyped, Refuse, Go,
     Return, Leave, fileVars, claimVars, callVars
<1>4. StepLeft'
  BY DEF StepLeft, ClaimsTyped, Data, RecordsTyped, Refuse, Go, Return, Leave, fileVars,
     claimVars, callVars
<1>5. Locked'
  BY <1>1, Fields DEF Locked, Data, RecordsTyped, ClaimsTyped, Given, Claimed, Executing,
     Underway, Refuse, Go, Return, Leave, fileVars, claimVars, callVars
<1>6. Course(c)
  BY DEF Course, Given, Data, RecordsTyped, ClaimsTyped, Bound, Executing, Underway, Refuse, Go,
     Return, Leave, fileVars, callVars
<1> QED
  BY <1>0, <1>1, <1>2, <1>3, <1>4, <1>5, <1>6

\* The run gets its id: the one step that opens a record.
LEMMA BasisLaunch ==
  ASSUME Basis, NEW c \in Calls, Launch(c)
  PROVE Kind(c) /\ Course(c) /\ Basis'
<1> USE DEF Basis
<1>0. Kind(c) /\ live'[c] # NULL
  <2>1. PICK x \in Runs :
          /\ Unused(x)
          /\ \/ live' = [live EXCEPT ![c] = NewRecord(c, x)]
             \/ live' = [live EXCEPT ![c] = [NewRecord(c, x) EXCEPT !.status = "preflight_failed"]]
    BY DEF Launch
  <2> DEFINE d == NewRecord(c, x)
             e == [NewRecord(c, x) EXCEPT !.status = "preflight_failed"]
  <2>2. copy[c] # NULL => copy[c].run \in Runs
    BY Fields DEF Data, RecordsTyped
  <2>3. /\ d \in Record /\ d.run = x /\ d.rev = source
        /\ d.from = IF copy[c] = NULL THEN NULL ELSE copy[c].run
    BY <2>2 DEF NewRecord, Record, ClaimsTyped, NeverStarted, Resumable, Deterministic, Status,
       Errors
  <2>4. e \in Record /\ Alike(e, d)
    BY <2>3, Changed DEF NeverStarted, Resumable, Deterministic, Status, Errors
  <2>5. copy[c] # NULL => copy[c].rev = source
    BY DEF Launch, Refused
  <2>6. UNCHANGED <<disk, copy>>
    BY DEF Launch, fileVars
  <2>7. live' = [live EXCEPT ![c] = d] \/ live' = [live EXCEPT ![c] = e]
    BY <2>1
  <2> HIDE DEF d, e
  <2>8. Open(c, d) \/ Open(c, e)
    BY <2>1, <2>3, <2>4, <2>5, <2>6, <2>7 DEF Open, Alike, Launch, Given
  <2> QED
    BY <2>3, <2>4, <2>7, <2>8 DEF Kind, Data, RecordsTyped
<1>1. Data'
  BY <1>0, KindInv
<1>2. ClaimsTyped'
  BY DEF ClaimsTyped, Places, Reserved, Claimed, Executing, Data, RecordsTyped, Given, Launch,
     Go, fileVars
<1>3. Given'
  BY <1>0, <1>1 DEF Given, Data, RecordsTyped, Executing, Underway, ClaimsTyped, Launch, Go,
     Unused, fileVars
<1>4. StepLeft'
  BY DEF StepLeft, ClaimsTyped, Data, RecordsTyped, Launch, Go, fileVars
<1>5. Locked'
  BY <1>1, Fields DEF Locked, Data, RecordsTyped, ClaimsTyped, Given, Claimed, Executing,
     Underway, Launch, Go, fileVars
<1>6. Course(c)
  BY DEF Course, Given, Data, RecordsTyped, ClaimsTyped, Bound, Executing, Underway, Launch, Go,
     fileVars
<1> QED
  BY <1>0, <1>1, <1>2, <1>3, <1>4, <1>5, <1>6

\* The inputs do not fit.
LEMMA BasisInvalidInputs ==
  ASSUME Basis, NEW c \in Calls, InvalidInputs(c)
  PROVE Kind(c) /\ Course(c) /\ Basis'
<1> USE DEF Basis
<1>0. Kind(c) /\ live'[c] # NULL
  BY NoteConclude DEF InvalidInputs, fileVars, claimVars, Given, Underway, Executing,
     NeverStarted, Resumable, Deterministic, Status, Errors
<1>1. Data'
  BY <1>0, KindInv
<1>2. ClaimsTyped'
  BY DEF ClaimsTyped, Places, Reserved, Claimed, Executing, Data, RecordsTyped, Given,
     InvalidInputs, Go, Conclude, fileVars, claimVars
<1>3. Given'
  BY <1>0, <1>1 DEF Given, Data, RecordsTyped, Executing, Underway, ClaimsTyped, InvalidInputs,
     Go, Conclude, fileVars, claimVars
<1>4. StepLeft'
  BY DEF StepLeft, ClaimsTyped, Data, RecordsTyped, InvalidInputs, Go, Conclude, fileVars,
     claimVars
<1>5. Locked'
  BY <1>1, Fields DEF Locked, Data, RecordsTyped, ClaimsTyped, Given, Claimed, Executing,
     Underway, InvalidInputs, Go, Conclude, fileVars, claimVars
<1>6. Course(c)
  BY DEF Course, Given, Data, RecordsTyped, ClaimsTyped, Bound, Executing, Underway,
     InvalidInputs, Go, Conclude, fileVars
<1> QED
  BY <1>0, <1>1, <1>2, <1>3, <1>4, <1>5, <1>6

\* The first record is saved, if the disk lets it.
LEMMA BasisWriteLive ==
  ASSUME Basis, NEW c \in Calls, WriteLive(c)
  PROVE Kind(c) /\ Course(c) /\ Basis'
<1> USE DEF Basis
<1>0. Kind(c) /\ live'[c] # NULL
  <2>1. live[c] \in Record /\ Alike(live[c], live[c])
    BY DEF WriteLive, Data, RecordsTyped, Given, Underway, Executing, Alike
  <2>2. CASE Save(live[c]) /\ Conclude(c, "stopped", NULL)
    <3> DEFINE d == [live[c] EXCEPT !.status = "stopped", !.error = NULL]
    <3>1. d \in Record /\ Alike(d, live[c])
      BY <2>1, Changed DEF NeverStarted, Resumable, Deterministic, Status, Errors
    <3>2. live' = [live EXCEPT ![c] = d] /\ UNCHANGED copy
      BY <2>2 DEF WriteLive, Conclude
    <3> HIDE DEF d
    <3> QED
      BY <2>1, <2>2, <3>1, <3>2, StoreSaved
  <2>3. CASE Save(live[c]) /\ UNCHANGED live
    <3>1. live' = [live EXCEPT ![c] = live[c]] /\ UNCHANGED copy
      BY <2>3 DEF WriteLive, Data, RecordsTyped
    <3> QED
      BY <2>1, <2>3, <3>1, StoreSaved
  <2>4. CASE Conclude(c, "failed", "unexpected") /\ UNCHANGED disk
    BY <2>1, <2>4, NoteConclude DEF WriteLive, NeverStarted, Resumable, Deterministic, Status,
       Errors
  <2> QED
    BY <2>2, <2>3, <2>4 DEF WriteLive
<1>1. Data'
  BY <1>0, KindInv
<1>2. ClaimsTyped'
  BY DEF ClaimsTyped, Places, Reserved, Claimed, Executing, Data, RecordsTyped, Given,
     WriteLive, Go, Conclude, claimVars
<1>3. Given'
  BY <1>0, <1>1 DEF Given, Data, RecordsTyped, Executing, Underway, ClaimsTyped, WriteLive, Go,
     Conclude, claimVars
<1>4. StepLeft'
  BY DEF StepLeft, ClaimsTyped, Data, RecordsTyped, WriteLive, Go, Conclude, claimVars
<1>5. Locked'
  BY <1>1, Fields DEF Locked, Data, RecordsTyped, ClaimsTyped, Given, Claimed, Executing,
     Underway, WriteLive, Go, Conclude, claimVars
<1>6. Course(c)
  BY DEF Course, Given, Data, RecordsTyped, ClaimsTyped, Bound, Executing, Underway, WriteLive,
     Go, Conclude, Save
<1> QED
  BY <1>0, <1>1, <1>2, <1>3, <1>4, <1>5, <1>6

\* A saved result is replayed; the counter stays in range.
LEMMA BasisReplayStep ==
  ASSUME Basis, NEW c \in Calls, ReplayStep(c)
  PROVE Kind(c) /\ Course(c) /\ Basis'
<1> USE DEF Basis
<1>0. Kind(c) /\ live'[c] # NULL
  <2> DEFINE d == [live[c] EXCEPT !.done = @ + 1, !.begun = TRUE]
  <2>1. live[c] \in Record
    BY DEF ReplayStep, Data, RecordsTyped, Given, Underway, Executing
  <2>2. live[c].done + 1 \in 0..Steps
    <3>1. copy[c] # NULL => copy[c].done \in 0..Steps
      BY DEF Data, RecordsTyped, Record
    <3>2. live[c].done \in 0..Steps
      BY <2>1 DEF Record
    <3> QED
      BY <3>1, <3>2 DEF ReplayStep, Reusable
  <2>3. d \in Record /\ Alike(d, live[c])
    <3>1. d = [live[c] EXCEPT !.done = live[c].done + 1, !.begun = TRUE]
      BY <2>1 DEF Record
    <3> QED
      BY <2>1, <2>2, <3>1 DEF Record, Alike
  <2>4. Save(d) /\ live' = [live EXCEPT ![c] = d] /\ UNCHANGED copy
    BY DEF ReplayStep, Publish, claimVars
  <2> HIDE DEF d
  <2> QED
    BY <2>1, <2>3, <2>4, StoreSaved
<1>1. Data'
  BY <1>0, KindInv
<1>2. ClaimsTyped'
  BY DEF ClaimsTyped, Places, Reserved, Claimed, Executing, Data, RecordsTyped, Given,
     ReplayStep, claimVars
<1>3. Given'
  BY <1>0, <1>1 DEF Given, Data, RecordsTyped, Executing, Underway, ClaimsTyped, ReplayStep,
     Publish, claimVars
<1>4. StepLeft'
  BY DEF StepLeft, ClaimsTyped, Data, RecordsTyped, ReplayStep, Publish, Reusable, claimVars
<1>5. Locked'
  BY <1>1, Fields DEF Locked, Data, RecordsTyped, ClaimsTyped, Given, Claimed, Executing,
     Underway, ReplayStep, claimVars
<1>6. Course(c)
  BY DEF Course, Given, Data, RecordsTyped, ClaimsTyped, Bound, Executing, Underway, ReplayStep,
     Save, Publish
<1> QED
  BY <1>0, <1>1, <1>2, <1>3, <1>4, <1>5, <1>6

\* A step starts.
LEMMA BasisStartStep ==
  ASSUME Basis, NEW c \in Calls, StartStep(c)
  PROVE Kind(c) /\ Course(c) /\ Basis'
<1> USE DEF Basis
<1>0. Kind(c) /\ live'[c] # NULL
  <2> DEFINE d == [live[c] EXCEPT !.begun = TRUE]
  <2>1. live[c] \in Record
    BY DEF StartStep, Data, RecordsTyped, Given, Underway, Executing
  <2>2. d \in Record /\ Alike(d, live[c])
    BY <2>1 DEF StartStep, Record, Alike
  <2>3. Save(d) /\ live' = [live EXCEPT ![c] = d] /\ UNCHANGED copy
    BY DEF StartStep, Publish, claimVars
  <2> HIDE DEF d
  <2> QED
    BY <2>1, <2>2, <2>3, StoreSaved
<1>1. Data'
  BY <1>0, KindInv
<1>2. ClaimsTyped'
  BY DEF ClaimsTyped, Places, Reserved, Claimed, Executing, Data, RecordsTyped, Given,
     StartStep, Go, claimVars
<1>3. Given'
  BY <1>0, <1>1 DEF Given, Data, RecordsTyped, Executing, Underway, ClaimsTyped, StartStep, Go,
     Publish, claimVars
<1>4. StepLeft'
  BY DEF StepLeft, ClaimsTyped, Data, RecordsTyped, StartStep, Go, Publish, Reusable, claimVars
<1>5. Locked'
  BY <1>1, Fields DEF Locked, Data, RecordsTyped, ClaimsTyped, Given, Claimed, Executing,
     Underway, StartStep, Go, claimVars
<1>6. Course(c)
  BY DEF Course, Given, Data, RecordsTyped, ClaimsTyped, Bound, Executing, Underway, StartStep,
     Go, Save, Publish
<1> QED
  BY <1>0, <1>1, <1>2, <1>3, <1>4, <1>5, <1>6

\* A step finishes; the counter stays in range by StepLeft.
LEMMA BasisFinishStep ==
  ASSUME Basis, NEW c \in Calls, FinishStep(c)
  PROVE Kind(c) /\ Course(c) /\ Basis'
<1> USE DEF Basis
<1>0. Kind(c) /\ live'[c] # NULL
  <2> DEFINE d == [live[c] EXCEPT !.done = @ + 1]
  <2>1. live[c] \in Record
    BY DEF FinishStep, Data, RecordsTyped, Given, Underway, Executing
  <2>2. d \in Record /\ Alike(d, live[c])
    BY <2>1 DEF FinishStep, Record, Alike, StepLeft
  <2>3. Save(d) /\ live' = [live EXCEPT ![c] = d] /\ UNCHANGED copy
    BY DEF FinishStep, Publish, claimVars
  <2> HIDE DEF d
  <2> QED
    BY <2>1, <2>2, <2>3, StoreSaved
<1>1. Data'
  BY <1>0, KindInv
<1>2. ClaimsTyped'
  BY DEF ClaimsTyped, Places, Reserved, Claimed, Executing, Data, RecordsTyped, Given,
     FinishStep, Go, claimVars
<1>3. Given'
  BY <1>0, <1>1 DEF Given, Data, RecordsTyped, Executing, Underway, ClaimsTyped, FinishStep, Go,
     Publish, claimVars
<1>4. StepLeft'
  BY DEF StepLeft, ClaimsTyped, Data, RecordsTyped, FinishStep, Go, Publish, claimVars
<1>5. Locked'
  BY <1>1, Fields DEF Locked, Data, RecordsTyped, ClaimsTyped, Given, Claimed, Executing,
     Underway, FinishStep, Go, claimVars
<1>6. Course(c)
  BY DEF Course, Given, Data, RecordsTyped, ClaimsTyped, Bound, Executing, Underway, FinishStep,
     Go, Save, Publish
<1> QED
  BY <1>0, <1>1, <1>2, <1>3, <1>4, <1>5, <1>6

\* A step fails.
LEMMA BasisFailStep ==
  ASSUME Basis, NEW c \in Calls, FailStep(c)
  PROVE Kind(c) /\ Course(c) /\ Basis'
<1> USE DEF Basis
<1>0. Kind(c) /\ live'[c] # NULL
  BY NoteConclude DEF FailStep, fileVars, claimVars, Given, Underway, Executing, NeverStarted,
     Resumable, Deterministic, Status, Errors
<1>1. Data'
  BY <1>0, KindInv
<1>2. ClaimsTyped'
  BY DEF ClaimsTyped, Places, Reserved, Claimed, Executing, Data, RecordsTyped, Given, FailStep,
     Go, Conclude, fileVars, claimVars
<1>3. Given'
  BY <1>0, <1>1 DEF Given, Data, RecordsTyped, Executing, Underway, ClaimsTyped, FailStep, Go,
     Conclude, fileVars, claimVars
<1>4. StepLeft'
  BY DEF StepLeft, ClaimsTyped, Data, RecordsTyped, FailStep, Go, Conclude, fileVars, claimVars
<1>5. Locked'
  BY <1>1, Fields DEF Locked, Data, RecordsTyped, ClaimsTyped, Given, Claimed, Executing,
     Underway, FailStep, Go, Conclude, fileVars, claimVars
<1>6. Course(c)
  BY DEF Course, Given, Data, RecordsTyped, ClaimsTyped, Bound, Executing, Underway, FailStep,
     Go, Conclude, fileVars
<1> QED
  BY <1>0, <1>1, <1>2, <1>3, <1>4, <1>5, <1>6

\* An event cannot be saved.
LEMMA BasisPublishFails ==
  ASSUME Basis, NEW c \in Calls, PublishFails(c)
  PROVE Kind(c) /\ Course(c) /\ Basis'
<1> USE DEF Basis
<1>0. Kind(c) /\ live'[c] # NULL
  BY NoteConclude DEF PublishFails, fileVars, claimVars, Given, Underway, Executing,
     NeverStarted, Resumable, Deterministic, Status, Errors
<1>1. Data'
  BY <1>0, KindInv
<1>2. ClaimsTyped'
  BY DEF ClaimsTyped, Places, Reserved, Claimed, Executing, Data, RecordsTyped, Given,
     PublishFails, Go, Conclude, fileVars, claimVars
<1>3. Given'
  BY <1>0, <1>1 DEF Given, Data, RecordsTyped, Executing, Underway, ClaimsTyped, PublishFails,
     Go, Conclude, fileVars, claimVars
<1>4. StepLeft'
  BY DEF StepLeft, ClaimsTyped, Data, RecordsTyped, PublishFails, Go, Conclude, fileVars,
     claimVars
<1>5. Locked'
  BY <1>1, Fields DEF Locked, Data, RecordsTyped, ClaimsTyped, Given, Claimed, Executing,
     Underway, PublishFails, Go, Conclude, fileVars, claimVars
<1>6. Course(c)
  BY DEF Course, Given, Data, RecordsTyped, ClaimsTyped, Bound, Executing, Underway,
     PublishFails, Go, Conclude, fileVars
<1> QED
  BY <1>0, <1>1, <1>2, <1>3, <1>4, <1>5, <1>6

\* The workflow passes or fails.
LEMMA BasisEndWork ==
  ASSUME Basis, NEW c \in Calls, EndWork(c)
  PROVE Kind(c) /\ Course(c) /\ Basis'
<1> USE DEF Basis
<1>0. Kind(c) /\ live'[c] # NULL
  BY NoteConclude DEF EndWork, fileVars, claimVars, Given, Underway, Executing, NeverStarted,
     Resumable, Deterministic, Status, Errors
<1>1. Data'
  BY <1>0, KindInv
<1>2. ClaimsTyped'
  BY DEF ClaimsTyped, Places, Reserved, Claimed, Executing, Data, RecordsTyped, Given, EndWork,
     Go, Conclude, fileVars, claimVars
<1>3. Given'
  BY <1>0, <1>1 DEF Given, Data, RecordsTyped, Executing, Underway, ClaimsTyped, EndWork, Go,
     Conclude, fileVars, claimVars
<1>4. StepLeft'
  BY DEF StepLeft, ClaimsTyped, Data, RecordsTyped, EndWork, Go, Conclude, fileVars, claimVars
<1>5. Locked'
  BY <1>1, Fields DEF Locked, Data, RecordsTyped, ClaimsTyped, Given, Claimed, Executing,
     Underway, EndWork, Go, Conclude, fileVars, claimVars
<1>6. Course(c)
  BY DEF Course, Given, Data, RecordsTyped, ClaimsTyped, Bound, Executing, Underway, EndWork,
     Go, Conclude, fileVars
<1> QED
  BY <1>0, <1>1, <1>2, <1>3, <1>4, <1>5, <1>6

\* A stop is requested.
LEMMA BasisRequestStop ==
  ASSUME Basis, NEW c \in Calls, RequestStop(c)
  PROVE Kind(c) /\ Course(c) /\ Basis'
<1> USE DEF Basis
<1>0. Kind(c)
  BY DEF Kind, Quiet, Forget, RequestStop, fileVars, Data, RecordsTyped, Given
<1>1. Data'
  BY <1>0, KindInv
<1>2. ClaimsTyped'
  BY DEF ClaimsTyped, Places, Reserved, Claimed, Executing, Data, RecordsTyped, Given,
     RequestStop, fileVars, claimVars
<1>3. Given'
  BY <1>0, <1>1 DEF Given, Data, RecordsTyped, Executing, Underway, ClaimsTyped, RequestStop,
     fileVars, claimVars
<1>4. StepLeft'
  BY DEF StepLeft, ClaimsTyped, Data, RecordsTyped, RequestStop, fileVars, claimVars
<1>5. Locked'
  BY <1>1, Fields DEF Locked, Data, RecordsTyped, ClaimsTyped, Given, Claimed, Executing,
     Underway, RequestStop, fileVars, claimVars
<1>6. Course(c)
  BY DEF Course, Given, Data, RecordsTyped, ClaimsTyped, Bound, Executing, Underway,
     RequestStop, fileVars
<1> QED
  BY <1>0, <1>1, <1>2, <1>3, <1>4, <1>5, <1>6

\* A stop is obeyed.
LEMMA BasisStopped ==
  ASSUME Basis, NEW c \in Calls, Stopped(c)
  PROVE Kind(c) /\ Course(c) /\ Basis'
<1> USE DEF Basis
<1>0. Kind(c) /\ live'[c] # NULL
  BY NoteConclude DEF Stopped, fileVars, claimVars, Given, Underway, Executing, NeverStarted,
     Resumable, Deterministic, Status, Errors
<1>1. Data'
  BY <1>0, KindInv
<1>2. ClaimsTyped'
  BY DEF ClaimsTyped, Places, Reserved, Claimed, Executing, Data, RecordsTyped, Given, Stopped,
     Go, Conclude, fileVars, claimVars
<1>3. Given'
  BY <1>0, <1>1 DEF Given, Data, RecordsTyped, Executing, Underway, ClaimsTyped, Stopped, Go,
     Conclude, fileVars, claimVars
<1>4. StepLeft'
  BY DEF StepLeft, ClaimsTyped, Data, RecordsTyped, Stopped, Go, Conclude, fileVars, claimVars
<1>5. Locked'
  BY <1>1, Fields DEF Locked, Data, RecordsTyped, ClaimsTyped, Given, Claimed, Executing,
     Underway, Stopped, Go, Conclude, fileVars, claimVars
<1>6. Course(c)
  BY DEF Course, Given, Data, RecordsTyped, ClaimsTyped, Bound, Executing, Underway, Stopped,
     Go, Conclude, fileVars
<1> QED
  BY <1>0, <1>1, <1>2, <1>3, <1>4, <1>5, <1>6

\* The final record is saved.
LEMMA BasisFinalWrite ==
  ASSUME Basis, NEW c \in Calls, FinalWrite(c)
  PROVE Kind(c) /\ Course(c) /\ Basis'
<1> USE DEF Basis
<1>0. Kind(c) /\ live'[c] # NULL
  <2> DEFINE e == [live[c] EXCEPT !.pid = NULL]
  <2>1. live[c] \in Record
    BY DEF FinalWrite, Data, RecordsTyped, Given, Underway, Executing
  <2>2. e \in Record /\ Alike(e, live[c])
    BY <2>1 DEF Record, Alike, NeverStarted, Resumable, Deterministic, Status, Errors
  <2>3. Save(e) /\ live' = [live EXCEPT ![c] = live[c]] /\ UNCHANGED copy
    BY DEF FinalWrite, claimVars, callVars, Data, RecordsTyped
  <2>4. Alike(live[c], live[c])
    BY DEF Alike
  <2> HIDE DEF e
  <2> QED
    BY <2>1, <2>2, <2>3, <2>4, StoreSaved
<1>1. Data'
  BY <1>0, KindInv
<1>2. ClaimsTyped'
  BY DEF ClaimsTyped, Places, Reserved, Claimed, Executing, Data, RecordsTyped, Given,
     FinalWrite, Go, claimVars, callVars
<1>3. Given'
  BY <1>0, <1>1 DEF Given, Data, RecordsTyped, Executing, Underway, ClaimsTyped, FinalWrite, Go,
     claimVars, callVars
<1>4. StepLeft'
  BY DEF StepLeft, ClaimsTyped, Data, RecordsTyped, FinalWrite, Go, claimVars, callVars
<1>5. Locked'
  BY <1>1, Fields DEF Locked, Data, RecordsTyped, ClaimsTyped, Given, Claimed, Executing,
     Underway, FinalWrite, Go, claimVars, callVars
<1>6. Course(c)
  BY DEF Course, Given, Data, RecordsTyped, ClaimsTyped, Bound, Executing, Underway, FinalWrite,
     Go, Save, callVars
<1> QED
  BY <1>0, <1>1, <1>2, <1>3, <1>4, <1>5, <1>6

\* The final record cannot be saved.
LEMMA BasisFinalWriteFails ==
  ASSUME Basis, NEW c \in Calls, FinalWriteFails(c)
  PROVE Kind(c) /\ Course(c) /\ Basis'
<1> USE DEF Basis
<1>0. Kind(c)
  BY DEF Kind, Quiet, Forget, FinalWriteFails, Go, fileVars, callVars, Data, RecordsTyped, Given
<1>1. Data'
  BY <1>0, KindInv
<1>2. ClaimsTyped'
  BY DEF ClaimsTyped, Places, Reserved, Claimed, Executing, Data, RecordsTyped, Given,
     FinalWriteFails, Go, fileVars, claimVars, callVars
<1>3. Given'
  BY <1>0, <1>1 DEF Given, Data, RecordsTyped, Executing, Underway, ClaimsTyped,
     FinalWriteFails, Go, fileVars, claimVars, callVars
<1>4. StepLeft'
  BY DEF StepLeft, ClaimsTyped, Data, RecordsTyped, FinalWriteFails, Go, fileVars, claimVars,
     callVars
<1>5. Locked'
  BY <1>1, Fields DEF Locked, Data, RecordsTyped, ClaimsTyped, Given, Claimed, Executing,
     Underway, FinalWriteFails, Go, fileVars, claimVars, callVars
<1>6. Course(c)
  BY DEF Course, Given, Data, RecordsTyped, ClaimsTyped, Bound, Executing, Underway,
     FinalWriteFails, Go, fileVars, callVars
<1> QED
  BY <1>0, <1>1, <1>2, <1>3, <1>4, <1>5, <1>6

\* A failed record is saved in its place.
LEMMA BasisFallback ==
  ASSUME Basis, NEW c \in Calls, Fallback(c)
  PROVE Kind(c) /\ Course(c) /\ Basis'
<1> USE DEF Basis
<1>0. Kind(c) /\ live'[c] # NULL
  <2> DEFINE e == [live[c] EXCEPT !.pid = NULL, !.status = "failed", !.error = "record"]
  <2>1. live[c] \in Record /\ Alike(live[c], live[c]) /\ live' = live
    BY DEF Fallback, Data, RecordsTyped, Given, Underway, Executing, Alike, callVars
  <2>2. e \in Record /\ Alike(e, live[c])
    BY <2>1 DEF Record, Alike, NeverStarted, Resumable, Deterministic, Status, Errors
  <2>3. CASE Save(e)
    <3>1. live' = [live EXCEPT ![c] = live[c]] /\ UNCHANGED copy
      BY <2>1 DEF Fallback, callVars, Data, RecordsTyped
    <3> HIDE DEF e
    <3> QED
      BY <2>1, <2>2, <2>3, <3>1, StoreSaved
  <2>4. CASE UNCHANGED disk
    BY <2>1, <2>4 DEF Fallback, callVars, Kind, Quiet
  <2> QED
    BY <2>3, <2>4 DEF Fallback
<1>1. Data'
  BY <1>0, KindInv
<1>2. ClaimsTyped'
  BY DEF ClaimsTyped, Places, Reserved, Claimed, Executing, Data, RecordsTyped, Given, Fallback,
     Go, claimVars, callVars
<1>3. Given'
  BY <1>0, <1>1 DEF Given, Data, RecordsTyped, Executing, Underway, ClaimsTyped, Fallback, Go,
     claimVars, callVars
<1>4. StepLeft'
  BY DEF StepLeft, ClaimsTyped, Data, RecordsTyped, Fallback, Go, claimVars, callVars
<1>5. Locked'
  BY <1>1, Fields DEF Locked, Data, RecordsTyped, ClaimsTyped, Given, Claimed, Executing,
     Underway, Fallback, Go, claimVars, callVars
<1>6. Course(c)
  BY DEF Course, Given, Data, RecordsTyped, ClaimsTyped, Bound, Executing, Underway, Fallback,
     Go, Save, callVars
<1> QED
  BY <1>0, <1>1, <1>2, <1>3, <1>4, <1>5, <1>6

\* The run is no longer tracked.
LEMMA BasisUntrack ==
  ASSUME Basis, NEW c \in Calls, Untrack(c)
  PROVE Kind(c) /\ Course(c) /\ Basis'
<1> USE DEF Basis
<1>0. Kind(c)
  BY DEF Kind, Quiet, Forget, Untrack, Go, Return, Leave, fileVars, callVars, Data,
     RecordsTyped, Given
<1>1. Data'
  BY <1>0, KindInv
<1>2. ClaimsTyped'
  BY DEF ClaimsTyped, Places, Reserved, Claimed, Executing, Data, RecordsTyped, Given, Untrack,
     Go, Return, Leave, fileVars, callVars
<1>3. Given'
  BY <1>0, <1>1 DEF Given, Data, RecordsTyped, Executing, Underway, ClaimsTyped, Untrack, Go,
     Return, Leave, fileVars, callVars
<1>4. StepLeft'
  BY DEF StepLeft, ClaimsTyped, Data, RecordsTyped, Untrack, Go, Return, Leave, fileVars,
     callVars
<1>5. Locked'
  BY <1>1, Fields DEF Locked, Data, RecordsTyped, ClaimsTyped, Given, Claimed, Executing,
     Underway, Untrack, Go, Return, Leave, fileVars, callVars
<1>6. Course(c)
  BY DEF Course, Given, Data, RecordsTyped, ClaimsTyped, Bound, Executing, Underway, Untrack,
     Go, Return, Leave, fileVars, callVars
<1> QED
  BY <1>0, <1>1, <1>2, <1>3, <1>4, <1>5, <1>6

\* The lock file is released.
LEMMA BasisUnlock ==
  ASSUME Basis, NEW c \in Calls, Unlock(c)
  PROVE Kind(c) /\ Course(c) /\ Basis'
<1> USE DEF Basis
<1>0. Kind(c)
  BY DEF Kind, Quiet, Forget, Unlock, Go, fileVars, callVars, Data, RecordsTyped, Given
<1>1. Data'
  BY <1>0, KindInv
<1>2. ClaimsTyped'
  BY DEF ClaimsTyped, Places, Reserved, Claimed, Executing, Data, RecordsTyped, Given, Unlock,
     Go, fileVars, callVars
<1>3. Given'
  BY <1>0, <1>1 DEF Given, Data, RecordsTyped, Executing, Underway, ClaimsTyped, Unlock, Go,
     fileVars, callVars
<1>4. StepLeft'
  BY DEF StepLeft, ClaimsTyped, Data, RecordsTyped, Unlock, Go, fileVars, callVars
<1>5. Locked'
  BY <1>1, Fields DEF Locked, Data, RecordsTyped, ClaimsTyped, Given, Claimed, Executing,
     Underway, Unlock, Go, fileVars, callVars
<1>6. Course(c)
  BY DEF Course, Given, Data, RecordsTyped, ClaimsTyped, Bound, Executing, Underway, Unlock, Go,
     fileVars, callVars
<1> QED
  BY <1>0, <1>1, <1>2, <1>3, <1>4, <1>5, <1>6

\* The reservation is given back.
LEMMA BasisUnreserve ==
  ASSUME Basis, NEW c \in Calls, Unreserve(c)
  PROVE Kind(c) /\ Course(c) /\ Basis'
<1> USE DEF Basis
<1>0. Kind(c)
  BY DEF Kind, Quiet, Forget, Unreserve, Go, Return, fileVars, Data, RecordsTyped, Given
<1>1. Data'
  BY <1>0, KindInv
<1>2. ClaimsTyped'
  BY DEF ClaimsTyped, Places, Reserved, Claimed, Executing, Data, RecordsTyped, Given,
     Unreserve, Go, Return, Reservation, fileVars
<1>3. Given'
  BY <1>0, <1>1 DEF Given, Data, RecordsTyped, Executing, Underway, ClaimsTyped, Unreserve, Go,
     Return, Reservation, fileVars
<1>4. StepLeft'
  BY DEF StepLeft, ClaimsTyped, Data, RecordsTyped, Unreserve, Go, Return, fileVars
<1>5. Locked'
  BY <1>1, Fields DEF Locked, Data, RecordsTyped, ClaimsTyped, Given, Claimed, Executing,
     Underway, Unreserve, Go, Return, fileVars
<1>6. Course(c)
  BY DEF Course, Given, Data, RecordsTyped, ClaimsTyped, Bound, Executing, Underway, Unreserve,
     Go, Return, fileVars
<1> QED
  BY <1>0, <1>1, <1>2, <1>3, <1>4, <1>5, <1>6

\* The process of a call dies: its locks are freed and its calls are over.
LEMMA BasisDie == ASSUME Basis, NEW p \in Procs, Die(p) PROVE Basis'
<1> USE DEF Basis, Die, fileVars
<1>1. Data'
  <2>1. RecordsTyped'
    BY DEF Data, RecordsTyped
  <2>2. Story'
    BY DEF Data, RecordsTyped, Story
  <2>3. Distinct' /\ Revised'
    BY DEF Data, RecordsTyped, Distinct, Revised
  <2> QED
    BY <2>1, <2>2, <2>3 DEF Data
<1>2. ClaimsTyped'
  BY DEF ClaimsTyped, Places
<1>3. Given'
  BY DEF Given, Data, RecordsTyped, ClaimsTyped, Underway, Executing
<1>4. StepLeft'
  BY DEF StepLeft, ClaimsTyped, Data, RecordsTyped
<1>5. Locked'
  <2> SUFFICES ASSUME NEW c \in Calls, pc'[c] \in Claimed, copy'[c] # NULL
               PROVE  lock'[copy'[c].run] = c
    BY DEF Locked
  <2>1. ProcOf[c] # p /\ pc'[c] = pc[c] /\ copy'[c] = copy[c] /\ copy[c].run \in Runs
    BY Fields DEF Claimed, ClaimsTyped, Data, RecordsTyped
  <2> QED
    BY <2>1 DEF Locked, ClaimsTyped
<1> QED
  BY <1>1, <1>2, <1>3, <1>4, <1>5

\* The source is edited: nothing the invariant speaks of changes.
LEMMA BasisEdit == ASSUME Basis, EditSource PROVE Basis'
BY DEF Basis, EditSource, claimVars, callVars, Data, RecordsTyped, Story, Distinct, Revised,
       ClaimsTyped, Given, StepLeft, Locked

-----------------------------------------------------------------------------
(* One resume of a run.                                                    *)

\* Once a call has found no earlier resume of its run, only its own is one.
Alone ==
  \A c \in Calls : pc[c] \in Bound /\ copy[c] # NULL =>
    \A x \in ResumedChildren(copy[c].run) : live[c] # NULL /\ live[c].run = x

IInv == Basis /\ Alone /\ ResumedOnce

\* A step of call c makes no run count as a resume but its own, of its run.
LEMMA NewChild ==
  ASSUME Data, NEW c \in Calls, Kind(c),
         NEW r \in Runs, NEW x \in ResumedChildren(r)', x \notin ResumedChildren(r)
  PROVE  /\ disk' # disk
         /\ live[c] # NULL /\ live[c].run = x
         /\ copy[c] # NULL /\ copy[c].run = r
<1>1. disk' # disk
  BY DEF ResumedChildren, ResumedRunId
<1>2. PICK d \in Record, e \in Record : Store(c, d, e)
  BY <1>1 DEF Kind, Quiet, Forget, Take, Open, Note
<1>3. live[c].run \in Runs /\ live[c] # NULL
  BY <1>2, Fields DEF Store, Data, RecordsTyped
<1>4. x = live[c].run
  BY <1>2, <1>3 DEF Store, ResumedChildren, ResumedRunId, Data, RecordsTyped
<1>5. disk'[x] = e /\ e.from = live[c].from
  BY <1>2, <1>3, <1>4 DEF Store, Alike, Data, RecordsTyped
<1>6. r = live[c].from
  BY <1>5 DEF ResumedChildren, ResumedRunId
<1> QED
  BY <1>1, <1>3, <1>4, <1>6 DEF Data, Story

\* The step of a call that follows its course keeps the resume single.
LEMMA OnceInv ==
  ASSUME IInv, NEW c \in Calls, Kind(c), Course(c)
  PROVE  Alone' /\ ResumedOnce'
<1> USE DEF IInv, Basis
<1>1. ASSUME NEW r \in Runs, NEW x \in ResumedChildren(r)', x \notin ResumedChildren(r)
      PROVE  /\ live[c] # NULL /\ live[c].run = x /\ copy[c] # NULL /\ copy[c].run = r
             /\ pc[c] \in Executing
             /\ \A y \in ResumedChildren(r) : y = x
  <2>1. /\ disk' # disk
        /\ live[c] # NULL /\ live[c].run = x /\ copy[c] # NULL /\ copy[c].run = r
    BY <1>1, NewChild
  <2>2. pc[c] \in Executing
    BY <2>1 DEF Course
  <2> QED
    BY <2>1, <2>2 DEF Alone, Bound, Underway
<1>2. ResumedOnce'
  BY <1>1 DEF ResumedOnce
<1>3. Alone'
  <2> SUFFICES ASSUME NEW d \in Calls, pc'[d] \in Bound, copy'[d] # NULL,
                      NEW x \in ResumedChildren(copy[d].run)'
               PROVE  live'[d] # NULL /\ live'[d].run = x
    BY DEF Alone
  <2>1. copy'[d] = copy[d] /\ copy[d].run \in Runs
    BY Fields DEF Course, Data, RecordsTyped
  <2>r. PICK r \in Runs : r = copy[d].run
    BY <2>1
  <2>2. x \in ResumedChildren(r)'
    BY <2>1, <2>r DEF ResumedChildren
  <2>3. live[d] # NULL => live'[d] # NULL /\ live'[d].run = live[d].run
    <3>1. CASE d # c
      BY <3>1 DEF Course
    <3>2. CASE d = c
      BY <3>2, <2>1 DEF Kind, Quiet, Forget, Take, Open, Note, Store, Alike, Data, RecordsTyped
    <3> QED
      BY <3>1, <3>2
  <2>4. CASE x \in ResumedChildren(r)
    <3>1. pc[d] \in Bound
      <4>1. CASE d # c
        BY <4>1 DEF Course
      <4>2. CASE d = c
        BY <4>2, <2>r, <2>4 DEF Course
      <4> QED
        BY <4>1, <4>2
    <3> QED
      BY <2>1, <2>r, <2>3, <2>4, <3>1 DEF Alone
  <2>5. CASE x \notin ResumedChildren(r)
    <3>1. /\ live[c] # NULL /\ live[c].run = x
          /\ copy[c] # NULL /\ copy[c].run = r /\ pc[c] \in Executing
      BY <1>1, <2>2, <2>5
    <3>2. d = c
      <4> SUFFICES ASSUME d # c PROVE FALSE
        OBVIOUS
      <4>1. pc[d] \in Bound
        BY DEF Course
      <4>2. lock[copy[d].run] = d \/ pc[d] \notin Claimed
        BY <2>1 DEF Locked
      <4>3. lock[copy[c].run] = c
        BY <3>1 DEF Locked, Claimed, Executing
      <4> QED
        BY <2>r, <3>1, <4>1, <4>2, <4>3 DEF Bound, Underway, Executing, Claimed
    <3> QED
      BY <2>3, <3>1, <3>2
  <2> QED
    BY <2>4, <2>5
<1> QED
  BY <1>2, <1>3

\* The invariant holds before anything has run.
LEMMA InitInv == Init => IInv
<1> SUFFICES ASSUME Init PROVE IInv
  OBVIOUS
<1> USE DEF Init
<1>1. Data
  BY DEF Data, RecordsTyped, Story, Distinct, Revised
<1>2. ClaimsTyped
  BY DEF ClaimsTyped, Places
<1>3. Given /\ StepLeft /\ Locked
  BY DEF Given, StepLeft, Locked, Underway, Executing, Claimed
<1>4. Alone /\ ResumedOnce
  BY DEF Alone, ResumedOnce, ResumedChildren, ResumedRunId
<1> QED
  BY <1>1, <1>2, <1>3, <1>4 DEF IInv, Basis

\* Every step of a call keeps the invariant.
LEMMA CallInv ==
  ASSUME IInv, NEW c \in Calls, Begin(c) \/ Advance(c) \/ RequestStop(c)
  PROVE  IInv'
<1>1. Kind(c) /\ Course(c) /\ Basis'
  BY BasisNewRun, BasisReadRecord, BasisReadAgain, BasisJudge, BasisReserve, BasisClaim,
     BasisCheckChild, BasisRefuse, BasisLaunch, BasisInvalidInputs, BasisWriteLive,
     BasisReplayStep, BasisStartStep, BasisFinishStep, BasisFailStep, BasisPublishFails,
     BasisEndWork, BasisRequestStop, BasisStopped, BasisFinalWrite, BasisFinalWriteFails,
     BasisFallback, BasisUntrack, BasisUnlock, BasisUnreserve
     DEF IInv, Begin, Advance
<1> QED
  BY <1>1, OnceInv DEF IInv

\* Every step keeps the invariant, deaths and edits included.
LEMMA StepInv == IInv /\ [Next]_vars => IInv'
<1> SUFFICES ASSUME IInv, [Next]_vars PROVE IInv'
  OBVIOUS
<1>1. CASE UNCHANGED vars
  BY <1>1 DEF vars, IInv, Basis, Data, RecordsTyped, Story, Distinct, Revised, ClaimsTyped,
              Given, StepLeft, Locked, Alone, ResumedOnce, ResumedChildren, ResumedRunId
<1>2. ASSUME NEW c \in Calls, Begin(c) \/ Advance(c) \/ RequestStop(c) PROVE IInv'
  BY <1>2, CallInv
<1>3. ASSUME NEW p \in Procs, Die(p) PROVE IInv'
  <2>1. Basis'
    BY <1>3, BasisDie DEF IInv
  <2>2. disk' = disk
    BY <1>3 DEF Die, fileVars
  <2>3. ResumedOnce'
    BY <2>2 DEF IInv, ResumedOnce, ResumedChildren, ResumedRunId
  <2>4. Alone'
    <3> SUFFICES ASSUME NEW c \in Calls, pc'[c] \in Bound, copy'[c] # NULL,
                        NEW x \in ResumedChildren(copy[c].run)'
                 PROVE  live'[c] # NULL /\ live'[c].run = x
      BY DEF Alone
    <3>1. pc'[c] = pc[c] /\ copy'[c] = copy[c] /\ live'[c] = live[c]
      BY <1>3 DEF Die, Bound, Underway, Executing
    <3>2. x \in ResumedChildren(copy[c].run)
      BY <2>2, <3>1 DEF ResumedChildren, ResumedRunId
    <3> QED
      BY <3>1, <3>2 DEF IInv, Alone
  <2> QED
    BY <2>1, <2>3, <2>4 DEF IInv
<1>4. CASE EditSource
  <2>1. Basis'
    BY <1>4, BasisEdit DEF IInv
  <2> QED
    BY <1>4, <2>1 DEF IInv, EditSource, callVars, claimVars, Alone, ResumedOnce, ResumedChildren,
                      ResumedRunId
<1> QED
  BY <1>1, <1>2, <1>3, <1>4 DEF Next

\* The invariant holds in every reachable state.
LEMMA Invariant == Spec => []IInv
BY InitInv, StepInv, PTL DEF Spec

\* The variables of every reachable state have their types.
THEOREM TypesHold == Spec => []TypeOK
<1>1. IInv => TypeOK
  BY DEF IInv, Basis, Data, RecordsTyped, ClaimsTyped, TypeOK
<1> QED
  BY <1>1, Invariant, PTL

\* However many processes and threads resume a run, and whenever they die, at
\* most one run that started counts as its resume.
THEOREM RunsAreResumedOnce == Spec => []ResumedOnce
<1>1. IInv => ResumedOnce
  BY DEF IInv
<1> QED
  BY <1>1, Invariant, PTL

\* Saved results are only ever replayed into the revision they came from.
THEOREM ResumesFitTheSource == Spec => []SameRevision
<1>1. IInv => SameRevision
  BY DEF IInv, Basis, Data, Revised, SameRevision
<1> QED
  BY <1>1, Invariant, PTL


-----------------------------------------------------------------------------
(* Who executes a run, and what its record says meanwhile.                 *)

\* The threads are those of one process, the desktop's.
SameProcess == \A c, d \in Calls : ProcOf[c] = ProcOf[d]

\* A call can tell whether another process lives, or has no need to.
Tells == ~Windows \/ SameProcess

\* Nobody executes r any more.
Over(r) == \A d \in Calls : pc[d] \in Executing => live[d].run # r

\* A call that executes is tracked, and until it saves how its run ended the
\* record says that the run is going, in the call's process.
Working(c) ==
  /\ pc[c] # "dead" => ProcOf[c] \in alive
  /\ pc[c] \in Executing =>
       /\ live[c].run \in active
       /\ live[c].pid = ProcOf[c]
       /\ (pc[c] \in {"final", "fallback"}) <=> (live[c].status # "running")
       /\ disk[live[c].run] # NULL =>
            disk[live[c].run].status = "running" /\ disk[live[c].run].pid = ProcOf[c]

\* Where the record a call was given has been judged.
Judged == {"reserve", "claim", "child", "compile", "unlock", "unreserve"} \union Underway

\* A record as it is read: final, or of a run that its own process executes.
AsRead(d) ==
  /\ d.status # "running" => Over(d.run) /\ disk[d.run] = d
  /\ d.status = "running" =>
       /\ \A e \in Calls : pc[e] \in Executing /\ live[e].run = d.run => ProcOf[e] = d.pid
       /\ \E e \in Calls : d.pid = ProcOf[e]

\* A record that may be resumed is of a run that is over; the call's own process
\* has not changed it since it was read.
AsJudged(d) ==
  d.status \in Resumable /\ Tells =>
    /\ Over(d.run)
    /\ SameProcess => disk[d.run].done = d.done /\ disk[d.run].status # "passed"

Reading(c) ==
  /\ pc[c] = "idle" => settled[c] = FALSE
  /\ pc[c] = "judge" => AsRead(copy[c])
  /\ pc[c] = "judge" /\ settled[c] = TRUE => Over(copy[c].run) /\ disk[copy[c].run] = copy[c]
  /\ pc[c] \in Judged /\ copy[c] # NULL => AsJudged(copy[c])
  /\ pc[c] \in Underway /\ copy[c] # NULL => copy[c].status \in Resumable

\* The process that a record names is one of a call.
Named ==
  \A r \in Runs : disk[r] # NULL /\ disk[r].status = "running" => \E d \in Calls : disk[r].pid = ProcOf[d]

\* A resumed run is over, and did not pass.
Past ==
  Tells => \A r \in Runs : ResumedChildren(r) # {} =>
             Over(r) /\ (SameProcess => disk[r].status # "passed")

Dealings ==
  /\ \A c \in Calls : Working(c) /\ Reading(c)
  /\ Named /\ Past
  /\ ~IoFailures => LooksActive

-----------------------------------------------------------------------------
(* What a step of a call does to its run.                                  *)

Turn(c) ==
  /\ alive' = alive /\ pc[c] # "dead" /\ pc'[c] # "dead"
  /\ active \subseteq active' \/ (pc[c] = "untrack" /\ active' = active \ {live[c].run})
  /\ pc'[c] \in Executing => IF pc[c] \in Executing THEN live'[c].run = live[c].run
                                                    ELSE Unused(live'[c].run)
  /\ Working(c)'
  /\ \A r \in Runs : disk'[r] # disk[r] =>
       /\ pc[c] \in Executing /\ r = live[c].run
       /\ disk'[r].status = "running" => disk'[r].pid = ProcOf[c] /\ pc'[c] \in Executing
  /\ pc[c] \in Executing /\ pc'[c] \notin Executing /\ ~IoFailures =>
       disk'[live[c].run].status # "running"

\* Steps of a call that executes nothing.
LEMMA TurnIdle ==
  ASSUME Basis, NEW c \in Calls, Working(c), UNCHANGED <<disk, active, alive>>,
         pc[c] \notin Executing \union {"dead"}, pc'[c] \notin Executing \union {"dead"}
  PROVE  Turn(c)
BY DEF Turn, Working

\* The run of a call that executes ends, with the record not yet saved.
LEMMA TurnConclude ==
  ASSUME Basis, NEW c \in Calls, Working(c), pc[c] \in {"live", "work", "step"},
         NEW s \in Status \ {"running"}, NEW e \in Errors \union {NULL}, Conclude(c, s, e),
         disk' = disk \/ Save(live[c]), UNCHANGED <<alive, active>>
  PROVE  Turn(c)
<1>1. live[c] \in Record /\ pc[c] \in Executing /\ live[c].status = "running"
  BY DEF Basis, Given, Underway, Executing, Data, RecordsTyped, Working
<1> DEFINE d == [live[c] EXCEPT !.status = s, !.error = e]
<1>2. d.run = live[c].run /\ d.pid = live[c].pid /\ d.status = s /\ live[c].run \in Runs
  BY <1>1 DEF Record
<1>3. live'[c] = d /\ pc'[c] = "final"
  BY DEF Conclude, Go, Basis, Data, RecordsTyped, ClaimsTyped
<1> HIDE DEF d
<1>4. \A r \in Runs : disk'[r] = disk[r] \/ (r = live[c].run /\ disk'[r] = live[c])
  BY <1>2 DEF Save, Basis, Data, RecordsTyped
<1>5. "final" \in Executing
  BY DEF Executing
<1> QED
  BY <1>1, <1>2, <1>3, <1>4, <1>5 DEF Turn, Working

\* The record in memory is saved, and the run goes on.
LEMMA TurnPublish ==
  ASSUME Basis, NEW c \in Calls, Working(c), pc[c] \in {"live", "work", "step"},
         NEW d, d.run = live[c].run, d.pid = live[c].pid, d.status = live[c].status,
         live'[c] = d, Save(d), pc'[c] \in {"work", "step"}, UNCHANGED <<alive, active>>
  PROVE  Turn(c)
<1>1. live[c] \in Record /\ pc[c] \in Executing /\ live[c].status = "running" /\ live[c].run \in Runs
  BY DEF Basis, Given, Underway, Executing, Data, RecordsTyped, Working, Record
<1>2. \A r \in Runs : disk'[r] = disk[r] \/ r = live[c].run
  BY DEF Save, Basis, Data, RecordsTyped
<1>3. disk'[live[c].run] = d
  BY <1>1 DEF Save, Basis, Data, RecordsTyped
<1>4. pc'[c] \in Executing /\ pc'[c] \notin {"final", "fallback", "dead"}
  BY DEF Executing
<1> QED
  BY <1>1, <1>2, <1>3, <1>4 DEF Turn, Working

\* How a run ended is saved.
LEMMA TurnSave ==
  ASSUME Basis, NEW c \in Calls, Working(c), pc[c] \in {"final", "fallback"}, pc'[c] = "untrack",
         NEW d, d.run = live[c].run, d.status # "running", Save(d) \/ (IoFailures /\ disk' = disk),
         UNCHANGED <<alive, active>>
  PROVE  Turn(c)
<1>1. pc[c] \in Executing /\ pc[c] # "dead" /\ "untrack" \notin Executing /\ live[c].run \in Runs
  BY Fields DEF Basis, Given, Underway, Executing, Data, RecordsTyped
<1>2. \A r \in Runs : disk'[r] = disk[r] \/ (r = live[c].run /\ disk'[r] = d)
  BY DEF Save, Basis, Data, RecordsTyped
<1>3. ~IoFailures => disk'[live[c].run] = d
  BY <1>1 DEF Save, Basis, Data, RecordsTyped
<1> QED
  BY <1>1, <1>2, <1>3 DEF Turn, Working

LEMMA TurnLaunch == ASSUME Basis, NEW c \in Calls, Working(c), Launch(c) PROVE Turn(c)
<1>1. PICK x \in Runs :
        /\ Unused(x) /\ active' = active \union {x}
        /\ \/ live' = [live EXCEPT ![c] = NewRecord(c, x)] /\ Go(c, "live")
           \/ /\ live' = [live EXCEPT ![c] = [NewRecord(c, x) EXCEPT !.status = "preflight_failed"]]
              /\ Go(c, "final")
  BY DEF Launch
<1>2. UNCHANGED <<disk, alive>> /\ pc[c] = "compile"
  BY DEF Launch, fileVars
<1>3. disk'[x] = NULL
  BY <1>1, <1>2 DEF Unused
<1>4. live'[c].run = x /\ live'[c].pid = ProcOf[c]
  BY <1>1 DEF NewRecord, Basis, Data, RecordsTyped
<1>5. \/ pc'[c] = "live" /\ live'[c].status = "running"
      \/ pc'[c] = "final" /\ live'[c].status = "preflight_failed"
  BY <1>1 DEF NewRecord, Go, Basis, Data, RecordsTyped, ClaimsTyped
<1>6. "compile" \notin Executing
  BY DEF Executing
<1> QED
  BY <1>1, <1>2, <1>3, <1>4, <1>5, <1>6 DEF Turn, Working

LEMMA Turns ==
  ASSUME Basis, NEW c \in Calls, Working(c), Begin(c) \/ Advance(c) \/ RequestStop(c)
  PROVE  Turn(c)
<1> USE DEF Basis
<1>0. pc \in [Calls -> Places] /\ (pc[c] \in Executing => live[c] \in Record)
  BY DEF ClaimsTyped, Data, RecordsTyped, Given, Underway
<1>1. CASE NewRun(c) \/ Reserve(c) \/ Claim(c) \/ CheckChild(c) \/ Refuse(c) \/ Unlock(c) \/ Unreserve(c)
  <2>1. /\ pc[c] \notin Executing \union {"dead"} /\ pc'[c] \notin Executing \union {"dead"}
    BY <1>0, <1>1 DEF NewRun, Reserve, Claim, CheckChild, Refuse, Unlock, Unreserve, Go, Return, Leave, Executing
  <2>2. UNCHANGED <<disk, active, alive>>
    BY <1>1 DEF NewRun, Reserve, Claim, CheckChild, Refuse, Unlock, Unreserve, fileVars, claimVars
  <2> QED
    BY <2>1, <2>2, TurnIdle
<1>2. CASE (\E r \in Runs : ReadRecord(c, r)) \/ ReadAgain(c) \/ Judge(c)
  <2>1. /\ pc[c] \notin Executing \union {"dead"} /\ pc'[c] \notin Executing \union {"dead"}
    BY <1>0, <1>2 DEF ReadRecord, ReadAgain, Judge, Go, Executing
  <2>2. UNCHANGED <<disk, active, alive>>
    BY <1>2 DEF ReadRecord, ReadAgain, Judge, fileVars, claimVars
  <2> QED
    BY <2>1, <2>2, TurnIdle
<1>3. CASE RequestStop(c)
  <2>1. UNCHANGED <<disk, active, alive, pc, live>> /\ pc[c] # "dead"
    BY <1>3 DEF RequestStop, fileVars, claimVars
  <2> QED
    BY <2>1 DEF Turn, Working
<1>4. CASE InvalidInputs(c) \/ FailStep(c) \/ PublishFails(c) \/ EndWork(c) \/ Stopped(c)
  <2>1. PICK s \in Status \ {"running"}, e \in Errors \union {NULL} : Conclude(c, s, e)
    BY <1>4 DEF InvalidInputs, FailStep, PublishFails, EndWork, Stopped, Status, NeverStarted, Resumable,
               Errors, Deterministic
  <2>2. UNCHANGED <<disk, active, alive>> /\ pc[c] \in {"live", "work", "step"}
    BY <1>4 DEF InvalidInputs, FailStep, PublishFails, EndWork, Stopped, fileVars, claimVars
  <2> QED
    BY <2>1, <2>2, TurnConclude
<1>5. CASE WriteLive(c)
  <2>1. pc[c] = "live" /\ UNCHANGED <<active, alive>>
    BY <1>5 DEF WriteLive, claimVars
  <2>2. CASE Save(live[c]) /\ Go(c, "work") /\ UNCHANGED live
    <3>1. pc'[c] = "work" /\ live'[c] = live[c]
      BY <1>0, <2>2 DEF Go
    <3> QED
      BY <2>1, <2>2, <3>1, TurnPublish
  <2>3. CASE /\ Save(live[c]) \/ disk' = disk
             /\ Conclude(c, "stopped", NULL) \/ Conclude(c, "failed", "unexpected")
    <3>1. "stopped" \in Status \ {"running"} /\ "failed" \in Status \ {"running"} /\ "unexpected" \in Errors
      BY DEF Status, Resumable, Errors
    <3> QED
      BY <2>1, <2>3, <3>1, TurnConclude
  <2> QED
    BY <1>5, <2>2, <2>3 DEF WriteLive
<1>6. CASE ReplayStep(c) \/ StartStep(c) \/ FinishStep(c)
  <2>1. /\ pc[c] \in {"work", "step"} /\ pc'[c] \in {"work", "step"} /\ UNCHANGED <<active, alive>>
    BY <1>0, <1>6 DEF ReplayStep, StartStep, FinishStep, Go, claimVars
  <2>2. live[c] \in Record
    BY <1>0, <2>1 DEF Executing
  <2>3. PICK d : /\ Publish(c, d)
                 /\ \/ d = [live[c] EXCEPT !.done = @ + 1, !.begun = TRUE]
                    \/ d = [live[c] EXCEPT !.begun = TRUE] \/ d = [live[c] EXCEPT !.done = @ + 1]
    BY <1>6 DEF ReplayStep, StartStep, FinishStep
  <2>4. d.run = live[c].run /\ d.pid = live[c].pid /\ d.status = live[c].status
    BY <2>2, <2>3 DEF Record
  <2>5. live'[c] = d /\ Save(d)
    BY <2>3 DEF Publish, Data, RecordsTyped
  <2> QED
    BY <2>1, <2>4, <2>5, TurnPublish
<1>7. CASE FinalWrite(c)
  <2>1. pc[c] = "final" /\ pc'[c] = "untrack" /\ UNCHANGED <<active, alive>>
    BY <1>0, <1>7 DEF FinalWrite, Go, claimVars
  <2>2. live[c] \in Record /\ live[c].status # "running"
    BY <1>0, <2>1 DEF Executing, Working
  <2>3. PICK d : Save(d) /\ d = [live[c] EXCEPT !.pid = NULL]
    BY <1>7 DEF FinalWrite
  <2>4. d.run = live[c].run /\ d.status # "running"
    BY <2>2, <2>3 DEF Record
  <2> QED
    BY <2>1, <2>3, <2>4, TurnSave
<1>8. CASE Fallback(c)
  <2>1. pc[c] = "fallback" /\ pc'[c] = "untrack" /\ UNCHANGED <<active, alive>>
    BY <1>0, <1>8 DEF Fallback, Go, claimVars
  <2>2. live[c] \in Record
    BY <1>0, <2>1 DEF Executing
  <2>3. PICK d : d = [live[c] EXCEPT !.pid = NULL, !.status = "failed", !.error = "record"]
    OBVIOUS
  <2>4. d.run = live[c].run /\ d.status # "running"
    BY <2>2, <2>3 DEF Record
  <2>5. Save(d) \/ (IoFailures /\ disk' = disk)
    BY <1>8, <2>3 DEF Fallback
  <2> QED
    BY <2>1, <2>4, <2>5, TurnSave
<1>9. CASE FinalWriteFails(c)
  <2>1. pc[c] = "final" /\ pc'[c] = "fallback" /\ UNCHANGED <<active, alive, disk, live>>
    BY <1>0, <1>9 DEF FinalWriteFails, Go, fileVars, claimVars, callVars
  <2> QED
    BY <2>1 DEF Turn, Working, Executing
<1>10. CASE Untrack(c)
  <2>1. /\ pc[c] = "untrack" /\ pc'[c] \in {"idle", "unlock"} /\ UNCHANGED <<alive, disk>>
        /\ active' = active \ {live[c].run}
    BY <1>0, <1>10 DEF Untrack, Leave, Return, Go, fileVars
  <2> QED
    BY <2>1 DEF Turn, Working, Executing
<1> QED
  BY <1>1, <1>2, <1>3, <1>4, <1>5, <1>6, <1>7, <1>8, <1>9, <1>10, TurnLaunch DEF Begin, Advance

-----------------------------------------------------------------------------
(* A run that is over stays over, and its record stays as it is.           *)

LEMMA OverStays ==
  ASSUME NEW c \in Calls, Course(c), Turn(c), NEW r \in Runs, Over(r)
  PROVE  disk'[r] = disk[r] /\ (disk[r] # NULL => Over(r)')
<1>1. disk'[r] = disk[r]
  BY DEF Turn, Over
<1>2. ASSUME disk[r] # NULL, NEW d \in Calls, pc'[d] \in Executing PROVE live'[d].run # r
  <2>1. CASE d # c
    BY <1>2, <2>1 DEF Course, Over
  <2>2. CASE d = c
    BY <1>2, <2>2 DEF Turn, Over, Unused
  <2> QED
    BY <2>1, <2>2
<1> QED
  BY <1>1, <1>2 DEF Over

\* Who executes a saved run has done so before.
LEMMA SameHands ==
  ASSUME NEW c \in Calls, Course(c), Turn(c), NEW r \in Runs, disk[r] # NULL,
         NEW d \in Calls, pc'[d] \in Executing, live'[d].run = r
  PROVE  pc[d] \in Executing /\ live[d].run = r
BY DEF Course, Turn, Unused

\* The other calls go on as they were.
LEMMA WorkingKept ==
  ASSUME Basis, \A d \in Calls : Working(d), NEW c \in Calls, Course(c), Turn(c)
  PROVE  \A d \in Calls : Working(d)'
<1> SUFFICES ASSUME NEW d \in Calls, d # c PROVE Working(d)'
  BY DEF Turn
<1>1. pc'[d] = pc[d] /\ live'[d] = live[d] /\ Working(d) /\ alive' = alive
  BY DEF Course, Turn
<1>2. ASSUME pc[d] \in Executing
      PROVE  live[d].run \in active' /\ disk'[live[d].run] = disk[live[d].run]
  <2>1. live[d] # NULL /\ live[d].run \in Runs
    BY <1>2, Fields DEF Basis, Given, Underway, Data, RecordsTyped
  <2>2. live[c] # NULL => live[c].run # live[d].run
    BY <2>1 DEF Basis, Data, Distinct
  <2>3. pc[c] \in Executing \union {"untrack"} => live[c] # NULL
    BY DEF Basis, Given, Underway
  <2> QED
    BY <1>1, <1>2, <2>1, <2>2, <2>3 DEF Turn, Working
<1> QED
  BY <1>1, <1>2 DEF Working

\* What was read and judged stays true.
LEMMA AsReadKept ==
  ASSUME Basis, NEW c \in Calls, Course(c), Turn(c), NEW d \in Record, disk[d.run] # NULL
  PROVE  /\ AsRead(d) => AsRead(d)'
         /\ AsJudged(d) => AsJudged(d)'
         /\ Over(d.run) /\ disk[d.run] = d => Over(d.run)' /\ disk'[d.run] = d
<1>1. d.run \in Runs
  BY Fields
<1>2. Over(d.run) => Over(d.run)' /\ disk'[d.run] = disk[d.run]
  BY <1>1, OverStays
<1>3. \A e \in Calls : pc'[e] \in Executing /\ live'[e].run = d.run =>
                       pc[e] \in Executing /\ live[e].run = d.run
  BY <1>1, SameHands
<1> QED
  BY <1>2, <1>3 DEF AsRead, AsJudged

\* The records that calls have were saved.
LEMMA CopySaved ==
  ASSUME Basis, NEW c \in Calls, copy[c] # NULL
  PROVE  copy[c] \in Record /\ copy[c].run \in Runs /\ disk[copy[c].run] # NULL
BY Fields DEF Basis, Data, RecordsTyped, Story

LEMMA ReadingOthers ==
  ASSUME Basis, NEW c \in Calls, Course(c), Turn(c), NEW d \in Calls, d # c,
         settled'[d] = settled[d], Reading(d)
  PROVE  Reading(d)'
<1>1. pc'[d] = pc[d] /\ copy'[d] = copy[d] /\ live'[d] = live[d]
  BY DEF Course
<1>2. pc[d] = "judge" => copy[d] # NULL
  BY DEF Basis, Given
<1> QED
  BY <1>1, <1>2, CopySaved, AsReadKept DEF Reading

\* A call that does not judge keeps the record it was given.
Holds(c) ==
  /\ \A d \in Calls \ {c} : settled'[d] = settled[d]
  /\ pc'[c] = "idle" => settled'[c] = FALSE
  /\ pc'[c] # "judge"
  /\ copy'[c] # NULL /\ pc'[c] \in Judged => copy'[c] = copy[c] /\ pc[c] \in Judged
  /\ copy'[c] # NULL /\ pc'[c] \in Underway => copy'[c].status \in Resumable

LEMMA ReadingHolds ==
  ASSUME Basis, NEW c \in Calls, Course(c), Turn(c), Reading(c), Holds(c)
  PROVE  Reading(c)'
BY CopySaved, AsReadKept DEF Reading, Holds

LEMMA Holding ==
  ASSUME Basis, NEW c \in Calls, Reading(c), NewRun(c) \/ Advance(c) \/ RequestStop(c),
         ~ReadAgain(c), ~Judge(c)
  PROVE  Holds(c)
<1> USE DEF Basis
<1>0. /\ pc \in [Calls -> Places] /\ settled \in [Calls -> BOOLEAN]
      /\ copy \in [Calls -> Record \union {NULL}]
      /\ (pc[c] = "idle" => copy[c] = NULL /\ settled[c] = FALSE)
  BY DEF ClaimsTyped, Data, RecordsTyped, Given, Reading
<1>1. CASE Return(c)
  BY <1>0, <1>1 DEF Return, Go, Holds, Judged, Underway, Executing
<1>2. ASSUME UNCHANGED <<copy, settled>>, NEW place \in Judged, Go(c, place), pc[c] \in Judged,
             place \in Underway /\ copy[c] # NULL =>
               pc[c] \in Underway \/ copy[c].status \in Resumable
      PROVE  Holds(c)
  <2>1. pc'[c] = place /\ place \notin {"idle", "judge"}
    BY <1>0, <1>2 DEF Go, Judged, Underway, Executing
  <2> QED
    BY <1>2, <2>1 DEF Holds, Reading
<1>3. CASE NewRun(c)
  BY <1>0, <1>3 DEF NewRun, Go, callVars, Holds
<1>4. CASE RequestStop(c)
  <2>1. UNCHANGED <<pc, copy, settled>> /\ pc[c] \notin {"idle", "judge"}
    BY <1>4 DEF RequestStop
  <2> QED
    BY <2>1 DEF Holds, Reading
<1>5. CASE Reserve(c) \/ Unreserve(c) \/ Refuse(c) \/ Untrack(c)
  <2>1. Return(c) \/ (UNCHANGED <<copy, settled>> /\ (Go(c, "claim") \/ Go(c, "unlock")))
    BY <1>5 DEF Reserve, Unreserve, Refuse, Untrack, Leave, callVars
  <2>2. pc[c] \in Judged /\ "claim" \in Judged \ Underway /\ "unlock" \in Judged \ Underway
    BY <1>5 DEF Reserve, Unreserve, Refuse, Untrack, Judged, Underway, Executing
  <2> QED
    BY <1>1, <1>2, <2>1, <2>2
<1>6. CASE Claim(c) \/ CheckChild(c) \/ Unlock(c)
  <2>1. UNCHANGED <<copy, settled>> /\ \E place \in {"unreserve", "child", "compile", "unlock"} : Go(c, place)
    BY <1>6 DEF Claim, CheckChild, Unlock, callVars
  <2>2. pc[c] \in Judged /\ {"unreserve", "child", "compile", "unlock"} \subseteq Judged \ Underway
    BY <1>6 DEF Claim, CheckChild, Unlock, Judged, Underway, Executing
  <2> QED
    BY <1>2, <2>1, <2>2
<1>7. CASE Launch(c)
  <2>1. /\ UNCHANGED <<copy, settled>> /\ (Go(c, "live") \/ Go(c, "final"))
        /\ copy[c] # NULL => copy[c].status \in Resumable
    BY <1>7 DEF Launch, Refused
  <2>2. pc[c] \in Judged /\ "live" \in Judged /\ "final" \in Judged
    BY <1>7 DEF Launch, Judged, Underway, Executing
  <2>3. UNCHANGED <<copy, settled>>
    BY <1>7 DEF Launch
  <2> QED
    BY <1>2, <2>1, <2>2, <2>3
<1>8. CASE \/ InvalidInputs(c) \/ WriteLive(c) \/ FailStep(c) \/ PublishFails(c) \/ EndWork(c)
           \/ Stopped(c) \/ FinalWrite(c) \/ FinalWriteFails(c) \/ Fallback(c)
           \/ StartStep(c) \/ FinishStep(c)
  <2>1. UNCHANGED <<copy, settled>>
    BY <1>8 DEF InvalidInputs, WriteLive, FailStep, PublishFails, EndWork, Stopped, FinalWrite,
               FinalWriteFails, Fallback, StartStep, FinishStep, callVars
  <2>2. \E place \in {"final", "work", "step", "untrack", "fallback"} : Go(c, place)
    BY <1>8 DEF InvalidInputs, WriteLive, FailStep, PublishFails, EndWork, Stopped, FinalWrite,
               FinalWriteFails, Fallback, StartStep, FinishStep, Conclude
  <2>3. pc[c] \in Underway /\ pc[c] \in Judged /\ {"final", "work", "step", "untrack", "fallback"} \subseteq Judged
    BY <1>8 DEF InvalidInputs, WriteLive, FailStep, PublishFails, EndWork, Stopped, FinalWrite,
               FinalWriteFails, Fallback, StartStep, FinishStep, Judged, Underway, Executing
  <2> QED
    BY <1>2, <2>1, <2>2, <2>3
<1>9. CASE ReplayStep(c)
  <2>1. UNCHANGED <<pc, copy, settled>> /\ pc[c] = "work"
    BY <1>9 DEF ReplayStep
  <2> QED
    BY <2>1 DEF Holds, Reading, Judged, Underway, Executing
<1> QED
  BY <1>3, <1>4, <1>5, <1>6, <1>7, <1>8, <1>9 DEF Advance

\* A record is read as it is: somebody executes its run only if it says so.
LEMMA ReadNow ==
  ASSUME Basis, \A e \in Calls : Working(e), Named, NEW r \in Runs, disk[r] # NULL
  PROVE  AsRead(disk[r])
<1>1. disk[r].run = r
  BY DEF Basis, Data, Story
<1> QED
  BY <1>1 DEF AsRead, Over, Working, Named

LEMMA ReadingRead ==
  ASSUME Basis, Dealings, NEW c \in Calls, Course(c), Turn(c), NEW r \in Runs, ReadRecord(c, r)
  PROVE  Reading(c)' /\ \A d \in Calls \ {c} : settled'[d] = settled[d]
<1>1. /\ pc[c] = "idle" /\ pc'[c] = "judge" /\ copy'[c] = disk[r] /\ settled' = settled
      /\ disk[r] \in Record /\ disk[r].run = r
  BY DEF ReadRecord, Go, Basis, ClaimsTyped, Data, RecordsTyped, Story
<1>2. AsRead(disk[r])
  BY <1>1, ReadNow DEF Dealings
<1>3. PICK d \in Record : d = disk[r] /\ d.run = r
  BY <1>1
<1>4. settled[c] = FALSE
  BY <1>1 DEF Dealings, Reading
<1>5. AsRead(copy[c])'
  <2>1. AsRead(d)' /\ copy'[c] = d
    BY <1>1, <1>2, <1>3, AsReadKept
  <2> QED
    BY <2>1 DEF AsRead, Over
<1> QED
  BY <1>1, <1>4, <1>5 DEF Reading, Judged, Underway, Executing

LEMMA ReadingAgain ==
  ASSUME Basis, Dealings, NEW c \in Calls, Course(c), Turn(c), ReadAgain(c)
  PROVE  Reading(c)' /\ \A d \in Calls \ {c} : settled'[d] = settled[d]
<1>0. copy[c] \in Record /\ copy[c].run \in Runs /\ disk[copy[c].run] # NULL
  BY CopySaved DEF ReadAgain, Basis, Given
<1>1. /\ pc[c] = "judge" /\ pc'[c] = "judge" /\ disk' = disk
      /\ copy'[c] = disk[copy[c].run] /\ disk[copy[c].run] \in Record
      /\ disk[copy[c].run].run = copy[c].run
      /\ \A d \in Calls \ {c} : settled'[d] = settled[d]
  BY <1>0 DEF ReadAgain, fileVars, Basis, ClaimsTyped, Data, RecordsTyped, Story
<1>2. Over(copy[c].run)
  <2>1. copy[c].run \notin active
    BY DEF ReadAgain, Doubtful, EffectiveRunStatus
  <2> QED
    BY <2>1 DEF Over, Dealings, Working
<1>3. PICK d \in Record : d = disk[copy[c].run] /\ d.run = copy[c].run
  BY <1>1
<1>4. AsRead(d)' /\ Over(d.run)' /\ disk'[d.run] = d
  BY <1>0, <1>1, <1>2, <1>3, ReadNow, AsReadKept DEF Dealings
<1>5. copy'[c] = d
  BY <1>1, <1>3
<1>6. AsRead(copy[c])' /\ Over(copy[c].run)' /\ disk'[copy'[c].run] = copy'[c]
  BY <1>4, <1>5 DEF AsRead, Over
<1> QED
  BY <1>1, <1>6 DEF Reading, Judged, Underway, Executing

\* The judgement: a run that may be resumed is over.
LEMMA JudgedOver ==
  ASSUME Basis, Dealings, NEW c \in Calls, pc[c] = "judge", ~Doubtful(c),
         NEW d \in Record, d.run = copy[c].run, d.done = copy[c].done,
         d.status = EffectiveRunStatus(ProcOf[c], copy[c])
  PROVE  AsJudged(d)
<1>0. /\ copy[c] \in Record /\ copy[c].run \in Runs /\ disk[copy[c].run] # NULL
      /\ settled[c] \in BOOLEAN
  BY CopySaved DEF Basis, Given, ClaimsTyped
<1>1. AsRead(copy[c]) /\ (settled[c] = TRUE => Over(copy[c].run) /\ disk[copy[c].run] = copy[c])
  BY DEF Dealings, Reading
<1> SUFFICES ASSUME d.status \in Resumable, Tells
             PROVE  /\ Over(d.run)
                    /\ SameProcess => disk[d.run].done = d.done /\ disk[d.run].status # "passed"
  BY DEF AsJudged
<1>2. CASE copy[c].status # "running"
  BY <1>1, <1>2 DEF AsRead, EffectiveRunStatus, Resumable
<1>3. CASE copy[c].status = "running"
  <2>1. EffectiveRunStatus(ProcOf[c], copy[c]) = "interrupted"
    BY <1>3 DEF EffectiveRunStatus, Resumable
  <2>2. CASE copy[c].pid = ProcOf[c]
    <3>1. settled[c] = TRUE
      BY <1>0, <1>3, <2>1, <2>2 DEF Doubtful
    <3> QED
      BY <1>1, <1>3, <3>1
  <2>3. CASE copy[c].pid # ProcOf[c]
    <3>1. ~SameProcess
      BY <1>1, <1>3, <2>3 DEF AsRead, SameProcess
    <3>2. copy[c].pid \notin alive
      BY <1>3, <2>1, <2>3, <3>1 DEF Tells, EffectiveRunStatus
    <3>3. Over(copy[c].run)
      <4> SUFFICES ASSUME NEW e \in Calls, pc[e] \in Executing, live[e].run = copy[c].run
                   PROVE  FALSE
        BY DEF Over
      <4>1. ProcOf[e] = copy[c].pid
        BY <1>1, <1>3 DEF AsRead
      <4>2. ProcOf[e] \in alive
        BY DEF Dealings, Working, Executing
      <4> QED
        BY <3>2, <4>1, <4>2
    <3> QED
      BY <3>1, <3>3
  <2> QED
    BY <2>2, <2>3
<1> QED
  BY <1>2, <1>3

LEMMA ReadingJudge ==
  ASSUME Basis, Dealings, NEW c \in Calls, Course(c), Turn(c), Judge(c)
  PROVE  Reading(c)' /\ \A d \in Calls \ {c} : settled'[d] = settled[d]
<1>0. copy[c] \in Record /\ copy[c].run \in Runs /\ disk[copy[c].run] # NULL
  BY CopySaved DEF Judge, Basis, Given
<1>1. /\ pc[c] = "judge" /\ ~Doubtful(c) /\ pc'[c] = "reserve" /\ disk' = disk /\ settled' = settled
      /\ copy'[c] = [copy[c] EXCEPT !.status = EffectiveRunStatus(ProcOf[c], copy[c])]
  BY DEF Judge, Go, fileVars, Basis, ClaimsTyped, Data, RecordsTyped
<1>2. EffectiveRunStatus(ProcOf[c], copy[c]) \in Status
  BY <1>0 DEF EffectiveRunStatus, Record, Status, Resumable
<1>3. PICK d \in Record : /\ d = [copy[c] EXCEPT !.status = EffectiveRunStatus(ProcOf[c], copy[c])]
                          /\ d.run = copy[c].run /\ d.done = copy[c].done
                          /\ d.status = EffectiveRunStatus(ProcOf[c], copy[c])
  <2>1. PICK s \in Status : s = EffectiveRunStatus(ProcOf[c], copy[c])
    BY <1>2
  <2>2. [copy[c] EXCEPT !.status = s] \in Record
    BY <1>0 DEF Record
  <2>3. LET d == [copy[c] EXCEPT !.status = s]
        IN  d.run = copy[c].run /\ d.done = copy[c].done /\ d.status = s
    BY <1>0 DEF Record
  <2> QED
    BY <2>1, <2>2, <2>3
<1>4. AsJudged(d)
  BY <1>1, <1>3, JudgedOver
<1>5. AsJudged(d)'
  BY <1>0, <1>3, <1>4, AsReadKept
<1>6. AsJudged(copy[c])'
  BY <1>1, <1>3, <1>5 DEF AsJudged, Over
<1> QED
  BY <1>1, <1>6 DEF Reading, Underway, Executing

-----------------------------------------------------------------------------
(* Every step keeps the dealings of the calls with the records.            *)

LEMMA NamedKept ==
  ASSUME Named, NEW c \in Calls, Turn(c)
  PROVE  Named'
BY DEF Named, Turn

LEMMA LooksKept ==
  ASSUME ~IoFailures, LooksActive, NEW c \in Calls, Course(c), Turn(c)
  PROVE  LooksActive'
<1> SUFFICES ASSUME NEW r \in Runs, disk'[r] # NULL, disk'[r].status = "running", disk'[r].pid \in alive'
             PROVE  Running(r)' # {}
  BY DEF LooksActive
<1>1. CASE disk'[r] # disk[r]
  BY <1>1 DEF Turn, Running
<1>2. CASE disk'[r] = disk[r]
  <2>1. PICK d \in Calls : pc[d] \in Executing /\ live[d].run = r
    BY <1>2 DEF LooksActive, Turn, Running
  <2>2. pc'[d] \in Executing /\ live'[d].run = r
    BY <2>1 DEF Course, Turn
  <2> QED
    BY <2>2 DEF Running
<1> QED
  BY <1>1, <1>2

\* A run becomes a resumed one when its resume, which has seen it over, is saved.
LEMMA PastKept ==
  ASSUME Basis, Past, NEW c \in Calls, Reading(c), Kind(c), Course(c), Turn(c)
  PROVE  Past'
<1> SUFFICES ASSUME Tells, NEW r \in Runs, NEW x \in ResumedChildren(r)'
             PROVE  Over(r)' /\ (SameProcess => disk'[r].status # "passed")
  BY DEF Past
<1>1. disk[r] # NULL /\ Over(r) /\ (SameProcess => disk[r].status # "passed")
  <2>1. CASE x \in ResumedChildren(r)
    <3>1. disk[x] # NULL /\ disk[x].from = r /\ x \in Runs /\ r # NULL
      BY <2>1 DEF ResumedChildren, ResumedRunId
    <3>2. disk[r] # NULL
      BY <3>1 DEF Basis, Data, Revised
    <3> QED
      BY <2>1, <3>2 DEF Past
  <2>2. CASE x \notin ResumedChildren(r)
    <3>1. disk' # disk /\ live[c] # NULL /\ live[c].run = x /\ copy[c] # NULL /\ copy[c].run = r
      BY <2>2, NewChild DEF Basis
    <3>2. pc[c] \in Underway /\ pc[c] \in Judged
      BY <3>1 DEF Course, Underway, Judged
    <3>3. copy[c].status \in Resumable /\ AsJudged(copy[c])
      BY <3>1, <3>2 DEF Reading
    <3> QED
      BY <3>1, <3>3, CopySaved DEF AsJudged
  <2> QED
    BY <2>1, <2>2
<1> QED
  BY <1>1, OverStays

LEMMA CallFacts ==
  ASSUME Basis, NEW c \in Calls, Begin(c) \/ Advance(c) \/ RequestStop(c)
  PROVE  Kind(c) /\ Course(c)
BY BasisNewRun, BasisReadRecord, BasisReadAgain, BasisJudge, BasisReserve, BasisClaim,
   BasisCheckChild, BasisRefuse, BasisLaunch, BasisInvalidInputs, BasisWriteLive,
   BasisReplayStep, BasisStartStep, BasisFinishStep, BasisFailStep, BasisPublishFails,
   BasisEndWork, BasisRequestStop, BasisStopped, BasisFinalWrite, BasisFinalWriteFails,
   BasisFallback, BasisUntrack, BasisUnlock, BasisUnreserve
   DEF Begin, Advance

LEMMA DealingsCall ==
  ASSUME Basis, Dealings, NEW c \in Calls, Begin(c) \/ Advance(c) \/ RequestStop(c)
  PROVE  Dealings'
<1>1. Kind(c) /\ Course(c)
  BY CallFacts
<1>2. Working(c) /\ Reading(c) /\ Past /\ Named
  BY DEF Dealings
<1>3. Turn(c)
  BY <1>2, Turns
<1>4. \A d \in Calls : Working(d)'
  BY <1>1, <1>3, WorkingKept DEF Dealings
<1>5. Named' /\ Past'
  BY <1>1, <1>2, <1>3, NamedKept, PastKept
<1>6. ~IoFailures => LooksActive'
  BY <1>1, <1>3, LooksKept DEF Dealings
<1>7. Reading(c)' /\ \A d \in Calls \ {c} : settled'[d] = settled[d]
  <2>1. CASE \E r \in Runs : ReadRecord(c, r)
    BY <1>1, <1>3, <2>1, ReadingRead
  <2>2. CASE ReadAgain(c)
    BY <1>1, <1>3, <2>2, ReadingAgain
  <2>3. CASE Judge(c)
    BY <1>1, <1>3, <2>3, ReadingJudge
  <2>4. CASE (NewRun(c) \/ Advance(c) \/ RequestStop(c)) /\ ~ReadAgain(c) /\ ~Judge(c)
    BY <1>1, <1>2, <1>3, <2>4, Holding, ReadingHolds DEF Holds
  <2> QED
    BY <2>1, <2>2, <2>3, <2>4 DEF Begin, Advance
<1>8. \A d \in Calls : Reading(d)'
  BY <1>1, <1>3, <1>7, ReadingOthers DEF Dealings
<1> QED
  BY <1>4, <1>5, <1>6, <1>8 DEF Dealings

\* A death ends the executions of its process, and with them the claim of
\* their records that the run is going.
LEMMA DealingsDie == ASSUME Basis, Dealings, NEW p \in Procs, Die(p) PROVE Dealings'
<1>0. /\ disk' = disk /\ alive' = alive \ {p}
      /\ \A c \in Calls : ProcOf[c] = p => pc'[c] = "dead" /\ copy'[c] = NULL
      /\ \A c \in Calls : ProcOf[c] # p => /\ pc'[c] = pc[c] /\ copy'[c] = copy[c] /\ live'[c] = live[c]
                                           /\ settled'[c] = settled[c]
  <2>1. \A c \in Calls : settled[c] \in BOOLEAN
    BY DEF Basis, ClaimsTyped
  <2>2. \A c \in Calls : ProcOf[c] # p => settled'[c] = settled[c]
    BY <2>1 DEF Die
  <2> QED
    BY <2>2 DEF Die, fileVars
<1>1. "dead" \notin Executing \union Judged \union {"idle", "judge"}
  BY DEF Executing, Judged, Underway
<1>2. ASSUME NEW r, Over(r) PROVE Over(r)'
  BY <1>0, <1>1, <1>2 DEF Over
<1>3. ASSUME NEW c \in Calls PROVE Working(c)'
  <2>0. Working(c)
    BY DEF Dealings
  <2>1. CASE ProcOf[c] = p
    BY <1>0, <1>1, <2>1 DEF Working
  <2>2. CASE ProcOf[c] # p
    <3>1. ASSUME pc[c] \in Executing PROVE live[c].run \in active'
      <4>1. live[c] # NULL
        BY <3>1 DEF Basis, Given, Underway
      <4> QED
        BY <2>0, <2>2, <3>1, <4>1 DEF Die, Working, Basis, Data, Distinct
    <3> QED
      BY <1>0, <2>0, <2>2, <3>1 DEF Working
  <2> QED
    BY <2>1, <2>2
<1>4. ASSUME NEW d, AsRead(d) PROVE AsRead(d)'
  BY <1>0, <1>1, <1>2, <1>4 DEF AsRead
<1>5. ASSUME NEW d, AsJudged(d) PROVE AsJudged(d)'
  BY <1>0, <1>2, <1>5 DEF AsJudged
<1>6. ASSUME NEW c \in Calls PROVE Reading(c)'
  <2>0. Reading(c)
    BY DEF Dealings
  <2>1. CASE ProcOf[c] = p
    BY <1>0, <1>1, <2>1 DEF Reading, Underway
  <2>2. CASE ProcOf[c] # p
    <3>1. PICK d : d = copy[c]
      OBVIOUS
    <3>2. copy'[c] = d
      BY <1>0, <2>2, <3>1
    <3>3. pc[c] = "judge" => AsRead(copy[c])'
      BY <1>4, <2>0, <3>1, <3>2 DEF Reading, AsRead, Over
    <3>4. pc[c] = "judge" /\ settled[c] = TRUE => Over(copy[c].run)' /\ disk[copy[c].run] = copy[c]
      BY <1>2, <2>0, <3>1, <3>2 DEF Reading, Over
    <3>5. pc[c] \in Judged /\ copy[c] # NULL => AsJudged(copy[c])'
      BY <1>5, <2>0, <3>1, <3>2 DEF Reading, AsJudged, Over
    <3> QED
      BY <1>0, <2>0, <2>2, <3>1, <3>2, <3>3, <3>4, <3>5 DEF Reading
  <2> QED
    BY <2>1, <2>2
<1>7. Named'
  BY <1>0 DEF Dealings, Named
<1>8. Past'
  BY <1>0, <1>2 DEF Dealings, Past, ResumedChildren, ResumedRunId
<1>9. ~IoFailures => LooksActive'
  <2> SUFFICES ASSUME ~IoFailures, NEW r \in Runs, disk'[r] # NULL, disk'[r].status = "running",
                      disk'[r].pid \in alive'
               PROVE  Running(r)' # {}
    BY DEF LooksActive
  <2>1. PICK d \in Calls : pc[d] \in Executing /\ live[d].run = r
    BY <1>0 DEF Dealings, LooksActive, Running
  <2>2. ProcOf[d] # p
    BY <1>0, <2>1 DEF Dealings, Working
  <2> QED
    BY <1>0, <2>1, <2>2 DEF Running
<1> QED
  BY <1>3, <1>6, <1>7, <1>8, <1>9 DEF Dealings

LEMMA DealingsSame ==
  ASSUME Dealings, UNCHANGED <<disk, alive, active, pc, copy, settled, live>>
  PROVE  Dealings'
BY DEF Dealings, Working, Reading, AsRead, AsJudged, Over, Named, Past, LooksActive, Running,
       ResumedChildren, ResumedRunId

LEMMA DealingsStep == Basis /\ Dealings /\ [Next]_vars => Dealings'
<1> SUFFICES ASSUME Basis, Dealings, [Next]_vars PROVE Dealings'
  OBVIOUS
<1>1. CASE EditSource \/ UNCHANGED vars
  BY <1>1, DealingsSame DEF EditSource, vars, claimVars, callVars
<1> QED
  BY <1>1, DealingsCall, DealingsDie DEF Next

LEMMA DealingsInit == Init => Dealings
<1> SUFFICES ASSUME Init PROVE Dealings
  OBVIOUS
<1>1. \A c \in Calls : Working(c) /\ Reading(c)
  BY DEF Init, Working, Reading, Executing, Judged, Underway
<1>2. Named /\ Past /\ LooksActive
  BY DEF Init, Named, Past, LooksActive, ResumedChildren, ResumedRunId
<1> QED
  BY <1>1, <1>2 DEF Dealings

\* In every reachable state, who executes a run and what was read of it fit.
LEMMA DealingsHold == Spec => [](Basis /\ Dealings)
<1>1. IInv => Basis
  BY DEF IInv
<1> QED
  BY <1>1, Invariant, DealingsInit, DealingsStep, PTL DEF Spec

\* Nobody resumes a run that is still executed, when a process can tell whether
\* another lives: on Windows run_service.py does not ask.
THEOREM ResumesNeverOverlap == Tells => (Spec => []NoOverlap)
<1> SUFFICES ASSUME Tells PROVE Spec => []NoOverlap
  OBVIOUS
<1>1. Dealings => NoOverlap
  <2> SUFFICES ASSUME Dealings, NEW c \in Calls, pc[c] \in Executing, copy[c] # NULL
               PROVE  Running(copy[c].run) = {}
    BY DEF NoOverlap
  <2>1. copy[c].status \in Resumable /\ AsJudged(copy[c])
    BY DEF Dealings, Reading, Underway, Judged
  <2> QED
    BY <2>1 DEF AsJudged, Over, Running
<1> QED
  BY <1>1, DealingsHold, PTL

\* Records and executions agree whatever dies between two steps, when a process
\* can tell whether another lives and the disk takes what is written.
THEOREM RecordsAndRunsAgree == Tells /\ ~IoFailures => (Spec => []RecordsAgree)
<1> SUFFICES ASSUME Tells, ~IoFailures PROVE Spec => []RecordsAgree
  OBVIOUS
<1>1. Dealings => LooksActive
  BY DEF Dealings
<1>2. NoOverlap /\ LooksActive => RecordsAgree
  BY DEF RecordsAgree
<1> QED
  BY <1>1, <1>2, DealingsHold, ResumesNeverOverlap, PTL

\* From the moment a run counts as resumed nothing rewrites its record.
THEOREM EarlierRunsUnchanged == Tells => (Spec => EarlierUnchanged)
<1> SUFFICES ASSUME Tells PROVE Spec => EarlierUnchanged
  OBVIOUS
<1>1. Basis /\ Dealings /\ [Next]_vars
        => [\A r \in Runs : ResumedChildren(r) # {} => disk'[r] = disk[r]]_vars
  <2> SUFFICES ASSUME Basis, Dealings, Next, NEW r \in Runs, ResumedChildren(r) # {}
               PROVE  disk'[r] = disk[r]
    OBVIOUS
  <2>1. Over(r)
    BY DEF Dealings, Past
  <2>2. ASSUME NEW c \in Calls, Begin(c) \/ Advance(c) \/ RequestStop(c) PROVE disk'[r] = disk[r]
    <3>1. Course(c) /\ Turn(c)
      BY <2>2, CallFacts, Turns DEF Dealings
    <3> QED
      BY <2>1, <3>1, OverStays
  <2>3. ASSUME NEW p \in Procs, Die(p) PROVE disk'[r] = disk[r]
    BY <2>3 DEF Die, fileVars
  <2>4. CASE EditSource
    BY <2>4 DEF EditSource
  <2> QED
    BY <2>2, <2>3, <2>4 DEF Next
<1> QED
  BY <1>1, DealingsHold, PTL DEF Spec, EarlierUnchanged

\* Within one process, no run that passed is resumed: what was read while the
\* run was going is read once more before it counts as interrupted.
THEOREM PassedIsFinal == SameProcess => (Spec => []PassedStaysPassed)
<1> SUFFICES ASSUME SameProcess PROVE Spec => []PassedStaysPassed
  OBVIOUS
<1>1. Dealings => PassedStaysPassed
  BY DEF Dealings, Past, Tells, PassedStaysPassed
<1> QED
  BY <1>1, DealingsHold, PTL

-----------------------------------------------------------------------------
(* What a resumed run executes.                                            *)

\* The results that the earlier run had saved are replayed first.
Ahead == \A c \in Calls : pc[c] = "step" /\ copy[c] # NULL => live[c].done >= copy[c].done

LEMMA AheadOwn ==
  ASSUME Basis, Ahead, NEW c \in Calls, Begin(c) \/ Advance(c) \/ RequestStop(c),
         pc'[c] = "step", copy'[c] # NULL
  PROVE  live'[c].done >= copy'[c].done
<1>0. pc \in [Calls -> Places] /\ copy \in [Calls -> Record \union {NULL}]
  BY DEF Basis, ClaimsTyped, Data, RecordsTyped
<1>1. StartStep(c) \/ RequestStop(c)
  <2>1. ~\E place \in Places \ {"step"} : Go(c, place)
    BY <1>0 DEF Go
  <2>2. {"idle", "judge", "reserve", "claim", "unreserve", "child", "compile", "unlock", "live", "final",
         "work", "untrack", "fallback"} \subseteq Places \ {"step"}
    BY DEF Places, Reserved, Claimed
  <2>3. ~NewRun(c) /\ (\A r \in Runs : ~ReadRecord(c, r)) /\ ~Judge(c) /\ ~Reserve(c) /\ ~Claim(c)
        /\ ~CheckChild(c) /\ ~Refuse(c)
    BY <2>1, <2>2 DEF NewRun, ReadRecord, Judge, Reserve, Claim, CheckChild, Refuse, Return, Leave
  <2>4. ~Launch(c) /\ ~InvalidInputs(c) /\ ~WriteLive(c) /\ ~FinishStep(c) /\ ~FailStep(c)
        /\ ~PublishFails(c) /\ ~EndWork(c) /\ ~Stopped(c)
    BY <2>1, <2>2 DEF Launch, InvalidInputs, WriteLive, FinishStep, FailStep, PublishFails, EndWork,
                      Stopped, Conclude
  <2>5. ~FinalWrite(c) /\ ~FinalWriteFails(c) /\ ~Fallback(c) /\ ~Untrack(c) /\ ~Unlock(c) /\ ~Unreserve(c)
    BY <2>1, <2>2 DEF FinalWrite, FinalWriteFails, Fallback, Untrack, Unlock, Unreserve, Return, Leave
  <2>6. ~ReadAgain(c) /\ ~ReplayStep(c)
    BY DEF ReadAgain, ReplayStep
  <2> QED
    BY <2>3, <2>4, <2>5, <2>6 DEF Begin, Advance
<1>2. CASE RequestStop(c)
  BY <1>2 DEF RequestStop, Ahead
<1>3. CASE StartStep(c)
  <2>1. live[c] \in Record /\ pc[c] = "work" /\ copy' = copy /\ copy[c] \in Record
    BY <1>0, <1>3 DEF StartStep, Basis, Given, Underway, Executing, Data, RecordsTyped
  <2>2. live[c].done >= copy[c].done
    <3>1. live[c].done \in copy[c].done..(Steps - 1)
      BY <1>3, <2>1 DEF StartStep, Reusable
    <3>2. copy[c].done \in Int
      BY <2>1 DEF Record
    <3> QED
      BY <3>1, <3>2
  <2>3. live'[c].done = live[c].done
    <3>1. live'[c] = [live[c] EXCEPT !.begun = TRUE]
      BY <1>3 DEF StartStep, Publish, Basis, Data, RecordsTyped
    <3> QED
      BY <2>1, <3>1 DEF Record
  <2> QED
    BY <2>1, <2>2, <2>3
<1> QED
  BY <1>1, <1>2, <1>3

LEMMA AheadStep == Basis /\ Ahead /\ [Next]_vars => Ahead'
<1> SUFFICES ASSUME Basis, Ahead, [Next]_vars PROVE Ahead'
  OBVIOUS
<1>1. ASSUME NEW c \in Calls, Begin(c) \/ Advance(c) \/ RequestStop(c) PROVE Ahead'
  <2>1. Course(c)
    BY <1>1, CallFacts
  <2>2. ASSUME NEW d \in Calls, pc'[d] = "step", copy'[d] # NULL PROVE live'[d].done >= copy'[d].done
    <3>1. CASE d = c
      BY <1>1, <2>2, <3>1, AheadOwn
    <3>2. CASE d # c
      BY <2>1, <2>2, <3>2 DEF Course, Ahead
    <3> QED
      BY <3>1, <3>2
  <2> QED
    BY <2>2 DEF Ahead
<1>2. ASSUME NEW p \in Procs, Die(p) PROVE Ahead'
  BY <1>2 DEF Die, Ahead
<1>3. CASE EditSource \/ UNCHANGED vars
  BY <1>3 DEF EditSource, vars, claimVars, callVars, Ahead
<1> QED
  BY <1>1, <1>2, <1>3 DEF Next

\* Within one process, a resumed run executes only what its earlier run had not
\* saved as finished.
THEOREM FinishedStepsAreReused == SameProcess => (Spec => []OnlyUnfinished)
<1> SUFFICES ASSUME SameProcess PROVE Spec => []OnlyUnfinished
  OBVIOUS
<1>1. Init => Ahead
  BY DEF Init, Ahead
<1>2. Dealings /\ Ahead => OnlyUnfinished
  <2> SUFFICES ASSUME Dealings, Ahead, NEW c \in Calls, pc[c] = "step", copy[c] # NULL
               PROVE  live[c].done >= disk[copy[c].run].done
    BY DEF OnlyUnfinished
  <2>1. copy[c].status \in Resumable /\ AsJudged(copy[c])
    BY DEF Dealings, Reading, Underway, Judged, Executing
  <2>2. disk[copy[c].run].done = copy[c].done
    BY <2>1 DEF AsJudged, Tells
  <2> QED
    BY <2>2 DEF Ahead
<1> QED
  BY <1>1, <1>2, AheadStep, DealingsHold, PTL DEF Spec
=============================================================================
