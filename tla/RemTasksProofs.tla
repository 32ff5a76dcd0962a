--------------------------- MODULE RemTasksProofs ---------------------------
(***************************************************************************)
(* Proofs about RemTasks, for any number of runs, any budgets and any      *)
(* number of commands and of servers.                                      *)
(*                                                                         *)
(* The argument rests on who may write a run: while it has a worker only   *)
(* that worker ends it, unless a former server still has one too; a        *)
(* command or a recovery advances the epoch of the run, so what a worker   *)
(* knew is known to be old.                                                *)
(***************************************************************************)
EXTENDS RemTasks, FiniteSetTheorems, TLAPS

USE BoundsAssumption, NoValueAssumption

-----------------------------------------------------------------------------
(* The invariant.                                                          *)

\* Type of the state.
TypeOK ==
  /\ task \in Recipes
  /\ managed \in Runs \union {NULL}
  /\ run \in [Runs -> Rows \union {NULL}]
  /\ outbox \subseteq [run : Runs, epoch : Nat, state : ENDS]
  /\ up \in {"up", "closing", "down"}
  /\ jobs \subseteq [run : Runs, role : {"execute", "verify"}]
  /\ worker \in [Runs -> Workers \union {NULL}]
  /\ former \in [Runs -> Workers \union {NULL}]
  /\ commands \in Nat /\ ends \in Nat /\ contested \subseteq Runs

\* Where a worker holds the recipe it works by.
Holding == {"begin", "working", "reviewing", "worked", "gate", "reviewed", "asked", "conclude"}

\* A worker w beside the row m: if no command came since it read the run, it
\* works by the recipe of the run and none is pending.
Fits(w, m) ==
  /\ w.pc \in Holding =>
       /\ w.epoch \in Nat /\ w.epoch <= m.epoch
       /\ w.epoch = m.epoch => m.pending = NULL /\ w.recipe = m.recipe
  /\ w.pc = "conclude" => w.how \in {"succeeded", "blocked"}
  /\ w.pc = "act" => w.how \in {"outcome_unknown", "cancelled", "queued", "retry", "blocked"}

\* A run with a worker is active, unless a former worker has ended it.
Held(r) ==
  worker[r] # NULL =>
    /\ up # "down" /\ run[r] # NULL /\ Fits(worker[r], run[r])
    /\ r \in contested \/ run[r].state \in ACTIVE

\* A former worker waits, leaves, or fits the run as any worker does.
Left(r) ==
  former[r] # NULL =>
    /\ run[r] # NULL
    /\ former[r].pc \in {"working", "stop", "conclude", "except", "act"}
    /\ former[r].pc # "working" => Fits(former[r], run[r])

\* A worker that does not know its turn to be over.
Unconfirmed(w) ==
  \/ w.pc \in Waiting /\ w.how = NULL
  \/ w.pc = "except" /\ w.how = "timeout"
  \/ w.pc = "act" /\ w.how = "outcome_unknown"

HasJob(r) == \E job \in jobs : job.run = r

\* A provider at work has a worker that has not heard of its end, or had one,
\* which left the outcome of the run unknown.
AtWork(r) ==
  HasJob(r) =>
    /\ run[r] # NULL /\ up # "down"
    /\ \/ r \in contested
       \/ worker[r] # NULL /\ Unconfirmed(worker[r])
       \/ worker[r] = NULL /\ run[r].state = "outcome_unknown"

\* An outcome in the outbox is of an earlier epoch, or what the run says now.
Mailed(r) ==
  \A o \in outbox : o.run = r =>
    /\ run[r] # NULL /\ o.epoch <= run[r].epoch
    /\ r \notin contested /\ o.epoch = run[r].epoch =>
         run[r].state \notin ACTIVE /\ o.state = run[r].state

\* The outcome of r is told or waits to be told.
Told(r) ==
  run[r] # NULL /\ Over(r) => \/ run[r].told \/ r \in contested
                              \/ \E o \in outbox : o.run = r /\ o.epoch = run[r].epoch

Good(r) == Held(r) /\ Left(r) /\ AtWork(r) /\ Mailed(r) /\ Told(r)

OneActive == \A r, s \in Active \ contested : r = s

OneJob == \A j, k \in jobs : j = k

\* Runs are numbered as they are added; the thread belongs to one of them.
Numbered ==
  /\ \E n \in 0 .. MaxRuns : Existing = 1 .. n
  /\ managed # NULL => run[managed] # NULL

IInv ==
  /\ TypeOK /\ OneActive /\ OneJob /\ Numbered
  /\ \A r \in Runs : Good(r)

-----------------------------------------------------------------------------
(* Rows.                                                                   *)

USE DEF ENDS, ACTIVE

\* n is a row that differs from m at most in flags and budgets.
Like(n, m) ==
  /\ n \in Rows /\ n.state = m.state /\ n.epoch = m.epoch /\ n.recipe = m.recipe
  /\ n.pending = m.pending /\ n.turn = m.turn /\ n.told = m.told

LEMMA UnusedRow == ASSUME NEW m \in Rows, NEW bs PROVE Like(Unused(m, bs), m)
<1> DEFINE u == [b \in Budgets |-> IF b \in bs THEN 0 ELSE m.used[b]]
<1>1. u \in [Budgets -> Nat]
  BY DEF Rows
<1>2. Unused(m, bs) = [m EXCEPT !.used = u]
  BY DEF Unused
<1> HIDE DEF u
<1> QED
  BY <1>1, <1>2 DEF Rows, Like

LEMMA UseRow == ASSUME NEW m \in Rows, NEW b \in Budgets PROVE Like(Use(m, b), m)
<1> DEFINE u == [m.used EXCEPT ![b] = m.used[b] + 1]
<1>1. u \in [Budgets -> Nat]
  BY DEF Rows
<1>2. Use(m, b) = [m EXCEPT !.used = u]
  BY DEF Use
<1> HIDE DEF u
<1> QED
  BY <1>1, <1>2 DEF Rows, Like

LEMMA ResetRow ==
  ASSUME NEW m \in Rows, NEW kind
  PROVE  /\ Reset(m, kind) \in Rows /\ Reset(m, kind).state = "queued"
         /\ Reset(m, kind).epoch = m.epoch /\ Reset(m, kind).recipe = m.recipe
         /\ Reset(m, kind).pending = m.pending /\ Reset(m, kind).turn = m.turn
<1> DEFINE n == Unused(m, IF kind = "recover" THEN Budgets \ {"repair"} ELSE Budgets)
<1>1. Like(n, m)
  BY UnusedRow
<1>2. PICK b1 \in BOOLEAN : b1 = (kind # "work")
  OBVIOUS
<1>3. PICK b2 \in BOOLEAN : b2 = IF kind = "work" THEN FALSE ELSE n.inspect
  <2>1. n.inspect \in BOOLEAN
    BY <1>1 DEF Like, Rows
  <2> QED
    BY <2>1
<1>4. Reset(m, kind) = [n EXCEPT !.state = "queued", !.told = FALSE, !.reviewing = FALSE,
                                 !.resume = b1, !.inspect = b2]
  BY <1>2, <1>3 DEF Reset
<1> HIDE DEF n
<1>5. FALSE \in BOOLEAN
  OBVIOUS
<1> QED
  BY <1>1, <1>4, <1>5 DEF Like, Rows

LEMMA BeginCycleRow ==
  ASSUME NEW m \in Rows, NEW kind
  PROVE  /\ BeginCycle(m, kind) \in Rows /\ BeginCycle(m, kind).state = "queued"
         /\ BeginCycle(m, kind).epoch = m.epoch + 1 /\ BeginCycle(m, kind).recipe = m.recipe
         /\ BeginCycle(m, kind).pending = m.pending /\ BeginCycle(m, kind).turn = m.turn
<1> DEFINE n == Reset(m, kind)
<1>1. n \in Rows /\ n.state = "queued" /\ n.epoch = m.epoch /\ n.recipe = m.recipe
      /\ n.pending = m.pending /\ n.turn = m.turn
  BY ResetRow
<1>2. BeginCycle(m, kind) = [n EXCEPT !.epoch = n.epoch + 1]
  BY DEF BeginCycle
<1> HIDE DEF n
<1> QED
  BY <1>1, <1>2 DEF Rows

LEMMA AppliedRow ==
  ASSUME NEW m \in Rows, m.pending # NULL
  PROVE  /\ Applied(m) \in Rows /\ Applied(m).state = "queued" /\ Applied(m).epoch = m.epoch
         /\ Applied(m).recipe = m.pending /\ Applied(m).pending = NULL
         /\ Applied(m).turn = m.turn
<1> DEFINE n == Reset(m, "work")
<1>1. n \in Rows /\ n.state = "queued" /\ n.epoch = m.epoch /\ n.turn = m.turn
  BY ResetRow
<1>2. Applied(m) = [n EXCEPT !.recipe = m.pending, !.pending = NULL]
  BY DEF Applied
<1>3. m.pending \in Recipes
  BY DEF Rows
<1> HIDE DEF n
<1> QED
  BY <1>1, <1>2, <1>3 DEF Rows

LEMMA EndedRow ==
  ASSUME NEW m \in Rows, NEW s \in ENDS
  PROVE  /\ Ended(m, s) \in Rows /\ Ended(m, s).state = s /\ Ended(m, s).epoch = m.epoch
         /\ Ended(m, s).recipe = m.recipe /\ Ended(m, s).pending = m.pending
<1>1. PICK b \in BOOLEAN : b = (s \in {"blocked", "cancelled"} /\ m.state = "verifying")
  OBVIOUS
<1>2. PICK t \in TurnRecords \union {NULL} : t = IF s = "outcome_unknown" THEN m.turn ELSE NULL
  BY DEF Rows
<1>3. Ended(m, s) = [m EXCEPT !.state = s, !.reviewing = b, !.turn = t]
  BY <1>1, <1>2 DEF Ended
<1> QED
  BY <1>3 DEF Rows

LEMMA TidyRow ==
  ASSUME NEW m \in Rows
  PROVE  /\ Tidy(m) \in Rows /\ Tidy(m).state = m.state /\ Tidy(m).epoch = m.epoch
         /\ Tidy(m).recipe = m.recipe /\ Tidy(m).pending = m.pending
<1> DEFINE n == Unused(m, Budgets)
           again == m.state \in {"blocked", "cancelled"}
<1>1. Like(n, m)
  BY UnusedRow
<1>2. n.result \in BOOLEAN /\ n.verifier \in BOOLEAN /\ n.inspect \in BOOLEAN
  BY <1>1 DEF Like, Rows
<1>3. PICK b1 \in BOOLEAN : b1 = (n.result /\ again)
  BY <1>2
<1>4. PICK b2 \in BOOLEAN : b2 = (n.verifier /\ again)
  BY <1>2
<1>5. PICK b3 \in BOOLEAN : b3 = (n.inspect /\ again)
  BY <1>2
<1>6. PICK b0 \in BOOLEAN : b0 = FALSE
  OBVIOUS
<1>7. Tidy(m) = [n EXCEPT !.resume = b0, !.result = b1, !.verifier = b2, !.inspect = b3]
  BY <1>3, <1>4, <1>5, <1>6 DEF Tidy
<1>8. n \in Rows
  BY <1>1 DEF Like
<1> HIDE DEF n
<1>9. Tidy(m) \in Rows
  BY <1>7, <1>8 DEF Rows
<1>10. /\ Tidy(m).state = n.state /\ Tidy(m).epoch = n.epoch
       /\ Tidy(m).recipe = n.recipe /\ Tidy(m).pending = n.pending
  BY <1>7, <1>8 DEF Rows
<1> QED
  BY <1>1, <1>9, <1>10 DEF Like

\* The row of a run that ends, tidied up or not.
LEMMA FinishedRow ==
  ASSUME NEW m \in Rows, NEW s \in ENDS, NEW n \in {Ended(m, s), Tidy(Ended(m, s))}
  PROVE  /\ n \in Rows /\ n.state = s /\ n.epoch = m.epoch
         /\ n.recipe = m.recipe /\ n.pending = m.pending
<1> DEFINE e == Ended(m, s)
<1>1. e \in Rows /\ e.state = s /\ e.epoch = m.epoch /\ e.recipe = m.recipe /\ e.pending = m.pending
  BY EndedRow
<1>2. n = e \/ n = Tidy(e)
  OBVIOUS
<1> HIDE DEF e
<1> QED
  BY <1>1, <1>2, TidyRow

LEMMA RecordedRow ==
  ASSUME NEW m \in Rows, NEW status \in {"final", "empty", "failed"}
  PROVE  LET n == Recorded(m, status)
         IN  /\ n \in Rows /\ n.state = m.state /\ n.epoch = m.epoch /\ n.told = m.told
             /\ n.recipe = m.recipe /\ n.pending = m.pending
<1>1. CASE ~(m.turn # NULL /\ m.turn.status = "running")
  BY <1>1 DEF Recorded
<1>2. CASE m.turn # NULL /\ m.turn.status = "running"
  <2> DEFINE t == [m.turn EXCEPT !.status = status]
  <2>1. m.turn \in TurnRecords
    BY <1>2 DEF Rows
  <2>2. t \in TurnRecords
    BY <2>1 DEF TurnRecords
  <2>3. Recorded(m, status) = [m EXCEPT !.turn = t]
    BY <1>2 DEF Recorded
  <2> HIDE DEF t
  <2> QED
    BY <2>2, <2>3 DEF Rows
<1> QED
  BY <1>1, <1>2

LEMMA RecoveredRow ==
  ASSUME NEW m \in Rows
  PROVE  /\ Recovered(m) \in Rows
         /\ Recovered(m).recipe = m.recipe /\ Recovered(m).pending = m.pending
         /\ \/ Recovered(m) = m
            \/ /\ m.state \in ACTIVE /\ Recovered(m).state = "queued"
               /\ Recovered(m).epoch = m.epoch + 1
<1>1. CASE m.state \notin ACTIVE \ {"queued", "cancelling"}
  <2>1. Recovered(m) = m
    BY <1>1 DEF Recovered
  <2> QED
    BY <2>1
<1>2. CASE m.state \in ACTIVE \ {"queued", "cancelling"}
  <2> DEFINE n == BeginCycle(m, "recover")
             completed == m.turn # NULL /\ m.turn.role = "execute" /\ m.turn.status \in {"final", "empty"}
             result == IF completed THEN m.turn.status = "final" ELSE m.result
             inspectFirst == m.state \in {"executing", "repairing"} /\ ~completed
  <2>1. /\ n \in Rows /\ n.state = "queued" /\ n.epoch = m.epoch + 1 /\ n.recipe = m.recipe
        /\ n.pending = m.pending
    BY BeginCycleRow
  <2>2. result \in BOOLEAN
    BY DEF Rows
  <2>3. PICK b1 \in BOOLEAN : b1 = result
    BY <2>2
  <2>4. PICK b2 \in BOOLEAN : b2 = (inspectFirst \/ ~result)
    OBVIOUS
  <2>5. Recovered(m) = [n EXCEPT !.result = b1, !.inspect = b2]
    BY <1>2, <2>3, <2>4 DEF Recovered
  <2> HIDE DEF n
  <2>6. m.state \in ACTIVE
    BY <1>2
  <2> QED
    BY <2>1, <2>5, <2>6 DEF Rows
<1> QED
  BY <1>1, <1>2

LEMMA NewRunRow ==
  ASSUME NEW recipe \in Recipes
  PROVE  /\ NewRun(recipe) \in Rows /\ NewRun(recipe).state = "queued" /\ NewRun(recipe).turn = NULL
<1>1. [b \in Budgets |-> 0] \in [Budgets -> Nat] /\ FALSE \in BOOLEAN
  OBVIOUS
<1> QED
  BY <1>1 DEF NewRun, Rows

-----------------------------------------------------------------------------
(* Steps of one run.                                                       *)

\* The row n keeps the promise that m makes to the workers that have read it.
Follows(n, m) ==
  \/ n.epoch > m.epoch
  \/ n.epoch = m.epoch /\ (m.pending # NULL \/ (n.pending = m.pending /\ n.recipe = m.recipe))

LEMMA FitsStays ==
  ASSUME NEW w, NEW m \in Rows, NEW n \in Rows, Fits(w, m), Follows(n, m)
  PROVE  Fits(w, n)
<1>1. m.epoch \in Nat /\ n.epoch \in Nat
  BY DEF Rows
<1>2. ASSUME w.pc \in Holding
      PROVE  /\ w.epoch \in Nat /\ w.epoch <= n.epoch
             /\ w.epoch = n.epoch => n.pending = NULL /\ w.recipe = n.recipe
  <2>1. /\ w.epoch \in Nat /\ w.epoch <= m.epoch
        /\ w.epoch = m.epoch => m.pending = NULL /\ w.recipe = m.recipe
    BY <1>2 DEF Fits
  <2> QED
    BY <1>1, <2>1 DEF Follows
<1> QED
  BY <1>2 DEF Fits

\* A run succeeds in a step only with the recipe that a worker of it holds who
\* has come to its conclusion.
Success(r) ==
  run'[r].state = "succeeded" /\ run[r].state # "succeeded" =>
    /\ run[r].pending = NULL
    /\ \E w \in {worker[r], former[r]} \ {NULL} : w.pc = "conclude" /\ w.recipe = run[r].recipe

Step == IInv' /\ \A r \in Existing : Success(r)

\* A run that nobody touches keeps what is said of it.
LEMMA Untouched ==
  ASSUME NEW k \in Runs, Good(k), run'[k] = run[k], worker'[k] = worker[k],
         former'[k] = former[k], up' # "down" \/ up' = up, contested \subseteq contested',
         \A o : o.run = k => (o \in outbox' <=> o \in outbox), HasJob(k)' => HasJob(k)
  PROVE  Good(k)' /\ Success(k)
<1> USE DEF Good
<1>1. Held(k)'
  BY DEF Held
<1>2. Left(k)'
  BY DEF Left
<1>3. AtWork(k)'
  BY DEF AtWork
<1>4. Mailed(k)'
  BY DEF Mailed
<1>5. Told(k)'
  BY DEF Told, Over
<1>6. Success(k)
  BY DEF Success
<1> QED
  BY <1>1, <1>2, <1>3, <1>4, <1>5, <1>6

\* Runs one by one make up a step, if no second one becomes active.
LEMMA Composes ==
  ASSUME IInv, TypeOK', OneJob', NEW r,
         \A k \in Runs : run'[k] = NULL <=> run[k] = NULL,
         managed' # NULL => run'[managed'] # NULL,
         contested \subseteq contested',
         \A k \in Runs : run[k] # NULL /\ run'[k].state \in ACTIVE =>
           \/ k \in contested' \/ run[k].state \in ACTIVE
           \/ (k = r /\ Active \ contested \subseteq {r}),
         \A k \in Runs : Good(k)' /\ (run[k] # NULL => Success(k))
  PROVE  Step
<1>1. Existing' = Existing
  BY DEF Existing
<1>2. Numbered'
  BY <1>1 DEF IInv, Numbered
<1>3. OneActive'
  <2>1. \A k \in (Active \ contested)' :
          k \in Active \ contested \/ (k = r /\ Active \ contested \subseteq {r})
    <3> SUFFICES ASSUME NEW k \in (Active \ contested)'
                 PROVE  k \in Active \ contested \/ (k = r /\ Active \ contested \subseteq {r})
      OBVIOUS
    <3>1. k \in Runs /\ run'[k] # NULL /\ run'[k].state \in ACTIVE /\ k \notin contested'
      BY DEF Active, Existing
    <3>2. run[k] # NULL /\ k \notin contested
      BY <3>1
    <3>3. run[k].state \in ACTIVE \/ (k = r /\ Active \ contested \subseteq {r})
      BY <3>1, <3>2, Zenon
    <3> QED
      BY <3>1, <3>2, <3>3 DEF Active, Existing
  <2>2. OneActive
    BY DEF IInv
  <2> QED
    BY <2>1, <2>2 DEF OneActive
<1> QED
  BY <1>2, <1>3 DEF IInv, Step, Existing

\* What happens to the row of r if its outcome is not told in the step: an
\* active run stays active, a run that was over keeps its outcome, or a new
\* epoch is begun while no other run is active; nothing is said of a run that a
\* former worker has written.
Changes(m, r) ==
  \/ run[r].state \in ACTIVE /\ m.state \in ACTIVE
  \/ m.epoch = run[r].epoch /\ m.state = run[r].state /\ (run[r].told => m.told)
  \/ m.epoch > run[r].epoch /\ m.state \in ACTIVE /\ Active \ contested \subseteq {r}
  \/ r \in contested' /\ m.state \in ACTIVE

LEMMA MailStays ==
  ASSUME IInv, NEW r \in Runs, run[r] # NULL, NEW m \in Rows, run'[r] = m,
         Follows(m, run[r]), Changes(m, r), outbox' = outbox, contested \subseteq contested'
  PROVE  Mailed(r)' /\ Told(r)' /\ Success(r)
<1>1. run[r].epoch \in Nat /\ m.epoch \in Nat /\ m.epoch >= run[r].epoch /\ m # NULL
  BY DEF IInv, TypeOK, Rows, Follows
<1>2. Mailed(r) /\ Told(r)
  BY DEF IInv, Good
<1>3. Mailed(r)'
  <2> SUFFICES ASSUME NEW o \in outbox, o.run = r
               PROVE  /\ o.epoch <= m.epoch
                      /\ r \notin contested' /\ o.epoch = m.epoch =>
                           m.state \notin ACTIVE /\ o.state = m.state
    BY <1>1 DEF Mailed
  <2>1. o.epoch \in Nat
    BY DEF IInv, TypeOK
  <2>2. /\ o.epoch <= run[r].epoch
        /\ r \notin contested /\ o.epoch = run[r].epoch =>
             run[r].state \notin ACTIVE /\ o.state = run[r].state
    BY <1>2 DEF Mailed
  <2> QED
    BY <1>1, <2>1, <2>2 DEF Changes
<1>4. Told(r)'
  BY <1>1, <1>2 DEF Told, Over, Changes
<1>5. Success(r)
  BY DEF Success, Changes
<1> QED
  BY <1>3, <1>4, <1>5

\* A step that rewrites the row of r and tells nothing.
LEMMA Rewrites ==
  ASSUME IInv, NEW r \in Runs, run[r] # NULL, NEW m \in Rows, run' = [run EXCEPT ![r] = m],
         Follows(m, run[r]), Changes(m, r),
         task' \in Recipes, managed' \in {managed, r}, outbox' = outbox,
         up' = up \/ up' \in {"up", "closing"}, commands' \in Nat, ends' \in Nat,
         worker' \in [Runs -> Workers \union {NULL}], \A k \in Runs \ {r} : worker'[k] = worker[k],
         former' \in [Runs -> Workers \union {NULL}], \A k \in Runs \ {r} : former'[k] = former[k],
         jobs' \subseteq [run : Runs, role : {"execute", "verify"}], OneJob',
         \A job \in jobs' : job \in jobs \/ job.run = r,
         contested \subseteq contested', contested' \subseteq Runs,
         Held(r)', Left(r)', AtWork(r)'
  PROVE  Step
<1>1. run'[r] = m /\ m # NULL /\ \A k \in Runs \ {r} : run'[k] = run[k]
  BY DEF IInv, TypeOK
<1>2. TypeOK'
  BY DEF IInv, TypeOK
<1>3. Mailed(r)' /\ Told(r)' /\ Success(r)
  BY <1>1, MailStays
<1>4. ASSUME NEW k \in Runs PROVE Good(k)' /\ Success(k)
  <2>1. CASE k = r
    BY <1>3, <2>1 DEF Good
  <2>2. CASE k # r
    <3>1. Good(k) /\ (up' # "down" \/ up' = up)
      BY DEF IInv
    <3>2. HasJob(k)' => HasJob(k)
      BY <2>2 DEF HasJob
    <3> QED
      BY <1>1, <2>2, <3>1, <3>2, Untouched DEF IInv
  <2> QED
    BY <2>1, <2>2
<1>5. managed' # NULL => run'[managed'] # NULL
  BY <1>1 DEF IInv, Numbered, TypeOK
<1>6. ASSUME NEW k \in Runs, run[k] # NULL, run'[k].state \in ACTIVE
      PROVE  \/ k \in contested' \/ run[k].state \in ACTIVE
             \/ (k = r /\ Active \ contested \subseteq {r})
  BY <1>1, <1>6 DEF Changes
<1>7. \A k \in Runs : run'[k] = NULL <=> run[k] = NULL
  BY <1>1
<1> QED
  BY <1>2, <1>4, <1>5, <1>6, <1>7, Composes

\* A step that changes no row.
LEMMA RowsKept ==
  ASSUME IInv, run' = run, outbox' = outbox, managed' = managed, task' \in Recipes,
         up' = up \/ up' \in {"up", "closing"}, commands' \in Nat, ends' \in Nat,
         jobs' = jobs, contested' = contested,
         worker' \in [Runs -> Workers \union {NULL}],
         former' \in [Runs -> Workers \union {NULL}],
         \A k \in Runs : worker'[k] = worker[k] \/ (Held(k)' /\ AtWork(k)'),
         \A k \in Runs : former'[k] = former[k] \/ Left(k)'
  PROVE  Step
<1>1. TypeOK' /\ OneJob'
  BY DEF IInv, TypeOK, OneJob
<1>2. ASSUME NEW k \in Runs PROVE Good(k)' /\ Success(k)
  <2>0. Good(k)
    BY DEF IInv
  <2>1. Held(k)'
    BY <2>0 DEF Good, Held
  <2>2. AtWork(k)'
    BY <2>0 DEF Good, AtWork, HasJob
  <2>3. Left(k)'
    BY <2>0 DEF Good, Left
  <2>4. Mailed(k)' /\ Told(k)'
    BY <2>0 DEF Good, Mailed, Told, Over
  <2> QED
    BY <2>1, <2>2, <2>3, <2>4 DEF Good, Success
<1>3. managed' # NULL => run'[managed'] # NULL
  BY DEF IInv, Numbered
<1>4. \A k \in Runs : run'[k].state \in ACTIVE => run[k].state \in ACTIVE
  OBVIOUS
<1> QED
  BY <1>1, <1>2, <1>3, <1>4, Composes

\* What Finish does to r if it does anything: the outcome is in the outbox.
LEMMA Finishes ==
  ASSUME IInv, NEW r \in Runs, run[r] # NULL, NEW s \in ENDS, NEW w, NEW byEpoch,
         Finish(w, r, s, byEpoch), MayFinish(w, r, byEpoch),
         s = "succeeded" =>
           byEpoch /\ w \in {worker[r], former[r]} \ {NULL} /\ w.pc = "conclude",
         task' = task, managed' = managed, up' = up, jobs' = jobs,
         commands' = commands, ends' = ends,
         worker' \in [Runs -> Workers \union {NULL}], \A k \in Runs \ {r} : worker'[k] = worker[k],
         former' \in [Runs -> Workers \union {NULL}], \A k \in Runs \ {r} : former'[k] = former[k],
         contested \subseteq contested', contested' \subseteq Runs,
         worker'[r] = NULL \/ (worker'[r] = worker[r] /\ r \in contested'),
         former'[r] \in {former[r], NULL},
         HasJob(r) => r \in contested' \/ s = "outcome_unknown"
  PROVE  Step
<1> DEFINE row == [run |-> r, epoch |-> run[r].epoch, state |-> s]
<1>1. run[r] \in Rows /\ run[r].state \in ACTIVE /\ run[r].epoch \in Nat /\ Good(r)
  BY DEF IInv, TypeOK, MayFinish, Rows
<1>2. PICK m \in {Ended(run[r], s), Tidy(Ended(run[r], s))} :
        run' = [run EXCEPT ![r] = m] /\ Enqueue(row)
  BY DEF Finish
<1>3. /\ m \in Rows /\ m.state = s /\ m.epoch = run[r].epoch /\ m # NULL
      /\ m.recipe = run[r].recipe /\ m.pending = run[r].pending
  BY <1>1, FinishedRow
<1>4. row \in [run : Runs, epoch : Nat, state : ENDS] /\ row.run = r /\ row.epoch = run[r].epoch
      /\ row.state = s
  BY <1>1
<1> HIDE DEF row
<1>5. run'[r] = m /\ \A k \in Runs \ {r} : run'[k] = run[k]
  BY <1>2 DEF IInv, TypeOK
<1>6. /\ outbox' \subseteq outbox \union {row} /\ outbox \subseteq outbox'
      /\ \E o \in outbox' : o.run = r /\ o.epoch = run[r].epoch
  BY <1>2, <1>4 DEF Enqueue
<1>7. TypeOK' /\ OneJob'
  <2>1. run' \in [Runs -> Rows \union {NULL}]
    BY <1>2, <1>3 DEF IInv, TypeOK
  <2>2. outbox' \subseteq [run : Runs, epoch : Nat, state : ENDS]
    BY <1>4, <1>6 DEF IInv, TypeOK
  <2> QED
    BY <2>1, <2>2 DEF IInv, TypeOK, OneJob
<1>8. Follows(m, run[r])
  BY <1>3 DEF Follows
<1>9. Held(r)'
  BY <1>1, <1>3, <1>5, <1>8, FitsStays DEF Good, Held
<1>10. Left(r)'
  BY <1>1, <1>3, <1>5, <1>8, FitsStays DEF Good, Left
<1>11. AtWork(r)'
  <2>1. HasJob(r)' => HasJob(r)
    BY DEF HasJob
  <2> QED
    BY <1>1, <1>3, <1>5, <2>1 DEF Good, AtWork
<1>12. Mailed(r)'
  <2> SUFFICES ASSUME NEW o \in outbox', o.run = r
               PROVE  /\ o.epoch <= m.epoch
                      /\ r \notin contested' /\ o.epoch = m.epoch =>
                           m.state \notin ACTIVE /\ o.state = m.state
    BY <1>3, <1>5 DEF Mailed
  <2>1. CASE o = row
    BY <1>1, <1>3, <1>4, <2>1
  <2>2. CASE o \in outbox
    <3>1. o.epoch <= run[r].epoch /\ (r \notin contested => o.epoch # run[r].epoch)
      BY <1>1, <2>2 DEF Good, Mailed
    <3> QED
      BY <1>3, <3>1
  <2> QED
    BY <1>6, <2>1, <2>2
<1>13. Told(r)'
  BY <1>3, <1>5, <1>6 DEF Told
<1>14. Success(r)
  <2>1. CASE s = "succeeded"
    <3>1. w \in {worker[r], former[r]} \ {NULL} /\ w.pc = "conclude" /\ run[r].epoch = w.epoch
      BY <2>1 DEF MayFinish, GuardedBy
    <3>2. Fits(w, run[r])
      BY <1>1, <3>1 DEF Good, Held, Left
    <3>3. run[r].pending = NULL /\ w.recipe = run[r].recipe
      BY <3>1, <3>2 DEF Fits, Holding
    <3> QED
      BY <3>1, <3>3 DEF Success
  <2>2. CASE s # "succeeded"
    BY <1>3, <1>5, <2>2 DEF Success
  <2> QED
    BY <2>1, <2>2
<1>15. ASSUME NEW k \in Runs PROVE Good(k)' /\ Success(k)
  <2>1. CASE k = r
    BY <1>9, <1>10, <1>11, <1>12, <1>13, <1>14, <2>1 DEF Good
  <2>2. CASE k # r
    <3>1. \A o : o.run = k => (o \in outbox' <=> o \in outbox)
      BY <1>4, <1>6, <2>2
    <3>2. HasJob(k)' => HasJob(k)
      BY DEF HasJob
    <3>3. Good(k)
      BY DEF IInv
    <3> QED
      BY <1>5, <2>2, <3>1, <3>2, <3>3, Untouched
  <2> QED
    BY <2>1, <2>2
<1>16. managed' # NULL => run'[managed'] # NULL
  BY <1>3, <1>5 DEF IInv, Numbered, TypeOK
<1>17. \A k \in Runs : run[k] # NULL /\ run'[k].state \in ACTIVE => run[k].state \in ACTIVE
  BY <1>1, <1>5
<1>18. \A k \in Runs : run'[k] = NULL <=> run[k] = NULL
  BY <1>3, <1>5
<1> QED
  BY <1>7, <1>15, <1>16, <1>17, <1>18, Composes

-----------------------------------------------------------------------------
(* Steps of a worker.                                                      *)

\* What the invariant says of a worker that is there.
LEMMA WithWorker ==
  ASSUME IInv, NEW r \in Runs, worker[r] # NULL
  PROVE  /\ worker[r] \in Workers /\ run[r] # NULL /\ run[r] \in Rows
         /\ run[r].state \in ACTIVE \/ r \in contested
         /\ run[r].epoch \in Nat /\ Fits(worker[r], run[r]) /\ up # "down"
BY DEF IInv, Good, TypeOK, Held, Rows

\* What a worker does not touch.
Rest(r) ==
  /\ task' = task /\ managed' \in {managed, r} /\ outbox' = outbox /\ up' = up
  /\ commands' = commands /\ ends' = ends /\ former' = former /\ contested' = contested

\* The row m, which the worker of r writes in the epoch it finds.
Written(m, r) ==
  /\ m \in Rows /\ m.epoch = run[r].epoch /\ Follows(m, run[r])
  /\ m.state \in ACTIVE \/ (r \in contested /\ m.state = run[r].state /\ m.told = run[r].told)

\* It starts a turn while the thread has no job, or leaves the jobs alone; then
\* it does not forget a turn that may go on.
Jobs(r, w) ==
  \/ jobs' = jobs /\ (Unconfirmed(worker[r]) => w # NULL /\ Unconfirmed(w))
  \/ /\ jobs = {} /\ w # NULL /\ Unconfirmed(w)
     /\ \E role \in {"execute", "verify"} : jobs' = {[run |-> r, role |-> role]}

\* The worker of r writes its row, in the same epoch, and goes on or ends.
LEMMA WorkerWrites ==
  ASSUME IInv, NEW r \in Runs, worker[r] # NULL,
         NEW m, run' = [run EXCEPT ![r] = m], Written(m, r),
         NEW w \in Workers \union {NULL}, worker' = [worker EXCEPT ![r] = w],
         w # NULL => Fits(w, m), Jobs(r, w), Rest(r)
  PROVE  Step
<1>1. /\ run[r] # NULL /\ run[r] \in Rows /\ up # "down" /\ Good(r)
      /\ run[r].state \in ACTIVE \/ r \in contested
  BY WithWorker DEF IInv
<1>2. run'[r] = m /\ m # NULL /\ worker'[r] = w
  BY DEF IInv, TypeOK, Written
<1>3. Held(r)'
  BY <1>1, <1>2 DEF Held, Rest, Written
<1>4. Left(r)'
  BY <1>1, <1>2, FitsStays DEF Good, Left, Rest, Written
<1>5. AtWork(r)'
  <2>1. CASE jobs' = jobs /\ (Unconfirmed(worker[r]) => w # NULL /\ Unconfirmed(w))
    <3>1. HasJob(r)' => HasJob(r)
      BY <2>1 DEF HasJob
    <3>2. HasJob(r) => r \in contested \/ Unconfirmed(worker[r])
      BY <1>1 DEF Good, AtWork
    <3> QED
      BY <1>1, <1>2, <2>1, <3>1, <3>2 DEF AtWork, Rest
  <2>2. CASE w # NULL /\ Unconfirmed(w)
    BY <1>1, <1>2, <2>2 DEF AtWork, Rest
  <2> QED
    BY <2>1, <2>2 DEF Jobs
<1>6. /\ jobs' \subseteq [run : Runs, role : {"execute", "verify"}] /\ OneJob'
      /\ \A job \in jobs' : job \in jobs \/ job.run = r
  <2>1. CASE jobs' = jobs
    BY <2>1 DEF IInv, TypeOK, OneJob
  <2>2. CASE \E role \in {"execute", "verify"} : jobs' = {[run |-> r, role |-> role]}
    BY <2>2 DEF OneJob
  <2> QED
    BY <2>1, <2>2 DEF Jobs
<1>7. /\ worker' \in [Runs -> Workers \union {NULL}]
      /\ \A k \in Runs \ {r} : worker'[k] = worker[k]
      /\ former' \in [Runs -> Workers \union {NULL}] /\ former' = former
      /\ commands' \in Nat /\ ends' \in Nat /\ task' \in Recipes
      /\ contested' = contested /\ contested \subseteq Runs
      /\ managed' \in {managed, r} /\ outbox' = outbox /\ up' = up
  BY DEF IInv, TypeOK, Rest
<1>8. Changes(m, r)
  BY <1>1, <1>7 DEF Changes, Written
<1> QED
  BY <1>1, <1>3, <1>4, <1>5, <1>6, <1>7, <1>8, Rewrites DEF Written

\* A row that differs in flags, budgets and the turn, and perhaps the phase.
LEMMA Writes ==
  ASSUME IInv, NEW r \in Runs, worker[r] # NULL,
         NEW m \in Rows, m.epoch = run[r].epoch,
         m.pending = run[r].pending, m.recipe = run[r].recipe,
         m.state \in ACTIVE \/ (m.state = run[r].state /\ m.told = run[r].told)
  PROVE  Written(m, r)
<1>1. run[r].state \in ACTIVE \/ r \in contested
  BY WithWorker
<1>2. m.state \in ACTIVE \/ (r \in contested /\ m.state = run[r].state /\ m.told = run[r].told)
  BY <1>1
<1>3. Follows(m, run[r])
  BY DEF Follows
<1> QED
  BY <1>2, <1>3 DEF Written

\* A worker that knows its turn to be over, or has none.
Free(w) == w.pc \notin Waiting \/ w.how # NULL

LEMMA FreeWorker ==
  ASSUME IInv, NEW r \in Runs, worker[r] # NULL, worker[r].pc \in Holding, Free(worker[r])
  PROVE  ~Unconfirmed(worker[r])
BY DEF Holding, Free, Unconfirmed

\* It keeps the recipe and goes on to pc.
LEMMA GoesOn ==
  ASSUME IInv, NEW r \in Runs, worker[r] # NULL, worker[r].pc \in Holding, Free(worker[r]),
         NEW m \in Rows, run' = [run EXCEPT ![r] = m], m.epoch = run[r].epoch,
         m.pending = run[r].pending, m.recipe = run[r].recipe,
         m.state \in ACTIVE \/ (m.state = run[r].state /\ m.told = run[r].told),
         NEW pc \in {"top", "worked", "gate", "reviewed", "asked", "conclude", "stop"},
         NEW how \in {"succeeded", "blocked", worker[r].how, NULL},
         pc = "conclude" => how \in {"succeeded", "blocked"},
         GoWith(r, pc, how), jobs' = jobs, Rest(r)
  PROVE  Step
<1> DEFINE w == [worker[r] EXCEPT !.pc = pc, !.how = how]
<1>1. worker[r] \in Workers /\ Fits(worker[r], run[r])
  BY WithWorker
<1>2. w \in Workers /\ w.epoch = worker[r].epoch /\ w.recipe = worker[r].recipe
      /\ w.pc = pc /\ w.how = how
  BY <1>1 DEF Workers
<1>3. worker' = [worker EXCEPT ![r] = w]
  BY DEF GoWith, IInv, TypeOK
<1> HIDE DEF w
<1>4. Fits(w, m)
  BY <1>1, <1>2 DEF Fits
<1>5. Jobs(r, w) /\ Written(m, r)
  BY FreeWorker, Writes DEF Jobs
<1> QED
  BY <1>2, <1>3, <1>4, <1>5, WorkerWrites

\* It fails; an end that could not be confirmed is remembered.
LEMMA Raises ==
  ASSUME IInv, NEW r \in Runs, worker[r] # NULL, worker[r].pc \in Holding,
         NEW m \in Rows, run' = [run EXCEPT ![r] = m], m.epoch = run[r].epoch,
         m.pending = run[r].pending, m.recipe = run[r].recipe,
         m.state \in ACTIVE \/ (m.state = run[r].state /\ m.told = run[r].told),
         NEW how \in {"error", "timeout", "transient"}, Raise(r, how),
         Free(worker[r]) \/ how = "timeout", jobs' = jobs, Rest(r)
  PROVE  Step
<1> DEFINE w == Failed(how)
<1>1. w \in Workers /\ w.pc = "except" /\ w.how = how /\ w # NULL
  BY DEF Failed, Workers
<1>2. worker' = [worker EXCEPT ![r] = w]
  BY DEF Raise
<1> HIDE DEF w
<1>3. Fits(w, m)
  BY <1>1 DEF Fits, Holding
<1>4. Jobs(r, w) /\ Written(m, r)
  BY <1>1, FreeWorker, Writes DEF Jobs, Unconfirmed
<1> QED
  BY <1>1, <1>2, <1>3, <1>4, WorkerWrites

\* It ends and leaves the run in the queue, or to the commands that came.
LEMMA EndsThread ==
  ASSUME IInv, NEW r \in Runs, worker[r] # NULL, ~Unconfirmed(worker[r]),
         NEW m \in Rows, run' = [run EXCEPT ![r] = m], m.epoch = run[r].epoch,
         m.pending = run[r].pending, m.recipe = run[r].recipe,
         m.state \in ACTIVE \/ (m.state = run[r].state /\ m.told = run[r].told),
         ThreadEnds(r), jobs' = jobs, Rest(r)
  PROVE  Step
BY Writes, WorkerWrites DEF ThreadEnds, Jobs

\* A run whose row is left alone is rewritten as it is.
LEMMA SameRow ==
  ASSUME IInv, NEW r \in Runs, run' = run
  PROVE  run' = [run EXCEPT ![r] = run[r]]
BY DEF IInv, TypeOK

\* What a worker's step leaves alone.
LEMMA RestKept ==
  ASSUME NEW r, UNCHANGED <<outside, outbox>>, managed' \in {managed, r}
  PROVE  Rest(r)
BY DEF outside, events, Rest

-----------------------------------------------------------------------------
(* Every action preserves the invariant.                                   *)

LEMMA InvTop == ASSUME IInv, NEW r \in Runs, Top(r) PROVE Step
<1> DEFINE pending == run[r].state # "cancelling" /\ run[r].pending # NULL /\ up = "up"
           m == IF pending THEN Applied(run[r]) ELSE run[r]
           stops == up # "up" \/ m.state = "cancelling"
           saved == m.resume /\ (m.result \/ m.inspect)
           phase == IF stops THEN m.state ELSE IF m.resume THEN "verifying"
                    ELSE IF m.used["repair"] = 0 THEN "executing" ELSE "repairing"
           n == [m EXCEPT !.state = phase]
           w == [pc |-> IF stops THEN "stop" ELSE IF saved THEN "worked" ELSE "begin",
                 how |-> IF saved /\ ~stops THEN "saved" ELSE NULL,
                 epoch |-> m.epoch, recipe |-> m.recipe]
<1>1. /\ worker[r] # NULL /\ worker[r].pc = "top" /\ run' = [run EXCEPT ![r] = n]
      /\ worker' = [worker EXCEPT ![r] = w] /\ jobs' = jobs
      /\ UNCHANGED <<outside, outbox>> /\ managed' \in {managed, r}
  BY DEF Top, At, Put
<1>2. run[r] \in Rows /\ (run[r].state \in ACTIVE \/ r \in contested)
  BY <1>1, WithWorker
<1>3. /\ m \in Rows /\ m.epoch = run[r].epoch /\ m.epoch \in Nat /\ m.recipe \in Recipes
      /\ m.state \in ACTIVE \/ (r \in contested /\ m.state = run[r].state /\ m.told = run[r].told)
      /\ ~stops => m.pending = NULL
      /\ run[r].pending # NULL \/ (m.pending = run[r].pending /\ m.recipe = run[r].recipe)
  <2>1. CASE pending
    BY <1>2, <2>1, AppliedRow DEF Rows
  <2>2. CASE ~pending
    BY <1>2, <2>2 DEF Rows
  <2> QED
    BY <2>1, <2>2
<1>4. phase \in ACTIVE \/ (phase = m.state /\ phase \in ACTIVE \union ENDS)
  BY <1>3 DEF Rows
<1>5. /\ w \in Workers /\ w.epoch = m.epoch /\ w.recipe = m.recipe
      /\ w.pc \in {"stop", "worked", "begin"} /\ (w.pc \in Holding => ~stops)
  BY <1>3 DEF Workers, Holding
<1> HIDE DEF stops, saved, m, phase, w
<1>6. /\ n \in Rows /\ n.epoch = m.epoch /\ n.state = phase /\ n.pending = m.pending
      /\ n.recipe = m.recipe /\ n.told = m.told
  BY <1>3, <1>4 DEF Rows
<1> HIDE DEF n
<1>7. Fits(w, n)
  BY <1>3, <1>5, <1>6 DEF Fits
<1>8. Written(n, r)
  BY <1>3, <1>4, <1>6 DEF Written, Follows
<1>9. Jobs(r, w)
  BY <1>1 DEF Jobs, Unconfirmed, Waiting
<1>10. Rest(r)
  BY <1>1, RestKept
<1> QED
  BY <1>1, <1>5, <1>7, <1>8, <1>9, <1>10, WorkerWrites

\* A turn is started, or found to be impossible.
LEMMA StartsTurn ==
  ASSUME IInv, NEW r \in Runs, worker[r] # NULL, worker[r].pc \in {"begin", "gate"},
         NEW m \in Rows, m.epoch = run[r].epoch, m.state = run[r].state, m.told = run[r].told,
         m.pending = run[r].pending, m.recipe = run[r].recipe,
         NEW role \in {"execute", "verify"}, StartTurn(r, role, m), Rest(r)
  PROVE  Step
<1>0. worker[r].pc \in Holding /\ Free(worker[r])
  BY DEF Holding, Free, Waiting
<1>1. ASSUME NEW status \in {"failed", "running"}
      PROVE  LET n == [m EXCEPT !.turn = [role |-> role, status |-> status]]
             IN  /\ n \in Rows /\ n.epoch = run[r].epoch /\ n.state = run[r].state
                 /\ n.told = run[r].told
                 /\ n.pending = run[r].pending /\ n.recipe = run[r].recipe
  <2> DEFINE t == [role |-> role, status |-> status]
  <2>1. t \in TurnRecords
    BY DEF TurnRecords
  <2> HIDE DEF t
  <2>2. LET n == [m EXCEPT !.turn = t]
        IN  /\ n \in Rows /\ n.epoch = run[r].epoch /\ n.state = run[r].state
            /\ n.told = run[r].told
            /\ n.pending = run[r].pending /\ n.recipe = run[r].recipe
    BY <2>1 DEF Rows
  <2> QED
    BY <2>2 DEF t
<1>2. CASE Live
  <2> DEFINE n == [m EXCEPT !.turn = [role |-> role, status |-> "failed"]]
  <2>1. /\ n \in Rows /\ n.epoch = run[r].epoch /\ n.state = run[r].state /\ n.told = run[r].told
        /\ n.pending = run[r].pending /\ n.recipe = run[r].recipe
    BY <1>1
  <2>2. run' = [run EXCEPT ![r] = n] /\ Raise(r, "error") /\ jobs' = jobs
    BY <1>2 DEF StartTurn, Put
  <2> HIDE DEF n
  <2> QED
    BY <1>0, <2>1, <2>2, Raises
<1>3. CASE ~Live
  <2> DEFINE n == [m EXCEPT !.turn = [role |-> role, status |-> "running"]]
             pc == IF role = "execute" THEN "working" ELSE "reviewing"
             w == [worker[r] EXCEPT !.pc = pc, !.how = NULL]
  <2>1. /\ n \in Rows /\ n.epoch = run[r].epoch /\ n.state = run[r].state /\ n.told = run[r].told
        /\ n.pending = run[r].pending /\ n.recipe = run[r].recipe
    BY <1>1
  <2>2. /\ run' = [run EXCEPT ![r] = n] /\ GoWith(r, pc, NULL)
        /\ jobs = {} /\ jobs' = {[run |-> r, role |-> role]}
    BY <1>3 DEF StartTurn, Put, Go, Live
  <2>3. worker[r] \in Workers /\ Fits(worker[r], run[r])
    BY WithWorker
  <2>4. /\ w \in Workers /\ w.pc \in Waiting /\ w.how = NULL
        /\ w.epoch = worker[r].epoch /\ w.recipe = worker[r].recipe
    BY <2>3 DEF Workers, Waiting
  <2>5. worker' = [worker EXCEPT ![r] = w]
    BY <2>2 DEF GoWith, IInv, TypeOK
  <2> HIDE DEF n, pc, w
  <2>6. Fits(w, n)
    BY <1>0, <2>1, <2>3, <2>4 DEF Fits, Waiting
  <2>7. Jobs(r, w)
    BY <2>2, <2>4 DEF Jobs, Unconfirmed
  <2>8. Written(n, r)
    BY <2>1, Writes
  <2> QED
    BY <2>2, <2>4, <2>5, <2>6, <2>7, <2>8, WorkerWrites
<1> QED
  BY <1>2, <1>3

LEMMA InvBegin == ASSUME IInv, NEW r \in Runs, Begin(r) PROVE Step
<1>1. worker[r] # NULL /\ worker[r].pc = "begin" /\ StartTurn(r, "execute", run[r])
  BY DEF Begin, At
<1>2. run[r] \in Rows
  BY <1>1, WithWorker
<1>3. Rest(r)
  BY RestKept DEF Begin
<1> QED
  BY <1>1, <1>2, <1>3, StartsTurn

LEMMA InvBeginReview == ASSUME IInv, NEW r \in Runs, BeginReview(r) PROVE Step
<1>1. PICK b \in BOOLEAN : b = TRUE
  OBVIOUS
<1> DEFINE m == [run[r] EXCEPT !.verifier = b]
<1>2. worker[r] # NULL /\ worker[r].pc = "gate" /\ StartTurn(r, "verify", m)
  BY <1>1 DEF BeginReview, At
<1>3. /\ m \in Rows /\ m.epoch = run[r].epoch /\ m.state = run[r].state /\ m.told = run[r].told
      /\ m.pending = run[r].pending /\ m.recipe = run[r].recipe
  <2>1. run[r] \in Rows
    BY <1>2, WithWorker
  <2> QED
    BY <2>1 DEF Rows
<1>4. Rest(r)
  BY RestKept DEF BeginReview
<1> HIDE DEF m
<1> QED
  BY <1>2, <1>3, <1>4, StartsTurn

\* The turn that was at work was the only one.
LEMMA InvTurnEnds == ASSUME IInv, NEW job \in jobs, TurnEnds(job) PROVE Step
<1> DEFINE r == job.run
<1>1. PICK status \in {"final", "empty", "failed"} :
        /\ run' = [run EXCEPT ![r] = Recorded(run[r], status)]
        /\ worker' = IF worker[r] # NULL /\ worker[r].pc \in Waiting
                       THEN [worker EXCEPT ![r].how = status] ELSE worker
  BY DEF TurnEnds, Put
<1>2. jobs' = {} /\ r \in Runs /\ Rest(r)
  <2>1. jobs' = jobs \ {job} /\ UNCHANGED <<outside, outbox>> /\ managed' = managed
    BY DEF TurnEnds
  <2> QED
    BY <2>1, RestKept DEF IInv, OneJob, TypeOK
<1>3. run[r] # NULL /\ run[r] \in Rows /\ Good(r)
  BY <1>2 DEF IInv, TypeOK, Good, AtWork, HasJob
<1> DEFINE m == Recorded(run[r], status)
<1>4. /\ m \in Rows /\ m.epoch = run[r].epoch /\ m.state = run[r].state /\ m.told = run[r].told
      /\ m.pending = run[r].pending /\ m.recipe = run[r].recipe
  BY <1>3, RecordedRow
<1> HIDE DEF m, r
<1>5. run' = [run EXCEPT ![r] = m]
  BY <1>1 DEF m, r
<1>6. run'[r] = m /\ m # NULL
  BY <1>2, <1>4, <1>5 DEF IInv, TypeOK
<1>7. Follows(m, run[r]) /\ Changes(m, r)
  BY <1>4 DEF Follows, Changes
<1>8. worker' \in [Runs -> Workers \union {NULL}] /\ \A k \in Runs \ {r} : worker'[k] = worker[k]
  <2>1. ASSUME worker[r] # NULL PROVE [worker[r] EXCEPT !.how = status] \in Workers
    BY <1>2, <2>1, WithWorker DEF Workers
  <2> QED
    BY <1>1, <1>2, <2>1 DEF IInv, TypeOK, r
<1>9. Held(r)'
  <2>1. CASE worker'[r] = worker[r]
    BY <1>2, <1>3, <1>4, <1>6, <1>7, <2>1, FitsStays DEF Good, Held, Rest
  <2>2. CASE worker[r] # NULL /\ worker[r].pc \in Waiting /\ worker' = [worker EXCEPT ![r].how = status]
    <3> DEFINE w == [worker[r] EXCEPT !.how = status]
    <3>1. worker[r] \in Workers /\ Fits(worker[r], run[r])
      BY <1>2, <2>2, WithWorker
    <3>2. w.pc = worker[r].pc /\ w.epoch = worker[r].epoch /\ w.recipe = worker[r].recipe
      BY <3>1 DEF Workers
    <3>3. worker'[r] = w
      BY <1>2, <2>2 DEF IInv, TypeOK
    <3> HIDE DEF w
    <3>4. Fits(w, run[r])
      BY <2>2, <3>1, <3>2 DEF Fits, Waiting
    <3>5. Fits(w, m)
      BY <1>3, <1>4, <1>7, <3>4, FitsStays
    <3> QED
      BY <1>2, <1>3, <1>4, <1>6, <2>2, <3>3, <3>5 DEF Good, Held, Rest
  <2> QED
    BY <1>1, <2>1, <2>2 DEF r
<1>10. Left(r)'
  BY <1>2, <1>3, <1>4, <1>6, <1>7, FitsStays DEF Good, Left, Rest
<1>11. AtWork(r)' /\ OneJob'
  BY <1>2 DEF AtWork, HasJob, OneJob
<1>12. /\ task' \in Recipes /\ managed' \in {managed, r} /\ outbox' = outbox /\ up' = up
       /\ commands' \in Nat /\ ends' \in Nat /\ former' = former
       /\ former' \in [Runs -> Workers \union {NULL}]
       /\ contested' = contested /\ contested \subseteq Runs
  BY <1>2 DEF Rest, IInv, TypeOK
<1> QED
  BY <1>2, <1>3, <1>4, <1>5, <1>7, <1>8, <1>9, <1>10, <1>11, <1>12, Rewrites

LEMMA InvAwaitTurn == ASSUME IInv, NEW r \in Runs, AwaitTurn(r) PROVE Step
<1>1. worker[r] # NULL /\ worker[r].pc \in Holding
  BY DEF AwaitTurn, Holding, Waiting
<1>2. run[r] \in Rows
  BY <1>1, WithWorker
<1>3. run' = [run EXCEPT ![r] = run[r]] /\ jobs' = jobs /\ Rest(r)
  BY SameRow, RestKept DEF AwaitTurn
<1>4. \/ Raise(r, "timeout")
      \/ Free(worker[r]) /\ \E how \in {"error", "transient"} : Raise(r, how)
      \/ Free(worker[r]) /\ worker[r].how # "failed" /\ GoWith(r, "worked", worker[r].how)
      \/ Free(worker[r]) /\ GoWith(r, "reviewed", NULL)
  BY DEF AwaitTurn, Go, Free
<1>5. CASE Raise(r, "timeout")
  BY <1>1, <1>2, <1>3, <1>5, Raises
<1>6. CASE Free(worker[r]) /\ \E how \in {"error", "transient"} : Raise(r, how)
  BY <1>1, <1>2, <1>3, <1>6, Raises
<1>7. CASE Free(worker[r]) /\ worker[r].how # "failed" /\ GoWith(r, "worked", worker[r].how)
  BY <1>1, <1>2, <1>3, <1>7, GoesOn
<1>8. CASE Free(worker[r]) /\ GoWith(r, "reviewed", NULL)
  BY <1>1, <1>2, <1>3, <1>8, GoesOn
<1> QED
  BY <1>4, <1>5, <1>6, <1>7, <1>8

\* A worker between its turns.
LEMMA Between ==
  ASSUME IInv, NEW r \in Runs, worker[r] # NULL,
         worker[r].pc \in {"begin", "worked", "gate", "reviewed", "asked"}
  PROVE  /\ worker[r].pc \in Holding /\ Free(worker[r]) /\ ~Unconfirmed(worker[r])
         /\ run[r] \in Rows
<1>1. worker[r].pc \in Holding /\ Free(worker[r])
  BY DEF Holding, Free, Waiting
<1> QED
  BY <1>1, FreeWorker, WithWorker

LEMMA InvOvertaken == ASSUME IInv, NEW r \in Runs, Overtaken(r) PROVE Step
<1>1. worker[r] # NULL /\ worker[r].pc \in Holding /\ Free(worker[r]) /\ run[r] \in Rows
  BY Between DEF Overtaken
<1>2. run' = [run EXCEPT ![r] = run[r]] /\ jobs' = jobs /\ Rest(r)
  BY SameRow, RestKept DEF Overtaken
<1>3. PICK pc \in {"top", "stop"} : GoWith(r, pc, NULL)
  BY DEF Overtaken, Go
<1> QED
  BY <1>1, <1>2, <1>3, GoesOn

LEMMA InvSuperseded == ASSUME IInv, NEW r \in Runs, Superseded(r) PROVE Step
<1>1. worker[r] # NULL /\ worker[r].pc \in Holding /\ Free(worker[r]) /\ run[r] \in Rows
  BY Between DEF Superseded
<1>2. run' = [run EXCEPT ![r] = run[r]] /\ jobs' = jobs /\ Rest(r) /\ Raise(r, "error")
  BY SameRow, RestKept DEF Superseded
<1> QED
  BY <1>1, <1>2, Raises

LEMMA InvWorked == ASSUME IInv, NEW r \in Runs, Worked(r) PROVE Step
<1> DEFINE n == FreshReview(run[r], worker[r].how)
           m == [n EXCEPT !.state = "verifying", !.result = TRUE, !.resume = FALSE]
<1>1. worker[r] # NULL /\ worker[r].pc \in Holding /\ Free(worker[r]) /\ run[r] \in Rows
  BY Between DEF Worked, At
<1>2. Like(n, run[r])
  BY <1>1, UnusedRow DEF FreshReview, Like
<1>3. run' = [run EXCEPT ![r] = m] /\ GoWith(r, "gate", NULL) /\ jobs' = jobs /\ Rest(r)
  BY RestKept DEF Worked, Put, Go
<1>4. TRUE \in BOOLEAN /\ FALSE \in BOOLEAN
  OBVIOUS
<1> HIDE DEF n
<1>5. /\ m \in Rows /\ m.epoch = run[r].epoch /\ m.state \in ACTIVE
      /\ m.pending = run[r].pending /\ m.recipe = run[r].recipe
  BY <1>2, <1>4 DEF Like, Rows
<1> HIDE DEF m
<1> QED
  BY <1>1, <1>3, <1>5, GoesOn

\* A repair takes one of its budget and goes back to the top of the loop.
LEMMA Repairs ==
  ASSUME IInv, NEW r \in Runs, worker[r] # NULL, worker[r].pc \in Holding, Free(worker[r]),
         NEW m \in Rows, m.epoch = run[r].epoch, m.pending = run[r].pending,
         m.recipe = run[r].recipe, Repair(r, m), jobs' = jobs, Rest(r)
  PROVE  Step
<1> DEFINE u == Use(m, "repair")
           n == [u EXCEPT !.state = "repairing"]
<1>1. Like(u, m)
  BY UseRow DEF Budgets
<1>2. run' = [run EXCEPT ![r] = n] /\ GoWith(r, "top", NULL)
  BY DEF Repair, Put, Go
<1> HIDE DEF u
<1>3. /\ n \in Rows /\ n.epoch = run[r].epoch /\ n.state \in ACTIVE
      /\ n.pending = run[r].pending /\ n.recipe = run[r].recipe
  BY <1>1 DEF Like, Rows
<1> HIDE DEF n
<1> QED
  BY <1>2, <1>3, GoesOn

\* The worker goes on to its conclusion.
LEMMA Concludes ==
  ASSUME IInv, NEW r \in Runs, worker[r] # NULL, worker[r].pc \in Holding, Free(worker[r]),
         NEW how \in {"succeeded", "blocked"}, GoWith(r, "conclude", how), run' = run,
         jobs' = jobs, Rest(r)
  PROVE  Step
<1>1. run[r] \in Rows
  BY WithWorker
<1>2. run' = [run EXCEPT ![r] = run[r]]
  BY SameRow
<1> QED
  BY <1>1, <1>2, GoesOn

LEMMA InvReportMissing == ASSUME IInv, NEW r \in Runs, ReportMissing(r) PROVE Step
<1>1. worker[r] # NULL /\ worker[r].pc \in Holding /\ Free(worker[r]) /\ run[r] \in Rows
  BY Between DEF ReportMissing, At
<1>2. jobs' = jobs /\ Rest(r)
  BY RestKept DEF ReportMissing
<1>3. CASE Repair(r, run[r])
  BY <1>1, <1>2, <1>3, Repairs
<1>4. CASE GoWith(r, "conclude", "blocked") /\ run' = run
  BY <1>1, <1>2, <1>4, Concludes
<1> QED
  BY <1>3, <1>4 DEF ReportMissing

LEMMA InvRecheck == ASSUME IInv, NEW r \in Runs, NEW why \in Rechecks, Recheck(r, why) PROVE Step
<1>1. worker[r] # NULL /\ worker[r].pc \in Holding /\ Free(worker[r]) /\ run[r] \in Rows
  BY Between DEF Recheck, At
<1>2. jobs' = jobs /\ Rest(r)
  BY RestKept DEF Recheck
<1>3. CASE MayUse(run[r], why)
  <2> DEFINE u == Use(run[r], why)
             m == [u EXCEPT !.resume = TRUE]
  <2>1. Like(u, run[r])
    BY <1>1, UseRow DEF Budgets
  <2>2. run' = [run EXCEPT ![r] = m] /\ GoWith(r, "top", NULL)
    BY <1>3 DEF Recheck, Put, Go
  <2>3. TRUE \in BOOLEAN
    OBVIOUS
  <2> HIDE DEF u
  <2>4. /\ m \in Rows /\ m.epoch = run[r].epoch /\ m.state = run[r].state /\ m.told = run[r].told
        /\ m.pending = run[r].pending /\ m.recipe = run[r].recipe
    BY <2>1, <2>3 DEF Like, Rows
  <2> HIDE DEF m
  <2> QED
    BY <1>1, <1>2, <2>2, <2>4, GoesOn
<1>4. CASE ~MayUse(run[r], why)
  <2>1. Raise(r, "error") /\ run' = run
    BY <1>4 DEF Recheck
  <2>2. run' = [run EXCEPT ![r] = run[r]]
    BY <2>1, SameRow
  <2> QED
    BY <1>1, <1>2, <2>1, <2>2, Raises
<1> QED
  BY <1>3, <1>4

LEMMA InvAccept == ASSUME IInv, NEW r \in Runs, Accept(r) PROVE Step
<1>1. worker[r] # NULL /\ worker[r].pc \in Holding /\ Free(worker[r])
  BY Between DEF Accept, At
<1>2. jobs' = jobs /\ Rest(r)
  BY RestKept DEF Accept
<1> QED
  BY <1>1, <1>2, Concludes DEF Accept

LEMMA InvProofWait == ASSUME IInv, NEW r \in Runs, ProofWait(r) PROVE Step
<1> DEFINE u == Use(run[r], "wait")
           m == [u EXCEPT !.state = "queued", !.resume = TRUE, !.turn = NULL]
<1>1. worker[r] # NULL /\ ~Unconfirmed(worker[r]) /\ run[r] \in Rows
  BY Between DEF ProofWait, At
<1>2. Like(u, run[r])
  BY <1>1, UseRow DEF Budgets
<1>3. run' = [run EXCEPT ![r] = m] /\ ThreadEnds(r) /\ jobs' = jobs /\ Rest(r)
  BY RestKept DEF ProofWait, Put
<1>4. TRUE \in BOOLEAN
  OBVIOUS
<1> HIDE DEF u
<1>5. /\ m \in Rows /\ m.epoch = run[r].epoch /\ m.state \in ACTIVE
      /\ m.pending = run[r].pending /\ m.recipe = run[r].recipe
  BY <1>2, <1>4 DEF Like, Rows
<1> HIDE DEF m
<1> QED
  BY <1>1, <1>3, <1>5, EndsThread

LEMMA InvUnresolved == ASSUME IInv, NEW r \in Runs, Unresolved(r) PROVE Step
<1> DEFINE m == [run[r] EXCEPT !.inspect = FALSE]
<1>1. worker[r] # NULL /\ worker[r].pc \in Holding /\ Free(worker[r]) /\ run[r] \in Rows
  BY Between DEF Unresolved, At
<1>2. jobs' = jobs /\ Rest(r)
  BY RestKept DEF Unresolved
<1>3. FALSE \in BOOLEAN
  OBVIOUS
<1>4. /\ m \in Rows /\ m.epoch = run[r].epoch /\ m.state = run[r].state /\ m.told = run[r].told
      /\ m.pending = run[r].pending /\ m.recipe = run[r].recipe
  BY <1>1, <1>3 DEF Rows
<1>5. \/ GoWith(r, "conclude", "blocked") /\ run' = run
      \/ Repair(r, m)
      \/ run' = [run EXCEPT ![r] = m] /\ GoWith(r, "asked", NULL)
      \/ run' = [run EXCEPT ![r] = m] /\ GoWith(r, "conclude", "blocked")
  BY DEF Unresolved, Put, Go
<1> HIDE DEF m
<1>6. CASE GoWith(r, "conclude", "blocked") /\ run' = run
  BY <1>1, <1>2, <1>6, Concludes
<1>7. CASE Repair(r, m)
  BY <1>1, <1>2, <1>4, <1>7, Repairs
<1>8. CASE run' = [run EXCEPT ![r] = m] /\ GoWith(r, "asked", NULL)
  BY <1>1, <1>2, <1>4, <1>8, GoesOn
<1>9. CASE run' = [run EXCEPT ![r] = m] /\ GoWith(r, "conclude", "blocked")
  BY <1>1, <1>2, <1>4, <1>9, GoesOn
<1> QED
  BY <1>5, <1>6, <1>7, <1>8, <1>9

LEMMA InvAnswer == ASSUME IInv, NEW r \in Runs, Answer(r) PROVE Step
<1>1. worker[r] # NULL /\ worker[r].pc \in Holding /\ Free(worker[r]) /\ run[r] \in Rows
  BY Between DEF Answer, At
<1>2. jobs' = jobs /\ Rest(r)
  BY RestKept DEF Answer
<1>3. CASE Repair(r, run[r])
  BY <1>1, <1>2, <1>3, Repairs
<1>4. CASE GoWith(r, "conclude", "blocked") /\ run' = run
  BY <1>1, <1>2, <1>4, Concludes
<1>5. CASE Raise(r, "error") /\ run' = run
  <2>1. run' = [run EXCEPT ![r] = run[r]]
    BY <1>5, SameRow
  <2> QED
    BY <1>1, <1>2, <1>5, <2>1, Raises
<1> QED
  BY <1>3, <1>4, <1>5 DEF Answer

\* The worker's last step is Finish: a turn that may go on leaves the outcome
\* unknown.
LEMMA WorkerFinishes ==
  ASSUME IInv, NEW r \in Runs, worker[r] # NULL, NEW s \in ENDS, NEW byEpoch,
         Finish(worker[r], r, s, byEpoch),
         s = "succeeded" => byEpoch /\ worker[r].pc = "conclude",
         Unconfirmed(worker[r]) => s = "outcome_unknown" /\ ~byEpoch,
         ThreadEnds(r), UNCHANGED <<outside, managed, jobs>>
  PROVE  Step
<1>1. run[r] # NULL /\ run[r] \in Rows /\ Good(r) /\ (run[r].state \in ACTIVE \/ r \in contested)
  BY WithWorker DEF IInv
<1>2. /\ worker' \in [Runs -> Workers \union {NULL}] /\ worker'[r] = NULL
      /\ \A k \in Runs \ {r} : worker'[k] = worker[k]
      /\ former' \in [Runs -> Workers \union {NULL}] /\ former' = former
      /\ contested' = contested /\ contested \subseteq Runs
      /\ task' = task /\ task' \in Recipes /\ managed' = managed /\ up' = up /\ jobs' = jobs
      /\ commands' = commands /\ ends' = ends /\ commands' \in Nat /\ ends' \in Nat
  BY DEF ThreadEnds, IInv, TypeOK, outside, events
<1>3. CASE MayFinish(worker[r], r, byEpoch)
  <2>1. HasJob(r) => r \in contested' \/ s = "outcome_unknown"
    BY <1>1, <1>2 DEF Good, AtWork
  <2>2. s = "succeeded" =>
          byEpoch /\ worker[r] \in {worker[r], former[r]} \ {NULL} /\ worker[r].pc = "conclude"
    OBVIOUS
  <2> QED
    BY <1>1, <1>2, <1>3, <2>1, <2>2, Finishes
<1>4. CASE ~MayFinish(worker[r], r, byEpoch)
  <2>1. run' = run /\ outbox' = outbox
    BY <1>4 DEF Finish
  <2>2. Held(r)'
    BY <1>2 DEF Held
  <2>3. AtWork(r)'
    <3>1. HasJob(r)' => HasJob(r)
      BY <1>2 DEF HasJob
    <3>2. HasJob(r) => r \in contested
      BY <1>1, <1>4 DEF Good, AtWork, MayFinish
    <3>3. HasJob(r) => up # "down"
      BY <1>1 DEF Good, AtWork
    <3> QED
      BY <1>1, <1>2, <2>1, <3>1, <3>2, <3>3 DEF AtWork
  <2> QED
    BY <1>2, <2>1, <2>2, <2>3, RowsKept
<1> QED
  BY <1>3, <1>4

LEMMA InvConclude == ASSUME IInv, NEW r \in Runs, Conclude(r) PROVE Step
<1>1. /\ worker[r] # NULL /\ worker[r].pc = "conclude" /\ ThreadEnds(r)
      /\ Finish(worker[r], r, worker[r].how, TRUE) /\ UNCHANGED <<outside, managed, jobs>>
  BY DEF Conclude, At
<1>2. worker[r].how \in ENDS
  BY <1>1, WithWorker DEF Fits
<1>3. ~Unconfirmed(worker[r])
  BY <1>1 DEF Unconfirmed, Waiting
<1> QED
  BY <1>1, <1>2, <1>3, WorkerFinishes

LEMMA InvStop == ASSUME IInv, NEW r \in Runs, Stop(r) PROVE Step
<1>1. /\ worker[r] # NULL /\ worker[r].pc = "stop" /\ ThreadEnds(r)
      /\ Finish(worker[r], r, "cancelled", FALSE) /\ UNCHANGED <<outside, managed, jobs>>
  BY DEF Stop, At
<1>2. ~Unconfirmed(worker[r])
  BY <1>1 DEF Unconfirmed, Waiting
<1> QED
  BY <1>1, <1>2, WorkerFinishes

\* The except clause: how a worker w that failed comes to act.
Decided(w, m) == [w EXCEPT !.pc = "act", !.epoch = m.epoch, !.how = Decision(m, w.how)]

LEMMA Decides ==
  ASSUME NEW m \in Rows, NEW w \in Workers, w.pc = "except"
  PROVE  /\ Decided(w, m) \in Workers /\ Fits(Decided(w, m), m)
         /\ Unconfirmed(w) => Unconfirmed(Decided(w, m))
         /\ Decided(w, m).pc = "act"
<1> DEFINE n == Decided(w, m)
<1>1. PICK act \in {"outcome_unknown", "cancelled", "queued", "retry", "blocked"} :
        act = Decision(m, w.how) /\ (w.how = "timeout" => act = "outcome_unknown")
  BY DEF Decision
<1>2. m.epoch \in Nat
  BY DEF Rows
<1>3. n \in Workers /\ n.pc = "act" /\ n.how = act
  BY <1>1, <1>2 DEF Workers, Decided
<1> HIDE DEF n
<1>4. Fits(n, m) /\ (Unconfirmed(w) => Unconfirmed(n))
  BY <1>1, <1>3 DEF Fits, Holding, Unconfirmed, Waiting
<1> QED
  BY <1>3, <1>4 DEF n

LEMMA InvCaught == ASSUME IInv, NEW r \in Runs, Caught(r) PROVE Step
<1> DEFINE w == Decided(worker[r], run[r])
<1>1. worker[r] # NULL /\ worker[r].pc = "except" /\ worker[r] \in Workers /\ run[r] \in Rows
  BY WithWorker DEF Caught, At
<1>2. worker' = [worker EXCEPT ![r] = w]
  BY DEF Caught, Decided, IInv, TypeOK
<1>3. w \in Workers /\ Fits(w, run[r]) /\ (Unconfirmed(worker[r]) => Unconfirmed(w))
  BY <1>1, Decides
<1> HIDE DEF w
<1>4. run' = [run EXCEPT ![r] = run[r]] /\ jobs' = jobs /\ Rest(r)
  BY SameRow, RestKept DEF Caught
<1>5. Written(run[r], r)
  BY <1>1, Writes
<1>6. w # NULL /\ Jobs(r, w)
  BY <1>3, <1>4 DEF Jobs
<1> QED
  BY <1>1, <1>2, <1>3, <1>4, <1>5, <1>6, WorkerWrites

\* What a worker that acts does to the row, unless it ends the run.
LEMMA ActsOn ==
  ASSUME NEW r \in Runs, run \in [Runs -> Rows \union {NULL}], run[r] \in Rows,
         NEW w, w.how \in {"queued", "retry"}, ActOn(w, r)
  PROVE  /\ outbox' = outbox
         /\ \E m \in Rows :
              /\ run' = [run EXCEPT ![r] = m]
              /\ m.epoch = run[r].epoch /\ m.pending = run[r].pending /\ m.recipe = run[r].recipe
              /\ m = run[r] \/ m.state = "queued"
<1>1. CASE w.how = "queued"
  <2> DEFINE m == [run[r] EXCEPT !.state = "queued", !.turn = NULL]
  <2>1. run' = [run EXCEPT ![r] = m] /\ outbox' = outbox
    BY <1>1 DEF ActOn, Put
  <2>2. /\ m \in Rows /\ m.epoch = run[r].epoch /\ m.state = "queued"
        /\ m.pending = run[r].pending /\ m.recipe = run[r].recipe
    BY DEF Rows
  <2> HIDE DEF m
  <2> QED
    BY <2>1, <2>2
<1>2. CASE w.how = "retry"
  <2>1. RetryLater(w, r) /\ outbox' = outbox
    BY <1>2 DEF ActOn
  <2>2. CASE ~GuardedBy(w, r)
    <3>1. run' = [run EXCEPT ![r] = run[r]]
      BY <2>1, <2>2 DEF RetryLater
    <3> QED
      BY <2>1, <3>1
  <2>3. CASE GuardedBy(w, r)
    <3> DEFINE u == Use(run[r], "transient")
    <3>1. Like(u, run[r])
      BY UseRow DEF Budgets
    <3>2. u.resume \in BOOLEAN
      BY <3>1 DEF Like, Rows
    <3>3. PICK b \in BOOLEAN :
            b = ((run[r].state = "verifying" /\ run[r].result) \/ u.resume)
      OBVIOUS
    <3> DEFINE m == [u EXCEPT !.state = "queued", !.turn = NULL, !.resume = b]
    <3>4. run' = [run EXCEPT ![r] = m]
      BY <2>1, <2>3, <3>3 DEF RetryLater, Put
    <3> HIDE DEF u
    <3>5. /\ m \in Rows /\ m.epoch = run[r].epoch /\ m.state = "queued"
          /\ m.pending = run[r].pending /\ m.recipe = run[r].recipe
      BY <3>1 DEF Like, Rows
    <3> HIDE DEF m
    <3> QED
      BY <2>1, <3>4, <3>5
  <2> QED
    BY <2>2, <2>3
<1> QED
  BY <1>1, <1>2

LEMMA InvAct == ASSUME IInv, NEW r \in Runs, Act(r) PROVE Step
<1>1. /\ worker[r] # NULL /\ worker[r].pc = "act" /\ ActOn(worker[r], r) /\ ThreadEnds(r)
      /\ UNCHANGED <<outside, jobs, managed>>
  BY DEF Act, At
<1>2. /\ run[r] # NULL /\ run[r] \in Rows
      /\ worker[r].how \in {"outcome_unknown", "cancelled", "queued", "retry", "blocked"}
      /\ Unconfirmed(worker[r]) <=> worker[r].how = "outcome_unknown"
  BY <1>1, WithWorker DEF Fits, Unconfirmed, Waiting
<1>3. CASE worker[r].how \in {"queued", "retry"}
  <2>0. run \in [Runs -> Rows \union {NULL}]
    BY DEF IInv, TypeOK
  <2>1. PICK m \in Rows :
          /\ run' = [run EXCEPT ![r] = m] /\ outbox' = outbox
          /\ m.epoch = run[r].epoch /\ m.pending = run[r].pending /\ m.recipe = run[r].recipe
          /\ m = run[r] \/ m.state = "queued"
    BY <1>1, <1>2, <1>3, <2>0, ActsOn
  <2>2. Rest(r)
    BY <1>1, <2>1, RestKept
  <2> QED
    BY <1>1, <1>2, <1>3, <2>1, <2>2, EndsThread
<1>4. CASE worker[r].how \in {"outcome_unknown", "cancelled", "blocked"}
  <2>1. PICK b : b = (worker[r].how = "blocked")
    OBVIOUS
  <2>2. Finish(worker[r], r, worker[r].how, b)
    BY <1>1, <1>4, <2>1 DEF ActOn
  <2>3. worker[r].how \in ENDS /\ worker[r].how # "succeeded"
    BY <1>4
  <2> QED
    BY <1>1, <1>2, <2>1, <2>2, <2>3, WorkerFinishes
<1> QED
  BY <1>2, <1>3, <1>4

LEMMA InvWorkerStep == ASSUME IInv, NEW r \in Runs, WorkerStep(r) PROVE Step
BY InvTop, InvBegin, InvAwaitTurn, InvOvertaken, InvSuperseded, InvWorked, InvReportMissing,
   InvBeginReview, InvAccept, InvRecheck, InvProofWait, InvUnresolved, InvAnswer, InvConclude,
   InvStop, InvCaught, InvAct DEF WorkerStep

\* A step that changes neither the database nor a worker.
LEMMA InvStutter ==
  ASSUME IInv, UNCHANGED <<task, managed, run, outbox, jobs, worker, former, contested>>,
         commands' \in Nat, ends' \in Nat, up' = up \/ up' \in {"up", "closing"}
  PROVE  Step
<1>1. /\ worker' \in [Runs -> Workers \union {NULL}] /\ task' \in Recipes
      /\ former' \in [Runs -> Workers \union {NULL}]
  BY DEF IInv, TypeOK
<1> QED
  BY <1>1, RowsKept

LEMMA Counters == ASSUME IInv PROVE commands \in Nat /\ ends \in Nat /\ task \in Recipes
BY DEF IInv, TypeOK

USE DEF database, threads, events, history

LEMMA InvMonitor == ASSUME IInv, Monitor PROVE Step
<1>1. CASE Look
  BY <1>1, Counters, InvStutter DEF Look
<1>2. ASSUME NEW r \in Runs, Signal(r) PROVE Step
  BY <1>2, Counters, InvStutter DEF Signal
<1>3. ASSUME NEW r \in Runs, FinishCancelling(r) PROVE Step
  <2>1. /\ run[r] # NULL /\ worker[r] = NULL /\ run[r].state = "cancelling"
        /\ Finish(NULL, r, "cancelled", FALSE)
        /\ UNCHANGED <<task, managed, up, jobs, worker, former, contested, commands, ends>>
    BY <1>3 DEF FinishCancelling, Existing
  <2>2. /\ worker' \in [Runs -> Workers \union {NULL}] /\ former' \in [Runs -> Workers \union {NULL}]
        /\ contested' \subseteq Runs
    BY <2>1 DEF IInv, TypeOK
  <2>3. MayFinish(NULL, r, FALSE)
    BY <2>1 DEF MayFinish
  <2>4. HasJob(r) => r \in contested'
    BY <2>1 DEF IInv, Good, AtWork
  <2> QED
    BY <2>1, <2>2, <2>3, <2>4, Finishes
<1> QED
  BY <1>1, <1>2, <1>3 DEF Monitor

LEMMA InvAdmission == ASSUME IInv, NEW r \in Runs, StartWorker(r) PROVE Step
<1> DEFINE w == [pc |-> "top", epoch |-> NULL, recipe |-> NULL, how |-> NULL]
<1>1. w \in Workers /\ w.pc = "top"
  BY DEF Workers
<1>2. /\ worker' = [worker EXCEPT ![r] = w] /\ up' = up /\ up = "up"
      /\ run[r] # NULL /\ run[r].state = "queued" /\ worker[r] = NULL
      /\ UNCHANGED <<task, managed, run, outbox, jobs, former, contested, commands, ends>>
  BY DEF StartWorker, Existing
<1> HIDE DEF w
<1>3. worker' \in [Runs -> Workers \union {NULL}] /\ worker'[r] = w
      /\ \A k \in Runs \ {r} : worker'[k] = worker[k]
  BY <1>1, <1>2 DEF IInv, TypeOK
<1>4. Fits(w, run[r])
  BY <1>1 DEF Fits, Holding
<1>5. Held(r)'
  BY <1>2, <1>3, <1>4 DEF Held
<1>6. AtWork(r)'
  <2>1. HasJob(r) => r \in contested
    BY <1>2 DEF IInv, Good, AtWork
  <2>2. HasJob(r)' => HasJob(r)
    BY <1>2 DEF HasJob
  <2> QED
    BY <1>2, <2>1, <2>2 DEF AtWork
<1>7. former' \in [Runs -> Workers \union {NULL}]
  BY <1>2 DEF IInv, TypeOK
<1> QED
  BY <1>2, <1>3, <1>5, <1>6, <1>7, Counters, RowsKept

\* The row tells the outcome of the run, or one that a later epoch left behind.
LEMMA InvDeliver == ASSUME IInv, NEW row \in outbox, Deliver(row) PROVE Step
<1> DEFINE s == row.run
<1>0. /\ s \in Runs /\ row.epoch \in Nat
  BY DEF IInv, TypeOK
<1>1. /\ run[s] # NULL /\ run[s] \in Rows /\ run[s].epoch \in Nat /\ Good(s)
      /\ s \notin contested /\ row.epoch = run[s].epoch => row.state = run[s].state
  BY <1>0 DEF IInv, TypeOK, Good, Mailed, Rows
<1>2. /\ outbox' = outbox \ {row}
      /\ UNCHANGED <<task, managed, up, jobs, worker, former, contested, commands, ends>>
  BY DEF Deliver
<1>3. PICK m \in Rows :
        /\ run' = [run EXCEPT ![s] = m]
        /\ m.state = run[s].state /\ m.epoch = run[s].epoch /\ m.pending = run[s].pending
        /\ m.recipe = run[s].recipe /\ (run[s].told => m.told)
        /\ row.epoch = run[s].epoch => m.told \/ s \in contested
  <2>1. CASE run[s].state = row.state /\ run[s].epoch = row.epoch
    <3> DEFINE m == [run[s] EXCEPT !.told = TRUE]
    <3>1. TRUE \in BOOLEAN
      OBVIOUS
    <3>2. /\ m \in Rows /\ m.state = run[s].state /\ m.epoch = run[s].epoch
          /\ m.pending = run[s].pending /\ m.recipe = run[s].recipe /\ m.told
      BY <1>1, <3>1 DEF Rows
    <3>3. run' = [run EXCEPT ![s] = m]
      BY <2>1 DEF Deliver
    <3> QED
      BY <3>2, <3>3
  <2>2. CASE ~(run[s].state = row.state /\ run[s].epoch = row.epoch)
    <3>1. run' = [run EXCEPT ![s] = run[s]]
      BY <2>2 DEF Deliver, IInv, TypeOK
    <3> QED
      BY <1>1, <2>2, <3>1
  <2> QED
    BY <2>1, <2>2
<1>4. run'[s] = m /\ m # NULL /\ \A k \in Runs \ {s} : run'[k] = run[k]
  BY <1>0, <1>3 DEF IInv, TypeOK
<1> HIDE DEF s
<1>5. TypeOK' /\ OneJob'
  BY <1>0, <1>2, <1>3 DEF IInv, TypeOK, OneJob
<1>6. Follows(m, run[s])
  BY <1>3 DEF Follows
<1>7. HasJob(s)' => HasJob(s)
  BY <1>2 DEF HasJob
<1>8. Good(s)' /\ Success(s)
  <2>1. Held(s)'
    BY <1>1, <1>2, <1>3, <1>4, <1>6, FitsStays DEF Good, Held
  <2>2. Left(s)'
    BY <1>1, <1>2, <1>3, <1>4, <1>6, FitsStays DEF Good, Left
  <2>3. AtWork(s)'
    BY <1>1, <1>2, <1>3, <1>4, <1>7 DEF Good, AtWork
  <2>4. Mailed(s)'
    BY <1>1, <1>2, <1>3, <1>4 DEF Good, Mailed
  <2>5. Told(s)'
    BY <1>1, <1>2, <1>3, <1>4 DEF Good, Told, Over, s
  <2>6. Success(s)
    BY <1>3, <1>4 DEF Success
  <2> QED
    BY <2>1, <2>2, <2>3, <2>4, <2>5, <2>6 DEF Good
<1>9. ASSUME NEW k \in Runs PROVE Good(k)' /\ Success(k)
  <2>1. CASE k = s
    BY <1>8, <2>1
  <2>2. CASE k # s
    <3>1. \A o : o.run = k => (o \in outbox' <=> o \in outbox)
      BY <1>2, <2>2 DEF s
    <3>2. HasJob(k)' => HasJob(k)
      BY <1>2 DEF HasJob
    <3>3. Good(k)
      BY DEF IInv
    <3> QED
      BY <1>2, <1>4, <2>2, <3>1, <3>2, <3>3, Untouched
  <2> QED
    BY <2>1, <2>2
<1>10. managed' # NULL => run'[managed'] # NULL
  BY <1>0, <1>2, <1>4 DEF IInv, Numbered, TypeOK
<1>11. \A k \in Runs : run'[k].state \in ACTIVE => run[k].state \in ACTIVE
  BY <1>0, <1>3, <1>4
<1>12. \A k \in Runs : run'[k] = NULL <=> run[k] = NULL
  BY <1>0, <1>1, <1>4
<1> QED
  BY <1>2, <1>5, <1>9, <1>10, <1>11, <1>12, Composes

-----------------------------------------------------------------------------
(* Commands.                                                               *)

\* What a command leaves alone.
Aside == UNCHANGED <<outbox, up, jobs, worker, former, contested>>

LEMMA CommandFacts ==
  ASSUME IInv, Command
  PROVE  commands' \in Nat /\ ends' \in Nat /\ task \in Recipes
BY Counters DEF Command, Counted

\* A new epoch of run k: an active run stays active, or becomes so.
Advances(k) ==
  /\ run'[k] \in Rows /\ run'[k].epoch = run[k].epoch + 1 /\ run'[k].state \in ACTIVE
  /\ run[k].state # "outcome_unknown"

\* What a worker of k knew is old, but its job and its place stay.
LEMMA NewEpoch ==
  ASSUME IInv, NEW k \in Runs, run[k] # NULL, Advances(k), worker'[k] = worker[k],
         former'[k] = former[k], up' # "down" \/ up' = up, contested' = contested,
         HasJob(k)' => HasJob(k)
  PROVE  Held(k)' /\ Left(k)' /\ AtWork(k)' /\ Follows(run'[k], run[k])
<1>1. run[k] \in Rows /\ run'[k] # NULL /\ Good(k) /\ run[k].epoch \in Nat
  BY DEF IInv, TypeOK, Rows, Advances
<1>2. Follows(run'[k], run[k])
  BY <1>1 DEF Follows, Advances
<1>3. Held(k)'
  BY <1>1, <1>2, FitsStays DEF Good, Held, Advances
<1>4. Left(k)'
  BY <1>1, <1>2, FitsStays DEF Good, Left, Advances
<1>5. AtWork(k)'
  BY <1>1 DEF Good, AtWork, Advances
<1> QED
  BY <1>2, <1>3, <1>4, <1>5

\* A command begins a new epoch of r, which is active or alone.
LEMMA Commands ==
  ASSUME IInv, NEW r \in Runs, run[r] # NULL, NEW m \in Rows, run' = [run EXCEPT ![r] = m],
         m.epoch = run[r].epoch + 1, m.state \in ACTIVE, run[r].state # "outcome_unknown",
         run[r].state \in ACTIVE \/ Active \ contested \subseteq {r},
         task' \in Recipes, managed' = managed, Aside, commands' \in Nat, ends' \in Nat
  PROVE  Step
<1>1. run'[r] = m /\ run[r].epoch \in Nat
  BY DEF IInv, TypeOK, Rows
<1>2. Advances(r)
  BY <1>1 DEF Advances
<1>3. /\ UNCHANGED <<outbox, up, jobs, worker, former, contested>>
      /\ worker' \in [Runs -> Workers \union {NULL}] /\ former' \in [Runs -> Workers \union {NULL}]
      /\ jobs' \subseteq [run : Runs, role : {"execute", "verify"}] /\ contested' \subseteq Runs
  BY DEF Aside, IInv, TypeOK
<1>4. HasJob(r)' => HasJob(r)
  BY <1>3 DEF HasJob
<1>5. Held(r)' /\ Left(r)' /\ AtWork(r)' /\ Follows(m, run[r])
  BY <1>1, <1>2, <1>3, <1>4, NewEpoch
<1>6. Changes(m, r)
  BY <1>1 DEF Changes
<1>7. OneJob'
  BY <1>3 DEF IInv, OneJob
<1> QED
  BY <1>3, <1>5, <1>6, <1>7, Rewrites

\* A run is added while none is active.
LEMMA AddsRun ==
  ASSUME IInv, NEW recipe \in Recipes, AddRun(recipe), Active = {}, task' = task,
         Aside, commands' \in Nat, ends' \in Nat
  PROVE  Step
<1>0. UNCHANGED <<outbox, up, jobs, worker, former, contested>>
  BY DEF Aside
<1>1. PICK n \in 0 .. MaxRuns : Existing = 1 .. n
  BY DEF IInv, Numbered
<1>2. Cardinality(Existing) = n
  BY <1>1, FS_Interval
<1> DEFINE r == n + 1
           m == NewRun(recipe)
<1>3. r \in Runs /\ run' = [run EXCEPT ![r] = m] /\ managed' = r
  BY <1>2 DEF AddRun, Runs
<1>4. run[r] = NULL
  BY <1>1, <1>3 DEF Existing
<1>5. m \in Rows /\ m.state \in ACTIVE
  BY NewRunRow
<1> HIDE DEF r, m
<1>6. run'[r] = m /\ m # NULL /\ \A k \in Runs \ {r} : run'[k] = run[k]
  BY <1>3, <1>5 DEF IInv, TypeOK
<1>7. TypeOK' /\ OneJob'
  BY <1>0, <1>3, <1>5 DEF IInv, TypeOK, OneJob
<1>8. Existing' = Existing \union {r} /\ Active' = {r}
  BY <1>3, <1>4, <1>5, <1>6 DEF Existing, Active
<1>9. OneActive'
  BY <1>8 DEF OneActive
<1>10. Numbered'
  <2>1. n + 1 \in 0 .. MaxRuns /\ (1 .. n) \union {n + 1} = 1 .. (n + 1)
    BY <1>3 DEF r, Runs
  <2> QED
    BY <1>1, <1>3, <1>6, <1>8, <2>1 DEF Numbered, r
<1>11. Good(r)'
  <2>1. Good(r)
    BY <1>3 DEF IInv
  <2>2. worker'[r] = NULL /\ former'[r] = NULL /\ ~HasJob(r)' /\ \A o \in outbox' : o.run # r
    BY <1>0, <1>4, <2>1 DEF Good, Held, Left, AtWork, Mailed, HasJob
  <2> QED
    BY <1>5, <1>6, <2>2 DEF Good, Held, Left, AtWork, Mailed, Told, Over
<1>12. ASSUME NEW k \in Runs, k # r PROVE Good(k)' /\ Success(k)
  <2>1. HasJob(k)' => HasJob(k)
    BY <1>0 DEF HasJob
  <2>2. Good(k)
    BY DEF IInv
  <2> QED
    BY <1>0, <1>6, <1>12, <2>1, <2>2, Untouched
<1>13. \A k \in Existing : Success(k)
  BY <1>4, <1>12 DEF Existing
<1> QED
  BY <1>7, <1>9, <1>10, <1>11, <1>12, <1>13 DEF Step, IInv

\* Nobody else is busy: no other run is active.
LEMMA NotBusy == ASSUME NEW r \in Runs, ~Busy(r) PROVE Active \ contested \subseteq {r}
BY DEF Busy, Active

LEMMA InvQueueReview ==
  ASSUME IInv, NEW r \in Existing, Retryable(r), QueueReview(r), task' = task, Aside,
         commands' \in Nat, ends' \in Nat
  PROVE  Step
<1>1. r \in Runs /\ run[r] # NULL /\ run[r] \in Rows /\ run[r].state # "outcome_unknown"
  BY DEF IInv, TypeOK, Existing, Retryable, InterruptedReview
<1> DEFINE m == BeginCycle(run[r], "review")
<1>2. m \in Rows /\ m.epoch = run[r].epoch + 1 /\ m.state \in ACTIVE
  BY <1>1, BeginCycleRow
<1>3. run' = [run EXCEPT ![r] = m] /\ managed' = managed /\ Active \ contested \subseteq {r}
  BY <1>1, NotBusy DEF QueueReview, Put
<1> HIDE DEF m
<1> QED
  BY <1>1, <1>2, <1>3, Counters, Commands

LEMMA OthersAside == ASSUME UNCHANGED others PROVE Aside
BY DEF others, Aside

LEMMA InvRetryReview == ASSUME IInv, NEW r \in Runs, RetryReview(r) PROVE Step
<1>1. r \in Existing /\ Retryable(r) /\ QueueReview(r) /\ task' = task /\ Command /\ UNCHANGED others
  BY DEF RetryReview
<1> QED
  BY <1>1, CommandFacts, OthersAside, InvQueueReview

LEMMA InvDue == ASSUME IInv, Due PROVE Step
<1>1. Active = {} /\ AddRun(task) /\ task' = task /\ Command /\ UNCHANGED others
  BY DEF Due
<1> QED
  BY <1>1, CommandFacts, OthersAside, AddsRun

\* The newest run is one of the runs.
LEMMA NewestExists == ASSUME IInv, Existing # {} PROVE Newest \in Existing
<1>1. PICK n \in 0 .. MaxRuns : Existing = 1 .. n
  BY DEF IInv, Numbered
<1>2. n \in Existing /\ \A s \in Existing : s <= n
  BY <1>1
<1> QED
  BY <1>2 DEF Newest

LEMMA InvRun == ASSUME IInv, Run PROVE Step
<1>0. task' = task /\ Command /\ UNCHANGED others
  BY DEF Run
<1>1. CASE Existing # {} /\ Retryable(Newest)
  <2>1. QueueReview(Newest)
    BY <1>1 DEF Run
  <2> QED
    BY <1>0, <1>1, <2>1, CommandFacts, OthersAside, NewestExists, InvQueueReview
<1>2. CASE ~(Existing # {} /\ Retryable(Newest))
  <2>1. Active = {} /\ AddRun(task)
    BY <1>2 DEF Run
  <2> QED
    BY <1>0, <2>1, CommandFacts, OthersAside, AddsRun
<1> QED
  BY <1>1, <1>2

\* A command advances the epoch of a row and leaves a recipe or a wish to stop.
LEMMA Advanced ==
  ASSUME NEW m \in Rows
  PROVE  /\ \A recipe \in Recipes :
              LET n == [m EXCEPT !.epoch = m.epoch + 1, !.pending = recipe]
              IN  n \in Rows /\ n.epoch = m.epoch + 1 /\ n.state = m.state
         /\ LET n == [m EXCEPT !.state = "cancelling", !.epoch = m.epoch + 1]
            IN  n \in Rows /\ n.epoch = m.epoch + 1 /\ n.state = "cancelling"
<1>1. PICK e \in Nat : e = m.epoch + 1
  BY DEF Rows
<1>2. ASSUME NEW recipe \in Recipes
      PROVE  LET n == [m EXCEPT !.epoch = e, !.pending = recipe]
             IN  n \in Rows /\ n.epoch = e /\ n.state = m.state
  BY DEF Rows
<1>3. LET n == [m EXCEPT !.state = "cancelling", !.epoch = e]
      IN  n \in Rows /\ n.epoch = e /\ n.state = "cancelling"
  BY DEF Rows
<1> QED
  BY <1>1, <1>2, <1>3

\* A step that rewrites several rows and tells nothing: active runs stay active,
\* the others keep their outcomes.
Continues(k) ==
  /\ run'[k] \in Rows /\ Follows(run'[k], run[k])
  /\ \/ run[k].state \in ACTIVE /\ run'[k].state \in ACTIVE
     \/ /\ run'[k].epoch = run[k].epoch /\ run'[k].state = run[k].state
        /\ run'[k].told = run[k].told

LEMMA ManyRewritten ==
  ASSUME IInv, run' \in [Runs -> Rows \union {NULL}],
         \A k \in Runs : IF run[k] = NULL THEN run'[k] = NULL ELSE Continues(k),
         task' \in Recipes, managed' = managed, outbox' = outbox,
         up' \in {"up", "closing", "down"}, commands' \in Nat, ends' \in Nat,
         worker' \in [Runs -> Workers \union {NULL}], former' \in [Runs -> Workers \union {NULL}],
         jobs' \subseteq jobs, contested' = contested,
         \A k \in Runs : Held(k)' /\ Left(k)' /\ AtWork(k)'
  PROVE  Step
<1>1. TypeOK' /\ OneJob'
  BY DEF IInv, TypeOK, OneJob
<1>2. \A k \in Runs : run'[k] = NULL <=> run[k] = NULL
  BY DEF Continues
<1>3. ASSUME NEW k \in Runs PROVE Mailed(k)' /\ Told(k)' /\ (run[k] # NULL => Success(k))
  <2>1. CASE run[k] = NULL
    <3>1. Mailed(k)
      BY DEF IInv, Good
    <3> QED
      BY <1>2, <2>1, <3>1 DEF Mailed, Told
  <2>2. CASE run[k] # NULL
    <3>1. Continues(k)
      BY <2>2
    <3>2. Changes(run'[k], k)
      BY <3>1 DEF Continues, Changes
    <3> QED
      BY <2>2, <3>1, <3>2, MailStays DEF Continues
  <2> QED
    BY <2>1, <2>2
<1>4. \A k \in Runs : Good(k)' /\ (run[k] # NULL => Success(k))
  BY <1>3 DEF Good
<1>5. managed' # NULL => run'[managed'] # NULL
  BY <1>2 DEF IInv, Numbered, TypeOK
<1>6. \A k \in Runs : run[k] # NULL /\ run'[k].state \in ACTIVE => run[k].state \in ACTIVE
  BY DEF Continues
<1> QED
  BY <1>1, <1>2, <1>4, <1>5, <1>6, Composes

LEMMA InvEdit == ASSUME IInv, Edit PROVE Step
<1>0. Command /\ UNCHANGED others /\ task' = [rev |-> task.rev + 1, event |-> commands'] /\ managed' = managed
  BY DEF Edit
<1>1. /\ task' \in Recipes /\ commands' \in Nat /\ ends' \in Nat
      /\ UNCHANGED <<outbox, up, jobs, worker, former, contested>>
  <2>1. commands' \in Nat /\ ends' \in Nat /\ task.rev + 1 \in Nat
    BY <1>0, CommandFacts DEF Recipes
  <2>2. task' \in Recipes
    BY <1>0, <2>1 DEF Recipes
  <2> QED
    BY <1>0, <2>1, <2>2, OthersAside DEF Aside
<1>2. \A k \in Runs :
        run'[k] = IF k \in Active THEN [run[k] EXCEPT !.epoch = run[k].epoch + 1, !.pending = task']
                                  ELSE run[k]
  BY DEF Edit
<1>3. ASSUME NEW k \in Runs, k \in Active PROVE run[k] # NULL /\ Advances(k) /\ run[k].state \in ACTIVE
  <2>1. run[k] # NULL /\ run[k] \in Rows /\ run[k].state \in ACTIVE
    BY <1>3 DEF Active, Existing, IInv, TypeOK
  <2> DEFINE m == [run[k] EXCEPT !.epoch = run[k].epoch + 1, !.pending = task']
  <2>2. m \in Rows /\ m.epoch = run[k].epoch + 1 /\ m.state = run[k].state
    BY <1>1, <2>1, Advanced
  <2>3. run'[k] = m
    BY <1>2, <1>3
  <2> HIDE DEF m
  <2> QED
    BY <2>1, <2>2, <2>3 DEF Advances
<1>4. run' \in [Runs -> Rows \union {NULL}]
  <2>1. \A k \in Runs : run'[k] \in Rows \union {NULL}
    BY <1>2, <1>3 DEF Advances, IInv, TypeOK
  <2> QED
    BY <2>1 DEF Edit
<1>5. ASSUME NEW k \in Runs
      PROVE  /\ IF run[k] = NULL THEN run'[k] = NULL ELSE Continues(k)
             /\ Held(k)' /\ Left(k)' /\ AtWork(k)'
  <2>0. HasJob(k)' => HasJob(k)
    BY <1>1 DEF HasJob
  <2>1. CASE k \in Active
    <3>1. Held(k)' /\ Left(k)' /\ AtWork(k)' /\ Follows(run'[k], run[k])
      BY <1>1, <1>3, <2>0, <2>1, NewEpoch
    <3> QED
      BY <1>3, <2>1, <3>1 DEF Continues, Advances
  <2>2. CASE k \notin Active
    <3>1. Good(k) /\ run'[k] = run[k] /\ run[k] \in Rows \union {NULL}
      BY <1>2, <2>2 DEF IInv, TypeOK
    <3>2. Good(k)'
      BY <1>1, <2>0, <3>1, Untouched
    <3> QED
      BY <3>1, <3>2 DEF Good, Continues, Follows
  <2> QED
    BY <2>1, <2>2
<1>6. /\ worker' \in [Runs -> Workers \union {NULL}] /\ former' \in [Runs -> Workers \union {NULL}]
      /\ up' \in {"up", "closing", "down"}
  BY <1>1 DEF IInv, TypeOK
<1> QED
  BY <1>0, <1>1, <1>4, <1>5, <1>6, ManyRewritten

LEMMA InvCancel == ASSUME IInv, NEW r \in Runs, Cancel(r) PROVE Step
<1> DEFINE m == [run[r] EXCEPT !.state = "cancelling", !.epoch = run[r].epoch + 1]
<1>1. run[r] # NULL /\ run[r] \in Rows /\ run[r].state \in ACTIVE
  BY DEF Cancel, Active, Existing, IInv, TypeOK
<1>2. /\ run' = [run EXCEPT ![r] = m] /\ Command /\ UNCHANGED others
      /\ task' = task /\ managed' = managed
  BY DEF Cancel, IInv, TypeOK
<1>3. m \in Rows /\ m.epoch = run[r].epoch + 1 /\ m.state \in ACTIVE
  BY <1>1, Advanced
<1> HIDE DEF m
<1> QED
  BY <1>1, <1>2, <1>3, CommandFacts, OthersAside, Commands

LEMMA InvInstruct == ASSUME IInv, Instruct PROVE Step
<1> DEFINE r == managed
           m == run[r]
           source == IF m.pending # NULL THEN m.pending ELSE m.recipe
           updated == [rev |-> source.rev, event |-> commands']
<1>1. /\ Command /\ managed # NULL /\ task' = task /\ UNCHANGED others
  BY DEF Instruct
<1>2. commands' \in Nat /\ ends' \in Nat /\ task' \in Recipes /\ Aside
  BY <1>1, CommandFacts, OthersAside
<1>3. r \in Runs /\ m # NULL /\ m \in Rows
  BY <1>1 DEF IInv, TypeOK, Numbered
<1>4. updated \in Recipes
  <2>1. source \in Recipes
    BY <1>3 DEF Rows
  <2> HIDE DEF source
  <2> QED
    BY <1>2, <2>1 DEF Recipes
<1>5. CASE /\ m.state \in ACTIVE \ {"cancelling"}
           /\ Put(r, [m EXCEPT !.epoch = @ + 1, !.pending = updated])
           /\ UNCHANGED <<managed, unsure>>
  <2> HIDE DEF updated
  <2> DEFINE n == [m EXCEPT !.epoch = m.epoch + 1, !.pending = updated]
  <2>1. n \in Rows /\ n.epoch = m.epoch + 1 /\ n.state \in ACTIVE
    BY <1>3, <1>4, <1>5, Advanced
  <2>2. run' = [run EXCEPT ![r] = n] /\ managed' = managed
    BY <1>5 DEF Put
  <2> HIDE DEF n
  <2> QED
    BY <1>2, <1>3, <1>5, <2>1, <2>2, Commands
<1>6. CASE /\ m.state \in {"blocked", "cancelled"} /\ ~Busy(r)
           /\ Put(r, [BeginCycle(m, "work") EXCEPT !.recipe = updated])
           /\ unsure' = unsure \ {r}
           /\ UNCHANGED managed
  <2> HIDE DEF updated
  <2> DEFINE c == BeginCycle(m, "work")
             n == [c EXCEPT !.recipe = updated]
  <2>1. c \in Rows /\ c.epoch = m.epoch + 1 /\ c.state \in ACTIVE
    BY <1>3, BeginCycleRow
  <2>2. run' = [run EXCEPT ![r] = n] /\ managed' = managed
    BY <1>6 DEF Put
  <2> HIDE DEF c
  <2>3. n \in Rows /\ n.epoch = m.epoch + 1 /\ n.state \in ACTIVE
    BY <1>4, <2>1 DEF Rows
  <2>4. Active \ contested \subseteq {r}
    BY <1>3, <1>6, NotBusy
  <2> HIDE DEF n
  <2> QED
    BY <1>2, <1>3, <1>6, <2>2, <2>3, <2>4, Commands
<1>7. CASE /\ Active = {} /\ AddRun([rev |-> task.rev, event |-> commands'])
  <2>1. [rev |-> task.rev, event |-> commands'] \in Recipes
    BY <1>1, <1>2 DEF Recipes
  <2> QED
    BY <1>1, <1>2, <1>7, <2>1, AddsRun
<1> QED
  BY <1>5, <1>6, <1>7 DEF Instruct

-----------------------------------------------------------------------------
(* Servers.                                                                *)

LEMMA InvClose == ASSUME IInv, Close PROVE Step
<1>1. /\ UNCHANGED <<task, managed, run, outbox, jobs, worker, former, contested>>
      /\ up' = "closing" /\ commands' = commands /\ ends' = ends + 1
  BY DEF Close, Ends
<1>2. commands' \in Nat /\ ends' \in Nat
  BY <1>1, Counters
<1> QED
  BY <1>1, <1>2, InvStutter

LEMMA InvExit == ASSUME IInv, Exit PROVE Step
<1>1. /\ UNCHANGED <<task, managed, outbox, former, contested>> /\ up' = "down" /\ jobs' = {}
      /\ worker' = [r \in Runs |-> NULL] /\ commands' \in Nat /\ ends' \in Nat
      /\ task' \in Recipes /\ former' \in [Runs -> Workers \union {NULL}]
  BY Counters DEF Exit, Ends, NoThreads, IInv, TypeOK
<1>2. run' = [r \in Runs |-> IF \E job \in jobs : job.run = r THEN Recorded(run[r], "failed")
                                                            ELSE run[r]]
  BY DEF Exit
<1>3. ASSUME NEW k \in Runs
      PROVE  /\ run'[k] \in Rows \union {NULL}
             /\ IF run[k] = NULL THEN run'[k] = NULL ELSE Continues(k)
  <2>1. run[k] \in Rows \union {NULL} /\ AtWork(k)
    BY DEF IInv, TypeOK, Good
  <2>2. CASE \E job \in jobs : job.run = k
    <3>1. run[k] # NULL /\ run'[k] = Recorded(run[k], "failed")
      BY <1>2, <2>1, <2>2 DEF AtWork, HasJob
    <3>2. /\ run'[k] \in Rows /\ run'[k].state = run[k].state /\ run'[k].epoch = run[k].epoch
          /\ run'[k].told = run[k].told /\ run'[k].recipe = run[k].recipe
          /\ run'[k].pending = run[k].pending
      BY <2>1, <3>1, RecordedRow
    <3> QED
      BY <3>1, <3>2 DEF Continues, Follows
  <2>3. CASE ~\E job \in jobs : job.run = k
    <3>1. run'[k] = run[k]
      BY <1>2, <2>3
    <3> QED
      BY <2>1, <3>1 DEF Continues, Follows
  <2> QED
    BY <2>2, <2>3
<1>4. run' \in [Runs -> Rows \union {NULL}]
  BY <1>2, <1>3
<1>5. ASSUME NEW k \in Runs PROVE Held(k)' /\ Left(k)' /\ AtWork(k)'
  <2>1. Held(k)' /\ AtWork(k)'
    BY <1>1 DEF Held, AtWork, HasJob
  <2>2. Left(k) /\ run[k] \in Rows \union {NULL} /\ (run[k] # NULL => Continues(k))
    BY <1>3 DEF IInv, Good, TypeOK
  <2>3. Left(k)'
    BY <1>1, <2>2, FitsStays DEF Left, Continues
  <2> QED
    BY <2>1, <2>3
<1>6. worker' \in [Runs -> Workers \union {NULL}]
  BY <1>1
<1> QED
  BY <1>1, <1>3, <1>4, <1>5, <1>6, ManyRewritten

\* The runs that were active are recovered, the others stay as they are.
LEMMA RecoversRuns ==
  ASSUME IInv, RecoverRuns
  PROVE  /\ run' \in [Runs -> Rows \union {NULL}]
         /\ \A k \in Runs : IF run[k] = NULL THEN run'[k] = NULL ELSE Continues(k)
<1>1. ASSUME NEW k \in Runs
      PROVE  /\ run'[k] \in Rows \union {NULL}
             /\ IF run[k] = NULL THEN run'[k] = NULL ELSE Continues(k)
  <2>1. run[k] \in Rows \union {NULL}
    BY DEF IInv, TypeOK
  <2>2. CASE run[k] = NULL
    BY <2>2 DEF RecoverRuns
  <2>3. CASE run[k] # NULL
    <3>1. run'[k] = Recovered(run[k]) /\ run[k].epoch \in Nat
      BY <2>1, <2>3 DEF RecoverRuns, Rows
    <3>2. /\ run'[k] \in Rows /\ run'[k].recipe = run[k].recipe /\ run'[k].pending = run[k].pending
          /\ \/ run'[k] = run[k]
             \/ /\ run[k].state \in ACTIVE /\ run'[k].state = "queued"
                /\ run'[k].epoch = run[k].epoch + 1
      BY <2>1, <2>3, <3>1, RecoveredRow
    <3> QED
      BY <2>3, <3>1, <3>2 DEF Continues, Follows
  <2> QED
    BY <2>2, <2>3
<1> QED
  BY <1>1 DEF RecoverRuns

LEMMA InvRestart == ASSUME IInv, Restart PROVE Step
<1>1. /\ UNCHANGED <<task, managed, outbox, jobs, worker, former, contested, commands, ends>>
      /\ up = "down" /\ up' = "up" /\ RecoverRuns
  BY DEF Restart
<1>2. /\ run' \in [Runs -> Rows \union {NULL}]
      /\ \A k \in Runs : IF run[k] = NULL THEN run'[k] = NULL ELSE Continues(k)
  BY <1>1, RecoversRuns
<1>3. ASSUME NEW k \in Runs PROVE Held(k)' /\ Left(k)' /\ AtWork(k)'
  <2>1. Held(k) /\ Left(k) /\ AtWork(k) /\ run[k] \in Rows \union {NULL}
    BY DEF IInv, Good, TypeOK
  <2>2. worker'[k] = NULL /\ ~HasJob(k)'
    BY <1>1, <2>1 DEF Held, AtWork, HasJob
  <2>3. Left(k)'
    BY <1>1, <1>2, <2>1, FitsStays DEF Left, Continues
  <2> QED
    BY <2>2, <2>3 DEF Held, AtWork
<1>4. /\ worker' \in [Runs -> Workers \union {NULL}] /\ former' \in [Runs -> Workers \union {NULL}]
      /\ task' \in Recipes /\ commands' \in Nat /\ ends' \in Nat
  BY <1>1 DEF IInv, TypeOK
<1> QED
  BY <1>1, <1>2, <1>3, <1>4, ManyRewritten

\* How a worker is left behind.
LEMMA LeftBehind ==
  ASSUME NEW w \in Workers, NEW v \in Leaving(w)
  PROVE  /\ v \in Workers
         /\ \/ v = w /\ v.pc \in {"conclude", "except", "act"}
            \/ v.pc \in {"working", "stop", "except"}
<1>1. w # NULL
  OBVIOUS
<1>2. /\ Leaves \in Workers /\ Leaves.pc = "stop" /\ Drains \in Workers /\ Drains.pc = "working"
      /\ Failed("error") \in Workers /\ Failed("error").pc = "except"
  BY DEF Leaves, Drains, Failed, Workers
<1>3. v \in {Leaves, Drains, Failed("error")} \/ (v = w /\ w.pc \in {"conclude", "except", "act"})
  <2>1. w.pc \in {"conclude", "except", "act"} \/ w.pc \in {"top", "stop"} \/ w.pc \in {"begin", "gate"}
        \/ w.pc \in {"worked", "reviewed", "asked"} \/ w.pc \in Waiting
    BY DEF Workers, Waiting
  <2> QED
    BY <1>1, <2>1 DEF Leaving, Waiting
<1> QED
  BY <1>2, <1>3

LEMMA InvTakeOver == ASSUME IInv, TakeOver PROVE Step
<1>1. /\ UNCHANGED <<task, managed, outbox, contested>> /\ up' = "up" /\ RecoverRuns
      /\ worker' = [r \in Runs |-> NULL] /\ jobs' = {}
      /\ commands' \in Nat /\ ends' \in Nat /\ task' \in Recipes
      /\ \A r \in Runs : former'[r] \in Leaving(worker[r])
  BY Counters DEF TakeOver, NoThreads, Counted
<1>2. /\ run' \in [Runs -> Rows \union {NULL}]
      /\ \A k \in Runs : IF run[k] = NULL THEN run'[k] = NULL ELSE Continues(k)
  BY <1>1, RecoversRuns
<1>3. ASSUME NEW k \in Runs
      PROVE  former'[k] \in Workers \union {NULL} /\ Held(k)' /\ Left(k)' /\ AtWork(k)'
  <2>1. Held(k)' /\ AtWork(k)'
    BY <1>1 DEF Held, AtWork, HasJob
  <2>2. CASE worker[k] = NULL
    <3>1. former'[k] = NULL
      BY <1>1, <2>2 DEF Leaving
    <3> QED
      BY <2>1, <3>1 DEF Left
  <2>3. CASE worker[k] # NULL
    <3>1. worker[k] \in Workers /\ run[k] # NULL /\ run[k] \in Rows /\ Fits(worker[k], run[k])
      BY <2>3, WithWorker
    <3>2. /\ former'[k] \in Workers
          /\ \/ former'[k] = worker[k] /\ former'[k].pc \in {"conclude", "except", "act"}
             \/ former'[k].pc \in {"working", "stop", "except"}
      BY <1>1, <3>1, LeftBehind
    <3>3. run'[k] \in Rows /\ Follows(run'[k], run[k])
      BY <1>2, <3>1 DEF Continues
    <3>4. Fits(worker[k], run'[k])
      BY <3>1, <3>3, FitsStays
    <3>5. former'[k].pc # "working" => Fits(former'[k], run'[k])
      BY <3>2, <3>4 DEF Fits, Holding
    <3> QED
      BY <2>1, <3>2, <3>3, <3>5 DEF Left
  <2> QED
    BY <2>2, <2>3
<1>4. worker' \in [Runs -> Workers \union {NULL}]
  BY <1>1
<1>5. former' \in [Runs -> Workers \union {NULL}]
  <2>1. \E S : former' \in [Runs -> S]
    BY DEF TakeOver
  <2> QED
    BY <1>3, <2>1
<1> QED
  BY <1>1, <1>2, <1>3, <1>4, <1>5, ManyRewritten

-----------------------------------------------------------------------------
(* Workers of a former server.                                             *)

\* What a former worker leaves alone.
Beside == UNCHANGED <<task, managed, up, jobs, worker, commands, ends>>

LEMMA WithFormer ==
  ASSUME IInv, NEW r \in Runs, former[r] # NULL
  PROVE  /\ former[r] \in Workers /\ run[r] # NULL /\ run[r] \in Rows
         /\ former[r].pc # "working" => Fits(former[r], run[r])
BY DEF IInv, Good, TypeOK, Left

\* A former worker is replaced by v, while no row changes.
LEMMA FormerMoves ==
  ASSUME IInv, NEW r \in Runs, run[r] # NULL, NEW v \in Workers \union {NULL},
         v # NULL => v.pc \in {"stop", "conclude", "except", "act"} /\ Fits(v, run[r]),
         former' = [former EXCEPT ![r] = v], Beside, run' = run, outbox' = outbox,
         contested' = contested
  PROVE  Step
<1>1. /\ former' \in [Runs -> Workers \union {NULL}] /\ worker' \in [Runs -> Workers \union {NULL}]
      /\ former'[r] = v /\ \A k \in Runs \ {r} : former'[k] = former[k]
      /\ UNCHANGED <<task, managed, up, jobs, worker, commands, ends>>
      /\ task' \in Recipes /\ commands' \in Nat /\ ends' \in Nat
  BY DEF IInv, TypeOK, Beside
<1>2. Left(r)'
  BY <1>1 DEF Left
<1> QED
  BY <1>1, <1>2, RowsKept

\* It writes the row as well.
LEMMA FormerWrites ==
  ASSUME IInv, NEW r \in Runs, run[r] # NULL, NEW v \in Workers \union {NULL},
         NEW m \in Rows, m.epoch = run[r].epoch, m.pending = run[r].pending,
         m.recipe = run[r].recipe, run' = [run EXCEPT ![r] = m],
         v # NULL => v.pc \in {"stop", "conclude", "except", "act"} /\ Fits(v, m),
         former' = [former EXCEPT ![r] = v], Beside, outbox' = outbox,
         contested \subseteq contested', contested' \subseteq Runs,
         \/ m.state = run[r].state /\ m.told = run[r].told
         \/ m.state \in ACTIVE /\ r \in contested'
  PROVE  Step
<1>1. /\ former' \in [Runs -> Workers \union {NULL}] /\ worker' \in [Runs -> Workers \union {NULL}]
      /\ former'[r] = v /\ \A k \in Runs \ {r} : former'[k] = former[k]
      /\ UNCHANGED <<task, managed, up, jobs, worker, commands, ends>>
      /\ task' \in Recipes /\ commands' \in Nat /\ ends' \in Nat
      /\ jobs' \subseteq [run : Runs, role : {"execute", "verify"}] /\ OneJob'
  BY DEF IInv, TypeOK, Beside, OneJob
<1>2. run'[r] = m /\ m # NULL /\ run[r] \in Rows /\ Good(r)
  BY DEF IInv, TypeOK
<1>3. Follows(m, run[r]) /\ Changes(m, r)
  BY DEF Follows, Changes
<1>4. Left(r)'
  BY <1>1, <1>2 DEF Left
<1>5. Held(r)'
  BY <1>1, <1>2, <1>3, FitsStays DEF Good, Held
<1>6. AtWork(r)'
  <2>1. HasJob(r)' => HasJob(r)
    BY <1>1 DEF HasJob
  <2> QED
    BY <1>1, <1>2, <2>1 DEF Good, AtWork
<1> QED
  BY <1>1, <1>3, <1>4, <1>5, <1>6, Rewrites

LEMMA InvFormerWaits == ASSUME IInv, NEW r \in Runs, FormerWaits(r) PROVE Step
<1>1. /\ former[r] # NULL /\ run[r] # NULL /\ run[r] \in Rows
      /\ Beside /\ outbox' = outbox /\ contested' = contested
  <2>1. former[r] # NULL
    BY DEF FormerWaits, Drains, Workers
  <2> QED
    BY <2>1, WithFormer DEF FormerWaits, Beside
<1>2. ASSUME NEW how \in {"timeout", "error"}, NEW m
      PROVE  /\ Failed(how) \in Workers /\ Failed(how).pc = "except" /\ Fits(Failed(how), m)
  BY DEF Failed, Workers, Fits, Holding
<1>3. CASE former' = [former EXCEPT ![r] = Failed("timeout")] /\ run' = run
  BY <1>1, <1>2, <1>3, FormerMoves
<1>4. ASSUME NEW status \in {"final", "empty", "failed"},
             former' = [former EXCEPT ![r] = Failed("error")],
             Put(r, IF \E job \in jobs : job.run = r THEN run[r] ELSE Recorded(run[r], status))
      PROVE  Step
  <2>1. PICK m \in Rows :
          /\ run' = [run EXCEPT ![r] = m] /\ m.state = run[r].state /\ m.told = run[r].told
          /\ m.epoch = run[r].epoch /\ m.pending = run[r].pending /\ m.recipe = run[r].recipe
    <3>1. CASE \E job \in jobs : job.run = r
      BY <1>1, <1>4, <3>1 DEF Put
    <3>2. CASE ~\E job \in jobs : job.run = r
      BY <1>1, <1>4, <3>2, RecordedRow DEF Put
    <3> QED
      BY <3>1, <3>2
  <2>2. contested' \subseteq Runs
    BY <1>1 DEF IInv, TypeOK
  <2> QED
    BY <1>1, <1>2, <1>4, <2>1, <2>2, FormerWrites
<1> QED
  BY <1>3, <1>4 DEF FormerWaits

LEMMA InvFormerCaught == ASSUME IInv, NEW r \in Runs, FormerCaught(r) PROVE Step
<1> DEFINE v == Decided(former[r], run[r])
<1>1. /\ former[r] # NULL /\ former[r].pc = "except" /\ former[r] \in Workers
      /\ run[r] # NULL /\ run[r] \in Rows
      /\ Beside /\ run' = run /\ outbox' = outbox /\ contested' = contested
  BY WithFormer DEF FormerCaught, Beside
<1>2. former' = [former EXCEPT ![r] = v]
  BY DEF FormerCaught, Decided, IInv, TypeOK
<1>3. v \in Workers /\ Fits(v, run[r]) /\ v.pc = "act"
  BY <1>1, Decides
<1> HIDE DEF v
<1> QED
  BY <1>1, <1>2, <1>3, FormerMoves

\* A former worker that ends a run leaves it contested.
LEMMA FormerFinishes ==
  ASSUME IInv, NEW r \in Runs, former[r] # NULL, NEW s \in ENDS, NEW byEpoch,
         Finish(former[r], r, s, byEpoch),
         s = "succeeded" => byEpoch /\ former[r].pc = "conclude",
         contested' = IF run' = run THEN contested ELSE contested \union {r},
         former' = [former EXCEPT ![r] = NULL], Beside
  PROVE  Step
<1>1. run[r] # NULL /\ run[r] \in Rows /\ Good(r)
  BY WithFormer DEF IInv
<1>2. CASE ~MayFinish(former[r], r, byEpoch)
  <2>1. run' = run /\ outbox' = outbox
    BY <1>2 DEF Finish
  <2> QED
    BY <1>1, <2>1, FormerMoves
<1>3. CASE MayFinish(former[r], r, byEpoch)
  <2>1. run' # run
    <3>1. PICK m \in {Ended(run[r], s), Tidy(Ended(run[r], s))} : run' = [run EXCEPT ![r] = m]
      BY <1>3 DEF Finish
    <3>2. m.state = s /\ run[r].state \in ACTIVE
      BY <1>1, <1>3, FinishedRow DEF MayFinish
    <3> QED
      BY <3>1, <3>2 DEF IInv, TypeOK
  <2>2. contested \subseteq contested' /\ r \in contested' /\ contested' \subseteq Runs
    BY <2>1 DEF IInv, TypeOK
  <2>3. /\ former' \in [Runs -> Workers \union {NULL}] /\ worker' \in [Runs -> Workers \union {NULL}]
        /\ former'[r] = NULL /\ \A k \in Runs \ {r} : former'[k] = former[k]
        /\ UNCHANGED <<task, managed, up, jobs, worker, commands, ends>>
    BY DEF IInv, TypeOK, Beside
  <2>4. s = "succeeded" =>
          byEpoch /\ former[r] \in {worker[r], former[r]} \ {NULL} /\ former[r].pc = "conclude"
    OBVIOUS
  <2> QED
    BY <1>1, <1>3, <2>2, <2>3, <2>4, Finishes
<1> QED
  BY <1>2, <1>3

LEMMA InvFormerEnds == ASSUME IInv, NEW r \in Runs, FormerEnds(r) PROVE Step
<1>1. /\ former[r] # NULL /\ former' = [former EXCEPT ![r] = NULL] /\ Beside
      /\ contested' = IF run' = run THEN contested ELSE contested \union {r}
      /\ run[r] # NULL /\ run[r] \in Rows /\ (former[r].pc # "working" => Fits(former[r], run[r]))
  BY WithFormer DEF FormerEnds, Beside
<1>2. CASE former[r].pc = "stop" /\ Finish(former[r], r, "cancelled", FALSE)
  BY <1>1, <1>2, FormerFinishes
<1>3. CASE former[r].pc = "conclude" /\ Finish(former[r], r, former[r].how, TRUE)
  <2>1. former[r].how \in ENDS
    BY <1>1, <1>3 DEF Fits
  <2> QED
    BY <1>1, <1>3, <2>1, FormerFinishes
<1>4. CASE former[r].pc = "act" /\ ActOn(former[r], r)
  <2>1. former[r].how \in {"outcome_unknown", "cancelled", "queued", "retry", "blocked"}
    BY <1>1, <1>4 DEF Fits
  <2>2. CASE former[r].how \in {"outcome_unknown", "cancelled", "blocked"}
    <3>1. PICK b : b = (former[r].how = "blocked")
      OBVIOUS
    <3>2. Finish(former[r], r, former[r].how, b)
      BY <1>4, <2>2, <3>1 DEF ActOn
    <3>3. former[r].how \in ENDS /\ former[r].how # "succeeded"
      BY <2>2
    <3> QED
      BY <1>1, <3>2, <3>3, FormerFinishes
  <2>3. CASE former[r].how \in {"queued", "retry"}
    <3>0. run \in [Runs -> Rows \union {NULL}] /\ contested' \subseteq Runs /\ contested \subseteq contested'
      BY <1>1 DEF IInv, TypeOK
    <3>1. PICK m \in Rows :
            /\ run' = [run EXCEPT ![r] = m] /\ outbox' = outbox
            /\ m.epoch = run[r].epoch /\ m.pending = run[r].pending /\ m.recipe = run[r].recipe
            /\ m = run[r] \/ m.state = "queued"
      BY <1>1, <1>4, <2>3, <3>0, ActsOn
    <3>2. CASE m = run[r]
      BY <1>1, <3>0, <3>1, <3>2, FormerWrites
    <3>3. CASE m # run[r] /\ m.state = "queued"
      <4>1. run' # run
        BY <3>0, <3>1, <3>3
      <4> QED
        BY <1>1, <3>0, <3>1, <3>3, <4>1, FormerWrites
    <3> QED
      BY <3>1, <3>2, <3>3
  <2> QED
    BY <2>1, <2>2, <2>3
<1> QED
  BY <1>2, <1>3, <1>4 DEF FormerEnds

LEMMA InvFormerExit == ASSUME IInv, FormerExit PROVE Step
<1>1. /\ UNCHANGED <<task, managed, run, outbox, up, jobs, worker, contested, commands, ends>>
      /\ former' = [r \in Runs |-> NULL]
  BY DEF FormerExit
<1>2. /\ former' \in [Runs -> Workers \union {NULL}] /\ worker' \in [Runs -> Workers \union {NULL}]
      /\ task' \in Recipes /\ commands' \in Nat /\ ends' \in Nat
  BY <1>1 DEF IInv, TypeOK
<1>3. \A k \in Runs : Left(k)'
  BY <1>1 DEF Left
<1> QED
  BY <1>1, <1>2, <1>3, RowsKept

-----------------------------------------------------------------------------
(* The theorems.                                                           *)

LEMMA InitInv == ASSUME Init PROVE IInv
<1>1. TypeOK
  BY DEF Init, TypeOK, Recipes
<1>2. Existing = {}
  BY DEF Init, Existing
<1>3. OneActive /\ OneJob
  BY <1>2 DEF Init, OneActive, OneJob, Active
<1>4. Numbered
  <2>1. 0 \in 0 .. MaxRuns /\ 1 .. 0 = {}
    OBVIOUS
  <2> QED
    BY <1>2, <2>1 DEF Init, Numbered
<1>5. \A r \in Runs : Good(r)
  BY DEF Init, Good, Held, Left, AtWork, HasJob, Mailed, Told
<1> QED
  BY <1>1, <1>3, <1>4, <1>5 DEF IInv

LEMMA NextInv == ASSUME IInv, [Next]_vars PROVE Step
<1>1. CASE UNCHANGED vars
  BY <1>1, Counters, InvStutter DEF vars
<1>2. CASE Next
  <2>1. ASSUME NEW r \in Runs, WorkerStep(r) \/ FormerStep(r) \/ RetryReview(r) \/ Cancel(r)
        PROVE  Step
    BY <2>1, InvWorkerStep, InvFormerWaits, InvFormerCaught, InvFormerEnds, InvRetryReview,
       InvCancel DEF FormerStep
  <2>2. CASE Admission
    BY <2>2, InvAdmission DEF Admission
  <2> QED
    BY <1>2, <2>1, <2>2, InvTurnEnds, InvDeliver, InvMonitor, InvDue, InvRun, InvEdit, InvInstruct,
       InvClose, InvExit, InvRestart, InvTakeOver, InvFormerExit DEF Next
<1> QED
  BY <1>1, <1>2

\* A worker knows when what it read is old, a provider at work is known to be,
\* at most one run is active, the outbox says of a run what the run says itself,
\* and no outcome is lost, through every interleaving of workers, monitor,
\* users, exits, recoveries and of the workers of a former server of
\* rem_home.py.
THEOREM Invariant == Spec => []IInv
<1>1. IInv /\ [Next]_vars => IInv'
  BY NextInv DEF Step
<1> QED
  BY InitInv, <1>1, PTL DEF Spec

\* A set whose members are all the same has one at most.
LEMMA AtMostOne ==
  ASSUME NEW S, \A x, y \in S : x = y
  PROVE  Cardinality(S) <= 1
<1>1. CASE S = {}
  BY <1>1, FS_EmptySet
<1>2. CASE S # {}
  <2>1. PICK x \in S : TRUE
    BY <1>2
  <2>2. S = {x}
    BY <2>1
  <2>3. Cardinality({x}) = 1
    BY FS_Singleton
  <2> QED
    BY <2>2, <2>3
<1> QED
  BY <1>1, <1>2

\* The server that has the lease has one provider at work at most, also while
\* the outcome of a run is unknown because its stop was not confirmed; a run
\* whose provider works is active or said to be unknown, and two runs are never
\* active at the same time: what _turn's check for a job of the thread, the
\* except clause of _run and the checks of due, mutate_task, mutate_run and
\* instruct are for.  Of a run that a worker of a former server wrote after the
\* lease was taken over, only the first is said.
THEOREM OneRunAtWork == Spec => []OneAtWork
<1>1. IInv => OneAtWork
  <2> SUFFICES ASSUME IInv PROVE OneAtWork
    OBVIOUS
  <2>1. Cardinality(jobs) <= 1
    BY AtMostOne DEF IInv, OneJob
  <2>2. Cardinality(Active \ contested) <= 1
    BY AtMostOne DEF IInv, OneActive
  <2>3. ASSUME NEW job \in jobs
        PROVE  job.run \in contested \/ run[job.run].state \in ACTIVE \union {"outcome_unknown"}
    <3>1. job.run \in Runs /\ HasJob(job.run)
      BY DEF IInv, TypeOK, HasJob
    <3>2. Held(job.run) /\ AtWork(job.run)
      BY <3>1 DEF IInv, Good
    <3> QED
      BY <3>1, <3>2 DEF Held, AtWork
  <2> QED
    BY <2>1, <2>2, <2>3 DEF OneAtWork
<1> QED
  BY Invariant, <1>1, PTL

\* Every outcome is told or waits in the outbox with the epoch of the run: the
\* message is committed with the outcome, survives exits of the server, and is
\* never taken for a message of another outcome (the first half of OutcomeTold;
\* that the outbox is emptied again and again is liveness).  Runs that a worker
\* of a former server has written are left out.
THEOREM NoOutcomeLost ==
  Spec => [](\A r \in Existing \ contested : Over(r) =>
               \/ run[r].told
               \/ \E o \in outbox : o.run = r /\ o.epoch = run[r].epoch)
<1>1. IInv => (\A r \in Existing \ contested : Over(r) =>
                 \/ run[r].told
                 \/ \E o \in outbox : o.run = r /\ o.epoch = run[r].epoch)
  BY DEF IInv, Good, Told, Existing
<1> QED
  BY Invariant, <1>1, PTL

\* A run succeeds only with the recipe its review accepted: the guard of _finish
\* on the epoch rejects every worker that a command or a recovery overtook, be
\* it of this server or of a former one.
THEOREM SuccessReviewed == Spec => SuccessIsReviewed
<1>1. IInv /\ [Next]_vars =>
        [\A r \in Existing : run'[r].state = "succeeded" /\ run[r].state # "succeeded" =>
           /\ run[r].pending = NULL
           /\ \E w \in {worker[r], former[r]} \ {NULL} :
                w.pc = "conclude" /\ w.recipe = run[r].recipe]_vars
  BY NextInv DEF Step, Success
<1> QED
  BY Invariant, <1>1, PTL DEF Spec, SuccessIsReviewed
=============================================================================
