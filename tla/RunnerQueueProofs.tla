------------------------- MODULE RunnerQueueProofs -------------------------
(* Proofs, for any sets of runners, runs and workers, of the properties of *)
(* RunnerQueue.  TablesAgree and SingleExecution need one more fact to be  *)
(* inductive: what an idle worker, an unclaimed run and a NULL column look *)
(* like, so that a claim can only ever give a run its first holder.        *)
EXTENDS RunnerQueue, TLAPS

\* A run that was never claimed has no runner, and a worker that holds a run
\* holds one that some runner was given; its result is set when it finishes.
Claims ==
  /\ \A x \in Runs : status[x] \in {"absent", "queued"} => owner[x] = NULL
  /\ \A w \in Workers : phase[w] \in Holding =>
       holds[w] \in Runs /\ owner[holds[w]] \in Runners
  /\ \A w \in Workers : phase[w] = "finishing" => result[w] \in Ended

IInv == TypeOK /\ TablesAgree /\ SingleExecution /\ Claims

USE DEF Active, Ended, RunStatus, RunnerStatus, Holding, Phase,
        runVars, runnerVars, workerVars

\* The empty database satisfies the inductive invariant.
LEMMA InitInv == Init => IInv
BY RunnerOfAssumption, NullAssumption
DEF Init, IInv, TypeOK, TablesAgree, SingleExecution, Claims

\* Every transaction and every worker step preserves the inductive invariant.
LEMMA StepInv == IInv /\ [Next]_vars => IInv'
<1> SUFFICES ASSUME IInv, [Next]_vars PROVE IInv'
  OBVIOUS
<1> USE RunnerOfAssumption, NullAssumption
    DEF IInv, TypeOK, TablesAgree, SingleExecution, Claims
<1>1. ASSUME NEW x \in Runs, Enqueue(x) PROVE IInv'
  <2>1. TypeOK'
    BY <1>1 DEF Enqueue
  <2>2. TablesAgree'
    BY <1>1 DEF Enqueue
  <2>3. SingleExecution'
    BY <1>1 DEF Enqueue
  <2>4. Claims'
    BY <1>1 DEF Enqueue
  <2> QED
    BY <2>1, <2>2, <2>3, <2>4
<1>2. ASSUME NEW x \in Runs, CancelRun(x) PROVE IInv'
  <2>1. TypeOK'
    BY <1>2 DEF CancelRun
  <2>2. TablesAgree'
    BY <1>2 DEF CancelRun
  <2>3. SingleExecution'
    BY <1>2 DEF CancelRun
  <2>4. Claims'
    BY <1>2 DEF CancelRun
  <2> QED
    BY <2>1, <2>2, <2>3, <2>4
<1>3. ASSUME NEW r \in Runners, Expire(r) PROVE IInv'
  <2>1. TypeOK'
    BY <1>3 DEF Expire
  <2>2. TablesAgree'
    BY <1>3 DEF Expire
  <2>3. SingleExecution'
    BY <1>3 DEF Expire
  <2>4. Claims'
    BY <1>3 DEF Expire
  <2> QED
    BY <2>1, <2>2, <2>3, <2>4
<1>4. CASE MarkLostRuns
  <2>1. TypeOK'
    BY <1>4 DEF MarkLostRuns, StaleRunners
  <2>2. TablesAgree'
    BY <1>4 DEF MarkLostRuns, StaleRunners
  <2>3. SingleExecution'
    BY <1>4 DEF MarkLostRuns, StaleRunners
  <2>4. Claims'
    BY <1>4 DEF MarkLostRuns, StaleRunners
  <2> QED
    BY <2>1, <2>2, <2>3, <2>4
<1>5. ASSUME NEW w \in Workers, WorkerStep(w) PROVE IInv'
  <2>1. CASE RegisterRunner(w)
    <3>1. TypeOK'
      BY <2>1 DEF RegisterRunner, Rest
    <3>2. TablesAgree'
      BY <2>1 DEF RegisterRunner, Rest
    <3>3. SingleExecution'
      BY <2>1 DEF RegisterRunner, Rest
    <3>4. Claims'
      BY <2>1 DEF RegisterRunner, Rest
    <3> QED
      BY <3>1, <3>2, <3>3, <3>4
  <2>2. CASE ClaimNext(w)
    <3>1. TypeOK'
      BY <2>2 DEF ClaimNext, Claimable
    <3>2. TablesAgree'
      BY <2>2 DEF ClaimNext, Claimable
    <3>3. SingleExecution'
      BY <2>2 DEF ClaimNext, Claimable
    <3>4. Claims'
      BY <2>2 DEF ClaimNext, Claimable
    <3> QED
      BY <3>1, <3>2, <3>3, <3>4
  <2>3. CASE ClaimNothing(w)
    <3>1. TypeOK'
      BY <2>3 DEF ClaimNothing
    <3>2. TablesAgree'
      BY <2>3 DEF ClaimNothing
    <3>3. SingleExecution'
      BY <2>3 DEF ClaimNothing
    <3>4. Claims'
      BY <2>3 DEF ClaimNothing
    <3> QED
      BY <3>1, <3>2, <3>3, <3>4
  <2>4. CASE IdleHeartbeat(w)
    <3>1. TypeOK'
      <4>1. fresh' = [fresh EXCEPT ![RunnerOf[w]] = TRUE] \/ fresh' = fresh
        BY <2>4 DEF IdleHeartbeat
      <4>2. fresh' \in [Runners -> BOOLEAN]
        <5>1. CASE fresh' = [fresh EXCEPT ![RunnerOf[w]] = TRUE]
          BY <5>1
        <5>2. CASE fresh' = fresh
          BY <5>2
        <5> QED
          BY <4>1, <5>1, <5>2, Zenon
      <4> QED
        BY <2>4, <4>2 DEF IdleHeartbeat
    <3>2. TablesAgree'
      BY <2>4 DEF IdleHeartbeat
    <3>3. SingleExecution'
      BY <2>4 DEF IdleHeartbeat
    <3>4. Claims'
      BY <2>4 DEF IdleHeartbeat
    <3> QED
      BY <3>1, <3>2, <3>3, <3>4
  <2>5. CASE Launch(w)
    <3>1. TypeOK'
      BY <2>5 DEF Launch
    <3>2. TablesAgree'
      BY <2>5 DEF Launch
    <3>3. SingleExecution'
      BY <2>5 DEF Launch
    <3>4. Claims'
      BY <2>5 DEF Launch
    <3> QED
      BY <3>1, <3>2, <3>3, <3>4
  <2>6. CASE Execute(w)
    <3>1. TypeOK'
      BY <2>6 DEF Execute
    <3>2. TablesAgree'
      BY <2>6 DEF Execute
    <3>3. SingleExecution'
      BY <2>6 DEF Execute
    <3>4. Claims'
      BY <2>6 DEF Execute
    <3> QED
      BY <3>1, <3>2, <3>3, <3>4
  <2>7. CASE FinishRaises(w)
    <3>1. TypeOK'
      BY <2>7 DEF FinishRaises
    <3>2. TablesAgree'
      BY <2>7 DEF FinishRaises
    <3>3. SingleExecution'
      BY <2>7 DEF FinishRaises
    <3>4. Claims'
      BY <2>7 DEF FinishRaises
    <3> QED
      BY <3>1, <3>2, <3>3, <3>4
  <2>8. CASE FinishRun(w)
    <3>1. TypeOK'
      <4>1. fresh' = [fresh EXCEPT ![owner[holds[w]]] = TRUE] \/ fresh' = fresh
        BY <2>8 DEF FinishRun
      <4>2. fresh' \in [Runners -> BOOLEAN]
        <5>1. CASE fresh' = [fresh EXCEPT ![owner[holds[w]]] = TRUE]
          BY <5>1
        <5>2. CASE fresh' = fresh
          BY <5>2
        <5> QED
          BY <4>1, <5>1, <5>2, Zenon
      <4>3. cancel' \in [Workers -> BOOLEAN]
        BY <2>8 DEF FinishRun, Rest
      <4>4. status' \in [Runs -> RunStatus]
        BY <2>8 DEF FinishRun, FinalStatus
      <4>5. state' \in [Runners -> RunnerStatus]
        BY <2>8 DEF FinishRun
      <4>6. current' \in [Runners -> Runs \union {NULL}]
        BY <2>8 DEF FinishRun
      <4> QED
        BY <2>8, <4>2, <4>3, <4>4, <4>5, <4>6 DEF FinishRun, Rest
    <3>2. TablesAgree'
      BY <2>8 DEF FinishRun, FinalStatus, Rest
    <3>3. SingleExecution'
      BY <2>8 DEF FinishRun, FinalStatus, Rest
    <3>4. Claims'
      BY <2>8 DEF FinishRun, FinalStatus, Rest
    <3> QED
      BY <3>1, <3>2, <3>3, <3>4
  <2>9. CASE MonitorCancel(w)
    <3>1. TypeOK'
      BY <2>9 DEF MonitorCancel
    <3>2. TablesAgree'
      BY <2>9 DEF MonitorCancel
    <3>3. SingleExecution'
      BY <2>9 DEF MonitorCancel
    <3>4. Claims'
      BY <2>9 DEF MonitorCancel
    <3> QED
      BY <3>1, <3>2, <3>3, <3>4
  <2>10. CASE MonitorHeartbeat(w)
    <3>1. TypeOK'
      BY <2>10 DEF MonitorHeartbeat
    <3>2. TablesAgree'
      BY <2>10 DEF MonitorHeartbeat
    <3>3. SingleExecution'
      BY <2>10 DEF MonitorHeartbeat
    <3>4. Claims'
      BY <2>10 DEF MonitorHeartbeat
    <3> QED
      BY <3>1, <3>2, <3>3, <3>4
  <2>11. CASE Exit(w)
    <3>1. TypeOK'
      BY <2>11 DEF Exit, Rest
    <3>2. TablesAgree'
      BY <2>11 DEF Exit, Rest
    <3>3. SingleExecution'
      BY <2>11 DEF Exit, Rest
    <3>4. Claims'
      BY <2>11 DEF Exit, Rest
    <3> QED
      BY <3>1, <3>2, <3>3, <3>4
  <2> QED
    BY <1>5, <2>1, <2>2, <2>3, <2>4, <2>5, <2>6, <2>7, <2>8, <2>9, <2>10, <2>11 DEF WorkerStep
<1>6. CASE UNCHANGED vars
  BY <1>6 DEF vars
<1> QED
  BY <1>1, <1>2, <1>3, <1>4, <1>5, <1>6 DEF Next

\* The inductive invariant holds of every reachable state.
LEMMA Invariant == Spec => []IInv
BY InitInv, StepInv, PTL DEF Spec

\* Every row and every worker variable keeps its type.
THEOREM TypesHold == Spec => []TypeOK
<1>1. IInv => TypeOK
  BY DEF IInv
<1> QED
  BY <1>1, Invariant, PTL

\* Whatever the workers, runs and runner rows, and whichever workers die and
\* come back, the two tables of the queue stay in agreement.
THEOREM TablesAlwaysAgree == Spec => []TablesAgree
<1>1. IInv => TablesAgree
  BY DEF IInv
<1> QED
  BY Invariant, <1>1, PTL

\* No two workers ever execute one run, not even after the first was declared
\* lost, and no worker executes a run that has ended.
THEOREM RunsExecuteOnce == Spec => []SingleExecution
<1>1. IInv => SingleExecution
  BY DEF IInv
<1> QED
  BY Invariant, <1>1, PTL

\* finish_run and mark_lost_runs never rewrite the status of an ended run.
THEOREM EndedRunsStay == Spec => EndedIsFinal
<1> DEFINE Stays == \A x \in Runs : status[x] \in Ended => status'[x] = status[x]
<1>1. IInv /\ [Next]_vars => [Stays]_vars
  <2> SUFFICES ASSUME IInv, Next PROVE Stays
    OBVIOUS
  <2> USE DEF IInv, TypeOK, SingleExecution, Claims
  <2>1. ASSUME NEW x \in Runs, Enqueue(x) \/ CancelRun(x) PROVE Stays
    BY <2>1 DEF Enqueue, CancelRun
  <2>2. ASSUME NEW r \in Runners, Expire(r) PROVE Stays
    BY <2>2 DEF Expire
  <2>3. CASE MarkLostRuns
    BY <2>3 DEF MarkLostRuns
  <2>4. ASSUME NEW w \in Workers, WorkerStep(w) PROVE Stays
    <3>1. CASE ClaimNext(w)
      BY <3>1 DEF ClaimNext, Claimable
    <3>2. CASE FinishRun(w)
      BY <3>2 DEF FinishRun
    <3> QED
      BY <2>4, <3>1, <3>2 DEF WorkerStep, RegisterRunner, ClaimNothing, IdleHeartbeat,
         Launch, Execute, FinishRaises, MonitorCancel, MonitorHeartbeat, Exit
  <2> QED
    BY <2>1, <2>2, <2>3, <2>4 DEF Next
<1> QED
  BY Invariant, <1>1, PTL DEF Spec, EndedIsFinal

\* A run is given to one runner at most, and never again once it was lost.
THEOREM RunsClaimedOnce == Spec => ClaimedOnce
<1> DEFINE Once == \A x \in Runs :
      /\ owner[x] # NULL => owner'[x] = owner[x]
      /\ status[x] = "lost_runner" => status'[x] \in Ended \union {"lost_runner"}
<1>1. IInv /\ [Next]_vars => [Once]_vars
  <2> SUFFICES ASSUME IInv, Next PROVE Once
    OBVIOUS
  <2> USE DEF IInv, TypeOK, SingleExecution, Claims
  <2>1. ASSUME NEW x \in Runs, Enqueue(x) \/ CancelRun(x) PROVE Once
    BY <2>1 DEF Enqueue, CancelRun
  <2>2. ASSUME NEW r \in Runners, Expire(r) PROVE Once
    BY <2>2 DEF Expire
  <2>3. CASE MarkLostRuns
    BY <2>3 DEF MarkLostRuns
  <2>4. ASSUME NEW w \in Workers, WorkerStep(w) PROVE Once
    <3>1. CASE ClaimNext(w)
      BY <3>1 DEF ClaimNext, Claimable
    <3>2. CASE FinishRun(w)
      BY <3>2 DEF FinishRun, FinalStatus
    <3> QED
      BY <2>4, <3>1, <3>2 DEF WorkerStep, RegisterRunner, ClaimNothing, IdleHeartbeat,
         Launch, Execute, FinishRaises, MonitorCancel, MonitorHeartbeat, Exit
  <2> QED
    BY <2>1, <2>2, <2>3, <2>4 DEF Next
<1> QED
  BY Invariant, <1>1, PTL DEF Spec, ClaimedOnce

=============================================================================
