--------------------------- MODULE ApprovalsProofs ---------------------------
(***************************************************************************)
(* Proofs about Approvals, for any number of users, at the desktop and at  *)
(* the command line, any answers and any list of approvers.                *)
(*                                                                         *)
(* The file has no lock, so nothing can be said of it from what one actor  *)
(* read.  The argument is about what each actor may still write: every     *)
(* request that is read, held or on disk is a good one, and only the gate  *)
(* ever writes one that is pending.                                        *)
(***************************************************************************)
EXTENDS Approvals, TLAPS

USE ActorAssumption, AnswersAssumption, NoValueAssumption

-----------------------------------------------------------------------------
(* What each actor may be doing.                                           *)

\* People answer under their own names, not under the one of the gates.
People == \A u \in Users : \A c \in Answers[u] : c.by # Gofer

\* Somebody the gate accepts issued the approval.
Earned(cmd) ==
  \E u \in Users : /\ cmd[u] # NULL /\ cmd[u].value = "approved"
                   /\ Approvers = {} \/ cmd[u].by \in Approvers

\* A request as it may be read or written: a decision goes with its status and
\* was earned, only a decided request is claimed, and only the gate waits.
Good(cmd, r) ==
  /\ r \in Requests
  /\ (r.status = "decided") <=> (r.decision # NULL)
  /\ r.decision = NULL => r.claim = NULL
  /\ r.waiter \in {NULL, Process(Gate)}
  /\ r.decision # NULL /\ r.decision.value = "approved" => (People => Earned(cmd))

\* The steps of create_or_update, and those that write an expired request.
Writing == {"again", "expire again", "fill again", "write", "fill"}
Expiring == {"expire", "fill expired", "expire again", "fill again"}

\* What an actor at step p of operation o has read, s, and is to write, h, in a
\* workflow of kind k and beside the commands cmd.
Local(k, cmd, a, p, o, s, h) ==
  /\ p \in Steps
  /\ o \in (IF a = Gate THEN GateOps ELSE UserOps) \union {NULL}
  /\ s = NULL \/ Good(cmd, s)
  /\ h = NULL \/ Good(cmd, h)
  /\ p \in Expiring => s # NULL /\ s.decision = ByTimeout /\ s.claim = NULL
  /\ p \in Writing \union {"resuming"} => h # NULL
  /\ p \in Writing /\ o \in {"decide", "claim"} => h.decision # NULL
  /\ p = "resuming" => o = "claim" /\ h.decision # NULL
  /\ o = "reget" => h # NULL /\ h.decision # NULL
  /\ o \in CancelOps => (h # NULL => h.status # "pending")
  /\ o \in CancelOps \union {"sweep", "pending"} => k = "rattish"
  /\ o \in {"claim", "release"} => k = "toml"
  /\ a \in Users =>
       /\ o # NULL => cmd[a] \in Commands(a)
       /\ o \in {"find", "decide"} => cmd[a] \in Answers[a]
       /\ p = "idle" => cmd[a] = NULL /\ o = NULL
       /\ h # NULL => /\ h.claim \in {NULL, Process(a)}
                      /\ h.status = "pending" \/ h.claim # NULL => o \in {"claim", "release"}
                      /\ o = "release" => h.claim = NULL

Locals == \A a \in Actors : Local(kind, command, a, at[a], doing[a], seen[a], held[a])

\* Type of the state.
Types ==
  /\ kind \in {"toml", "rattish"} /\ clock \in {"early", "due", "late"}
  /\ file \in {Absent, Torn, Garbled} \/ Good(command, file)
  /\ at \in [Actors -> Steps] /\ doing \in [Actors -> GateOps \union UserOps \union {NULL}]
  /\ seen \in [Actors -> Requests \union {NULL}] /\ held \in [Actors -> Requests \union {NULL}]
  /\ command = [u \in Users |-> command[u]]
  /\ \A u \in Users : command[u] \in Commands(u) \union {NULL}
  /\ alive \subseteq Processes
  /\ failed \subseteq Users
  /\ followed \subseteq [by : Actors, decision : Decisions]

\* The gate's process is there as long as the gate is; who answered found it
\* gone; and after a resume that failed only the claim is given back.
Gone ==
  /\ at[Gate] \notin {"done", "dead"} => Process(Gate) \in alive
  /\ answered \subseteq Users
  /\ answered # {} => Process(Gate) \notin alive /\ kind = "toml"
  /\ \A u \in failed : doing[u] = "release" \/ at[u] \in {"done", "dead"}

Base == Types /\ Locals /\ Gone /\ (People => ApprovalIsEarned)

-----------------------------------------------------------------------------
(* The end of a Rattish run.                                               *)

Closed == IsRequest(file) => file.status # "pending"

Sweeping ==
  kind = "rattish" =>
    /\ at[Gate] = "done" => Closed
    /\ doing[Gate] \in {"pending", "cancel run"} /\ at[Gate] = "act" /\ ~Pending(seen[Gate])
         => Closed

-----------------------------------------------------------------------------
(* Claims.                                                                 *)

\* No two actors share a process: one user at a time sits at the desktop.
OwnProcess == \A a, b \in Actors : Process(a) = Process(b) => a = b

GivenBack ==
  \A u \in answered \intersect failed :
    at[u] = "done" \/ (at[u] = "act" /\ doing[u] = "release" /\ seen[u] = NULL)
      => (IsRequest(file) => file.claim # Process(u))

-----------------------------------------------------------------------------
(* The answer that comes when the gate has gone.                           *)

Unsettled == answered # {} /\ followed = {} /\ failed = {}

Tearing(w) == at[w] \in {"fill expired", "fill again", "fill"}
Committed(w) == doing[w] = "decide" /\ at[w] \in Writing
Claiming(w) == doing[w] = "claim" /\ at[w] \in Writing \union {"resuming"}

\* A user who will write a decision or take the run up.
Driver(w) ==
  \/ at[w] \in Writing \union {"resuming", "expire", "fill expired"}
  \/ doing[w] = "reget" /\ at[w] = "get"
  \/ doing[w] = "reget" /\ at[w] = "act" /\ (seen[w] # NULL => seen[w].decision # NULL)
  \/ doing[w] = "claim" /\ at[w] = "get"
  \/ /\ doing[w] = "claim" /\ at[w] = "act"
     /\ seen[w] # NULL /\ seen[w].decision # NULL /\ ~Live(seen[w].claim)

TimedOut ==
  IsRequest(file) /\ file.decision = ByTimeout /\ ~Live(file.waiter) /\ ~Live(file.claim)

\* The claims in the request on disk, and in those that were read or are held.
Claims ==
  {r.claim : r \in Requests \intersect ({file} \union {seen[a] : a \in Actors}
                                              \union {held[a] : a \in Actors})}

\* A claim of a process that runs is that of a user who goes on with the run,
\* and a claim is only given back after a resume that failed.
ClaimsHeld ==
  /\ followed = {} /\ failed = {} =>
       \A c \in Claims : Live(c) => \E w \in Users : Process(w) = c /\ Claiming(w)
  /\ \A u \in Users : doing[u] = "release" => failed # {}

NotLost == Unsettled =>
  file = Garbled \/ (IsRequest(file) /\ file.decision # NULL) \/ \E w \in Users : Committed(w) \/ Tearing(w)

Driven == Unsettled => file = Garbled \/ TimedOut \/ \E w \in Users : Driver(w)

-----------------------------------------------------------------------------
(* Steps of one actor.                                                     *)

\* The gate's process is nobody's but the desktop's to end.
LEMMA Proc ==
  /\ \A a \in Actors : Process(a) \in Processes /\ Process(a) # NULL
  /\ \A u \in Users : Process(u) # Server => Process(u) # Process(Gate)
BY DEF Process, Processes, Server, Actors

\* What an actor goes on to.
Goes(a, p, o, s, h) ==
  /\ at' = [at EXCEPT ![a] = p] /\ doing' = [doing EXCEPT ![a] = o]
  /\ seen' = [seen EXCEPT ![a] = s] /\ held' = [held EXCEPT ![a] = h]

LEMMA LocalsKept ==
  ASSUME Types, Locals, NEW a \in Actors, NEW p, NEW o, NEW s, NEW h, Goes(a, p, o, s, h),
         Local(kind, command, a, p, o, s, h), kind' = kind, command' = command
  PROVE  Locals'
<1> SUFFICES ASSUME NEW b \in Actors
             PROVE  Local(kind', command', b, at'[b], doing'[b], seen'[b], held'[b])
  BY DEF Locals
<1>1. CASE b = a
  <2>1. at'[b] = p /\ doing'[b] = o /\ seen'[b] = s /\ held'[b] = h
    BY <1>1 DEF Types, Goes
  <2> QED
    BY <1>1, <2>1
<1>2. CASE b # a
  <2>1. at'[b] = at[b] /\ doing'[b] = doing[b] /\ seen'[b] = seen[b] /\ held'[b] = held[b]
    BY <1>2 DEF Types, Goes
  <2> QED
    BY <2>1 DEF Locals
<1> QED
  BY <1>1, <1>2

\* A step of an actor that is not over: it goes on as it may, writes at most a
\* good request, and its process ends at most when the actor does.
LEMMA Moves ==
  ASSUME Base, NEW a \in Actors, at[a] \notin {"done", "dead"},
         NEW p, NEW o, NEW s, NEW h, Goes(a, p, o, s, h), Local(kind, command, a, p, o, s, h),
         o = "release" \/ p \in {"done", "dead"} \/ doing[a] # "release",
         kind' = kind, clock' = clock, command' = command,
         file' \in {file, Torn, Garbled} \/ Good(command, file'),
         alive' = alive \/ (p = "done" /\ alive' = alive \ ({Process(a)} \ {Server})),
         \/ answered' = answered
         \/ answered' = answered \union {a} /\ Process(Gate) \notin alive /\ kind = "toml",
         failed' = failed \/ (failed' = failed \union {a} /\ a \in Users /\ o = "release"),
         \/ followed' = followed
         \/ \E d \in DecisionRecords :
              /\ followed' = followed \union {[by |-> a, decision |-> d.value]}
              /\ d.value = "approved" => (People => Earned(command))
  PROVE  Base'
<1> USE DEF Base
<1>1. /\ p \in Steps /\ o \in GateOps \union UserOps \union {NULL}
      /\ s \in Requests \union {NULL} /\ h \in Requests \union {NULL}
  BY DEF Local, Good
<1>2. Locals'
  BY LocalsKept
<1>3. Types'
  <2>1. followed' \subseteq [by : Actors, decision : Decisions]
    BY DEF Types, DecisionRecords
  <2>2. file' \in {Absent, Torn, Garbled} \/ Good(command', file')
    BY DEF Types
  <2>3. /\ at' \in [Actors -> Steps] /\ doing' \in [Actors -> GateOps \union UserOps \union {NULL}]
        /\ seen' \in [Actors -> Requests \union {NULL}] /\ held' \in [Actors -> Requests \union {NULL}]
    BY <1>1 DEF Types, Goes
  <2>4. alive' \subseteq Processes /\ failed' \subseteq Users
    BY DEF Types
  <2> QED
    BY <2>1, <2>2, <2>3, <2>4 DEF Types
<1>4. Gone'
  <2>0. at'[a] = p /\ doing'[a] = o /\ \A b \in Actors \ {a} : at'[b] = at[b] /\ doing'[b] = doing[b]
    BY DEF Types, Goes
  <2>1. at'[Gate] \notin {"done", "dead"} => Process(Gate) \in alive'
    <3>1. CASE a = Gate
      BY <2>0, <3>1 DEF Gone
    <3>2. CASE a \in Users
      <4>1. Process(Gate) \in alive => Process(Gate) \in alive'
        BY <3>2, Proc
      <4> QED
        BY <2>0, <3>2, <4>1 DEF Gone, Actors
    <3> QED
      BY <3>1, <3>2 DEF Actors
  <2>2. Process(Gate) \notin alive => a \in Users
    BY DEF Gone, Actors
  <2>3. answered' \subseteq Users
    BY <2>2 DEF Gone
  <2>4. answered' # {} => Process(Gate) \notin alive' /\ kind' = "toml"
    BY DEF Gone
  <2>5. \A u \in failed' : doing'[u] = "release" \/ at'[u] \in {"done", "dead"}
    BY <2>0 DEF Gone, Types, Actors
  <2> QED
    BY <2>1, <2>3, <2>4, <2>5 DEF Gone
<1>5. (People => ApprovalIsEarned)'
  <2>1. \A x \in followed' : x.decision = "approved" => (People => Earned(command))
    BY DEF ApprovalIsEarned, Earned
  <2> QED
    BY <2>1 DEF ApprovalIsEarned, Earned
<1> QED
  BY <1>2, <1>3, <1>4, <1>5

\* What an operation requires of who performs it.
May(a, o) ==
  /\ o \in (IF a = Gate THEN GateOps ELSE UserOps) \ {"reget"}
  /\ o \in CancelOps \union {"sweep", "pending"} => kind = "rattish"
  /\ o \in {"claim", "release"} => kind = "toml"
  /\ a \in Users => /\ command[a] \in Commands(a)
                    /\ o \in {"find", "decide"} => command[a] \in Answers[a]

\* An actor that begins an operation, or is between two, holds nothing.
LEMMA EmptyHands ==
  ASSUME NEW a \in Actors, NEW p \in {"get", "done", "after", "notify", "sleep"}, NEW o,
         o = NULL \/ May(a, o)
  PROVE  Local(kind, command, a, p, o, NULL, NULL)
<1>1. /\ o # "reget" /\ (o = NULL => o \notin CancelOps \union {"sweep", "pending", "claim", "release",
                                                         "find", "decide"})
      /\ o \in (IF a = Gate THEN GateOps ELSE UserOps) \union {NULL}
  BY DEF May, GateOps, UserOps, CancelOps
<1>2. p \in Steps /\ p \notin Expiring /\ p \notin Writing \union {"resuming", "idle"}
  BY DEF Steps, Expiring, Writing
<1> QED
  BY <1>1, <1>2 DEF Local, May

frame == <<kind, clock, command, answered, failed, followed>>

\* The ways an actor goes on after a step.
LEMMA Calls ==
  ASSUME Base, NEW a \in Actors, at[a] \notin {"done", "dead"}, NEW o, Call(a, o), May(a, o),
         o = "release" \/ doing[a] # "release", UNCHANGED frame,
         file' \in {file, Garbled} \/ Good(command, file')
  PROVE  Base'
<1>1. Goes(a, "get", o, NULL, NULL) /\ alive' = alive
  BY DEF Call, Goto, Drop, Goes
<1>2. Local(kind, command, a, "get", o, NULL, NULL)
  BY EmptyHands
<1> QED
  BY <1>1, <1>2, Moves DEF frame

LEMMA Finishes ==
  ASSUME Base, NEW a \in Actors, at[a] \notin {"done", "dead"}, Finish(a), UNCHANGED frame,
         file' \in {file, Garbled} \/ Good(command, file')
  PROVE  Base'
<1>1. Goes(a, "done", NULL, NULL, NULL) /\ alive' = alive \ ({Process(a)} \ {Server})
  BY DEF Finish, Goto, Drop, Goes
<1>2. Local(kind, command, a, "done", NULL, NULL, NULL)
  BY EmptyHands
<1> QED
  BY <1>1, <1>2, Moves DEF frame

LEMMA LeavesGate ==
  ASSUME Base, at[Gate] \notin {"done", "dead"}, LeaveGate,
         UNCHANGED <<kind, clock, command, answered, failed>>,
         \/ followed' = followed
         \/ \E d \in DecisionRecords :
              /\ followed' = followed \union {[by |-> Gate, decision |-> d.value]}
              /\ d.value = "approved" => (People => Earned(command)),
         file' \in {file, Garbled} \/ Good(command, file')
  PROVE  Base'
<1>1. Goes(Gate, "after", NULL, NULL, NULL) /\ alive' = alive /\ Gate \in Actors
  BY DEF LeaveGate, Goto, Drop, Goes, Actors
<1>2. Local(kind, command, Gate, "after", NULL, NULL, NULL)
  BY <1>1, EmptyHands
<1>3. doing[Gate] # "release"
  BY <1>1 DEF Base, Locals, Local, GateOps, UserOps
<1> QED
  BY <1>1, <1>2, <1>3, Moves

\* What must hold of a request that an actor is to write in operation o.
Writable(a, o, r) ==
  /\ Good(command, r) /\ o # "reget"
  /\ o \in {"decide", "claim"} => r.decision # NULL
  /\ o \in CancelOps => r.status # "pending"
  /\ a \in Users =>
       /\ r.claim \in {NULL, Process(a)}
       /\ r.status = "pending" \/ r.claim # NULL => o \in {"claim", "release"}
       /\ o = "release" => r.claim = NULL

LEMMA Updates ==
  ASSUME Base, NEW a \in Actors, at[a] = "act", NEW r, Update(a, r), Writable(a, doing[a], r),
         doing[a] # NULL, UNCHANGED <<kind, clock, command, failed, followed>>,
         \/ answered' = answered
         \/ answered' = answered \union {a} /\ Process(Gate) \notin alive /\ kind = "toml",
         file' = file
  PROVE  Base'
<1>1. /\ Types /\ r # NULL
      /\ Local(kind, command, a, at[a], doing[a], seen[a], held[a])
  BY DEF Writable, Good, Base, Locals
<1>2. Goes(a, "again", doing[a], NULL, r) /\ alive' = alive
  BY <1>1 DEF Update, Goto, Goes, Types
<1>3. Local(kind, command, a, "again", doing[a], NULL, r)
  <2>1. "again" \in Steps /\ "again" \notin Expiring /\ "again" \notin {"resuming", "idle"}
    BY DEF Steps, Expiring
  <2> QED
    BY <1>1, <2>1 DEF Local, Writable
<1> QED
  BY <1>2, <1>3, Moves

-----------------------------------------------------------------------------
(* Reads and writes of the file.                                           *)

\* What a read returns: no request, one that has just expired, or the file.
LEMMA ReadGood ==
  ASSUME Base
  PROVE  /\ IsRequest(file) => Good(command, file)
         /\ MustExpire(file) => /\ Good(command, Expired(file)) /\ Expired(file).claim = NULL
                                /\ Expired(file).decision = ByTimeout
                                /\ Expired(file) # NULL
<1>1. IsRequest(file) => Good(command, file)
  BY DEF Base, Types, IsRequest
<1>2. ASSUME MustExpire(file)
      PROVE  /\ Good(command, Expired(file)) /\ Expired(file).claim = NULL
             /\ Expired(file).decision = ByTimeout /\ Expired(file) # NULL
  <2>1. Good(command, file) /\ file.status = "pending" /\ file.claim = NULL /\ file \in Requests
    BY <1>1, <1>2 DEF MustExpire, Good
  <2>2. ByTimeout \in DecisionRecords /\ ByTimeout # NULL /\ ByTimeout.value # "approved"
    BY DEF ByTimeout, DecisionRecords, Decisions
  <2> HIDE DEF ByTimeout
  <2>3. /\ Expired(file) \in Requests /\ Expired(file).status = "decided"
        /\ Expired(file).decision = ByTimeout /\ Expired(file).claim = NULL
        /\ Expired(file).waiter = file.waiter
    BY <2>1, <2>2 DEF Expired, Requests
  <2> QED
    BY <2>1, <2>2, <2>3 DEF Good
<1> QED
  BY <1>1, <1>2

LEMMA BaseGet == ASSUME Base, NEW a \in Actors, Get(a) PROVE Base'
<1> DEFINE r == IF ~IsRequest(file) THEN NULL ELSE IF MustExpire(file) THEN Expired(file) ELSE file
           p == IF MustExpire(file) THEN "expire" ELSE "act"
<1>1. /\ Types /\ Local(kind, command, a, "get", doing[a], seen[a], held[a])
      /\ at[a] = "get"
  BY DEF Base, Locals, Get
<1>2. /\ r = NULL \/ Good(command, r)
      /\ p = "expire" => r # NULL /\ r.decision = ByTimeout /\ r.claim = NULL
  BY ReadGood DEF MustExpire
<1>3. Goes(a, p, doing[a], r, held[a])
  BY <1>1 DEF Get, Goto, Goes, Types
<1>4. UNCHANGED <<kind, clock, file, command, alive, answered, failed, followed>>
  BY DEF Get
<1>5. p \in {"expire", "act"}
  OBVIOUS
<1> HIDE DEF r, p
<1>6. Local(kind, command, a, p, doing[a], r, held[a])
  <2>1. p \in Steps /\ p \notin Writing \union {"resuming", "idle"} /\ (p \in Expiring => p = "expire")
    BY <1>5 DEF Steps, Writing, Expiring
  <2> QED
    BY <1>1, <1>2, <2>1 DEF Local
<1> QED
  BY <1>1, <1>3, <1>4, <1>6, Moves

LEMMA BaseAgain == ASSUME Base, NEW a \in Actors, Again(a) PROVE Base'
<1> DEFINE r == IF ~IsRequest(file) THEN NULL ELSE IF MustExpire(file) THEN Expired(file) ELSE file
           p == IF MustExpire(file) THEN "expire again" ELSE "write"
           s == IF MustExpire(file) THEN r ELSE NULL
           h == IF r # NULL /\ r.decision # NULL
                  THEN [held[a] EXCEPT !.decision = r.decision, !.status = "decided"] ELSE held[a]
<1>1. /\ Types /\ Local(kind, command, a, "again", doing[a], seen[a], held[a])
      /\ at[a] = "again" /\ held[a] # NULL /\ Good(command, held[a])
  BY DEF Base, Locals, Again, Local, Writing
<1>2. /\ r = NULL \/ Good(command, r)
      /\ p = "expire again" => s # NULL /\ s.decision = ByTimeout /\ s.claim = NULL
      /\ s = NULL \/ Good(command, s)
  BY ReadGood DEF MustExpire
<1>3. Goes(a, p, doing[a], s, h)
  BY <1>1 DEF Again, Goto, Goes, Types
<1>4. UNCHANGED <<kind, clock, file, command, alive, answered, failed, followed>>
  BY DEF Again
<1>5. p \in {"expire again", "write"}
  OBVIOUS
<1> HIDE DEF r, p, s
<1>6. /\ Good(command, h) /\ h.claim = held[a].claim
      /\ held[a].decision # NULL => h.decision # NULL
      /\ h.status # "pending" \/ h.status = held[a].status
  <2>1. CASE r # NULL /\ r.decision # NULL
    <3>1. Good(command, r) /\ r.decision \in DecisionRecords
      BY <1>2, <2>1 DEF Good, Requests
    <3>2. held[a] \in Requests
      BY <1>1 DEF Good
    <3>3. h = [held[a] EXCEPT !.decision = r.decision, !.status = "decided"]
      BY <2>1
    <3> HIDE DEF h
    <3>4. /\ h \in Requests /\ h.claim = held[a].claim /\ h.decision = r.decision
          /\ h.status = "decided" /\ h.waiter = held[a].waiter
      BY <3>1, <3>2, <3>3 DEF Requests
    <3> QED
      BY <1>1, <2>1, <3>1, <3>4 DEF Good
  <2>2. CASE ~(r # NULL /\ r.decision # NULL)
    BY <1>1, <2>2
  <2> QED
    BY <2>1, <2>2
<1> HIDE DEF h
<1>7. Local(kind, command, a, p, doing[a], s, h)
  <2>1. /\ p \in Steps /\ p # "resuming" /\ p # "idle" /\ (p \in Expiring => p = "expire again")
        /\ "again" \in Writing /\ h # NULL
    BY <1>5, <1>6 DEF Steps, Writing, Expiring, Good
  <2> QED
    BY <1>1, <1>2, <1>6, <2>1 DEF Local
<1> QED
  BY <1>1, <1>3, <1>4, <1>7, Moves

LEMMA BaseOpen == ASSUME Base, NEW a \in Actors, Open(a) PROVE Base'
<1>1. PICK p \in {"fill expired", "fill again", "fill"} :
        /\ at' = [at EXCEPT ![a] = p]
        /\ p = "fill expired" <=> at[a] = "expire"
        /\ p = "fill again" <=> at[a] = "expire again"
        /\ p = "fill" <=> at[a] = "write"
  BY DEF Open, Goto
<1>2. Types /\ Local(kind, command, a, at[a], doing[a], seen[a], held[a])
  BY DEF Base, Locals
<1>3. Goes(a, p, doing[a], seen[a], held[a])
  BY <1>1, <1>2 DEF Open, Goes, Types
<1>4. /\ UNCHANGED <<kind, clock, command, alive, answered, failed, followed>> /\ file' = Torn
      /\ at[a] \in {"expire", "expire again", "write"}
  BY DEF Open
<1>5. /\ p \in Steps /\ (p \in Writing <=> at[a] \in Writing) /\ p \notin {"resuming", "idle"}
      /\ (p \in Expiring <=> at[a] \in Expiring)
  BY <1>1, <1>4 DEF Steps, Writing, Expiring
<1>6. Local(kind, command, a, p, doing[a], seen[a], held[a])
  BY <1>2, <1>5 DEF Local
<1> QED
  BY <1>3, <1>4, <1>6, Moves

LEMMA BaseFillExpired == ASSUME Base, NEW a \in Actors, FillExpired(a) PROVE Base'
<1> DEFINE p == IF at[a] = "fill expired" THEN "act" ELSE "write"
           s == IF at[a] = "fill again" THEN NULL ELSE seen[a]
<1>1. Types /\ Local(kind, command, a, at[a], doing[a], seen[a], held[a])
  BY DEF Base, Locals
<1>2. /\ UNCHANGED <<kind, clock, command, alive, answered, failed, followed>>
      /\ file' \in {seen[a], Garbled}
      /\ at[a] \in {"fill expired", "fill again"}
  BY DEF FillExpired, Filled
<1>3. Goes(a, p, doing[a], s, held[a])
  BY <1>1 DEF FillExpired, Goes, Goto, Types
<1>4. Good(command, seen[a])
  BY <1>1, <1>2 DEF Local, Expiring
<1>5. /\ p \in Steps /\ (p \in Writing <=> at[a] \in Writing) /\ p \notin {"resuming", "idle"}
      /\ p \notin Expiring
  BY <1>2 DEF Steps, Writing, Expiring
<1> HIDE DEF p
<1>6. Local(kind, command, a, p, doing[a], s, held[a])
  BY <1>1, <1>4, <1>5 DEF Local
<1> QED
  BY <1>2, <1>3, <1>4, <1>6, Moves

-----------------------------------------------------------------------------
(* Operations.                                                             *)

\* What the invariant says of an actor that acts on what it read, and of one
\* that writes.
LEMMA ActFacts ==
  ASSUME Base, NEW a \in Actors, at[a] = "act"
  PROVE  /\ at[a] \notin {"done", "dead"} /\ (seen[a] = NULL \/ Good(command, seen[a]))
         /\ Local(kind, command, a, "act", doing[a], seen[a], held[a])
BY DEF Base, Locals, Local

LEMMA StoredFacts ==
  ASSUME Base, NEW a \in Actors, NEW op, Stored(a, op)
  PROVE  /\ at[a] = "fill" /\ at[a] \notin {"done", "dead"} /\ doing[a] = op
         /\ held[a] # NULL /\ Good(command, held[a]) /\ file' \in {held[a], Garbled}
         /\ Local(kind, command, a, "fill", op, seen[a], held[a])
BY DEF Base, Locals, Local, Stored, Filled, Writing

USE DEF frame

\* An actor that writes an expired request holds the timeout's decision.
LEMMA ExpiredFacts ==
  ASSUME Base, NEW a \in Actors, at[a] \in Expiring
  PROVE  /\ seen[a] # NULL /\ Good(command, seen[a]) /\ seen[a].claim = NULL
         /\ seen[a].decision = ByTimeout /\ seen[a].decision # NULL
<1>1. ByTimeout \in DecisionRecords
  BY DEF ByTimeout, DecisionRecords, Decisions
<1> QED
  BY <1>1 DEF Base, Locals, Local

LEMMA GateActs == /\ Gate \in Actors /\ Gate \notin Users
                  /\ \A a \in Actors : a = Gate \/ a \in Users
BY DEF Actors

LEMMA BaseCreated == ASSUME Base, Created PROVE Base'
<1>1. /\ Goes(Gate, "notify", doing[Gate], NULL, NULL) /\ doing[Gate] = "create"
      /\ UNCHANGED <<kind, clock, command, alive, answered, failed, followed>>
  BY DEF Created, Goto, Drop, Goes, Base, Types, Stored
<1>2. Local(kind, command, Gate, "notify", "create", NULL, NULL)
  BY GateActs, EmptyHands DEF May, GateOps, CancelOps
<1> QED
  BY <1>1, <1>2, GateActs, StoredFacts, Moves DEF Created

LEMMA BaseWait == ASSUME Base, Wait PROVE Base'
<1>1. May(Gate, "mark") /\ doing[Gate] # "release"
  BY GateActs DEF May, GateOps, UserOps, CancelOps, Base, Locals, Local
<1> QED
  BY <1>1, GateActs, Calls DEF Wait

LEMMA BaseMarkWaiting == ASSUME Base, MarkWaiting PROVE Base'
<1> DEFINE r == [seen[Gate] EXCEPT !.waiter = Process(Gate)]
<1>1. at[Gate] = "act" /\ doing[Gate] = "mark"
  BY DEF MarkWaiting, AtAct
<1>2. CASE seen[Gate] = NULL
  <2>1. May(Gate, "poll")
    BY GateActs DEF May, GateOps, CancelOps
  <2> QED
    BY <1>1, <1>2, <2>1, GateActs, Calls DEF MarkWaiting
<1>3. CASE seen[Gate] # NULL
  <2>1. Good(command, seen[Gate])
    BY <1>1, <1>3, GateActs, ActFacts
  <2>2. /\ r \in Requests /\ r.waiter = Process(Gate) /\ r.status = seen[Gate].status
        /\ r.decision = seen[Gate].decision /\ r.claim = seen[Gate].claim
    BY <2>1, Proc, GateActs DEF Good, Requests
  <2>3. Update(Gate, r)
    BY <1>3 DEF MarkWaiting
  <2> HIDE DEF r
  <2>4. Good(command, r)
    BY <2>1, <2>2 DEF Good
  <2>5. Writable(Gate, doing[Gate], r) /\ doing[Gate] # NULL
    BY <1>1, <2>4, GateActs DEF Writable, CancelOps, GateOps
  <2> QED
    BY <1>1, <2>3, <2>5, GateActs, Updates DEF MarkWaiting
<1> QED
  BY <1>2, <1>3

LEMMA BaseMarked == ASSUME Base, Marked PROVE Base'
<1>1. May(Gate, "poll")
  BY GateActs DEF May, GateOps, CancelOps
<1> QED
  BY <1>1, GateActs, StoredFacts, Calls DEF Marked

LEMMA BasePoll == ASSUME Base, Poll PROVE Base'
<1>1. at[Gate] = "act" /\ doing[Gate] = "poll"
  BY DEF Poll, AtAct
<1>2. CASE seen[Gate] # NULL /\ seen[Gate].decision # NULL
  <2>1. /\ seen[Gate].decision \in DecisionRecords
        /\ seen[Gate].decision.value = "approved" => (People => Earned(command))
    BY <1>1, <1>2, GateActs, ActFacts DEF Good, Requests
  <2> QED
    BY <1>1, <1>2, <2>1, LeavesGate DEF Poll
<1>3. CASE ~(seen[Gate] # NULL /\ seen[Gate].decision # NULL)
  <2>1. CASE Timed /\ clock = "late"
    <3>1. May(Gate, "decide")
      BY GateActs DEF May, GateOps, CancelOps
    <3> QED
      BY <1>1, <1>3, <2>1, <3>1, GateActs, Calls DEF Poll
  <2>2. CASE ~(Timed /\ clock = "late")
    <3>1. /\ Goes(Gate, "sleep", "poll", NULL, NULL)
          /\ UNCHANGED <<kind, clock, file, command, alive, answered, failed, followed>>
      BY <1>1, <1>3, <2>2 DEF Poll, Goto, Drop, Goes, Base, Types
    <3>2. Local(kind, command, Gate, "sleep", "poll", NULL, NULL)
      BY GateActs, EmptyHands DEF May, GateOps, CancelOps
    <3> QED
      BY <1>1, <3>1, <3>2, GateActs, Moves
  <2> QED
    BY <2>1, <2>2
<1> QED
  BY <1>2, <1>3

LEMMA BaseStopGate == ASSUME Base, StopGate PROVE Base'
<1>1. CASE kind = "rattish" /\ at[Gate] = "sleep"
  <2>1. May(Gate, "cancel gate") /\ doing[Gate] # "release"
    BY <1>1, GateActs DEF May, GateOps, UserOps, CancelOps, Base, Locals, Local
  <2> QED
    BY <1>1, <2>1, GateActs, Calls DEF StopGate
<1>2. CASE ~(kind = "rattish" /\ at[Gate] = "sleep")
  BY <1>2, LeavesGate DEF StopGate
<1> QED
  BY <1>1, <1>2

LEMMA BaseEndRun == ASSUME Base, EndRun PROVE Base'
<1>1. (kind = "rattish" => May(Gate, "sweep")) /\ doing[Gate] # "release"
  BY GateActs DEF May, GateOps, UserOps, CancelOps, Base, Locals, Local
<1> QED
  BY <1>1, GateActs, Calls, Finishes DEF EndRun

LEMMA BaseSweep == ASSUME Base, Sweep PROVE Base'
<1> DEFINE r == [seen[Gate] EXCEPT !.reason = "run"]
<1>1. at[Gate] = "act" /\ doing[Gate] = "sweep"
  BY DEF Sweep, AtAct
<1>2. CASE ~(seen[Gate] # NULL /\ seen[Gate].status = "cancelled" /\ seen[Gate].reason = "gate")
  <2>1. May(Gate, "pending")
    BY <1>1, GateActs, ActFacts DEF May, GateOps, CancelOps, Local
  <2> QED
    BY <1>1, <1>2, <2>1, GateActs, Calls DEF Sweep
<1>3. CASE seen[Gate] # NULL /\ seen[Gate].status = "cancelled" /\ seen[Gate].reason = "gate"
  <2>1. Good(command, seen[Gate])
    BY <1>1, <1>3, GateActs, ActFacts
  <2>2. /\ r \in Requests /\ r.waiter = seen[Gate].waiter /\ r.status = seen[Gate].status
        /\ r.decision = seen[Gate].decision /\ r.claim = seen[Gate].claim
    BY <2>1 DEF Good, Requests
  <2>3. Update(Gate, r)
    BY <1>3 DEF Sweep
  <2> HIDE DEF r
  <2>4. Good(command, r)
    BY <2>1, <2>2 DEF Good
  <2>5. Writable(Gate, doing[Gate], r) /\ doing[Gate] # NULL
    BY <1>1, <2>4, GateActs DEF Writable, CancelOps, GateOps
  <2> QED
    BY <1>1, <2>3, <2>5, GateActs, Updates DEF Sweep
<1> QED
  BY <1>2, <1>3

LEMMA BaseSwept == ASSUME Base, Swept PROVE Base'
<1>1. May(Gate, "pending")
  BY GateActs, StoredFacts DEF May, GateOps, CancelOps, Local, Swept
<1> QED
  BY <1>1, GateActs, StoredFacts, Calls DEF Swept

LEMMA BaseSweepPending == ASSUME Base, SweepPending PROVE Base'
<1>1. at[Gate] = "act" /\ doing[Gate] = "pending"
  BY DEF SweepPending, AtAct
<1>2. May(Gate, "cancel run")
  BY <1>1, GateActs, ActFacts DEF May, GateOps, CancelOps, Local
<1> QED
  BY <1>1, <1>2, GateActs, Calls, Finishes DEF SweepPending

LEMMA BaseAfterCancel ==
  ASSUME Base, NEW a \in Actors, at[a] \notin {"done", "dead"}, doing[a] \in CancelOps,
         AfterCancel(a), UNCHANGED frame, file' \in {file, Garbled} \/ Good(command, file')
  PROVE  Base'
<1>1. Types /\ Local(kind, command, a, at[a], doing[a], seen[a], held[a])
  BY DEF Base, Locals
<1>2. CASE doing[a] = "cancel gate"
  <2>1. a = Gate
    BY <1>1, <1>2, GateActs DEF Local, GateOps, UserOps
  <2> QED
    BY <1>2, <2>1, LeavesGate DEF AfterCancel
<1>3. CASE doing[a] = "cancel run"
  BY <1>3, Finishes DEF AfterCancel
<1>4. CASE doing[a] = "cancel finished"
  <2> DEFINE o == IF command[a] = Listing THEN "list" ELSE "decide"
  <2>1. Call(a, o)
    BY <1>4 DEF AfterCancel
  <2>2. a \in Users
    BY <1>1, <1>4, GateActs DEF Local, GateOps, UserOps
  <2>3. May(a, o)
    <3>1. command[a] \in Commands(a) /\ Commands(a) = Answers[a] \union {Listing}
      BY <1>1, <1>4, <2>2 DEF Local, Commands, UserOps
    <3> QED
      BY <2>2, <3>1, GateActs DEF May, UserOps, CancelOps
  <2> HIDE DEF o
  <2> QED
    BY <1>4, <2>1, <2>3, Calls
<1> QED
  BY <1>2, <1>3, <1>4 DEF CancelOps

LEMMA BaseCancel == ASSUME Base, NEW a \in Actors, Cancel(a) PROVE Base'
<1>1. at[a] = "act" /\ doing[a] \in CancelOps /\ file' = file /\ UNCHANGED frame
  BY DEF Cancel
<1>2. CASE ~Pending(seen[a])
  BY <1>1, <1>2, BaseAfterCancel DEF Cancel
<1>3. CASE Pending(seen[a])
  <2>1. PICK reason \in {"gate", "run"} :
          Update(a, [seen[a] EXCEPT !.status = "cancelled", !.reason = reason])
    BY <1>3 DEF Cancel
  <2> DEFINE r == [seen[a] EXCEPT !.status = "cancelled", !.reason = reason]
  <2>2. /\ Good(command, seen[a]) /\ seen[a].status = "pending" /\ seen[a].decision = NULL
        /\ seen[a].claim = NULL
    BY <1>1, <1>3, ActFacts DEF Pending, Good
  <2>3. /\ r \in Requests /\ r.status = "cancelled" /\ r.decision = NULL /\ r.claim = NULL
        /\ r.waiter = seen[a].waiter
    BY <2>2 DEF Good, Requests
  <2> HIDE DEF r
  <2>4. Good(command, r)
    BY <2>2, <2>3 DEF Good
  <2>5. Writable(a, doing[a], r) /\ doing[a] # NULL
    BY <1>1, <2>3, <2>4 DEF Writable, CancelOps, GateOps, UserOps
  <2> QED
    BY <1>1, <2>1, <2>5, Updates DEF r
<1> QED
  BY <1>2, <1>3

LEMMA BaseCancelled == ASSUME Base, NEW a \in Actors, Cancelled(a) PROVE Base'
<1>1. Stored(a, doing[a]) /\ doing[a] \in CancelOps /\ AfterCancel(a) /\ UNCHANGED frame
  BY DEF Cancelled
<1> QED
  BY <1>1, StoredFacts, BaseAfterCancel

\* The decision a gate or a user asks for, once accepted.
LEMMA AskedGood ==
  ASSUME Base, NEW a \in Actors, at[a] = "act", doing[a] = "decide", Accepted(a, seen[a])
  PROVE  /\ Asked(a) \in DecisionRecords
         /\ Asked(a).value = "approved" => (People => Earned(command))
<1>1. CASE a = Gate
  <2>1. Asked(a) = [value |-> TimeoutDecision, by |-> GateName]
    BY <1>1 DEF Asked
  <2>2. GateName \in {Gofer, "raticode"}
    BY DEF GateName
  <2> QED
    BY <2>1, <2>2 DEF DecisionRecords, Decisions
<1>2. CASE a \in Users
  <2>1. Asked(a) = command[a] /\ command[a] \in Answers[a]
    BY <1>2, GateActs, ActFacts DEF Asked, Local
  <2>2. /\ command[a].value \in {"approved", "rejected"}
        /\ command[a] = [value |-> command[a].value, by |-> command[a].by]
    BY <1>2, <2>1
  <2>3. command[a].by \in UNION {{c.by : c \in Answers[u]} : u \in Users}
    BY <1>2, <2>1
  <2>4. command[a] \in DecisionRecords
    BY <2>2, <2>3 DEF DecisionRecords, Decisions
  <2>5. People => command[a].by # Gofer
    BY <1>2, <2>1 DEF People
  <2>6. command[a] # NULL
    BY <2>4
  <2> QED
    BY <1>2, <2>1, <2>4, <2>5, <2>6 DEF Accepted, Earned
<1> QED
  BY <1>1, <1>2, GateActs

LEMMA BaseDecide == ASSUME Base, NEW a \in Actors, Decide(a) PROVE Base'
<1>1. /\ at[a] = "act" /\ doing[a] = "decide"
      /\ UNCHANGED <<kind, clock, file, command, failed, followed>>
  BY DEF Decide, AtAct
<1>2. CASE ~Accepted(a, seen[a])
  BY <1>1, <1>2, GateActs, LeavesGate, Finishes DEF Decide
<1>3. CASE Accepted(a, seen[a])
  <2> DEFINE d == Asked(a)
             r == [seen[a] EXCEPT !.status = "decided", !.decision = d]
  <2>1. d \in DecisionRecords /\ (d.value = "approved" => (People => Earned(command)))
    BY <1>1, <1>3, AskedGood
  <2>2. Good(command, seen[a]) /\ seen[a].decision = NULL /\ seen[a].claim = NULL
    BY <1>1, <1>3, ActFacts DEF Accepted, Good
  <2>3. Update(a, r)
    BY <1>3 DEF Decide
  <2>4. \/ answered' = answered
        \/ answered' = answered \union {a} /\ Process(Gate) \notin alive /\ kind = "toml"
    BY <1>3 DEF Decide
  <2> HIDE DEF d
  <2>5. /\ r \in Requests /\ r.status = "decided" /\ r.decision = d /\ r.claim = NULL
        /\ r.waiter = seen[a].waiter /\ d # NULL
    BY <2>1, <2>2 DEF Good, Requests
  <2> HIDE DEF r
  <2>6. Good(command, r)
    BY <2>1, <2>2, <2>5 DEF Good
  <2>7. Writable(a, doing[a], r) /\ doing[a] # NULL
    BY <1>1, <2>5, <2>6 DEF Writable, CancelOps, GateOps, UserOps
  <2> QED
    BY <1>1, <2>3, <2>4, <2>7, Updates
<1> QED
  BY <1>2, <1>3

\* The resume that follows an answer or a timeout.
LEMMA BaseResume ==
  ASSUME Base, NEW u \in Users, at[u] \notin {"done", "dead"}, doing[u] \in UserOps \ {"release"},
         NEW r, Resume(u, r), UNCHANGED frame, file' \in {file, Garbled} \/ Good(command, file')
  PROVE  Base'
<1>0. u \in Actors /\ u # Gate
  BY DEF Actors
<1>1. kind = "toml" => May(u, "claim")
  BY <1>0 DEF Base, Locals, Local, May, UserOps, CancelOps
<1> QED
  BY <1>0, <1>1, Calls, Finishes DEF Resume

LEMMA BaseDecided == ASSUME Base, NEW a \in Actors, Decided(a) PROVE Base'
<1>1. /\ Stored(a, "decide") /\ UNCHANGED <<kind, clock, command, answered, failed>>
  BY DEF Decided
<1>2. /\ at[a] = "fill" /\ doing[a] = "decide" /\ Good(command, held[a]) /\ file' \in {held[a], Garbled}
      /\ held[a] # NULL /\ held[a].decision # NULL /\ held[a].decision \in DecisionRecords
      /\ Local(kind, command, a, "fill", "decide", seen[a], held[a])
  <2>1. /\ at[a] = "fill" /\ doing[a] = "decide" /\ Good(command, held[a]) /\ file' \in {held[a], Garbled}
        /\ held[a] # NULL
        /\ Local(kind, command, a, "fill", "decide", seen[a], held[a])
    BY <1>1, StoredFacts
  <2>2. held[a].decision # NULL
    BY <2>1 DEF Local, Writing
  <2> QED
    BY <2>1, <2>2 DEF Good, Requests
<1>3. CASE a = Gate
  <2>1. PICK d \in DecisionRecords :
          /\ followed' = followed \union {[by |-> Gate, decision |-> d.value]}
          /\ d \in {ByTimeout, held[Gate].decision}
    <3>1. ByTimeout \in DecisionRecords /\ ByTimeout.value = TimeoutDecision
      BY DEF ByTimeout, DecisionRecords, Decisions
    <3> QED
      BY <1>2, <1>3, <3>1 DEF Decided
  <2>2. ByTimeout.value # "approved"
    BY DEF ByTimeout
  <2> QED
    BY <1>1, <1>2, <1>3, <2>1, <2>2, LeavesGate DEF Decided, Good
<1>4. CASE a \in Users /\ a \in Desktop
  <2>1. /\ Goes(a, "get", "reget", seen[a], held[a])
        /\ UNCHANGED <<alive, followed>>
    BY <1>4, GateActs DEF Decided, Goto, Goes, Base, Types
  <2>2. Local(kind, command, a, "get", "reget", seen[a], held[a])
    <3>1. /\ "get" \in Steps /\ "get" \notin Expiring /\ "get" \notin Writing \union {"resuming", "idle"}
          /\ "reget" \in UserOps /\ "reget" \notin CancelOps
      BY DEF Steps, Expiring, Writing, UserOps, CancelOps
    <3> QED
      BY <1>2, <1>4, <3>1, GateActs DEF Local, CancelOps, UserOps
  <2> QED
    BY <1>1, <1>2, <2>1, <2>2, Moves
<1>5. CASE a \in Users /\ a \notin Desktop
  BY <1>1, <1>2, <1>5, GateActs, BaseResume DEF Decided, UserOps
<1> QED
  BY <1>3, <1>4, <1>5, GateActs

-----------------------------------------------------------------------------
(* Users.                                                                  *)

\* What the invariant says of a user that acts.
LEMMA UserActs ==
  ASSUME Base, NEW u \in Users, NEW op \in UserOps, AtAct(u, op)
  PROVE  /\ u \in Actors /\ u # Gate /\ at[u] = "act" /\ doing[u] = op
         /\ at[u] \notin {"done", "dead"} /\ command[u] \in Commands(u)
         /\ Local(kind, command, u, "act", op, seen[u], held[u])
         /\ seen[u] = NULL \/ Good(command, seen[u])
<1>1. u \in Actors /\ u # Gate /\ at[u] = "act" /\ doing[u] = op
  BY DEF Actors, AtAct
<1>2. Local(kind, command, u, "act", op, seen[u], held[u]) /\ op # NULL
  BY <1>1, ActFacts
<1> QED
  BY <1>1, <1>2 DEF Local

LEMMA BaseFind == ASSUME Base, NEW u \in Users, Find(u) PROVE Base'
<1>1. AtAct(u, "find") /\ file' = file /\ UNCHANGED frame /\ "find" \in UserOps
  BY DEF Find, UserOps
<1>2. command[u] \in Answers[u]
  BY <1>1, UserActs DEF Local
<1>3. \/ Finish(u) \/ Call(u, "decide")
      \/ Call(u, "cancel finished") /\ kind = "rattish"
  BY DEF Find, RunOver
<1>4. May(u, "decide") /\ (kind = "rattish" => May(u, "cancel finished"))
  BY <1>1, <1>2, UserActs DEF May, UserOps, CancelOps
<1> QED
  BY <1>1, <1>3, <1>4, UserActs, Calls, Finishes

LEMMA BaseReread == ASSUME Base, NEW u \in Users, Reread(u) PROVE Base'
<1>1. AtAct(u, "reget") /\ file' = file /\ UNCHANGED frame /\ "reget" \in UserOps \ {"release"}
  BY DEF Reread, UserOps
<1> QED
  BY <1>1, UserActs, BaseResume DEF Reread

LEMMA BaseListPending == ASSUME Base, NEW u \in Users, ListPending(u) PROVE Base'
<1>1. AtAct(u, "list pending") /\ file' = file /\ UNCHANGED frame /\ "list pending" \in UserOps
  BY DEF ListPending, UserOps
<1>2. Call(u, "list") \/ (Call(u, "cancel finished") /\ kind = "rattish")
  BY DEF ListPending, RunOver
<1>3. May(u, "list") /\ (kind = "rattish" => May(u, "cancel finished"))
  BY <1>1, UserActs DEF May, UserOps, CancelOps
<1> QED
  BY <1>1, <1>2, <1>3, UserActs, Calls

LEMMA BaseList == ASSUME Base, NEW u \in Users, List(u) PROVE Base'
<1>1. AtAct(u, "list") /\ file' = file /\ UNCHANGED frame /\ "list" \in UserOps \ {"release"}
  BY DEF List, UserOps
<1> QED
  BY <1>1, UserActs, BaseResume, Finishes DEF List

LEMMA BaseClaim == ASSUME Base, NEW u \in Users, Claim(u) PROVE Base'
<1>1. AtAct(u, "claim") /\ file' = file /\ UNCHANGED frame /\ "claim" \in UserOps
  BY DEF Claim, UserOps
<1>2. CASE seen[u] = NULL \/ seen[u].decision = NULL \/ Live(seen[u].claim)
  BY <1>1, <1>2, UserActs, Finishes DEF Claim
<1>3. CASE ~(seen[u] = NULL \/ seen[u].decision = NULL \/ Live(seen[u].claim))
  <2> DEFINE r == [seen[u] EXCEPT !.claim = Process(u)]
  <2>1. Good(command, seen[u]) /\ seen[u].decision # NULL
    BY <1>1, <1>3, UserActs
  <2>2. /\ r \in Requests /\ r.waiter = seen[u].waiter /\ r.status = seen[u].status
        /\ r.decision = seen[u].decision /\ r.claim = Process(u)
    BY <1>1, <2>1, UserActs, Proc DEF Good, Requests
  <2>3. Update(u, r)
    BY <1>3 DEF Claim
  <2> HIDE DEF r
  <2>4. Good(command, r)
    BY <2>1, <2>2 DEF Good
  <2>5. Writable(u, doing[u], r) /\ doing[u] # NULL
    BY ZenonT(60), <1>1, <2>1, <2>2, <2>4, UserActs DEF Writable, CancelOps
  <2> QED
    BY <1>1, <2>3, <2>5, UserActs, Updates
<1> QED
  BY <1>2, <1>3

LEMMA BaseClaimed == ASSUME Base, NEW u \in Users, Claimed(u) PROVE Base'
<1>0. u \in Actors
  BY DEF Actors
<1>1. /\ Stored(u, "claim")
      /\ UNCHANGED <<kind, clock, command, alive, answered, failed, followed>>
  BY DEF Claimed
<1>2. /\ at[u] = "fill" /\ doing[u] = "claim" /\ Good(command, held[u]) /\ file' \in {held[u], Garbled}
      /\ held[u] # NULL /\ Local(kind, command, u, "fill", "claim", seen[u], held[u])
  BY <1>0, <1>1, StoredFacts
<1>3. Goes(u, "resuming", "claim", seen[u], held[u])
  BY <1>2 DEF Claimed, Goto, Goes, Base, Types
<1>4. Local(kind, command, u, "resuming", "claim", seen[u], held[u])
  <2>1. /\ "resuming" \in Steps /\ "resuming" \notin Expiring /\ "resuming" \notin Writing
        /\ "fill" \in Writing
    BY DEF Steps, Expiring, Writing
  <2> QED
    BY <1>2, <2>1 DEF Local
<1> QED
  BY <1>0, <1>1, <1>2, <1>3, <1>4, Moves

\* What the invariant says of a user that resumes the run.
LEMMA Resuming ==
  ASSUME Base, NEW u \in Users, at[u] = "resuming"
  PROVE  /\ u \in Actors /\ u # Gate /\ doing[u] = "claim" /\ kind = "toml"
         /\ held[u] # NULL /\ Good(command, held[u]) /\ held[u].decision # NULL
         /\ command[u] \in Commands(u)
<1>1. u \in Actors /\ u # Gate
  BY DEF Actors
<1>2. Local(kind, command, u, "resuming", doing[u], seen[u], held[u])
  BY <1>1 DEF Base, Locals
<1>3. doing[u] = "claim" /\ doing[u] # NULL
  BY <1>2 DEF Local, UserOps
<1> QED
  BY <1>1, <1>2, <1>3 DEF Local

LEMMA BaseResumeRuns == ASSUME Base, NEW u \in Users, ResumeRuns(u) PROVE Base'
<1>1. /\ at[u] = "resuming" /\ Finish(u)
      /\ UNCHANGED <<kind, clock, file, command, answered, failed>>
      /\ followed' = followed \union {[by |-> u, decision |-> held[u].decision.value]}
  BY DEF ResumeRuns
<1>2. held[u].decision \in DecisionRecords
      /\ (held[u].decision.value = "approved" => (People => Earned(command)))
  BY <1>1, Resuming DEF Good, Requests
<1>3. Goes(u, "done", NULL, NULL, NULL) /\ alive' = alive \ ({Process(u)} \ {Server})
  BY <1>1 DEF Finish, Goto, Drop, Goes
<1>4. Local(kind, command, u, "done", NULL, NULL, NULL)
  BY <1>1, Resuming, EmptyHands
<1> QED
  BY <1>1, <1>2, <1>3, <1>4, Resuming, Moves

LEMMA BaseResumeFails == ASSUME Base, NEW u \in Users, ResumeFails(u) PROVE Base'
<1>1. /\ at[u] = "resuming" /\ Call(u, "release") /\ failed' = failed \union {u}
      /\ UNCHANGED <<kind, clock, file, command, answered, followed>>
  BY DEF ResumeFails
<1>2. Goes(u, "get", "release", NULL, NULL) /\ alive' = alive
  BY <1>1 DEF Call, Goto, Drop, Goes
<1>3. Local(kind, command, u, "get", "release", NULL, NULL)
  <2>1. May(u, "release")
    BY <1>1, Resuming DEF May, UserOps, CancelOps
  <2> QED
    BY <1>1, <2>1, Resuming, EmptyHands
<1> QED
  BY <1>1, <1>2, <1>3, Resuming, Moves

LEMMA BaseRelease == ASSUME Base, NEW u \in Users, Release(u) PROVE Base'
<1>1. AtAct(u, "release") /\ file' = file /\ UNCHANGED frame /\ "release" \in UserOps
  BY DEF Release, UserOps
<1>2. CASE seen[u] = NULL
  BY <1>1, <1>2, UserActs, Finishes DEF Release
<1>3. CASE seen[u] # NULL
  <2> DEFINE r == [seen[u] EXCEPT !.claim = NULL]
  <2>1. Good(command, seen[u])
    BY <1>1, <1>3, UserActs
  <2>2. /\ r \in Requests /\ r.waiter = seen[u].waiter /\ r.status = seen[u].status
        /\ r.decision = seen[u].decision /\ r.claim = NULL
    BY <2>1 DEF Good, Requests
  <2>3. Update(u, r)
    BY <1>3 DEF Release
  <2> HIDE DEF r
  <2>4. Good(command, r)
    BY <2>1, <2>2 DEF Good
  <2>5. Writable(u, doing[u], r) /\ doing[u] # NULL
    <3>1. doing[u] = "release" /\ "release" # NULL /\ u # Gate
      BY <1>1, UserActs
    <3> QED
      BY <2>2, <2>4, <3>1 DEF Writable, CancelOps
  <2> QED
    BY <1>1, <2>3, <2>5, UserActs, Updates
<1> QED
  BY <1>2, <1>3

LEMMA BaseReleased == ASSUME Base, NEW u \in Users, Released(u) PROVE Base'
<1>1. Stored(u, "release") /\ Finish(u) /\ UNCHANGED frame /\ u \in Actors
  BY DEF Released, Actors
<1> QED
  BY <1>1, StoredFacts, Finishes

LEMMA BaseStart == ASSUME Base, NEW u \in Users, NEW c \in Commands(u), Start(u, c) PROVE Base'
<1> DEFINE o == IF c # Listing THEN "find" ELSE IF u \in Desktop THEN "list pending" ELSE "list"
<1> USE DEF Base
<1>0. u \in Actors /\ u # Gate /\ at[u] = "idle" /\ command[u] = NULL
  BY DEF Start, Actors, Locals, Local
<1>1. /\ Goes(u, "get", o, NULL, NULL) /\ command' = [command EXCEPT ![u] = c]
      /\ UNCHANGED <<kind, clock, file, alive, answered, failed, followed>>
  BY DEF Start, Call, Goto, Drop, Goes
<1>2. /\ o \in {"find", "list pending", "list"} /\ (o = "find" => c \in Answers[u])
  BY DEF Commands
<1> HIDE DEF o
<1>3. command'[u] = c /\ \A v \in Users \ {u} : command'[v] = command[v]
  BY <1>1 DEF Types
<1>4. Earned(command) => Earned(command')
  BY <1>0, <1>3 DEF Earned
<1>5. \A r : Good(command, r) => Good(command', r)
  BY <1>4 DEF Good
<1>6. Locals'
  <2> SUFFICES ASSUME NEW b \in Actors
               PROVE  Local(kind, command', b, at'[b], doing'[b], seen'[b], held'[b])
    BY <1>1 DEF Locals
  <2>1. CASE b = u
    <3>1. at'[b] = "get" /\ doing'[b] = o /\ seen'[b] = NULL /\ held'[b] = NULL
      BY <1>0, <1>1, <2>1 DEF Types, Goes
    <3>2. /\ "get" \in Steps /\ "get" \notin Expiring /\ "get" \notin Writing \union {"resuming", "idle"}
          /\ o \in UserOps /\ o \notin CancelOps \union {"sweep", "pending", "claim", "release", "reget"}
      BY <1>2 DEF Steps, Expiring, Writing, UserOps, CancelOps
    <3> QED
      BY <1>0, <1>2, <1>3, <2>1, <3>1, <3>2 DEF Local
  <2>2. CASE b # u
    <3>1. at'[b] = at[b] /\ doing'[b] = doing[b] /\ seen'[b] = seen[b] /\ held'[b] = held[b]
      BY <1>1, <2>2 DEF Types, Goes
    <3>2. b \in Users => command'[b] = command[b]
      BY <1>3, <2>2
    <3>3. Local(kind, command, b, at[b], doing[b], seen[b], held[b])
      BY DEF Locals
    <3> QED
      BY <1>5, <3>1, <3>2, <3>3 DEF Local
  <2> QED
    BY <2>1, <2>2
<1>7. Types'
  <2>1. file' \in {Absent, Torn, Garbled} \/ Good(command', file')
    BY <1>1, <1>5 DEF Types
  <2>2. /\ at' \in [Actors -> Steps] /\ doing' \in [Actors -> GateOps \union UserOps \union {NULL}]
        /\ seen' \in [Actors -> Requests \union {NULL}] /\ held' \in [Actors -> Requests \union {NULL}]
    BY <1>1, <1>2 DEF Types, Goes, Steps, UserOps
  <2>3. command' = [v \in Users |-> command'[v]]
    BY <1>1 DEF Types
  <2> QED
    BY <1>1, <1>3, <2>1, <2>2, <2>3 DEF Types
<1>8. Gone'
  <2>1. \A b \in Actors : at'[b] \in {"done", "dead"} <=> at[b] \in {"done", "dead"}
    BY <1>0, <1>1 DEF Types, Goes
  <2>2. u \notin failed
    <3>1. doing[u] = NULL
      BY <1>0 DEF Locals, Local
    <3> QED
      BY <1>0, <3>1 DEF Gone, UserOps
  <2>3. \A v \in failed : doing'[v] = doing[v] /\ at'[v] = at[v]
    BY <1>1, <2>2 DEF Types, Goes, Actors
  <2> QED
    BY <1>1, <2>1, <2>3, GateActs DEF Gone
<1>9. (People => ApprovalIsEarned)'
  <2>1. ApprovalIsEarned => \A x \in followed : x.decision = "approved" => Earned(command)
    BY DEF ApprovalIsEarned, Earned
  <2>2. (\A x \in followed' : x.decision = "approved" => Earned(command')) => ApprovalIsEarned'
    BY DEF ApprovalIsEarned, Earned
  <2> QED
    BY <1>1, <1>4, <2>1, <2>2
<1> QED
  BY <1>6, <1>7, <1>8, <1>9

-----------------------------------------------------------------------------
(* Time, crashes, and the whole.                                           *)

LEMMA BaseTick == ASSUME Base, Tick PROVE Base'
<1> USE DEF Base
<1>1. UNCHANGED <<kind, file, at, doing, seen, held, command, alive, answered, failed, followed>>
      /\ clock' \in {"early", "due", "late"}
  BY DEF Tick
<1>2. Types'
  BY <1>1 DEF Types
<1>3. Locals'
  BY <1>1 DEF Locals
<1>4. Gone'
  BY <1>1 DEF Gone
<1>5. (People => ApprovalIsEarned)'
  BY <1>1 DEF ApprovalIsEarned
<1> QED
  BY <1>2, <1>3, <1>4, <1>5

\* What a crash does to an actor.
LEMMA CrashFacts ==
  ASSUME Base, Crash
  PROVE  /\ UNCHANGED <<kind, clock, file, command, answered, failed, followed>>
         /\ Process(Gate) \in alive /\ alive' = alive \ {Process(Gate)}
         /\ at[Gate] \notin {"idle", "done"} /\ at'[Gate] = "dead"
         /\ \A a \in Actors :
              \/ /\ Process(a) = Process(Gate) /\ at[a] \notin {"idle", "done"}
                 /\ at'[a] = "dead" /\ doing'[a] = NULL /\ seen'[a] = NULL /\ held'[a] = NULL
              \/ /\ Process(a) # Process(Gate) \/ at[a] \in {"idle", "done"}
                 /\ at'[a] = at[a] /\ doing'[a] = doing[a] /\ seen'[a] = seen[a] /\ held'[a] = held[a]
         /\ at' \in [Actors -> Steps] /\ doing' \in [Actors -> GateOps \union UserOps \union {NULL}]
         /\ seen' \in [Actors -> Requests \union {NULL}]
         /\ held' \in [Actors -> Requests \union {NULL}]
<1> DEFINE Killed(a) == Process(a) = Process(Gate) /\ at[a] \notin {"idle", "done"}
<1>1. /\ Process(Gate) \in alive /\ Killed(Gate) /\ alive' = alive \ {Process(Gate)}
      /\ at' = [a \in Actors |-> IF Killed(a) THEN "dead" ELSE at[a]]
      /\ seen' = [a \in Actors |-> IF Killed(a) THEN NULL ELSE seen[a]]
      /\ held' = [a \in Actors |-> IF Killed(a) THEN NULL ELSE held[a]]
      /\ doing' = [a \in Actors |-> IF Killed(a) THEN NULL ELSE doing[a]]
      /\ UNCHANGED <<kind, clock, file, command, answered, failed, followed>>
  BY DEF Crash
<1>2. at'[Gate] = "dead"
  BY <1>1, GateActs
<1>3. /\ at' \in [Actors -> Steps] /\ doing' \in [Actors -> GateOps \union UserOps \union {NULL}]
      /\ seen' \in [Actors -> Requests \union {NULL}]
      /\ held' \in [Actors -> Requests \union {NULL}]
  <2>1. "dead" \in Steps
    BY DEF Steps
  <2> QED
    BY <1>1, <2>1 DEF Base, Types
<1> QED
  BY <1>1, <1>2, <1>3

LEMMA BaseCrash == ASSUME Base, Crash PROVE Base'
<1> USE DEF Base
<1>1. Types'
  BY CrashFacts DEF Types
<1>2. Locals'
  <2> SUFFICES ASSUME NEW b \in Actors
               PROVE  Local(kind, command, b, at'[b], doing'[b], seen'[b], held'[b])
    BY CrashFacts DEF Locals
  <2>1. Local(kind, command, b, at[b], doing[b], seen[b], held[b])
    BY DEF Locals
  <2>2. Local(kind, command, b, "dead", NULL, NULL, NULL)
    <3>1. /\ "dead" \in Steps /\ "dead" \notin Expiring /\ "dead" \notin Writing \union {"resuming", "idle"}
          /\ NULL \notin CancelOps \union {"sweep", "pending", "reget", "claim", "release", "find", "decide"}
      BY DEF Steps, Expiring, Writing, CancelOps, GateOps, UserOps
    <3> QED
      BY <3>1 DEF Local
  <2> QED
    BY <2>1, <2>2, CrashFacts
<1>3. Gone'
  <2>1. answered = {}
    BY CrashFacts DEF Gone
  <2>2. \A u \in failed : doing'[u] = "release" \/ at'[u] \in {"done", "dead"}
    <3>1. \A u \in failed : u \in Actors
      BY DEF Types, Actors
    <3> QED
      BY <3>1, CrashFacts DEF Gone
  <2> QED
    BY <2>1, <2>2, CrashFacts DEF Gone
<1>4. (People => ApprovalIsEarned)'
  BY CrashFacts DEF ApprovalIsEarned
<1> QED
  BY <1>1, <1>2, <1>3, <1>4

LEMMA BaseNext == ASSUME Base, [Next]_vars PROVE Base'
<1>1. ASSUME NEW a \in Actors, StoreStep(a) PROVE Base'
  BY <1>1, BaseGet, BaseAgain, BaseOpen, BaseFillExpired, BaseCancel, BaseCancelled, BaseDecide,
     BaseDecided DEF StoreStep
<1>2. CASE GateStep
  BY <1>2, BaseCreated, BaseWait, BaseMarkWaiting, BaseMarked, BasePoll, BaseEndRun, BaseSweep,
     BaseSwept, BaseSweepPending DEF GateStep
<1>3. ASSUME NEW u \in Users, UserStep(u) PROVE Base'
  BY <1>3, BaseFind, BaseReread, BaseListPending, BaseList, BaseClaim, BaseClaimed, BaseResumeRuns,
     BaseResumeFails, BaseRelease, BaseReleased DEF UserStep
<1>4. CASE UNCHANGED vars
  <2>1. Types'
    BY <1>4 DEF vars, Base, Types
  <2>2. Locals' /\ Gone' /\ (People => ApprovalIsEarned)'
    BY <1>4 DEF vars, Base, Locals, Gone, ApprovalIsEarned
  <2> QED
    BY <2>1, <2>2 DEF Base
<1> QED
  BY <1>1, <1>2, <1>3, <1>4, BaseStopGate, BaseStart, BaseTick, BaseCrash DEF Next

LEMMA BaseInit == ASSUME Init PROVE Base
<1>1. Good(command, Fresh) /\ Fresh \in Requests /\ Fresh.status = "pending"
  <2>1. /\ Fresh \in Requests /\ Fresh.status = "pending" /\ Fresh.decision = NULL
        /\ Fresh.claim = NULL /\ Fresh.waiter = NULL
    BY DEF Fresh, Request, Requests
  <2> QED
    BY <2>1 DEF Good
<1> HIDE DEF Fresh
<1>2. Types
  <2>1. at \in [Actors -> Steps]
    BY DEF Init, Steps
  <2>2. doing \in [Actors -> GateOps \union UserOps \union {NULL}]
    BY DEF Init, GateOps
  <2>3. seen \in [Actors -> Requests \union {NULL}] /\ held \in [Actors -> Requests \union {NULL}]
    BY <1>1 DEF Init
  <2>4. /\ command = [u \in Users |-> command[u]]
        /\ \A u \in Users : command[u] \in Commands(u) \union {NULL}
    BY DEF Init
  <2> QED
    BY <2>1, <2>2, <2>3, <2>4 DEF Init, Types
<1>3. Locals
  <2> SUFFICES ASSUME NEW a \in Actors
               PROVE  Local(kind, command, a, at[a], doing[a], seen[a], held[a])
    BY DEF Locals
  <2>1. CASE a = Gate
    <3>1. at[a] = "again" /\ doing[a] = "create" /\ seen[a] = NULL /\ held[a] = Fresh
      BY <2>1 DEF Init
    <3>2. /\ "again" \in Steps /\ "again" \notin Expiring /\ "create" \in GateOps
          /\ "create" \notin CancelOps \union {"sweep", "pending", "claim", "release", "reget", "decide"}
      BY DEF Steps, Expiring, GateOps, CancelOps
    <3> QED
      BY <1>1, <2>1, <3>1, <3>2, GateActs DEF Local
  <2>2. CASE a \in Users
    <3>1. at[a] = "idle" /\ doing[a] = NULL /\ seen[a] = NULL /\ held[a] = NULL /\ command[a] = NULL
      BY <2>2, GateActs DEF Init
    <3>2. /\ "idle" \in Steps /\ "idle" \notin Expiring /\ "idle" \notin Writing \union {"resuming"}
          /\ NULL \notin CancelOps \union {"sweep", "pending", "reget", "claim", "release", "find", "decide"}
      BY DEF Steps, Expiring, Writing, CancelOps, GateOps, UserOps
    <3> QED
      BY <2>2, <3>1, <3>2, GateActs DEF Local
  <2> QED
    BY <2>1, <2>2, GateActs
<1>4. Gone /\ ApprovalIsEarned
  BY Proc, GateActs DEF Init, Gone, ApprovalIsEarned
<1> QED
  BY <1>2, <1>3, <1>4 DEF Base

-----------------------------------------------------------------------------
(* First theorems.                                                         *)

\* What every actor may have read and may write, at each of its steps, whatever
\* the interleaving of the reads and writes of approvals.py.
THEOREM BaseInvariant == Spec => []Base
BY BaseInit, BaseNext, PTL DEF Spec

\* A run goes on as approved only if somebody the gate accepts approved it, when
\* nobody answers under the name that decide reserves for the gates.
THEOREM ApprovalEarned == People => (Spec => []ApprovalIsEarned)
<1> SUFFICES ASSUME People PROVE Spec => []ApprovalIsEarned
  OBVIOUS
<1>1. Base => ApprovalIsEarned
  BY DEF Base
<1> QED
  BY <1>1, BaseInvariant, PTL

\* The type of the state, with the status and the decision of every request
\* that is on disk or about to be written in agreement.
THEOREM TypeCorrect == Spec => []TypeOK
<1>1. Base => TypeOK
  <2> SUFFICES ASSUME Base PROVE TypeOK
    OBVIOUS
  <2>1. file \in Requests \union {Absent, Torn, Garbled}
    BY DEF Base, Types, Good
  <2>2. \A r \in {file} \union {held[a] : a \in Actors} :
          r \in Requests => (r.status = "decided" <=> r.decision # NULL)
    <3>1. file \in Requests => Good(command, file)
      BY DEF Base, Types
    <3>2. \A a \in Actors : held[a] \in Requests => Good(command, held[a])
      BY DEF Base, Locals, Local
    <3>3. \A r : Good(command, r) => (r.status = "decided" <=> r.decision # NULL)
      BY DEF Good
    <3> QED
      BY <3>1, <3>2, <3>3
  <2> QED
    BY <2>1, <2>2 DEF TypeOK, Base, Types, Gone
<1> QED
  BY <1>1, BaseInvariant, PTL

-----------------------------------------------------------------------------
(* What a step changes.                                                    *)

\* Only a moves.
Alone(a) ==
  \A b \in Actors \ {a} : /\ at'[b] = at[b] /\ doing'[b] = doing[b]
                          /\ seen'[b] = seen[b] /\ held'[b] = held[b]

LEMMA AloneGoes ==
  ASSUME Types, NEW a \in Actors, NEW p, NEW o, NEW s, NEW h, Goes(a, p, o, s, h)
  PROVE  /\ Alone(a) /\ at'[a] = p /\ doing'[a] = o /\ seen'[a] = s /\ held'[a] = h
BY DEF Types, Goes, Alone

LEMMA CallGoes ==
  ASSUME NEW a, NEW o, Call(a, o) PROVE Goes(a, "get", o, NULL, NULL) /\ alive' = alive
BY DEF Call, Goto, Drop, Goes

LEMMA FinishGoes ==
  ASSUME NEW a, Finish(a)
  PROVE  Goes(a, "done", NULL, NULL, NULL) /\ alive' = alive \ ({Process(a)} \ {Server})
BY DEF Finish, Goto, Drop, Goes

LEMMA LeaveGoes ==
  ASSUME LeaveGate PROVE Goes(Gate, "after", NULL, NULL, NULL) /\ alive' = alive
BY DEF LeaveGate, Goto, Drop, Goes

LEMMA UpdateGoes ==
  ASSUME Types, NEW a, NEW r, Update(a, r)
  PROVE  Goes(a, "again", doing[a], NULL, r) /\ alive' = alive
BY DEF Update, Goto, Goes, Types

\* The steps inside the store.
LEMMA GetGoes ==
  ASSUME Types, NEW a \in Actors, Get(a)
  PROVE  \E s : /\ Goes(a, IF MustExpire(file) THEN "expire" ELSE "act", doing[a], s, held[a])
                /\ s = IF ~IsRequest(file) THEN NULL ELSE IF MustExpire(file) THEN Expired(file) ELSE file
BY DEF Get, Goto, Goes, Types

LEMMA AgainGoes ==
  ASSUME Base, NEW a \in Actors, Again(a)
  PROVE  \E s, h : /\ Goes(a, IF MustExpire(file) THEN "expire again" ELSE "write", doing[a], s, h)
                   /\ h.claim = held[a].claim /\ (s # NULL => s.claim = NULL)
<1> DEFINE r == IF ~IsRequest(file) THEN NULL ELSE IF MustExpire(file) THEN Expired(file) ELSE file
           s == IF MustExpire(file) THEN r ELSE NULL
           h == IF r # NULL /\ r.decision # NULL
                  THEN [held[a] EXCEPT !.decision = r.decision, !.status = "decided"] ELSE held[a]
<1>1. Goes(a, IF MustExpire(file) THEN "expire again" ELSE "write", doing[a], s, h)
  BY DEF Again, Goto, Goes, Base, Types
<1>2. s # NULL => s.claim = NULL
  BY ReadGood DEF MustExpire
<1>3. h.claim = held[a].claim
  <2>1. held[a] \in Requests
    BY DEF Base, Locals, Local, Again, Writing, Good
  <2> HIDE DEF r
  <2> QED
    BY <2>1 DEF Requests
<1> HIDE DEF s, h
<1> QED
  BY <1>1, <1>2, <1>3

\* What a may do to the file, by the step it is at.
FileBy(a) ==
  \/ file' = file
  \/ file' \in {Torn, Garbled}
  \/ at[a] \in {"fill expired", "fill again"} /\ file' = seen[a]
  \/ at[a] = "fill" /\ file' = held[a]

LEMMA StoreAlone ==
  ASSUME Base, NEW a \in Actors, StoreStep(a)
  PROVE  Alone(a) /\ FileBy(a) /\ kind' = kind
<1>0. Types
  BY DEF Base
<1>1. CASE Get(a)
  BY <1>0, <1>1, GetGoes, AloneGoes DEF Get, FileBy
<1>2. CASE Again(a)
  BY <1>0, <1>2, AgainGoes, AloneGoes DEF Again, FileBy
<1>3. CASE Open(a)
  BY <1>0, <1>3 DEF Open, Goto, Alone, FileBy, Types
<1>4. CASE FillExpired(a)
  BY <1>0, <1>4 DEF FillExpired, Filled, Goto, Alone, FileBy, Types
<1>5. ASSUME AfterCancel(a), doing[a] \in CancelOps PROVE Alone(a)
  <2>1. doing[a] = "cancel gate" => a = Gate
    BY GateActs DEF Base, Locals, Local, GateOps, UserOps
  <2>2. CASE doing[a] = "cancel gate"
    BY ZenonT(60), <1>0, <1>5, <2>1, <2>2, LeaveGoes, AloneGoes DEF AfterCancel
  <2>3. CASE doing[a] = "cancel run"
    BY <1>0, <1>5, <2>3, FinishGoes, AloneGoes DEF AfterCancel
  <2>4. CASE doing[a] = "cancel finished"
    <3>1. Call(a, IF command[a] = Listing THEN "list" ELSE "decide")
      BY <1>5, <2>4 DEF AfterCancel
    <3> QED
      BY <1>0, <3>1, CallGoes, AloneGoes
  <2> QED
    BY <1>5, <2>2, <2>3, <2>4 DEF CancelOps
<1>6. CASE Cancel(a)
  BY <1>0, <1>5, <1>6, UpdateGoes, AloneGoes DEF Cancel, FileBy
<1>7. CASE Cancelled(a)
  BY <1>5, <1>7 DEF Cancelled, Stored, Filled, FileBy
<1>8. CASE Decide(a)
  BY <1>0, <1>8, UpdateGoes, FinishGoes, LeaveGoes, AloneGoes, GateActs DEF Decide, FileBy
<1>9. CASE Decided(a)
  <2>1. file' \in {held[a], Garbled} /\ at[a] = "fill" /\ kind' = kind
    BY <1>9 DEF Decided, Stored, Filled
  <2>2. CASE a = Gate
    BY <1>0, <1>9, <2>1, <2>2, LeaveGoes, AloneGoes DEF Decided, FileBy
  <2>3. CASE a # Gate /\ a \in Desktop
    BY <1>0, <1>9, <2>1, <2>3 DEF Decided, FileBy, Alone, Goto, Types
  <2>4. CASE a # Gate /\ a \notin Desktop
    BY <1>0, <1>9, <2>1, <2>4, CallGoes, FinishGoes, AloneGoes DEF Decided, Resume, FileBy
  <2> QED
    BY <2>2, <2>3, <2>4
<1> QED
  BY <1>1, <1>2, <1>3, <1>4, <1>6, <1>7, <1>8, <1>9 DEF StoreStep

LEMMA UserAlone ==
  ASSUME Base, NEW u \in Users, UserStep(u)
  PROVE  Alone(u) /\ FileBy(u) /\ kind' = kind
<1>0. Types /\ u \in Actors
  BY DEF Base, Actors
<1>1. ASSUME NEW r, Resume(u, r) PROVE Alone(u)
  BY <1>0, <1>1, CallGoes, FinishGoes, AloneGoes DEF Resume
<1>2. CASE Find(u)
  BY <1>0, <1>2, CallGoes, FinishGoes, AloneGoes DEF Find, FileBy
<1>3. CASE Reread(u)
  BY <1>1, <1>3 DEF Reread, FileBy
<1>4. CASE ListPending(u)
  BY <1>0, <1>4, CallGoes, AloneGoes DEF ListPending, FileBy
<1>5. CASE List(u)
  BY <1>0, <1>1, <1>5, FinishGoes, AloneGoes DEF List, FileBy
<1>6. CASE Claim(u)
  BY <1>0, <1>6, UpdateGoes, FinishGoes, AloneGoes DEF Claim, FileBy
<1>7. CASE Claimed(u)
  BY <1>0, <1>7 DEF Claimed, Stored, Filled, Goto, Alone, FileBy, Types
<1>8. CASE ResumeRuns(u)
  BY <1>0, <1>8, FinishGoes, AloneGoes DEF ResumeRuns, FileBy
<1>9. CASE ResumeFails(u)
  BY <1>0, <1>9, CallGoes, AloneGoes DEF ResumeFails, FileBy
<1>10. CASE Release(u)
  BY <1>0, <1>10, UpdateGoes, FinishGoes, AloneGoes DEF Release, FileBy
<1>11. CASE Released(u)
  BY <1>0, <1>11, FinishGoes, AloneGoes DEF Released, Stored, Filled, FileBy
<1> QED
  BY <1>2, <1>3, <1>4, <1>5, <1>6, <1>7, <1>8, <1>9, <1>10, <1>11 DEF UserStep

LEMMA StartAlone ==
  ASSUME Base, NEW u \in Users, NEW c, Start(u, c)
  PROVE  /\ Alone(u) /\ file' = file /\ kind' = kind /\ at[u] = "idle" /\ at'[u] = "get"
         /\ UNCHANGED <<alive, answered, failed, followed>>
         /\ seen'[u] = NULL /\ held'[u] = NULL
<1>1. Types /\ u \in Actors
  BY DEF Base, Actors
<1>2. PICK o : Call(u, o)
  BY DEF Start
<1>3. Goes(u, "get", o, NULL, NULL) /\ alive' = alive
  BY <1>2, CallGoes
<1>4. Alone(u) /\ at'[u] = "get" /\ seen'[u] = NULL /\ held'[u] = NULL
  BY <1>1, <1>3, AloneGoes
<1> QED
  BY <1>3, <1>4 DEF Start

LEMMA GateAlone ==
  ASSUME Base, GateStep \/ StopGate
  PROVE  Alone(Gate) /\ FileBy(Gate) /\ kind' = kind
<1>0. Types /\ Gate \in Actors
  BY GateActs DEF Base
<1>1. CASE Created
  BY <1>0, <1>1 DEF Created, Stored, Filled, Goto, Drop, Alone, FileBy, Types
<1>2. CASE Wait
  BY <1>0, <1>2, CallGoes, AloneGoes DEF Wait, FileBy
<1>3. CASE MarkWaiting
  BY <1>0, <1>3, CallGoes, UpdateGoes, AloneGoes DEF MarkWaiting, FileBy
<1>4. CASE Marked
  BY <1>0, <1>4, CallGoes, AloneGoes DEF Marked, Stored, Filled, FileBy
<1>5. CASE Poll
  <2>1. file' = file /\ kind' = kind
    BY <1>5 DEF Poll
  <2>2. CASE LeaveGate \/ Call(Gate, "decide")
    BY <1>0, <2>1, <2>2, CallGoes, LeaveGoes, AloneGoes DEF FileBy
  <2>3. CASE Goto(Gate, "sleep") /\ Drop(Gate) /\ UNCHANGED <<doing, alive>>
    BY <1>0, <2>1, <2>3 DEF Goto, Drop, Alone, FileBy, Types
  <2> QED
    BY <1>5, <2>2, <2>3 DEF Poll
<1>6. CASE EndRun
  BY <1>0, <1>6, CallGoes, FinishGoes, AloneGoes DEF EndRun, FileBy
<1>7. CASE Sweep
  BY <1>0, <1>7, CallGoes, UpdateGoes, AloneGoes DEF Sweep, FileBy
<1>8. CASE Swept
  BY <1>0, <1>8, CallGoes, AloneGoes DEF Swept, Stored, Filled, FileBy
<1>9. CASE SweepPending
  BY <1>0, <1>9, CallGoes, FinishGoes, AloneGoes DEF SweepPending, FileBy
<1>10. CASE StopGate
  BY <1>0, <1>10, CallGoes, LeaveGoes, AloneGoes DEF StopGate, FileBy
<1> QED
  BY <1>1, <1>2, <1>3, <1>4, <1>5, <1>6, <1>7, <1>8, <1>9, <1>10 DEF GateStep

-----------------------------------------------------------------------------
(* The end of a Rattish run leaves a request that is closed.               *)

\* What a user writes beside a Rattish gate is not pending.
LEMMA SweepingByUser ==
  ASSUME Base, Sweeping, NEW u \in Users, Alone(u), FileBy(u), kind' = kind
  PROVE  Sweeping'
<1>1. Local(kind, command, u, at[u], doing[u], seen[u], held[u]) /\ u \in Actors
  BY DEF Base, Locals, Actors
<1>2. at'[Gate] = at[Gate] /\ doing'[Gate] = doing[Gate] /\ seen'[Gate] = seen[Gate]
  BY GateActs DEF Alone
<1>3. ASSUME kind = "rattish", Closed PROVE Closed'
  <2>1. CASE file' = file
    BY <1>3, <2>1 DEF Closed, IsRequest
  <2>2. CASE file' \in {Torn, Garbled}
    BY <2>2 DEF Closed, IsRequest
  <2>3. CASE at[u] \in {"fill expired", "fill again"} /\ file' = seen[u]
    <3>1. Good(command, seen[u]) /\ seen[u].decision # NULL
      BY <1>1, <2>3, ExpiredFacts DEF Expiring
    <3> QED
      BY <2>3, <3>1 DEF Closed, Good
  <2>4. CASE at[u] = "fill" /\ file' = held[u]
    <3>1. held[u] # NULL /\ doing[u] \notin {"claim", "release"}
      BY <1>1, <1>3, <2>4 DEF Local, Writing
    <3>2. held[u].status # "pending"
      BY <1>1, <3>1 DEF Local
    <3> QED
      BY <2>4, <3>2 DEF Closed
  <2> QED
    BY <2>1, <2>2, <2>3, <2>4 DEF FileBy
<1> QED
  BY <1>2, <1>3 DEF Sweeping, Pending

\* Steps of the gate that do not bring it to an end.
LEMMA SweepingOn ==
  ASSUME at'[Gate] \notin {"done", "act"} PROVE Sweeping'
BY DEF Sweeping

LEMMA SweepingByStore ==
  ASSUME Base, Sweeping, StoreStep(Gate)
  PROVE  Sweeping'
<1>0. Types /\ Gate \in Actors /\ kind' = kind
  BY GateActs, StoreAlone DEF Base
<1>1. CASE Get(Gate)
  <2>1. PICK s : /\ Goes(Gate, IF MustExpire(file) THEN "expire" ELSE "act", doing[Gate], s, held[Gate])
                 /\ s = IF ~IsRequest(file) THEN NULL ELSE IF MustExpire(file) THEN Expired(file) ELSE file
    BY <1>0, <1>1, GetGoes
  <2>2. /\ at'[Gate] = IF MustExpire(file) THEN "expire" ELSE "act"
        /\ seen'[Gate] = s /\ file' = file
    BY <1>0, <1>1, <2>1, AloneGoes DEF Get
  <2>3. at'[Gate] = "act" /\ ~Pending(s) => Closed'
    <3>1. IsRequest(file) => file # NULL
      BY ReadGood DEF Good
    <3> QED
      BY <2>1, <2>2, <3>1 DEF Pending, Closed, IsRequest
  <2> QED
    BY <2>2, <2>3 DEF Sweeping, Pending
<1>2. CASE Again(Gate)
  BY <1>0, <1>2, SweepingOn DEF Again, Goto, Types
<1>3. CASE Open(Gate)
  BY <1>0, <1>3, SweepingOn DEF Open, Goto, Types
<1>4. CASE FillExpired(Gate)
  <2>1. Good(command, seen[Gate]) /\ seen[Gate].decision # NULL
    BY <1>0, <1>4, ExpiredFacts DEF Expiring, FillExpired
  <2>2. Closed'
    BY <1>4, <2>1 DEF FillExpired, Filled, Closed, Good, IsRequest
  <2> QED
    BY <2>2 DEF Sweeping
<1>5. ASSUME AfterCancel(Gate), doing[Gate] \in CancelOps, kind = "rattish" => Closed' \/ doing[Gate] = "cancel gate"
      PROVE  Sweeping'
  <2>1. doing[Gate] # "cancel finished"
    BY <1>0 DEF Base, Locals, Local, GateOps, UserOps
  <2>2. CASE doing[Gate] = "cancel gate"
    <3>1. LeaveGate
      BY <1>5, <2>2 DEF AfterCancel
    <3> QED
      BY <1>0, <3>1, LeaveGoes, AloneGoes, SweepingOn
  <2>3. CASE doing[Gate] = "cancel run"
    BY <1>0, <1>5, <2>3 DEF Sweeping
  <2> QED
    BY <1>5, <2>1, <2>2, <2>3 DEF CancelOps
<1>6. CASE Cancel(Gate)
  <2>1. CASE Pending(seen[Gate])
    <3>1. PICK r : Update(Gate, r)
      BY <1>6, <2>1 DEF Cancel
    <3> QED
      BY <1>0, <3>1, UpdateGoes, AloneGoes, SweepingOn
  <2>2. CASE ~Pending(seen[Gate])
    <3>1. file' = file /\ AfterCancel(Gate) /\ doing[Gate] \in CancelOps /\ at[Gate] = "act"
      BY <1>6, <2>2 DEF Cancel
    <3>2. doing[Gate] \in {"cancel gate", "cancel run"}
      BY <1>0, <3>1 DEF Base, Locals, Local, GateOps, UserOps, CancelOps
    <3>3. kind = "rattish" => Closed' \/ doing[Gate] = "cancel gate"
      BY <2>2, <3>1, <3>2 DEF Sweeping, Closed, IsRequest
    <3> QED
      BY <1>5, <3>1, <3>3
  <2> QED
    BY <2>1, <2>2
<1>7. CASE Cancelled(Gate)
  <2>1. AfterCancel(Gate) /\ doing[Gate] \in CancelOps /\ Stored(Gate, doing[Gate])
    BY <1>7 DEF Cancelled
  <2>2. held[Gate].status # "pending" /\ file' \in {held[Gate], Garbled}
    BY <1>0, <2>1, StoredFacts DEF Local
  <2> QED
    BY <1>5, <2>1, <2>2 DEF Closed, IsRequest
<1>8. CASE Decide(Gate)
  BY <1>0, <1>8, UpdateGoes, LeaveGoes, AloneGoes, SweepingOn DEF Decide
<1>9. CASE Decided(Gate)
  BY <1>0, <1>9, LeaveGoes, AloneGoes, SweepingOn DEF Decided
<1> QED
  BY <1>1, <1>2, <1>3, <1>4, <1>6, <1>7, <1>8, <1>9 DEF StoreStep

LEMMA SweepingByGate ==
  ASSUME Base, Sweeping, GateStep \/ StopGate
  PROVE  Sweeping'
<1>0. Types /\ Gate \in Actors /\ kind' = kind
  BY GateActs, GateAlone DEF Base
<1>1. ASSUME NEW o, Call(Gate, o) PROVE Sweeping'
  BY <1>0, <1>1, CallGoes, AloneGoes, SweepingOn
<1>2. ASSUME NEW r, Update(Gate, r) PROVE Sweeping'
  BY <1>0, <1>2, UpdateGoes, AloneGoes, SweepingOn
<1>3. ASSUME LeaveGate PROVE Sweeping'
  BY <1>0, <1>3, LeaveGoes, AloneGoes, SweepingOn
<1>4. CASE Created \/ Poll
  <2>1. Goto(Gate, "notify") \/ Goto(Gate, "sleep") \/ LeaveGate \/ Call(Gate, "decide")
    BY <1>4 DEF Created, Poll
  <2>2. CASE Goto(Gate, "notify") \/ Goto(Gate, "sleep")
    BY <1>0, <2>2, SweepingOn DEF Goto, Types
  <2> QED
    BY <1>1, <1>3, <2>1, <2>2
<1>5. CASE Wait \/ MarkWaiting \/ Marked \/ Sweep \/ Swept \/ StopGate
  BY <1>1, <1>2, <1>3, <1>5 DEF Wait, MarkWaiting, Marked, Sweep, Swept, StopGate
<1>6. CASE EndRun
  BY <1>0, <1>1, <1>6 DEF EndRun, Sweeping
<1>7. CASE SweepPending
  <2>1. CASE Pending(seen[Gate])
    BY <1>1, <1>7, <2>1 DEF SweepPending
  <2>2. CASE ~Pending(seen[Gate])
    <3>1. kind = "rattish" => Closed'
      BY <1>7, <2>2 DEF SweepPending, AtAct, Sweeping, Closed, IsRequest
    <3> QED
      BY <1>0, <3>1 DEF Sweeping
  <2> QED
    BY <2>1, <2>2
<1> QED
  BY <1>4, <1>5, <1>6, <1>7 DEF GateStep

LEMMA SweepingNext == ASSUME Base, Sweeping, [Next]_vars PROVE Sweeping'
<1>1. ASSUME NEW a \in Actors, StoreStep(a) PROVE Sweeping'
  BY <1>1, GateActs, StoreAlone, SweepingByUser, SweepingByStore
<1>2. ASSUME NEW u \in Users, UserStep(u) PROVE Sweeping'
  BY <1>2, UserAlone, SweepingByUser
<1>3. ASSUME NEW u \in Users, NEW c \in Commands(u), Start(u, c) PROVE Sweeping'
  BY <1>3, StartAlone, SweepingByUser DEF FileBy
<1>4. CASE Crash
  BY <1>4, CrashFacts, SweepingOn
<1>5. CASE Tick \/ UNCHANGED vars
  BY <1>5 DEF Tick, vars, Sweeping, Closed, IsRequest, Pending
<1> QED
  BY <1>1, <1>2, <1>3, <1>4, <1>5, SweepingByGate DEF Next

-----------------------------------------------------------------------------
(* A failed resume gives its claim back.                                   *)

\* Another actor does not bring the claim back.
LEMMA GivenBackByOther ==
  ASSUME OwnProcess, Base, GivenBack, NEW a \in Actors, Alone(a), FileBy(a),
         NEW u \in answered \intersect failed, u # a, at[a] \notin {"done", "dead"},
         at'[u] = "done" \/ (at'[u] = "act" /\ doing'[u] = "release" /\ seen'[u] = NULL)
  PROVE  IsRequest(file') => file'.claim # Process(u)
<1>1. u \in Users /\ u \in Actors
  BY DEF Base, Types, Actors
<1>2. at'[u] = at[u] /\ doing'[u] = doing[u] /\ seen'[u] = seen[u]
  BY <1>1 DEF Alone
<1>3. a \in Users
  BY GateActs DEF Base, Gone
<1>4. Process(u) # NULL /\ Process(a) # Process(u)
  BY <1>1, Proc DEF OwnProcess
<1>5. CASE file' = file
  BY <1>2, <1>5 DEF GivenBack, IsRequest
<1>6. CASE file' \in {Torn, Garbled}
  BY <1>6 DEF IsRequest
<1>7. CASE at[a] \in {"fill expired", "fill again"} /\ file' = seen[a]
  BY <1>4, <1>7, ExpiredFacts DEF Expiring
<1>8. CASE at[a] = "fill" /\ file' = held[a]
  <2>1. held[a] # NULL /\ held[a].claim \in {NULL, Process(a)}
    BY <1>3, <1>8 DEF Base, Locals, Local, Writing
  <2> QED
    BY <1>4, <1>8, <2>1
<1> QED
  BY <1>5, <1>6, <1>7, <1>8 DEF FileBy

\* The steps of a user whose resume has failed, to the end of the release.
LEMMA GivenBackByOwn ==
  ASSUME Base, GivenBack, NEW u \in Users, StoreStep(u) \/ UserStep(u), u \in failed', u \in answered',
         at'[u] = "done" \/ (at'[u] = "act" /\ doing'[u] = "release" /\ seen'[u] = NULL)
  PROVE  IsRequest(file') => file'.claim # Process(u)
<1>0. Types /\ u \in Actors /\ u # Gate /\ Process(u) # NULL
  BY Proc, GateActs DEF Base, Actors
<1>1. at[u] \notin {"done", "dead", "idle"}
  BY DEF StoreStep, UserStep, Get, Again, Open, FillExpired, Cancel, Cancelled, Decide, Decided, Find,
         Reread, ListPending, List, Claim, Claimed, ResumeRuns, ResumeFails, Release, Released,
         AtAct, Stored
<1>2. ~ResumeFails(u)
  <2> SUFFICES ASSUME ResumeFails(u) PROVE FALSE
    OBVIOUS
  <2>1. at'[u] = "get"
    BY <1>0, CallGoes, AloneGoes DEF ResumeFails
  <2> QED
    BY <2>1
<1>3. u \in failed
  BY <1>2 DEF StoreStep, UserStep, Get, Again, Open, FillExpired, Cancel, Cancelled, Decide, Decided,
         Find, Reread, ListPending, List, Claim, Claimed, ResumeRuns, Release, Released
<1>4. doing[u] = "release"
  BY <1>1, <1>3 DEF Base, Gone
<1>5. Get(u) \/ Again(u) \/ Open(u) \/ FillExpired(u) \/ Release(u) \/ Released(u)
  <2>1. at[u] # "resuming"
    BY <1>0, <1>4 DEF Base, Locals, Local
  <2> QED
    BY <1>4, <2>1 DEF StoreStep, UserStep, Cancel, Cancelled, Decide, Decided, Find, Reread, ListPending,
       List, Claim, Claimed, ResumeRuns, ResumeFails, AtAct, Stored, CancelOps
<1>6. u \in answered
  BY <1>5 DEF Get, Again, Open, FillExpired, Release, Released
<1>7. CASE Get(u)
  <2>1. PICK s : /\ Goes(u, IF MustExpire(file) THEN "expire" ELSE "act", doing[u], s, held[u])
                 /\ s = IF ~IsRequest(file) THEN NULL ELSE IF MustExpire(file) THEN Expired(file) ELSE file
    BY <1>0, <1>7, GetGoes
  <2>2. /\ at'[u] = IF MustExpire(file) THEN "expire" ELSE "act"
        /\ seen'[u] = s /\ file' = file
    BY <1>0, <1>7, <2>1, AloneGoes DEF Get
  <2>3. IsRequest(file) => file # NULL
    BY ReadGood DEF Good
  <2> QED
    BY <2>1, <2>2, <2>3 DEF IsRequest
<1>8. CASE Again(u) \/ Open(u)
  BY <1>0, <1>8 DEF Again, Open, Goto, Types
<1>9. CASE FillExpired(u)
  <2>1. seen[u] # NULL /\ seen[u].claim = NULL /\ file' \in {seen[u], Garbled}
    BY <1>0, <1>9, ExpiredFacts DEF FillExpired, Filled, Expiring
  <2> QED
    BY <1>0, <2>1 DEF IsRequest
<1>10. CASE Release(u)
  <2>1. CASE seen[u] = NULL
    BY <1>3, <1>6, <1>10, <2>1 DEF Release, AtAct, GivenBack, IsRequest
  <2>2. CASE seen[u] # NULL
    <3>1. PICK r : Update(u, r)
      BY <1>10, <2>2 DEF Release
    <3> QED
      BY <1>0, <3>1, UpdateGoes, AloneGoes
  <2> QED
    BY <2>1, <2>2
<1>11. CASE Released(u)
  <2>1. file' \in {held[u], Garbled} /\ held[u].claim = NULL
    BY <1>0, <1>11, StoredFacts DEF Released, Local
  <2> QED
    BY <1>0, <2>1 DEF IsRequest
<1> QED
  BY <1>5, <1>7, <1>8, <1>9, <1>10, <1>11

LEMMA GivenBackNext ==
  ASSUME OwnProcess, Base, GivenBack, [Next]_vars PROVE GivenBack'
<1> SUFFICES ASSUME NEW u \in answered' \intersect failed',
                    at'[u] = "done" \/ (at'[u] = "act" /\ doing'[u] = "release" /\ seen'[u] = NULL)
             PROVE  IsRequest(file') => file'.claim # Process(u)
  BY DEF GivenBack, IsRequest
<1>0. Base' /\ u \in Users
  BY BaseNext DEF Base, Types
<1>1. ASSUME NEW a \in Actors, StoreStep(a) \/ (a \in Users /\ UserStep(a))
             \/ (a = Gate /\ (GateStep \/ StopGate))
      PROVE  IsRequest(file') => file'.claim # Process(u)
  <2>0. at[a] \notin {"done", "dead"}
    BY <1>1 DEF StoreStep, UserStep, GateStep, StopGate, Get, Again, Open, FillExpired, Cancel, Cancelled,
         Decide, Decided, Find, Reread, ListPending, List, Claim, Claimed, ResumeRuns, ResumeFails,
         Release, Released, Created, Wait, MarkWaiting, Marked, Poll, EndRun, Sweep, Swept,
         SweepPending, AtAct, Stored
  <2>1. CASE a = u
    BY <1>0, <1>1, <2>1, GateActs, GivenBackByOwn
  <2>2. CASE a # u
    <3>1. Alone(a) /\ FileBy(a)
      BY <1>1, StoreAlone, UserAlone, GateAlone
    <3>2. u \in answered \intersect failed
      BY <1>1, <2>2 DEF StoreStep, UserStep, GateStep, StopGate, Get, Again, Open, FillExpired, Cancel,
         Cancelled, Decide, Decided, Find, Reread, ListPending, List, Claim, Claimed, ResumeRuns,
         ResumeFails, Release, Released, Created, Wait, MarkWaiting, Marked, Poll, EndRun, Sweep, Swept,
         SweepPending
    <3> QED
      BY <2>0, <2>2, <3>1, <3>2, GivenBackByOther
  <2> QED
    BY <2>1, <2>2
<1>2. ASSUME NEW v \in Users, NEW c \in Commands(v), Start(v, c)
      PROVE  IsRequest(file') => file'.claim # Process(u)
  <2>1. v # u
    <3>1. at'[v] = "get"
      BY <1>2, StartAlone
    <3> QED
      BY <3>1
  <2>2. u \in answered \intersect failed /\ v \in Actors
    BY <1>2, StartAlone DEF Actors
  <2> QED
    BY <1>2, <2>1, <2>2, StartAlone, GivenBackByOther DEF FileBy
<1>3. CASE Crash
  BY <1>3, CrashFacts DEF Base, Gone
<1>4. CASE Tick \/ UNCHANGED vars
  BY <1>4 DEF Tick, vars, GivenBack, IsRequest
<1>5. CASE GateStep \/ StopGate
  BY <1>1, <1>5, GateActs
<1>6. ASSUME NEW v \in Users, UserStep(v) PROVE IsRequest(file') => file'.claim # Process(u)
  <2>1. v \in Actors
    BY DEF Actors
  <2> QED
    BY <1>1, <1>6, <2>1
<1>7. ASSUME NEW a \in Actors, StoreStep(a) PROVE IsRequest(file') => file'.claim # Process(u)
  BY <1>1, <1>7
<1> QED
  BY <1>2, <1>3, <1>4, <1>5, <1>6, <1>7 DEF Next

-----------------------------------------------------------------------------

LEMMA SweepingInit == ASSUME Init PROVE Sweeping /\ GivenBack
BY GateActs DEF Init, Sweeping, GivenBack

\* Once a Rattish run has ended, its request is closed and stays closed,
\* whatever the operations that were under way still write.
THEOREM RunLeavesNoQuestion == Spec => []ClosedAfterRun
<1>1. Init => Base /\ Sweeping
  BY BaseInit, SweepingInit
<1>2. Base /\ Sweeping /\ [Next]_vars => (Base /\ Sweeping)'
  BY BaseNext, SweepingNext
<1>3. Sweeping => ClosedAfterRun
  BY DEF Sweeping, ClosedAfterRun, Closed
<1> QED
  BY <1>1, <1>2, <1>3, PTL DEF Spec

\* The file, the requests being written and the claims fit together, when no
\* two actors share a process: beside another user of the same desktop server a
\* claim does not say whose it is.
THEOREM StoreIsConsistent == OwnProcess => (Spec => []Consistent)
<1> SUFFICES ASSUME OwnProcess PROVE Spec => []Consistent
  OBVIOUS
<1>1. Init => Base /\ GivenBack
  BY BaseInit, SweepingInit
<1>2. Base /\ GivenBack /\ [Next]_vars => (Base /\ GivenBack)'
  BY BaseNext, GivenBackNext
<1>3. GivenBack => ClaimReleased
  BY DEF GivenBack, ClaimReleased
<1>4. TypeOK /\ ClosedAfterRun /\ ClaimReleased => Consistent
  BY DEF Consistent
<1> QED
  BY <1>1, <1>2, <1>3, <1>4, TypeCorrect, RunLeavesNoQuestion, PTL DEF Spec

-----------------------------------------------------------------------------
(* Claims, and the step that each of them comes from.                      *)

LEMMA ClaimsIn ==
  ASSUME Base
  PROVE  /\ IsRequest(file) => file.claim \in Claims
         /\ \A a \in Actors : /\ seen[a] # NULL => seen[a].claim \in Claims
                              /\ held[a] # NULL => held[a].claim \in Claims
BY ReadGood DEF Base, Types, Good, Claims

\* What happens is not undone, and no process starts.
LEMMA Grows ==
  ASSUME Base, [Next]_vars
  PROVE  /\ alive' \subseteq alive /\ answered \subseteq answered'
         /\ failed \subseteq failed' /\ followed \subseteq followed'
<1>1. ASSUME NEW a, StoreStep(a) PROVE alive' \subseteq alive /\ answered \subseteq answered'
                                 /\ failed \subseteq failed' /\ followed \subseteq followed'
  BY <1>1 DEF StoreStep, Get, Again, Open, FillExpired, Cancel, Cancelled, Decide, Decided, AfterCancel,
              Call, Finish, Update, LeaveGate, Resume
<1>2. ASSUME NEW u, UserStep(u) PROVE alive' \subseteq alive /\ answered \subseteq answered'
                                 /\ failed \subseteq failed' /\ followed \subseteq followed'
  BY <1>2 DEF UserStep, Find, Reread, ListPending, List, Claim, Claimed, ResumeRuns, ResumeFails,
              Release, Released, Call, Finish, Update, Resume
<1>3. CASE GateStep \/ StopGate
  BY <1>3 DEF GateStep, StopGate, Created, Wait, MarkWaiting, Marked, Poll, EndRun, Sweep, Swept,
              SweepPending, Call, Finish, Update, LeaveGate
<1>4. ASSUME NEW u, NEW c, Start(u, c) PROVE alive' \subseteq alive /\ answered \subseteq answered'
                                 /\ failed \subseteq failed' /\ followed \subseteq followed'
  BY <1>4 DEF Start, Call
<1>5. CASE Tick \/ Crash \/ UNCHANGED vars
  BY <1>5 DEF Tick, Crash, vars
<1> QED
  BY <1>1, <1>2, <1>3, <1>4, <1>5 DEF Next

\* An actor claims nothing but in claim_resume, and stops claiming only when
\* its resume ran or failed.
Keeps(a) ==
  /\ seen'[a] # NULL => seen'[a].claim \in Claims \union {NULL}
  /\ held'[a] # NULL => \/ held'[a].claim \in Claims \union {NULL}
                        \/ a \in Users /\ held'[a].claim = Process(a) /\ Claiming(a)'
  /\ a \in Users /\ Claiming(a) => Claiming(a)' \/ followed' # {} \/ failed' # {}
  /\ a \in Users /\ doing'[a] = "release" => doing[a] = "release" \/ failed' # {}

LEMMA KeepsGoes ==
  ASSUME Base, NEW a \in Actors, NEW p, NEW o, NEW s, NEW h, Goes(a, p, o, s, h),
         s # NULL => s.claim \in Claims \union {NULL},
         h # NULL => h.claim \in Claims \union {NULL},
         a \in Users => ~Claiming(a) \/ (o = "claim" /\ p \in Writing \union {"resuming"}),
         a \in Users => o # "release" \/ doing[a] = "release"
  PROVE  Keeps(a)
BY AloneGoes DEF Base, Keeps, Claiming

\* Between two operations nothing is kept.
LEMMA KeepsNothing ==
  ASSUME Base, NEW a \in Actors, NEW o, Call(a, o) \/ Finish(a) \/ (a = Gate /\ LeaveGate),
         a \in Users => ~Claiming(a) /\ o # "release"
  PROVE  Keeps(a)
<1>1. PICK q, x : Goes(a, q, x, NULL, NULL) /\ (x = o \/ x = NULL)
  BY CallGoes, FinishGoes, LeaveGoes
<1>2. NULL # "release"
  BY DEF UserOps
<1> QED
  BY <1>1, <1>2, KeepsGoes

\* The request an operation goes on to write, with another claim or none.
LEMMA KeepsUpdate ==
  ASSUME Base, NEW a \in Actors, NEW r, Update(a, r), at[a] = "act", r.claim \in Claims \union {NULL}
  PROVE  Keeps(a)
<1>1. Goes(a, "again", doing[a], NULL, r)
  BY UpdateGoes DEF Base
<1>2. ~Claiming(a)
  BY DEF Claiming, Writing
<1> QED
  BY <1>1, <1>2, KeepsGoes

LEMMA KeepsStore == ASSUME Base, NEW a \in Actors, StoreStep(a) PROVE Keeps(a)
<1>0. Types /\ (a # Gate => a \in Users)
  BY GateActs DEF Base
<1>1. CASE Get(a)
  <2>1. PICK s : /\ Goes(a, IF MustExpire(file) THEN "expire" ELSE "act", doing[a], s, held[a])
                 /\ s = IF ~IsRequest(file) THEN NULL ELSE IF MustExpire(file) THEN Expired(file) ELSE file
    BY <1>0, <1>1, GetGoes
  <2>2. s # NULL => s.claim \in Claims \union {NULL}
    BY <2>1, ReadGood, ClaimsIn
  <2>3. ~Claiming(a)
    BY <1>1 DEF Get, Claiming, Writing
  <2> QED
    BY <2>1, <2>2, <2>3, ClaimsIn, KeepsGoes
<1>2. CASE Again(a)
  <2>1. PICK s, h : /\ Goes(a, IF MustExpire(file) THEN "expire again" ELSE "write", doing[a], s, h)
                    /\ h.claim = held[a].claim /\ (s # NULL => s.claim = NULL)
    BY <1>2, AgainGoes
  <2>2. held[a] # NULL
    BY <1>2 DEF Again, Base, Locals, Local, Writing
  <2>3. ~Claiming(a) \/ doing[a] = "claim"
    BY DEF Claiming
  <2>4. (IF MustExpire(file) THEN "expire again" ELSE "write") \in Writing
    BY DEF Writing
  <2> QED
    BY <2>1, <2>2, <2>3, <2>4, ClaimsIn, KeepsGoes
<1>3. CASE Open(a) \/ FillExpired(a)
  <2>1. /\ doing' = doing /\ held' = held /\ seen'[a] \in {seen[a], NULL}
    BY <1>0, <1>3 DEF Open, FillExpired, Types
  <2>2. Claiming(a) => Claiming(a)'
    BY <1>0, <1>3, <2>1 DEF Open, FillExpired, Goto, Claiming, Writing, Types
  <2> QED
    BY <2>1, <2>2, ClaimsIn DEF Keeps
<1>4. ASSUME AfterCancel(a), doing[a] \in CancelOps PROVE Keeps(a)
  <2>1. (doing[a] = "cancel gate" => a = Gate) /\ ~Claiming(a)
    BY <1>4, GateActs DEF Base, Locals, Local, GateOps, UserOps, CancelOps, Claiming
  <2>2. CASE doing[a] = "cancel gate"
    BY <1>4, <2>1, <2>2, KeepsNothing DEF AfterCancel
  <2>3. CASE doing[a] = "cancel run"
    BY <1>4, <2>1, <2>3, KeepsNothing DEF AfterCancel
  <2>4. CASE doing[a] = "cancel finished"
    <3>1. Call(a, IF command[a] = Listing THEN "list" ELSE "decide")
      BY <1>4, <2>4 DEF AfterCancel
    <3> QED
      BY <2>1, <3>1, KeepsNothing
  <2> QED
    BY <1>4, <2>2, <2>3, <2>4 DEF CancelOps
<1>5. ASSUME at[a] = "act", seen[a] # NULL, NEW st, NEW d, NEW x,
             Update(a, [seen[a] EXCEPT !.status = st, !.decision = d])
             \/ Update(a, [seen[a] EXCEPT !.status = st, !.reason = x])
      PROVE  Keeps(a)
  <2>1. seen[a] \in Requests /\ seen[a].claim \in Claims
    BY <1>0, <1>5, ClaimsIn DEF Types
  <2>2. /\ [seen[a] EXCEPT !.status = st, !.decision = d].claim = seen[a].claim
        /\ [seen[a] EXCEPT !.status = st, !.reason = x].claim = seen[a].claim
    BY <2>1 DEF Requests
  <2> QED
    BY <1>5, <2>1, <2>2, KeepsUpdate
<1>6. CASE Cancel(a)
  BY <1>4, <1>5, <1>6 DEF Cancel, Pending
<1>7. CASE Cancelled(a)
  BY <1>4, <1>7 DEF Cancelled
<1>8. CASE Decide(a)
  <2>1. ~Claiming(a)
    BY <1>8 DEF Decide, AtAct, Claiming
  <2> QED
    BY <1>5, <1>8, <2>1, KeepsNothing DEF Decide, AtAct, Accepted
<1>9. CASE Decided(a)
  <2>1. doing[a] = "decide" /\ ~Claiming(a)
    BY <1>9 DEF Decided, Stored, Claiming
  <2>2. CASE a = Gate
    BY <1>9, <2>1, <2>2, KeepsNothing DEF Decided
  <2>3. CASE a # Gate /\ a \in Desktop
    <3>1. doing' = [doing EXCEPT ![a] = "reget"] /\ UNCHANGED <<seen, held>>
      BY <1>9, <2>3 DEF Decided
    <3>2. doing'[a] = "reget" /\ UNCHANGED <<seen, held>>
      BY <1>0, <3>1 DEF Types
    <3> QED
      BY <2>1, <3>2, ClaimsIn DEF Keeps
  <2>4. CASE a # Gate /\ a \notin Desktop
    BY <1>9, <2>1, <2>4, KeepsNothing DEF Decided, Resume
  <2> QED
    BY <2>2, <2>3, <2>4
<1> QED
  BY <1>1, <1>2, <1>3, <1>6, <1>7, <1>8, <1>9 DEF StoreStep

LEMMA KeepsUser == ASSUME Base, NEW u \in Users, UserStep(u) PROVE Keeps(u)
<1>0. Types /\ u \in Actors
  BY DEF Base, Actors
<1>1. ASSUME NEW r, Resume(u, r), ~Claiming(u) PROVE Keeps(u)
  BY <1>0, <1>1, KeepsNothing DEF Resume
<1>2. at[u] = "act" => ~Claiming(u)
  BY DEF Claiming, Writing
<1>3. CASE Find(u) \/ ListPending(u)
  <2>1. PICK o : (Call(u, o) \/ Finish(u)) /\ o # "release" /\ at[u] = "act"
    BY <1>3 DEF Find, ListPending, AtAct
  <2> QED
    BY <1>0, <1>2, <2>1, KeepsNothing
<1>4. CASE Reread(u) \/ List(u)
  BY <1>0, <1>1, <1>2, <1>4, KeepsNothing DEF Reread, List, AtAct
<1>5. CASE Claim(u)
  <2>0. at[u] = "act" /\ doing[u] = "claim"
    BY <1>5 DEF Claim, AtAct
  <2>1. CASE Finish(u)
    BY <1>0, <1>2, <2>0, <2>1, KeepsNothing
  <2>2. CASE seen[u] # NULL /\ Update(u, [seen[u] EXCEPT !.claim = Process(u)])
    <3> DEFINE r == [seen[u] EXCEPT !.claim = Process(u)]
    <3>1. seen[u] \in Requests
      BY <1>0, <2>2 DEF Types
    <3>2. r.claim = Process(u)
      BY <3>1 DEF Requests
    <3>3. Update(u, r)
      BY <2>2
    <3> HIDE DEF r
    <3>4. at'[u] = "again" /\ doing'[u] = "claim" /\ seen'[u] = NULL /\ held'[u] = r
      BY <1>0, <2>0, <3>3, UpdateGoes, AloneGoes
    <3> QED
      BY <2>0, <3>2, <3>4 DEF Keeps, Claiming, Writing
  <2> QED
    BY <1>5, <2>1, <2>2 DEF Claim
<1>6. CASE Claimed(u)
  <2>1. at'[u] = "resuming" /\ doing' = doing /\ seen' = seen /\ held' = held
    BY <1>0, <1>6 DEF Claimed, Goto, Types
  <2> QED
    BY <1>0, <2>1, ClaimsIn DEF Keeps, Claiming
<1>7. CASE ResumeRuns(u)
  <2>1. at'[u] = "done" /\ doing'[u] = NULL /\ seen'[u] = NULL /\ held'[u] = NULL
    BY <1>0, <1>7, FinishGoes, AloneGoes DEF ResumeRuns
  <2>2. followed' # {} /\ NULL # "release"
    BY <1>7 DEF ResumeRuns, UserOps
  <2> QED
    BY <2>1, <2>2 DEF Keeps
<1>8. CASE ResumeFails(u)
  <2>1. seen'[u] = NULL /\ held'[u] = NULL /\ failed' # {}
    BY <1>0, <1>8, CallGoes, AloneGoes DEF ResumeFails
  <2> QED
    BY <2>1 DEF Keeps
<1>9. CASE Release(u)
  <2>1. CASE Finish(u)
    BY <1>0, <1>2, <1>9, <2>1, KeepsNothing DEF Release, AtAct
  <2>2. CASE seen[u] # NULL /\ Update(u, [seen[u] EXCEPT !.claim = NULL])
    <3>1. seen[u] \in Requests
      BY <1>0, <2>2 DEF Types
    <3>2. [seen[u] EXCEPT !.claim = NULL].claim = NULL
      BY <3>1 DEF Requests
    <3> QED
      BY <1>0, <1>9, <2>2, <3>2, KeepsUpdate DEF Release, AtAct
  <2> QED
    BY <1>9, <2>1, <2>2 DEF Release
<1>10. CASE Released(u)
  <2>1. ~Claiming(u)
    BY <1>10 DEF Released, Stored, Claiming
  <2> QED
    BY <1>0, <1>10, <2>1, KeepsNothing DEF Released
<1> QED
  BY <1>3, <1>4, <1>5, <1>6, <1>7, <1>8, <1>9, <1>10 DEF UserStep

LEMMA KeepsGate == ASSUME Base, GateStep \/ StopGate PROVE Keeps(Gate)
<1>0. Types /\ Gate \in Actors /\ Gate \notin Users
  BY GateActs DEF Base
<1>1. ASSUME NEW o, Call(Gate, o) \/ Finish(Gate) \/ LeaveGate PROVE Keeps(Gate)
  BY <1>0, <1>1, KeepsNothing
<1>2. CASE Created \/ Poll
  <2>1. CASE Drop(Gate)
    <3>1. seen'[Gate] = NULL /\ held'[Gate] = NULL
      BY <1>0, <2>1 DEF Drop, Types
    <3> QED
      BY <1>0, <3>1 DEF Keeps
  <2> QED
    BY <1>1, <1>2, <2>1 DEF Created, Poll
<1>3. CASE Wait \/ Marked \/ Swept \/ SweepPending \/ EndRun \/ StopGate
  BY <1>1, <1>3 DEF Wait, Marked, Swept, SweepPending, EndRun, StopGate
<1>4. ASSUME at[Gate] = "act", seen[Gate] # NULL, NEW x,
             Update(Gate, [seen[Gate] EXCEPT !.waiter = x])
             \/ Update(Gate, [seen[Gate] EXCEPT !.reason = x])
      PROVE  Keeps(Gate)
  <2>1. seen[Gate] \in Requests /\ seen[Gate].claim \in Claims
    BY <1>0, <1>4, ClaimsIn DEF Types
  <2>2. /\ [seen[Gate] EXCEPT !.waiter = x].claim = seen[Gate].claim
        /\ [seen[Gate] EXCEPT !.reason = x].claim = seen[Gate].claim
    BY <2>1 DEF Requests
  <2> QED
    BY <1>0, <1>4, <2>1, <2>2, KeepsUpdate
<1>5. CASE MarkWaiting
  BY <1>1, <1>4, <1>5 DEF MarkWaiting, AtAct
<1>6. CASE Sweep
  BY <1>1, <1>4, <1>6 DEF Sweep, AtAct
<1> QED
  BY <1>2, <1>3, <1>5, <1>6 DEF GateStep

\* The claims after a step of one actor.
LEMMA ClaimsAfter ==
  ASSUME Base, Base', NEW a \in Actors, Alone(a), FileBy(a), Keeps(a), NEW c \in Claims', Live(c)'
  PROVE  c \in Claims \/ (a \in Users /\ c = Process(a) /\ Claiming(a)')
<1>1. c # NULL
  BY DEF Live
<1>2. PICK r \in Requests : /\ r = file' \/ \E b \in Actors : r = seen'[b] \/ r = held'[b]
                            /\ c = r.claim
  BY DEF Claims
<1>3. r \notin {NULL, Torn, Absent, Garbled}
  OBVIOUS
<1>4. CASE r = file'
  BY <1>2, <1>3, <1>4, ClaimsIn DEF FileBy, IsRequest
<1>5. CASE \E b \in Actors : r = seen'[b]
  BY <1>1, <1>2, <1>3, <1>5, ClaimsIn DEF Alone, Keeps
<1>6. CASE \E b \in Actors : r = held'[b]
  BY <1>1, <1>2, <1>3, <1>6, ClaimsIn DEF Alone, Keeps
<1> QED
  BY <1>2, <1>4, <1>5, <1>6

LEMMA ClaimsHeldBy ==
  ASSUME Base, Base', ClaimsHeld, NEW a \in Actors, Alone(a), FileBy(a), Keeps(a),
         alive' \subseteq alive, failed \subseteq failed', followed \subseteq followed'
  PROVE  ClaimsHeld'
<1>1. ASSUME followed' = {}, failed' = {}, NEW c \in Claims', Live(c)'
      PROVE  \E w \in Users : Process(w) = c /\ Claiming(w)'
  <2>1. followed = {} /\ failed = {}
    BY <1>1
  <2>2. CASE c \in Claims
    <3>1. Live(c)
      BY <1>1 DEF Live
    <3>2. PICK w \in Users : Process(w) = c /\ Claiming(w)
      BY <2>1, <2>2, <3>1 DEF ClaimsHeld
    <3>3. Claiming(w)'
      BY <1>1, <3>2 DEF Alone, Keeps, Claiming, Actors
    <3> QED
      BY <3>2, <3>3
  <2> QED
    BY <1>1, <2>2, ClaimsAfter
<1>2. ASSUME NEW u \in Users, doing'[u] = "release" PROVE failed' # {}
  BY <1>2 DEF ClaimsHeld, Alone, Keeps, Actors
<1> QED
  BY <1>1, <1>2 DEF ClaimsHeld

LEMMA ClaimsHeldNext == ASSUME Base, ClaimsHeld, [Next]_vars PROVE ClaimsHeld'
<1>0. /\ Base' /\ alive' \subseteq alive /\ failed \subseteq failed' /\ followed \subseteq followed'
      /\ Users \subseteq Actors
  BY BaseNext, Grows DEF Actors
<1>1. ASSUME NEW a \in Actors, StoreStep(a) PROVE ClaimsHeld'
  BY <1>0, <1>1, StoreAlone, KeepsStore, ClaimsHeldBy
<1>2. ASSUME NEW u \in Users, UserStep(u) PROVE ClaimsHeld'
  BY <1>0, <1>2, UserAlone, KeepsUser, ClaimsHeldBy
<1>3. CASE GateStep \/ StopGate
  BY <1>0, <1>3, GateAlone, GateActs, KeepsGate, ClaimsHeldBy
<1>4. ASSUME NEW u \in Users, NEW c \in Commands(u), Start(u, c) PROVE ClaimsHeld'
  <2> DEFINE o == IF c # Listing THEN "find" ELSE IF u \in Desktop THEN "list pending" ELSE "list"
  <2>1. Call(u, o) /\ o # "release"
    BY <1>4 DEF Start
  <2> HIDE DEF o
  <2>2. ~Claiming(u)
    BY <1>4, StartAlone DEF Claiming, Writing
  <2>3. Keeps(u) /\ Alone(u) /\ FileBy(u)
    BY <1>0, <1>4, <2>1, <2>2, KeepsNothing, StartAlone DEF FileBy
  <2> QED
    BY <1>0, <2>3, ClaimsHeldBy
<1>5. CASE Crash
  <2>1. ASSUME followed' = {}, failed' = {}, NEW c \in Claims', Live(c)'
        PROVE  \E w \in Users : Process(w) = c /\ Claiming(w)'
    <3>1. c \in Claims /\ c \in alive' /\ c # NULL
      <4>1. PICK r \in Requests : /\ r = file' \/ \E b \in Actors : r = seen'[b] \/ r = held'[b]
                                  /\ c = r.claim
        BY <2>1 DEF Claims
      <4>2. r # NULL
        OBVIOUS
      <4>3. r = file \/ \E b \in Actors : r = seen[b] \/ r = held[b]
        BY <1>5, <4>1, <4>2, CrashFacts
      <4> QED
        BY <2>1, <4>1, <4>3 DEF Claims, Live
    <3>2. PICK w \in Users : Process(w) = c /\ Claiming(w)
      BY <1>0, <2>1, <3>1 DEF ClaimsHeld, Live
    <3>3. at'[w] = at[w] /\ doing'[w] = doing[w]
      BY <1>0, <1>5, <3>1, <3>2, CrashFacts
    <3> QED
      BY <3>2, <3>3 DEF Claiming
  <2>2. ASSUME NEW u \in Users, doing'[u] = "release" PROVE failed' # {}
    <3>1. NULL # "release"
      BY DEF UserOps
    <3> QED
      BY <1>0, <1>5, <2>2, <3>1, CrashFacts DEF ClaimsHeld
  <2> QED
    BY <2>1, <2>2 DEF ClaimsHeld
<1>6. CASE Tick \/ UNCHANGED vars
  BY <1>6 DEF Tick, vars, ClaimsHeld, Claims, Live, Claiming
<1> QED
  BY <1>1, <1>2, <1>3, <1>4, <1>5, <1>6 DEF Next

-----------------------------------------------------------------------------
(* The answer is not lost, and somebody acts on it.                        *)

\* Once an answer has come the gate is over, and no request is waited for.
LEMMA GateIsOver ==
  ASSUME Base, ClaimsHeld, Unsettled
  PROVE  /\ at[Gate] \in {"done", "dead"} /\ kind = "toml" /\ Process(Gate) \notin alive
         /\ \A r : Good(command, r) => ~Live(r.waiter)
         /\ \A u \in Users : doing[u] # "release" /\ doing[u] \notin CancelOps
<1>1. at[Gate] \in {"done", "dead"} /\ kind = "toml" /\ Process(Gate) \notin alive
  BY DEF Base, Unsettled, Gone
<1>2. \A r : Good(command, r) => ~Live(r.waiter)
  BY <1>1 DEF Good, Live
<1>3. \A u \in Users : doing[u] # "release"
  BY DEF ClaimsHeld, Unsettled
<1>4. \A u \in Users : doing[u] \notin CancelOps
  <2>1. \A u \in Actors : doing[u] \in CancelOps => kind = "rattish"
    BY DEF Base, Locals, Local
  <2> QED
    BY <1>1, <2>1 DEF Actors
<1> QED
  BY <1>1, <1>2, <1>3, <1>4

\* An answered request that nobody waits for is taken up.
LEMMA ResumeClaims ==
  ASSUME Base, ClaimsHeld, Unsettled, NEW u \in Users, NEW r, Good(command, r), r.decision # NULL,
         Resume(u, r)
  PROVE  Driver(u)'
<1>1. Types /\ u \in Actors /\ r # NULL
  BY DEF Base, Actors, Good
<1>2. Call(u, "claim")
  BY <1>1, GateIsOver DEF Resume
<1> QED
  BY <1>1, <1>2, CallGoes, AloneGoes DEF Driver

\* A user who fills the file writes a decision, and leaves the request timed
\* out or goes on with it; or the file can no longer be read.
LEMMA Fills ==
  ASSUME Base, ClaimsHeld, Unsettled, alive' \subseteq alive, NEW u \in Users,
         StoreStep(u) \/ UserStep(u), at[u] \in {"fill expired", "fill again", "fill"}
  PROVE  \/ file' = Garbled
         \/ IsRequest(file') /\ file'.decision # NULL /\ (TimedOut' \/ Driver(u)')
<1> SUFFICES ASSUME file' # Garbled
             PROVE  IsRequest(file') /\ file'.decision # NULL /\ (TimedOut' \/ Driver(u)')
  OBVIOUS
<1>0. Types /\ u \in Actors /\ u # Gate
  BY GateActs DEF Base, Actors
<1>1. CASE FillExpired(u)
  <2>1. /\ file' = seen[u] /\ Good(command, seen[u]) /\ seen[u].claim = NULL
        /\ seen[u].decision = ByTimeout /\ seen[u].decision # NULL
    BY <1>0, <1>1, ExpiredFacts DEF FillExpired, Filled, Expiring
  <2>2. ~Live(file'.waiter) /\ IsRequest(file')
    BY <2>1, GateIsOver DEF Good, IsRequest
  <2>3. ByTimeout' = ByTimeout
    BY DEF ByTimeout
  <2> QED
    BY <2>1, <2>2, <2>3 DEF TimedOut, Live, IsRequest
<1>2. ASSUME NEW op \in {"decide", "claim"}, Stored(u, op)
      PROVE  IsRequest(file') /\ file'.decision # NULL /\ Good(command, held[u]) /\ held[u].decision # NULL
  <2>1. /\ Good(command, held[u]) /\ file' = held[u] /\ held[u].decision # NULL
    BY <1>0, <1>2, StoredFacts DEF Local, Writing
  <2> QED
    BY <2>1 DEF Good, IsRequest
<1>3. CASE Decided(u)
  <2>1. IsRequest(file') /\ file'.decision # NULL /\ Good(command, held[u]) /\ held[u].decision # NULL
    BY <1>2, <1>3 DEF Decided
  <2>2. CASE u \in Desktop
    <3>1. doing'[u] = "reget" /\ at'[u] = "get"
      BY <1>0, <1>3, <2>2 DEF Decided, Goto, Types
    <3> QED
      BY <2>1, <3>1 DEF Driver
  <2>3. CASE u \notin Desktop
    BY <1>0, <1>3, <2>1, <2>3, ResumeClaims DEF Decided
  <2> QED
    BY <2>1, <2>2, <2>3
<1>4. CASE Claimed(u)
  <2>1. at'[u] = "resuming"
    BY <1>0, <1>4 DEF Claimed, Goto, Types
  <2> QED
    BY <1>2, <1>4, <2>1 DEF Claimed, Driver
<1>5. FillExpired(u) \/ Decided(u) \/ Claimed(u)
  <2>1. doing[u] # "release" /\ doing[u] \notin CancelOps
    BY GateIsOver
  <2> QED
    BY <2>1 DEF StoreStep, UserStep, Get, Again, Open, Cancel, Cancelled, Decide, Find, Reread, ListPending,
         List, Claim, ResumeRuns, ResumeFails, Release, Released, AtAct, Stored
<1> QED
  BY <1>1, <1>3, <1>4, <1>5

\* A user who opens the file is to fill it.
LEMMA Opens ==
  ASSUME Base, NEW u \in Users, Open(u)
  PROVE  Tearing(u)' /\ Driver(u)'
BY DEF Base, Types, Actors, Open, Goto, Tearing, Driver, Writing

\* The other steps of a user leave the file alone.
LEMMA Neither ==
  ASSUME Base, NEW u \in Users, StoreStep(u) \/ UserStep(u), ~Open(u),
         at[u] \notin {"fill expired", "fill again", "fill"}
  PROVE  file' = file
BY DEF StoreStep, UserStep, Get, Again, Open, FillExpired, Cancel, Cancelled, Decide, Decided, Find,
       Reread, ListPending, List, Claim, Claimed, ResumeRuns, ResumeFails, Release, Released,
       AtAct, Stored

\* A decision that is to be written stays so; an accepted answer is one.
LEMMA AgainDrives ==
  ASSUME Base, NEW u \in Users, Again(u)
  PROVE  /\ at'[u] \in Writing /\ doing' = doing
BY DEF Base, Types, Actors, Again, Goto, Writing

\* Who was going to write or to go on is, when another user takes a step.
LEMMA OthersKept ==
  ASSUME NEW u, Alone(u), NEW w \in Users, w # u, alive' \subseteq alive
  PROVE  /\ Driver(w) => Driver(w)'
         /\ Committed(w) \/ Tearing(w) => Committed(w)' \/ Tearing(w)'
<1>1. at'[w] = at[w] /\ doing'[w] = doing[w] /\ seen'[w] = seen[w]
  BY DEF Alone, Actors
<1>2. ~Live(seen[w].claim) => ~Live(seen[w].claim)'
  BY <1>1 DEF Live
<1> QED
  BY <1>1, <1>2 DEF Driver, Committed, Tearing

LEMMA NotLostBy ==
  ASSUME Base, ClaimsHeld, Unsettled, NotLost, alive' \subseteq alive, NEW u \in Users,
         StoreStep(u) \/ UserStep(u), Alone(u)
  PROVE  NotLost'
<1>1. CASE at[u] \in {"fill expired", "fill again", "fill"}
  BY <1>1, Fills DEF NotLost, IsRequest
<1>2. CASE Open(u)
  BY <1>2, Opens DEF NotLost
<1>3. CASE ~Open(u) /\ at[u] \notin {"fill expired", "fill again", "fill"}
  <2>1. file' = file
    BY <1>3, Neither
  <2>2. CASE IsRequest(file) /\ file.decision # NULL
    BY <2>1, <2>2 DEF NotLost, IsRequest
  <2>3. ASSUME NEW w \in Users, Committed(w) \/ Tearing(w) PROVE Committed(w)' \/ Tearing(w)'
    <3>1. CASE w # u
      BY <2>3, <3>1, OthersKept
    <3>2. CASE w = u
      <4>1. doing[u] = "decide" /\ at[u] \in Writing
        BY <1>3, <2>3, <3>2 DEF Tearing, Committed
      <4>2. Again(u)
        BY <1>3, <4>1 DEF Writing, StoreStep, UserStep, Get, Again, Open, FillExpired, Cancel, Cancelled,
           Decide, Decided, Find, Reread, ListPending, List, Claim, Claimed, ResumeRuns, ResumeFails,
           Release, Released, AtAct, Stored
      <4> QED
        BY <3>2, <4>1, <4>2, AgainDrives DEF Committed
    <3> QED
      BY <3>1, <3>2
  <2> QED
    BY <2>1, <2>2, <2>3 DEF NotLost
<1> QED
  BY <1>1, <1>2, <1>3

\* A user who has read and does not go on leaves it to another.
LEMMA Leaves ==
  ASSUME Base, ClaimsHeld, Unsettled, NotLost, alive' \subseteq alive, NEW u \in Users, Get(u),
         doing[u] \in {"reget", "claim"}, Alone(u)
  PROVE  file' = Garbled \/ \E w \in Users : Driver(w)'
<1>0. Types /\ u \in Actors /\ file' = file
  BY DEF Base, Actors, Get
<1>1. PICK s : /\ Goes(u, IF MustExpire(file) THEN "expire" ELSE "act", doing[u], s, held[u])
               /\ s = IF ~IsRequest(file) THEN NULL ELSE IF MustExpire(file) THEN Expired(file) ELSE file
  BY <1>0, GetGoes
<1>2. /\ at'[u] = IF MustExpire(file) THEN "expire" ELSE "act"
      /\ doing'[u] = doing[u] /\ seen'[u] = s /\ at[u] = "get"
  BY <1>0, <1>1, AloneGoes DEF Get
<1>3. ASSUME NEW w \in Users, Committed(w) \/ Tearing(w) \/ Claiming(w) PROVE Driver(w)'
  <2>1. Driver(w)
    BY <1>3 DEF Committed, Tearing, Claiming, Driver, Writing
  <2>2. w # u
    BY <1>2, <1>3 DEF Committed, Tearing, Claiming, Writing
  <2> QED
    BY <2>1, <2>2, OthersKept
<1>4. CASE MustExpire(file)
  BY <1>2, <1>4 DEF Driver
<1>5. CASE ~(IsRequest(file) /\ file.decision # NULL)
  BY <1>0, <1>3, <1>5 DEF NotLost
<1>6. CASE IsRequest(file) /\ file.decision # NULL /\ ~MustExpire(file)
  <2>1. s = file /\ s # NULL
    BY <1>1, <1>6, ReadGood DEF Good
  <2>2. CASE doing[u] = "claim" /\ Live(file.claim)
    <3>1. \E w \in Users : Claiming(w)
      BY <1>6, <2>2, ClaimsIn DEF ClaimsHeld, Unsettled
    <3> QED
      BY <1>3, <3>1
  <2>3. CASE doing[u] = "claim" /\ ~Live(file.claim)
    <3>1. ~Live(s.claim)'
      BY <2>1, <2>3 DEF Live
    <3> QED
      BY <1>2, <1>6, <2>1, <2>3, <3>1 DEF Driver, Live
  <2>4. CASE doing[u] = "reget"
    BY <1>2, <1>6, <2>1, <2>4 DEF Driver
  <2> QED
    BY <2>2, <2>3, <2>4
<1> QED
  BY <1>4, <1>5, <1>6

LEMMA DrivenBy ==
  ASSUME Base, ClaimsHeld, Unsettled, Unsettled', NotLost, Driven, alive' \subseteq alive, NEW u \in Users,
         StoreStep(u) \/ UserStep(u), Alone(u)
  PROVE  Driven'
<1>0. Types /\ u \in Actors
  BY DEF Base, Actors
<1>1. CASE at[u] \in {"fill expired", "fill again", "fill"}
  BY <1>1, Fills DEF Driven
<1>2. CASE Open(u)
  BY <1>2, Opens DEF Driven
<1>3. CASE ~Open(u) /\ at[u] \notin {"fill expired", "fill again", "fill"}
  <2>1. file' = file
    BY <1>3, Neither
  <2>2. CASE TimedOut
    <3>1. ByTimeout' = ByTimeout
      BY DEF ByTimeout
    <3> QED
      BY <2>1, <2>2, <3>1 DEF TimedOut, Driven, Live, IsRequest
  <2>3. ASSUME NEW w \in Users, Driver(w), w # u PROVE Driven'
    BY <2>3, OthersKept DEF Driven
  <2>4. CASE Driver(u)
    <3>1. at[u] # "resuming" \/ (~ResumeRuns(u) /\ ~ResumeFails(u))
      BY DEF Unsettled, ResumeRuns, ResumeFails
    <3>2. CASE at[u] \in Writing \union {"resuming", "expire", "fill expired"}
      <4>1. Again(u)
        BY <1>3, <3>1, <3>2 DEF Writing, StoreStep, UserStep, Get, Again, Open, FillExpired, Cancel,
           Cancelled, Decide, Decided, Find, Reread, ListPending, List, Claim, Claimed, ResumeRuns,
           ResumeFails, Release, Released, AtAct, Stored
      <4> QED
        BY <4>1, AgainDrives DEF Driven, Driver
    <3>3. CASE doing[u] \in {"reget", "claim"} /\ at[u] = "get"
      <4>1. Get(u)
        BY <3>3 DEF StoreStep, UserStep, Again, Open, FillExpired, Cancel, Cancelled, Decide,
           Decided, Find, Reread, ListPending, List, Claim, Claimed, ResumeRuns, ResumeFails, Release,
           Released, AtAct, Stored
      <4> QED
        BY <3>3, <4>1, Leaves DEF Driven
    <3>4. CASE doing[u] = "reget" /\ at[u] = "act" /\ (seen[u] # NULL => seen[u].decision # NULL)
      <4>1. Reread(u)
        BY <3>4 DEF StoreStep, UserStep, Get, Again, Open, FillExpired, Cancel, Cancelled, Decide,
           Decided, Find, ListPending, List, Claim, Claimed, ResumeRuns, ResumeFails, Release,
           Released, AtAct, Stored, CancelOps
      <4>2. PICK r : Resume(u, r) /\ r = IF seen[u] = NULL THEN held[u] ELSE seen[u]
        BY <4>1 DEF Reread
      <4>3. Good(command, r) /\ r.decision # NULL
        BY <1>0, <3>4, <4>2 DEF Base, Locals, Local
      <4> QED
        BY <4>2, <4>3, ResumeClaims DEF Driven
    <3>5. CASE doing[u] = "claim" /\ at[u] = "act" /\ seen[u] # NULL /\ seen[u].decision # NULL
               /\ ~Live(seen[u].claim)
      <4>1. Claim(u)
        BY <3>5 DEF StoreStep, UserStep, Get, Again, Open, FillExpired, Cancel, Cancelled, Decide,
           Decided, Find, Reread, ListPending, List, Claimed, ResumeRuns, ResumeFails, Release,
           Released, AtAct, Stored, CancelOps
      <4>2. PICK r : Update(u, r)
        BY <3>5, <4>1 DEF Claim
      <4>3. at'[u] = "again"
        BY <1>0, <4>2, UpdateGoes, AloneGoes
      <4> QED
        BY <4>3 DEF Driven, Driver, Writing
    <3> QED
      BY <2>4, <3>2, <3>3, <3>4, <3>5 DEF Driver
  <2> QED
    BY <2>1, <2>2, <2>3, <2>4 DEF Driven
<1> QED
  BY <1>1, <1>2, <1>3

\* The first answer: whoever gave it is to write it.
LEMMA FirstAnswer ==
  ASSUME Base, [Next]_vars, answered = {}, answered' # {}
  PROVE  NotLost' /\ Driven'
<1>1. PICK a \in Actors : Decide(a) /\ Accepted(a, seen[a]) /\ Process(Gate) \notin alive
  <2>1. ASSUME NEW a \in Actors, StoreStep(a)
        PROVE  Decide(a) /\ Accepted(a, seen[a]) /\ Process(Gate) \notin alive
    BY <2>1 DEF StoreStep, Get, Again, Open, FillExpired, Cancel, Cancelled, Decide, Decided
  <2>2. ASSUME NEW u, UserStep(u) PROVE FALSE
    BY <2>2 DEF UserStep, Find, Reread, ListPending, List, Claim, Claimed, ResumeRuns, ResumeFails,
                Release, Released
  <2>3. ~GateStep /\ ~StopGate
    BY DEF GateStep, StopGate, Created, Wait, MarkWaiting, Marked, Poll, EndRun, Sweep, Swept, SweepPending
  <2>4. ~Tick /\ ~Crash /\ ~UNCHANGED vars /\ \A u, c : ~Start(u, c)
    BY DEF Tick, Crash, vars, Start
  <2> QED
    BY <2>1, <2>2, <2>3, <2>4 DEF Next
<1>2. a \in Users /\ at[a] = "act" /\ doing[a] = "decide"
  BY <1>1, GateActs DEF Decide, AtAct, Base, Gone
<1>3. PICK r : Update(a, r)
  BY <1>1 DEF Decide
<1>4. at'[a] = "again" /\ doing'[a] = "decide"
  BY <1>2, <1>3, UpdateGoes, AloneGoes DEF Base
<1>5. Committed(a)' /\ Driver(a)'
  BY <1>4 DEF Committed, Driver, Writing
<1> QED
  BY <1>2, <1>5 DEF NotLost, Driven

Taken == ClaimsHeld /\ NotLost /\ Driven

LEMMA TakenNext == ASSUME Base, Taken, [Next]_vars PROVE Taken'
<1>0. /\ ClaimsHeld' /\ ClaimsHeld /\ NotLost /\ Driven
      /\ alive' \subseteq alive /\ answered \subseteq answered'
      /\ failed \subseteq failed' /\ followed \subseteq followed'
  BY ClaimsHeldNext, Grows DEF Taken
<1> SUFFICES ASSUME Unsettled' PROVE NotLost' /\ Driven'
  BY <1>0 DEF Taken, NotLost, Driven
<1>1. CASE answered = {}
  BY <1>1, FirstAnswer DEF Unsettled
<1>2. CASE answered # {}
  <2>0. Unsettled
    BY <1>0, <1>2 DEF Unsettled
  <2>1. at[Gate] \in {"done", "dead"} /\ Process(Gate) \notin alive
    BY <1>0, <2>0, GateIsOver
  <2>2. ~StoreStep(Gate) /\ ~GateStep /\ ~StopGate
    BY <2>1 DEF StoreStep, GateStep, StopGate, Get, Again, Open, FillExpired, Cancel, Cancelled,
         Decide, Decided, Created, Wait, MarkWaiting, Marked, Poll, EndRun, Sweep, Swept,
         SweepPending, AtAct, Stored
  <2>3. ~Crash
    BY <2>1 DEF Crash
  <2>4. ASSUME NEW u \in Users, StoreStep(u) \/ UserStep(u) PROVE NotLost' /\ Driven'
    <3>1. Alone(u)
      BY <2>4, StoreAlone, UserAlone DEF Actors
    <3> QED
      BY <1>0, <2>0, <2>4, <3>1, NotLostBy, DrivenBy
  <2>5. ASSUME file' = file, alive' = alive, NEW u, Alone(u),
               \A w \in Users : Driver(w) \/ Committed(w) \/ Tearing(w) => w # u
        PROVE  NotLost' /\ Driven'
    <3>1. ByTimeout' = ByTimeout
      BY DEF ByTimeout
    <3>2. TimedOut => TimedOut'
      BY <2>5, <3>1 DEF TimedOut, IsRequest, Live
    <3>3. NotLost'
      BY <1>0, <2>0, <2>5, OthersKept DEF NotLost, IsRequest
    <3> QED
      BY <1>0, <2>0, <2>5, <3>2, <3>3, OthersKept DEF Driven
  <2>6. ASSUME NEW u \in Users, NEW c \in Commands(u), Start(u, c) PROVE NotLost' /\ Driven'
    <3>1. Alone(u) /\ file' = file /\ alive' = alive /\ at[u] = "idle"
      BY <2>6, StartAlone
    <3>2. ~Driver(u) /\ ~Committed(u) /\ ~Tearing(u)
      BY <3>1 DEF Driver, Committed, Tearing, Writing
    <3> QED
      BY <2>5, <3>1, <3>2
  <2>7. CASE Tick \/ UNCHANGED vars
    <3>1. UNCHANGED <<file, at, doing, seen, held, alive>>
      BY <2>7 DEF Tick, vars
    <3>2. (NotLost' /\ Driven')
      BY <1>0, <2>0, <3>1 DEF NotLost, Driven, TimedOut, IsRequest, Live, ByTimeout, Driver, Committed, Tearing
    <3> QED
      BY <3>2
  <2> QED
    BY <2>2, <2>3, <2>4, <2>6, <2>7, GateActs DEF Next
<1> QED
  BY <1>1, <1>2

LEMMA TakenInit == ASSUME Init PROVE Taken
<1>1. answered = {} /\ \A u \in Users : doing[u] = NULL
  BY GateActs DEF Init, Actors
<1>2. \A c \in Claims : c = NULL
  <2> SUFFICES ASSUME NEW c \in Claims PROVE c = NULL
    OBVIOUS
  <2>1. PICK r \in Requests : /\ r = file \/ \E b \in Actors : r = seen[b] \/ r = held[b]
                              /\ c = r.claim
    BY DEF Claims
  <2>2. r = Fresh
    BY <2>1 DEF Init
  <2> QED
    BY <2>1, <2>2 DEF Fresh, Request
<1>3. NULL # "release"
  BY DEF UserOps
<1> QED
  BY <1>1, <1>2, <1>3 DEF Taken, ClaimsHeld, NotLost, Driven, Unsettled, Live

\* The answer to a TOML gate whose process has gone takes the run up again,
\* whichever commands ran beside it and however the reads and writes of the
\* request mixed with its own: or the timeout overtook it, or two overlapping
\* writes left a request file that nobody can read.
THEOREM AnswerTakenUp == Spec => []AnswerResumes
<1>1. Init => Base /\ Taken
  BY BaseInit, TakenInit
<1>2. Base /\ Taken /\ [Next]_vars => (Base /\ Taken)'
  BY BaseNext, TakenNext
<1>3. Base /\ Taken => AnswerResumes
  <2> SUFFICES ASSUME Base, Taken, answered # {}, \A v \in Users : at[v] \in {"idle", "done"},
                      followed = {}, failed = {}
               PROVE  file = Garbled \/ TimedOut
    BY DEF AnswerResumes, TimedOut
  <2>1. \A w \in Users : ~Driver(w)
    BY DEF Driver, Writing
  <2> QED
    BY <2>1 DEF Taken, Driven, Unsettled
<1> QED
  BY <1>1, <1>2, <1>3, PTL DEF Spec
=============================================================================
