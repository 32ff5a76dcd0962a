------------------------------ MODULE Approvals ------------------------------
(* One approval gate of a run and the request file it shares with the      *)
(* people who answer it: the store of core/approvals.py, the gates of      *)
(* core/executor.py (TOML) and rattish/runtime.py, the sweep of a finished *)
(* Rattish run, and the approve, reject and list commands of the command   *)
(* line and of the desktop API, with the resume that follows an answer     *)
(* once the gate's process is gone.                                        *)
(*                                                                         *)
(* No lock guards the file.  Every operation of the store is a read, which *)
(* may itself expire the request and write it, then create_or_update: a    *)
(* second read and a write_text, which first empties the file.  Each of    *)
(* these is a step here, so that the operations of two processes mix as    *)
(* they do on disk; a reader that meets the empty file gets no request.    *)
(* Two writers that have both emptied the file each write from its start,  *)
(* and a shorter text leaves the tail of a longer one behind it: no reader *)
(* gets a request from such a file either, and no operation mends it.      *)
EXTENDS Naturals, FiniteSets

CONSTANTS
  Gate,             \* the actor that runs the approval gate
  Users,            \* actors that each issue one command
  Desktop,          \* the actors inside the desktop server's process
  Approvers,        \* the identities the gate accepts, {} for everyone
  Answers,          \* the answers each user may give: a decision, and by whom
  Timed,            \* whether the gate has a timeout
  TimeoutDecision,  \* what the timeout counts as
  Absent, Torn,     \* the file before it is created, and while it is written
  Garbled,          \* the file when two writes have left parts of both
  NULL

Actors == {Gate} \union Users

(* The process an actor runs in, whose pid the request records. *)
Server == "server"

Process(a) == IF a \in Desktop THEN Server ELSE a

Processes == {Process(a) : a \in Actors}

(* A command: an answer, or the listing of requests. *)
Listing == [value |-> "list", by |-> NULL]

Commands(u) == Answers[u] \union {Listing}

Decisions == {"approved", "rejected", "timeout"}

ASSUME ActorAssumption ==
  /\ Gate \notin Users /\ Server \notin Actors /\ NULL \notin Actors \union {Server}
  /\ Desktop \subseteq Actors
  /\ Timed \in BOOLEAN /\ TimeoutDecision \in {"rejected", "timeout"}

VARIABLES
  kind,      \* the gate is a node of a "toml" or a "rattish" workflow
  clock,     \* "early", "due" by the wall clock, "late" for the gate's own deadline
  file,      \* the request on disk, Absent, Torn or Garbled
  at,        \* the step each actor is at
  doing,     \* the store operation each actor performs
  seen,      \* what the last read of each actor returned
  held,      \* the request object each actor writes
  command,   \* the command of each user
  alive,     \* the processes that run
  answered,  \* users who answered after the gate's process had gone
  failed,    \* users whose resume failed
  followed   \* the times the run went on past the gate: by whom, as what

vars == <<kind, clock, file, at, doing, seen, held, command, alive, answered, failed,
          followed>>

Request(s, d, w, c, r) == [status |-> s, decision |-> d, waiter |-> w, claim |-> c, reason |-> r]

Fresh == Request("pending", NULL, NULL, NULL, NULL)

IsRequest(f) == f \notin {Absent, Torn, Garbled}

Pending(r) == r # NULL /\ r.status = "pending"

(* A decided_by of the gates themselves: timeouts carry it. *)
Gofer == "gofer"
GateName == IF kind = "toml" THEN Gofer ELSE "raticode"

ByTimeout == [value |-> TimeoutDecision, by |-> Gofer]

(* _expire_if_needed: an undecided request past its time is decided. *)
Expired(r) == [r EXCEPT !.status = "decided", !.decision = ByTimeout]

MustExpire(f) == IsRequest(f) /\ f.status = "pending" /\ Timed /\ clock # "early"

(* _pid_is_live, _approval_waiter_is_live *)
Live(p) == p # NULL /\ p \in alive

(* A Rattish run is over once its record says so or its process is gone. *)
RunOver == kind = "rattish" /\ (at[Gate] = "done" \/ Process(Gate) \notin alive)

Init ==
  /\ kind \in {"toml", "rattish"}
  /\ clock = "early"
  /\ file = Absent
  /\ at = [a \in Actors |-> IF a = Gate THEN "again" ELSE "idle"]
  /\ doing = [a \in Actors |-> IF a = Gate THEN "create" ELSE NULL]
  /\ seen = [a \in Actors |-> NULL]
  /\ held = [a \in Actors |-> IF a = Gate THEN Fresh ELSE NULL]
  /\ command = [u \in Users |-> NULL]
  /\ alive = Processes
  /\ answered = {} /\ failed = {} /\ followed = {}

------------------------------------------------------------------------------
(* The steps of an actor between two store operations. *)

Goto(a, step) == at' = [at EXCEPT ![a] = step]

(* A call returns: what it read and wrote goes out of scope. *)
Drop(a) ==
  /\ seen' = [seen EXCEPT ![a] = NULL]
  /\ held' = [held EXCEPT ![a] = NULL]

(* Performs another operation of the store, from its first read. *)
Call(a, op) ==
  /\ doing' = [doing EXCEPT ![a] = op]
  /\ Goto(a, "get") /\ Drop(a)
  /\ UNCHANGED alive

(* The command or the run is over; the process of a command line exits. *)
Finish(a) ==
  /\ doing' = [doing EXCEPT ![a] = NULL]
  /\ Goto(a, "done") /\ Drop(a)
  /\ alive' = alive \ ({Process(a)} \ {Server})

(* Hands a changed request to create_or_update. *)
Update(a, r) ==
  /\ held' = [held EXCEPT ![a] = r]
  /\ seen' = [seen EXCEPT ![a] = NULL]
  /\ Goto(a, "again")
  /\ UNCHANGED <<doing, alive>>

(* The gate's node is over: the rest of the run, and its sweep, follow. *)
LeaveGate ==
  /\ doing' = [doing EXCEPT ![Gate] = NULL]
  /\ Goto(Gate, "after") /\ Drop(Gate)
  /\ UNCHANGED alive

(* Mutant of Resume: every recorded waiter passes for a living one. *)
ResumeUnwaited(a, r) ==
  IF r # NULL /\ r.decision # NULL /\ r.waiter = NULL /\ kind = "toml"
    THEN Call(a, "claim")
    ELSE Finish(a)

(* _resume_decided_approval: only an answered request whose waiter is gone *)
(* is taken up again, and only that of a TOML workflow.                    *)
Resume(a, r) ==
  IF r # NULL /\ r.decision # NULL /\ ~Live(r.waiter) /\ kind = "toml"
    THEN Call(a, "claim")
    ELSE Finish(a)

------------------------------------------------------------------------------
(* Reads and writes of the file. *)

(* get and list_requests: an unreadable file is no request. *)
Get(a) ==
  /\ at[a] = "get"
  /\ LET r == IF ~IsRequest(file) THEN NULL ELSE IF MustExpire(file) THEN Expired(file) ELSE file
     IN seen' = [seen EXCEPT ![a] = r]
  /\ Goto(a, IF MustExpire(file) THEN "expire" ELSE "act")
  /\ UNCHANGED <<kind, clock, file, doing, held, command, alive, answered, failed, followed>>

(* create_or_update reads the request again and keeps a decision it finds. *)
Again(a) ==
  /\ at[a] = "again"
  /\ LET r == IF ~IsRequest(file) THEN NULL ELSE IF MustExpire(file) THEN Expired(file) ELSE file
     IN /\ seen' = [seen EXCEPT ![a] = IF MustExpire(file) THEN r ELSE NULL]
        /\ held' = IF r # NULL /\ r.decision # NULL
                     THEN [held EXCEPT ![a].decision = r.decision, ![a].status = "decided"]
                     ELSE held
  /\ Goto(a, IF MustExpire(file) THEN "expire again" ELSE "write")
  /\ UNCHANGED <<kind, clock, file, doing, command, alive, answered, failed, followed>>

(* write_text opens the file, which empties it. *)
Open(a) ==
  /\ at[a] \in {"expire", "expire again", "write"}
  /\ file' = Torn
  /\ Goto(a, CASE at[a] = "expire" -> "fill expired"
               [] at[a] = "expire again" -> "fill again"
               [] OTHER -> "fill")
  /\ UNCHANGED <<kind, clock, doing, seen, held, command, alive, answered, failed, followed>>

(* What the file may be once a writer has filled it with r: over the text  *)
(* of another who had opened it too, parts of both may be left.            *)
Filled(r) == IF file = Torn THEN {r} ELSE {r, Garbled}

(* write_text fills it with what was read, now expired. *)
FillExpired(a) ==
  /\ at[a] \in {"fill expired", "fill again"}
  /\ file' \in Filled(seen[a])
  /\ seen' = IF at[a] = "fill again" THEN [seen EXCEPT ![a] = NULL] ELSE seen
  /\ Goto(a, IF at[a] = "fill expired" THEN "act" ELSE "write")
  /\ UNCHANGED <<kind, clock, doing, held, command, alive, answered, failed, followed>>

------------------------------------------------------------------------------
(* The gate. *)

AtAct(a, op) == at[a] = "act" /\ doing[a] = op

(* The write that ends an operation; its caller goes on. *)
Stored(a, op) == at[a] = "fill" /\ doing[a] = op /\ file' \in Filled(held[a])

(* The request is on disk; the notification is sent before the wait. *)
Created ==
  /\ Stored(Gate, "create")
  /\ Goto(Gate, "notify") /\ Drop(Gate)
  /\ UNCHANGED <<kind, clock, doing, command, alive, answered, failed, followed>>

(* wait_for_decision begins a round, first or after its sleep. *)
Wait ==
  /\ at[Gate] \in {"notify", "sleep"}
  /\ Call(Gate, "mark")
  /\ UNCHANGED <<kind, clock, file, command, answered, failed, followed>>

(* mark_waiting *)
MarkWaiting ==
  /\ AtAct(Gate, "mark")
  /\ IF seen[Gate] = NULL
       THEN Call(Gate, "poll")
       ELSE Update(Gate, [seen[Gate] EXCEPT !.waiter = Process(Gate)])
  /\ UNCHANGED <<kind, clock, file, command, answered, failed, followed>>

Marked ==
  /\ Stored(Gate, "mark")
  /\ Call(Gate, "poll")
  /\ UNCHANGED <<kind, clock, command, answered, failed, followed>>

(* Mutant of Poll: the wait has no deadline of its own. *)
PollForAnswer ==
  /\ AtAct(Gate, "poll")
  /\ IF seen[Gate] # NULL /\ seen[Gate].decision # NULL
       THEN /\ followed' = followed \union {[by |-> Gate, decision |-> seen[Gate].decision.value]}
            /\ LeaveGate
       ELSE Goto(Gate, "sleep") /\ Drop(Gate) /\ UNCHANGED <<doing, alive, followed>>
  /\ UNCHANGED <<kind, clock, file, command, answered, failed>>

(* wait_for_decision: an answer ends the wait, and so does the deadline. *)
Poll ==
  /\ AtAct(Gate, "poll")
  /\ IF seen[Gate] # NULL /\ seen[Gate].decision # NULL
       THEN /\ followed' = followed \union {[by |-> Gate, decision |-> seen[Gate].decision.value]}
            /\ LeaveGate
       ELSE /\ IF Timed /\ clock = "late"
                 THEN Call(Gate, "decide")
                 ELSE Goto(Gate, "sleep") /\ Drop(Gate) /\ UNCHANGED <<doing, alive>>
            /\ UNCHANGED followed
  /\ UNCHANGED <<kind, clock, file, command, answered, failed>>

(* The run is stopped while the gate awaits: a waiting Rattish gate        *)
(* cancels its request, a TOML gate leaves it to be answered later.        *)
StopGate ==
  /\ at[Gate] \in {"notify", "sleep"}
  /\ IF kind = "rattish" /\ at[Gate] = "sleep" THEN Call(Gate, "cancel gate") ELSE LeaveGate
  /\ UNCHANGED <<kind, clock, file, command, answered, failed, followed>>

(* Mutant of EndRun: the gate's own cancel is taken to be enough. *)
EndRunUnswept ==
  /\ at[Gate] = "after"
  /\ Finish(Gate)
  /\ UNCHANGED <<kind, clock, file, command, answered, failed, followed>>

(* The run ends: a Rattish run first closes what is left of its requests. *)
EndRun ==
  /\ at[Gate] = "after"
  /\ IF kind = "rattish" THEN Call(Gate, "sweep") ELSE Finish(Gate)
  /\ UNCHANGED <<kind, clock, file, command, answered, failed, followed>>

(* cancel_pending_for_run: the gate's own cancellation gets the reason of  *)
(* the run, and a request still pending is cancelled.                      *)
Sweep ==
  /\ AtAct(Gate, "sweep")
  /\ IF seen[Gate] # NULL /\ seen[Gate].status = "cancelled" /\ seen[Gate].reason = "gate"
       THEN Update(Gate, [seen[Gate] EXCEPT !.reason = "run"])
       ELSE Call(Gate, "pending")
  /\ UNCHANGED <<kind, clock, file, command, answered, failed, followed>>

Swept ==
  /\ Stored(Gate, "sweep")
  /\ Call(Gate, "pending")
  /\ UNCHANGED <<kind, clock, command, answered, failed, followed>>

SweepPending ==
  /\ AtAct(Gate, "pending")
  /\ IF Pending(seen[Gate]) THEN Call(Gate, "cancel run") ELSE Finish(Gate)
  /\ UNCHANGED <<kind, clock, file, command, answered, failed, followed>>

------------------------------------------------------------------------------
(* Operations of the store that gates and users share. *)

CancelOps == {"cancel gate", "cancel run", "cancel finished"}

(* What each caller does once its cancel is over. *)
AfterCancel(a) ==
  CASE doing[a] = "cancel gate" -> LeaveGate
    [] doing[a] = "cancel run" -> Finish(a)
    [] OTHER -> Call(a, IF command[a] = Listing THEN "list" ELSE "decide")

(* cancel: only a pending request is closed. *)
Cancel(a) ==
  /\ at[a] = "act" /\ doing[a] \in CancelOps
  /\ IF Pending(seen[a])
       THEN Update(a, [seen[a] EXCEPT !.status = "cancelled",
                                      !.reason = IF doing[a] = "cancel gate" THEN "gate" ELSE "run"])
       ELSE AfterCancel(a)
  /\ UNCHANGED <<kind, clock, file, command, answered, failed, followed>>

Cancelled(a) ==
  /\ doing[a] \in CancelOps /\ Stored(a, doing[a])
  /\ AfterCancel(a)
  /\ UNCHANGED <<kind, clock, command, answered, failed, followed>>

(* The decision an actor asks decide to store. *)
Asked(a) == IF a = Gate THEN [value |-> TimeoutDecision, by |-> GateName] ELSE command[a]

(* Mutant of Accepted: the list of approvers is not consulted. *)
AcceptedFromAnyone(a, r) == r # NULL /\ r.decision = NULL /\ r.status # "cancelled"

(* decide refuses a request that is gone, decided or cancelled, and an     *)
(* approver who is not on the list.                                        *)
Accepted(a, r) ==
  /\ r # NULL /\ r.decision = NULL /\ r.status # "cancelled"
  /\ Approvers = {} \/ Asked(a).by = Gofer \/ Asked(a).by \in Approvers

(* decide; refused, it ends a user's command and fails the gate's node.    *)
(* `answered` notes who answered a gate of a TOML workflow after its       *)
(* process had gone.                                                       *)
Decide(a) ==
  /\ AtAct(a, "decide")
  /\ IF Accepted(a, seen[a])
       THEN /\ Update(a, [seen[a] EXCEPT !.status = "decided", !.decision = Asked(a)])
            /\ answered' = IF kind = "toml" /\ Process(Gate) \notin alive
                             THEN answered \union {a} ELSE answered
       ELSE (IF a = Gate THEN LeaveGate ELSE Finish(a)) /\ UNCHANGED answered
  /\ UNCHANGED <<kind, clock, file, command, failed, followed>>

(* The decision is recorded.  A TOML gate goes on with the timeout it has  *)
(* asked for, a Rattish gate with what was recorded; the command line      *)
(* resumes the run with the request it wrote, the desktop reads it again.  *)
Decided(a) ==
  /\ Stored(a, "decide")
  /\ IF a = Gate
       THEN /\ LET d == IF kind = "toml" THEN TimeoutDecision ELSE held[Gate].decision.value
               IN followed' = followed \union {[by |-> Gate, decision |-> d]}
            /\ LeaveGate
       ELSE /\ IF a \in Desktop
                 THEN /\ doing' = [doing EXCEPT ![a] = "reget"]
                      /\ Goto(a, "get")
                      /\ UNCHANGED <<seen, held, alive>>
                 ELSE Resume(a, held[a])
            /\ UNCHANGED followed
  /\ UNCHANGED <<kind, clock, command, answered, failed>>

------------------------------------------------------------------------------
(* Users: approve, reject and list, from the command line or the desktop. *)

(* A command starts, once there is a request. *)
Start(u, c) ==
  /\ at[u] = "idle" /\ Process(u) \in alive /\ file # Absent
  /\ command' = [command EXCEPT ![u] = c]
  /\ Call(u, IF c # Listing THEN "find" ELSE IF u \in Desktop THEN "list pending" ELSE "list")
  /\ UNCHANGED <<kind, clock, file, answered, failed, followed>>

(* _find_approval_request and decide_workflow_approval_payload.  The       *)
(* desktop first closes the request of a Rattish run that is over.         *)
Find(u) ==
  /\ AtAct(u, "find")
  /\ IF seen[u] = NULL \/ (u \in Desktop /\ seen[u].decision # NULL)
       THEN Finish(u)
       ELSE Call(u, IF u \in Desktop /\ Pending(seen[u]) /\ RunOver THEN "cancel finished" ELSE "decide")
  /\ UNCHANGED <<kind, clock, file, command, answered, failed, followed>>

(* The desktop's second read, or what it wrote when that read fails. *)
Reread(u) ==
  /\ AtAct(u, "reget")
  /\ Resume(u, IF seen[u] = NULL THEN held[u] ELSE seen[u])
  /\ UNCHANGED <<kind, clock, file, command, answered, failed, followed>>

(* The desktop's list closes requests of finished Rattish runs first. *)
ListPending(u) ==
  /\ AtAct(u, "list pending")
  /\ Call(u, IF Pending(seen[u]) /\ RunOver THEN "cancel finished" ELSE "list")
  /\ UNCHANGED <<kind, clock, file, command, answered, failed, followed>>

(* A list resumes what timed out. *)
List(u) ==
  /\ AtAct(u, "list")
  /\ IF seen[u] # NULL /\ seen[u].decision # NULL /\ seen[u].decision.by = Gofer
       THEN Resume(u, seen[u])
       ELSE Finish(u)
  /\ UNCHANGED <<kind, clock, file, command, answered, failed, followed>>

(* claim_resume: a claim is respected while its process lives. *)
Claim(u) ==
  /\ AtAct(u, "claim")
  /\ IF seen[u] = NULL \/ seen[u].decision = NULL \/ Live(seen[u].claim)
       THEN Finish(u)
       ELSE Update(u, [seen[u] EXCEPT !.claim = Process(u)])
  /\ UNCHANGED <<kind, clock, file, command, answered, failed, followed>>

Claimed(u) ==
  /\ Stored(u, "claim")
  /\ Goto(u, "resuming")
  /\ UNCHANGED <<kind, clock, doing, seen, held, command, alive, answered, failed, followed>>

(* resume_from_approval runs what follows the gate, and keeps the claim. *)
ResumeRuns(u) ==
  /\ at[u] = "resuming"
  /\ followed' = followed \union {[by |-> u, decision |-> held[u].decision.value]}
  /\ Finish(u)
  /\ UNCHANGED <<kind, clock, file, command, answered, failed>>

(* The checkpoint is unusable or the run raises: the claim is given back. *)
ResumeFails(u) ==
  /\ at[u] = "resuming"
  /\ failed' = failed \union {u}
  /\ Call(u, "release")
  /\ UNCHANGED <<kind, clock, file, command, answered, followed>>

(* release_resume *)
Release(u) ==
  /\ AtAct(u, "release")
  /\ IF seen[u] = NULL
       THEN Finish(u)
       ELSE Update(u, [seen[u] EXCEPT !.claim = NULL])
  /\ UNCHANGED <<kind, clock, file, command, answered, failed, followed>>

Released(u) ==
  /\ Stored(u, "release")
  /\ Finish(u)
  /\ UNCHANGED <<kind, clock, command, answered, failed, followed>>

------------------------------------------------------------------------------
(* The environment. *)

(* Time: requested_at is taken before the wait begins, so that a request   *)
(* is due before the gate's own deadline, which ends with the gate.        *)
Tick ==
  /\ clock = "early" \/ (clock = "due" /\ at[Gate] \notin {"done", "dead"})
  /\ clock' = IF clock = "early" THEN "due" ELSE "late"
  /\ UNCHANGED <<kind, file, at, doing, seen, held, command, alive, answered, failed, followed>>

(* The gate's process is killed, in the middle of a write too, with every  *)
(* actor in it.  A user's command may stop anywhere for want of fairness.  *)
Crash ==
  LET p == Process(Gate)
      Killed(a) == Process(a) = p /\ at[a] \notin {"idle", "done"}
  IN /\ p \in alive /\ Killed(Gate)
     /\ alive' = alive \ {p}
     /\ at' = [a \in Actors |-> IF Killed(a) THEN "dead" ELSE at[a]]
     /\ seen' = [a \in Actors |-> IF Killed(a) THEN NULL ELSE seen[a]]
     /\ held' = [a \in Actors |-> IF Killed(a) THEN NULL ELSE held[a]]
     /\ doing' = [a \in Actors |-> IF Killed(a) THEN NULL ELSE doing[a]]
     /\ UNCHANGED <<kind, clock, file, command, answered, failed, followed>>

(* The steps of an actor inside the store. *)
StoreStep(a) == Get(a) \/ Again(a) \/ Open(a) \/ FillExpired(a) \/ Cancel(a) \/ Cancelled(a) \/ Decide(a)
                \/ Decided(a)

GateStep == Created \/ Wait \/ MarkWaiting \/ Marked \/ Poll \/ EndRun \/ Sweep \/ Swept
            \/ SweepPending

UserStep(u) == Find(u) \/ Reread(u) \/ ListPending(u) \/ List(u) \/ Claim(u) \/ Claimed(u)
               \/ ResumeRuns(u) \/ ResumeFails(u) \/ Release(u) \/ Released(u)

Next ==
  \/ \E a \in Actors : StoreStep(a)
  \/ GateStep
  \/ StopGate
  \/ \E u \in Users : UserStep(u)
  \/ \E u \in Users : \E c \in Commands(u) : Start(u, c)
  \/ Tick
  \/ Crash

Spec == Init /\ [][Next]_vars

(* The process of the gate takes its next step while it runs, and time     *)
(* passes; users may stop in the middle of a command.                      *)
Fairness == WF_vars(StoreStep(Gate) \/ GateStep) /\ WF_vars(Tick)

FairSpec == Spec /\ Fairness

------------------------------------------------------------------------------
DecisionRecords == [value : Decisions, by : {Gofer, "raticode"} \union UNION {{c.by : c \in Answers[u]} : u \in Users}]

Requests ==
  [status : {"pending", "decided", "cancelled"}, decision : DecisionRecords \union {NULL},
   waiter : Processes \union {NULL}, claim : Processes \union {NULL}, reason : {NULL, "gate", "run"}]

(* What the gate and the users do. *)
GateOps == {"create", "mark", "poll", "decide", "cancel gate", "cancel run", "sweep", "pending"}
UserOps == {"find", "decide", "reget", "list pending", "list", "cancel finished", "claim", "release"}

ASSUME AnswersAssumption ==
  \A u \in Users : \A c \in Answers[u] :
    c.value \in {"approved", "rejected"} /\ c = [value |-> c.value, by |-> c.by]

ASSUME NoValueAssumption ==
  /\ {NULL, Absent, Torn, Garbled} \intersect Requests = {}
  /\ NULL \notin DecisionRecords \union GateOps \union UserOps /\ Absent # Torn
  /\ Garbled \notin {Absent, Torn}

Steps == {"idle", "get", "expire", "fill expired", "act", "again", "expire again", "fill again",
          "write", "fill", "notify", "sleep", "after", "resuming", "done", "dead"}

(* The types; a decision is stored exactly with the status "decided", on   *)
(* disk and in every request an actor writes.                              *)
TypeOK ==
  /\ kind \in {"toml", "rattish"} /\ clock \in {"early", "due", "late"}
  /\ file \in Requests \union {Absent, Torn, Garbled}
  /\ at \in [Actors -> Steps]
  /\ seen \in [Actors -> Requests \union {NULL}]
  /\ held \in [Actors -> Requests \union {NULL}]
  /\ \A u \in Users : command[u] \in Commands(u) \union {NULL}
  /\ alive \subseteq Processes
  /\ answered \subseteq Users /\ failed \subseteq Users
  /\ followed \subseteq [by : Actors, decision : Decisions]
  /\ \A r \in {file} \union {held[a] : a \in Actors} :
       r \in Requests => (r.status = "decided" <=> r.decision # NULL)

(* "Approval nodes return success only for explicit approval": whatever    *)
(* the interleaving of answers, timeouts and crashes, a run goes on as     *)
(* approved only if somebody the gate accepts issued the approval.  decide *)
(* takes the identity "gofer", under which gates record their timeouts,    *)
(* from anyone: nobody answers under that name here.                       *)
ApprovalIsEarned ==
  \A x \in followed : x.decision = "approved" =>
    \E u \in Users : /\ command[u] # NULL /\ command[u].value = "approved"
                     /\ Approvers = {} \/ command[u].by \in Approvers

(* Once a Rattish run has ended its request is closed, and stays closed    *)
(* whatever the operations that were under way still write: nobody is      *)
(* asked to answer for a run that is over.                                 *)
ClosedAfterRun ==
  kind = "rattish" /\ at[Gate] = "done" /\ IsRequest(file) => file.status # "pending"

(* A failed resume gives its claim back: after it the process, which lives *)
(* on when it is the desktop's, does not keep others from another try.     *)
ClaimReleased ==
  \A u \in answered \intersect failed :
    at[u] = "done" /\ IsRequest(file) /\ Live(file.claim) => file.claim # Process(u)

(* The file, the requests being written and the claims fit together.       *)
Consistent == TypeOK /\ ClosedAfterRun /\ ClaimReleased

(* A TOML gate whose process has gone is taken up again by the answer the  *)
(* store accepts: once every command is over the run has gone on, or its   *)
(* resume was tried and failed, whichever commands ran beside it; or the   *)
(* timeout overtook the answer, and the next listing takes the run up; or  *)
(* two writes have left a file that cannot be read, and nobody does.       *)
AnswerResumes ==
  answered # {} /\ (\A v \in Users : at[v] \in {"idle", "done"}) =>
    \/ followed # {} \/ failed # {}
    \/ IsRequest(file) /\ file.decision = ByTimeout /\ ~Live(file.waiter) /\ ~Live(file.claim)
    \/ file = Garbled

(* A gate with a timeout ends, answered or not, even when its request can  *)
(* no longer be read.                                                      *)
GateEnds == Timed => <>(at[Gate] \in {"done", "dead"})
==============================================================================
