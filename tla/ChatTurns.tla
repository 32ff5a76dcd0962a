----------------------------- MODULE ChatTurns ------------------------------
(***************************************************************************)
(* The turns of one Rem conversation: ui/chat_steering.py (ChatSteering),  *)
(* ui/chat_jobs.py (ChatJobs) and the handlers of ui/server.py that drive  *)
(* them.                                                                   *)
(*                                                                         *)
(* A turn runs on a job thread.  It starts a provider process, follows its *)
(* events, and when an instruction arrives it lets the process end and     *)
(* starts a successor that is given the instructions accepted so far.      *)
(* Requests to steer, stop and look up receipts arrive on other threads    *)
(* and share the turn under ChatSteering's lock; the job thread takes the  *)
(* lock for single decisions only, so any request may come between two of  *)
(* its steps.  A write of the receipts or of the journal may fail, and the *)
(* server may die at any step and start again with what is on disk.        *)
(*                                                                         *)
(* One conversation is modelled: conversations share nothing but the limit *)
(* of jobs, which shows here as a start that is refused.  What providers   *)
(* say is abstracted to the kind of event; the messages of a turn to the   *)
(* instructions in them.                                                   *)
(***************************************************************************)
EXTENDS Naturals, Sequences

CONSTANTS
  Turns,       \* turn ids clients may start with
  Requests,    \* ids of steering requests
  IoFailures,  \* TRUE if writes may fail for the disk's sake
  NULL

ASSUME NullAssumption == NULL \notin Turns \union Requests
ASSUME IoAssumption == IoFailures \in BOOLEAN

VARIABLES
  disk,      \* the receipts file: [receipts, turnIds]
  memory,    \* _records and _turn_ids, NULL while not loaded
  active,    \* _active: the turn that may be steered and stopped, or NULL
  turn,      \* the ChatTurn of the current or the last job
  ended,     \* _ended: how each turn of this server's life ended
  messages,  \* the instructions among the messages the next process is given
  pc,        \* where the job thread is
  event,     \* the provider's event being handled
  terminal,  \* the provider's terminal event of this generation, or NULL
  provider,  \* TRUE while a provider process runs
  job,       \* ChatJobs._active: the turn whose job runs, or NULL
  journal,   \* [Turns -> terminal events written, in order; NULL if no file]
  closed     \* the server was told to shut down

vars == <<disk, memory, active, turn, ended, messages, pc, event, terminal,
          provider, job, journal, closed>>
coordinator == <<pc, event, terminal, provider>>
jobs == <<job, journal, closed>>

Settled == {"delivered", "failed", "cancelled"}
Terminal == {"final", "error", "stopped"}
Elements(s) == {s[i] : i \in 1 .. Len(s)}

NoReceipts == [r \in Requests |-> NULL]
IdleTurn == [id |-> NULL, generation |-> 0, cancel |-> FALSE, stopped |-> FALSE,
             pending |-> <<>>, delivering |-> <<>>]

-----------------------------------------------------------------------------
(***************************************************************************)
(* The receipts in memory and on disk.                                     *)
(***************************************************************************)

Unconfirmed(doc, r) ==
  doc.receipts[r] # NULL /\ doc.receipts[r].status = "interrupting"

\* doc with the status of the unconfirmed receipts among ids changed.
Change(doc, ids, status) ==
  [doc EXCEPT !.receipts =
     [r \in Requests |->
        IF r \in ids /\ Unconfirmed(doc, r)
        THEN [turn |-> doc.receipts[r].turn,
              generation |-> IF status = "delivered" THEN turn.generation
                             ELSE doc.receipts[r].generation,
              status |-> status]
        ELSE doc.receipts[r]]]

Loaded == IF memory # NULL THEN memory ELSE Change(disk, Requests, "failed")

Keep == memory' = Loaded /\ UNCHANGED disk

Save(doc) == disk' = doc /\ memory' = doc

\* Mutant of Store: the file is written and the copy in memory is not replaced.
StoreFileOnly(doc) == memory' = Loaded /\ disk' = doc

\* _transition and _reconcile save only what they changed.
Store(doc) == IF doc = Loaded THEN Keep ELSE Save(doc)

StoreFails(doc) == doc # Loaded /\ IoFailures /\ Keep

Accepted == Elements(turn.pending) \union Elements(turn.delivering)

\* _reconcile: a look at the receipts settles those of turns that are over.
Over(r) ==
  /\ Unconfirmed(Loaded, r)
  /\ active = NULL \/ Loaded.receipts[r].turn # active \/ turn.stopped

HowItEnded(t) ==
  IF ended[t] # NULL THEN ended[t]
  ELSE IF active # NULL /\ turn.stopped THEN "cancelled" ELSE "failed"

\* Mutant of Reconciled: a lookup returns the receipts as they are.
ReconciledAsIs == Loaded

Reconciled ==
  [Loaded EXCEPT !.receipts =
     [r \in Requests |->
        IF Over(r)
        THEN [Loaded.receipts[r] EXCEPT !.status = HowItEnded(Loaded.receipts[r].turn)]
        ELSE Loaded.receipts[r]]]

-----------------------------------------------------------------------------
(***************************************************************************)
(* Requests from clients, each under the lock from end to end.             *)
(***************************************************************************)

\* steer accepts a new instruction for the active turn.
Steer(r) ==
  /\ active # NULL /\ ~turn.stopped
  /\ Reconciled.receipts[r] = NULL
  /\ Save([Reconciled EXCEPT !.receipts[r] =
             [turn |-> turn.id, generation |-> turn.generation + 1,
              status |-> "interrupting"]])
  /\ turn' = [turn EXCEPT !.pending = Append(@, r), !.cancel = TRUE]
  /\ UNCHANGED <<active, ended, messages, coordinator, jobs>>

\* receipts, and a steer that is refused, repeated or could not be saved.
LookUp ==
  /\ Store(Reconciled) \/ StoreFails(Reconciled)
  /\ UNCHANGED <<active, turn, ended, messages, coordinator, jobs>>

\* stop: the turn is stopped whether or not the receipts can be written.
Stop ==
  /\ active # NULL
  /\ LET doc == Change(Loaded, Accepted, "cancelled")
     IN  Store(doc) \/ StoreFails(doc)
  /\ turn' = [turn EXCEPT !.stopped = TRUE, !.cancel = TRUE]
  /\ UNCHANGED <<active, ended, messages, coordinator, jobs>>

\* server_close: ChatJobs.close and ChatSteering.close.
Close ==
  /\ ~closed
  /\ closed' = TRUE
  /\ turn' = IF active # NULL THEN [turn EXCEPT !.stopped = TRUE, !.cancel = TRUE] ELSE turn
  /\ UNCHANGED <<disk, memory, active, ended, messages, coordinator, job, journal>>

\* _forget_threads: receipts, turn ids and journals of a conversation whose
\* job is over are deleted.
Forget ==
  /\ active = NULL /\ job = NULL
  /\ disk' = [receipts |-> NoReceipts, turnIds |-> {}]
  /\ memory' = NULL
  /\ ended' = [t \in Turns |-> NULL]
  /\ turn' = IdleTurn
  /\ messages' = <<>>
  /\ journal' = [t \in Turns |-> NULL]
  /\ UNCHANGED <<active, coordinator, job, closed>>

-----------------------------------------------------------------------------
(***************************************************************************)
(* The job of a turn.                                                      *)
(***************************************************************************)

Write(t, e) == journal' = [journal EXCEPT ![t] = Append(@, e)]

\* ChatJobs.start: the journal is created exclusively, so a turn id starts
\* work once.  The thread may not start.
StartJob(t) ==
  /\ pc = "idle" /\ job = NULL /\ ~closed
  /\ journal[t] = NULL
  /\ \/ job' = t /\ pc' = "begin" /\ journal' = [journal EXCEPT ![t] = <<>>]
     \/ journal' = [journal EXCEPT ![t] = <<"error">>] /\ UNCHANGED <<job, pc>>
  /\ UNCHANGED <<disk, memory, active, turn, ended, messages, event, terminal, provider, closed>>

\* ChatSteering.begin
Begin ==
  /\ pc = "begin"
  /\ LET doc == [Loaded EXCEPT !.turnIds = @ \union {job}]
     IN  \/ /\ active = NULL /\ job \notin Loaded.turnIds
            /\ Save(doc)
            /\ active' = job
            /\ turn' = [IdleTurn EXCEPT !.id = job]
            /\ messages' = <<>>
            /\ pc' = "announce"
         \/ /\ active # NULL \/ job \in Loaded.turnIds \/ IoFailures
            /\ Keep
            /\ pc' = "raised"
            /\ UNCHANGED <<active, turn, messages>>
  /\ UNCHANGED <<ended, event, terminal, provider, jobs>>

\* The turn is announced; a stopped one starts no process.
Announce ==
  /\ pc = "announce"
  /\ IF turn.stopped
     THEN Write(job, "stopped") /\ pc' = "finally"
     ELSE pc' = "start" /\ UNCHANGED journal
  /\ UNCHANGED <<disk, memory, active, turn, ended, messages, event, terminal, provider, job, closed>>

StartProvider ==
  /\ pc = "start"
  /\ pc' = "follow"
  /\ provider' = TRUE
  /\ terminal' = NULL
  /\ UNCHANGED <<disk, memory, active, turn, ended, messages, event, jobs>>

Restarting == turn.pending # <<>> \/ turn.stopped

\* The provider sends an event; its first words confirm that the instructions
\* it was given arrived.
Follow(e) ==
  /\ pc = "follow"
  /\ LET doc == Change(Loaded, Elements(turn.delivering), "delivered")
     IN  IF ~Restarting /\ e \in {"thought", "final"}
         THEN \/ Store(doc) /\ pc' = "event" /\ event' = e /\ UNCHANGED provider
              \/ StoreFails(doc) /\ pc' = "unwind" /\ provider' = FALSE /\ UNCHANGED event
         ELSE pc' = "event" /\ event' = e /\ UNCHANGED <<disk, memory, provider>>
  /\ UNCHANGED <<active, turn, ended, messages, terminal, jobs>>

\* The provider's stream is over without a terminal event, or broke.
SourceEnds ==
  /\ pc = "follow"
  /\ \/ pc' = "close" /\ UNCHANGED provider
     \/ pc' = "unwind" /\ provider' = FALSE
  /\ UNCHANGED <<disk, memory, active, turn, ended, messages, event, terminal, jobs>>

\* The event is passed on; a final or an error ends the generation.
Handle ==
  /\ pc = "event"
  /\ IF event \in {"final", "error"}
     THEN terminal' = event /\ pc' = "close"
     ELSE pc' = "follow" /\ UNCHANGED terminal
  /\ event' = NULL
  /\ UNCHANGED <<disk, memory, active, turn, ended, messages, provider, jobs>>

CloseSource ==
  /\ pc = "close"
  /\ pc' = "decide"
  /\ provider' = FALSE
  /\ UNCHANGED <<disk, memory, active, turn, ended, messages, event, terminal, jobs>>

GiveUpTurn(status) == Change(Loaded, Accepted, status)

\* Mutant of Decide: waiting instructions win over a stop.
DecidePendingFirst ==
  /\ pc = "decide"
  /\ \/ /\ turn.pending # <<>>
        /\ turn' = [turn EXCEPT !.delivering = @ \o turn.pending, !.pending = <<>>,
                                !.generation = @ + 1, !.cancel = FALSE]
        /\ messages' = messages \o turn.pending
        /\ pc' = "announce"
        /\ UNCHANGED <<disk, memory, active>>
     \/ /\ turn.pending = <<>>
        /\ LET doc == GiveUpTurn(IF turn.stopped THEN "cancelled" ELSE "failed")
           IN  \/ Store(doc) /\ active' = NULL /\ pc' = "after"
               \/ StoreFails(doc) /\ pc' = "unwind" /\ UNCHANGED active
        /\ UNCHANGED <<turn, messages>>
  /\ UNCHANGED <<ended, event, terminal, provider, jobs>>

\* Mutant of Decide: the successor is given the earlier instructions again.
DecideRepeating ==
  /\ pc = "decide"
  /\ \/ /\ ~turn.stopped /\ turn.pending # <<>>
        /\ turn' = [turn EXCEPT !.delivering = @ \o turn.pending, !.pending = <<>>,
                                !.generation = @ + 1, !.cancel = FALSE]
        /\ messages' = messages \o turn.delivering \o turn.pending
        /\ pc' = "announce"
        /\ UNCHANGED <<disk, memory, active>>
     \/ /\ turn.stopped \/ turn.pending = <<>>
        /\ LET doc == GiveUpTurn(IF turn.stopped THEN "cancelled" ELSE "failed")
           IN  \/ Store(doc) /\ active' = NULL /\ pc' = "after"
               \/ StoreFails(doc) /\ pc' = "unwind" /\ UNCHANGED active
        /\ UNCHANGED <<turn, messages>>
  /\ UNCHANGED <<ended, event, terminal, provider, jobs>>

\* Mutant of Decide: the turn that ends leaves _active only in the finally
\* clause, so that text is still accepted for it.
DecideStillActive ==
  /\ pc = "decide"
  /\ \/ /\ ~turn.stopped /\ turn.pending # <<>>
        /\ turn' = [turn EXCEPT !.delivering = @ \o turn.pending, !.pending = <<>>,
                                !.generation = @ + 1, !.cancel = FALSE]
        /\ messages' = messages \o turn.pending
        /\ pc' = "announce"
        /\ UNCHANGED <<disk, memory>>
     \/ /\ turn.stopped \/ turn.pending = <<>>
        /\ LET doc == GiveUpTurn(IF turn.stopped THEN "cancelled" ELSE "failed")
           IN  \/ Store(doc) /\ pc' = "after"
               \/ StoreFails(doc) /\ pc' = "unwind"
        /\ UNCHANGED <<turn, messages>>
  /\ UNCHANGED <<active, ended, event, terminal, provider, jobs>>

\* The process is gone: stop, restart with what waits, or end the turn.  A
\* turn that ends leaves _active in the same breath, so that an instruction
\* is either seen here or refused.
Decide ==
  /\ pc = "decide"
  /\ \/ /\ ~turn.stopped /\ turn.pending # <<>>
        /\ turn' = [turn EXCEPT !.delivering = @ \o turn.pending, !.pending = <<>>,
                                !.generation = @ + 1, !.cancel = FALSE]
        /\ messages' = messages \o turn.pending
        /\ pc' = "announce"
        /\ UNCHANGED <<disk, memory, active>>
     \/ /\ turn.stopped \/ turn.pending = <<>>
        /\ LET doc == GiveUpTurn(IF turn.stopped THEN "cancelled" ELSE "failed")
           IN  \/ Store(doc) /\ active' = NULL /\ pc' = "after"
               \/ StoreFails(doc) /\ pc' = "unwind" /\ UNCHANGED active
        /\ UNCHANGED <<turn, messages>>
  /\ UNCHANGED <<ended, event, terminal, provider, jobs>>

\* The last event of the turn, if it has one.
Conclude ==
  /\ pc = "after"
  /\ pc' = "finally"
  /\ IF turn.stopped THEN Write(job, "stopped")
     ELSE IF terminal # NULL THEN Write(job, terminal)
     ELSE UNCHANGED journal
  /\ UNCHANGED <<disk, memory, active, turn, ended, messages, event, terminal, provider, job, closed>>

\* An event cannot be written to the journal: the consumer gives the stream
\* up at the yield it stands at, having said so in the journal if it can.
ConsumerFails ==
  /\ IoFailures
  /\ pc \in {"announce", "event", "after"}
  /\ \/ Write(job, "error") /\ pc' = "finally"
     \/ pc' = "unwind" /\ UNCHANGED journal
  /\ turn' = [turn EXCEPT !.stopped = TRUE, !.cancel = TRUE]
  /\ provider' = FALSE
  /\ event' = NULL
  /\ UNCHANGED <<disk, memory, active, ended, messages, terminal, job, closed>>

\* The finally clause of stream.
Finally ==
  /\ pc \in {"finally", "unwind"}
  /\ LET outcome == IF turn.stopped THEN "cancelled" ELSE "failed"
         doc == GiveUpTurn(outcome)
     IN  /\ ended' = [ended EXCEPT ![turn.id] = outcome]
         /\ \/ Store(doc) /\ pc' = IF pc = "unwind" THEN "raised" ELSE "leave"
            \/ StoreFails(doc) /\ pc' = "raised"
  /\ turn' = [turn EXCEPT !.cancel = TRUE]
  /\ active' = NULL
  /\ UNCHANGED <<messages, event, terminal, provider, jobs>>

\* The exception of the stream becomes an error in the journal.
Report ==
  /\ pc = "raised"
  /\ pc' = "leave"
  /\ Write(job, "error") \/ (IoFailures /\ UNCHANGED journal)
  /\ UNCHANGED <<disk, memory, active, turn, ended, messages, event, terminal, provider, job, closed>>

\* The handler's and the worker's own finally clauses.
Leave ==
  /\ pc = "leave"
  /\ pc' = "idle"
  /\ job' = NULL
  /\ turn' = IF turn.id = job THEN [turn EXCEPT !.stopped = TRUE, !.cancel = TRUE] ELSE turn
  /\ UNCHANGED <<disk, memory, active, ended, messages, event, terminal, provider, journal, closed>>

\* The server dies and is started again.
Restart ==
  /\ memory' = NULL
  /\ active' = NULL
  /\ turn' = IdleTurn
  /\ ended' = [t \in Turns |-> NULL]
  /\ messages' = <<>>
  /\ pc' = "idle"
  /\ event' = NULL
  /\ terminal' = NULL
  /\ provider' = FALSE
  /\ job' = NULL
  /\ closed' = FALSE
  /\ UNCHANGED <<disk, journal>>

-----------------------------------------------------------------------------
Init ==
  /\ disk = [receipts |-> NoReceipts, turnIds |-> {}]
  /\ memory = NULL
  /\ active = NULL
  /\ turn = IdleTurn
  /\ ended = [t \in Turns |-> NULL]
  /\ messages = <<>>
  /\ pc = "idle"
  /\ event = NULL
  /\ terminal = NULL
  /\ provider = FALSE
  /\ job = NULL
  /\ journal = [t \in Turns |-> NULL]
  /\ closed = FALSE

Client == (\E r \in Requests : Steer(r)) \/ LookUp \/ Stop

Events == {"thought", "other", "final", "error"}

Worker ==
  \/ Begin \/ Announce \/ StartProvider \/ Handle \/ CloseSource \/ Decide
  \/ Conclude \/ ConsumerFails \/ Finally \/ Report \/ Leave

Next ==
  \/ Client
  \/ Close
  \/ Forget
  \/ \E t \in Turns : StartJob(t)
  \/ \E e \in Events : Follow(e)
  \/ SourceEnds
  \/ Worker
  \/ Restart

Spec == Init /\ [][Next]_vars

\* The job thread goes on, and a provider's stream ends some time: it has a
\* deadline, and its process is terminated when the turn is cancelled.  Some
\* lookup succeeds if receipts are looked at again and again.
FairSpec ==
  /\ Spec
  /\ WF_vars(Worker)
  /\ SF_vars(SourceEnds \/ Follow("final") \/ Follow("error"))
  /\ SF_vars(Store(Reconciled) /\ UNCHANGED <<active, turn, ended, messages, coordinator, jobs>>)

-----------------------------------------------------------------------------
(***************************************************************************)
(* Properties.                                                             *)
(***************************************************************************)

Receipt ==
  [turn : Turns, generation : Nat, status : Settled \union {"interrupting"}]
Document == [receipts : [Requests -> Receipt \union {NULL}], turnIds : SUBSET Turns]
ASSUME NoValueAssumption ==
  NULL \notin Document /\ NULL \notin Receipt /\ NULL \notin Seq(Terminal) /\ NULL \notin Events

Places ==
  {"idle", "begin", "announce", "start", "follow", "event", "close", "decide",
   "after", "finally", "unwind", "raised", "leave"}

\* Type of the state.
TypeOK ==
  /\ disk \in Document
  /\ memory \in Document \union {NULL}
  /\ active \in Turns \union {NULL}
  /\ turn \in [id : Turns \union {NULL}, generation : Nat, cancel : BOOLEAN,
               stopped : BOOLEAN, pending : Seq(Requests), delivering : Seq(Requests)]
  /\ ended \in [Turns -> {"failed", "cancelled", NULL}]
  /\ messages \in Seq(Requests)
  /\ pc \in Places
  /\ event \in Events \union {NULL}
  /\ terminal \in {"final", "error", NULL}
  /\ provider \in BOOLEAN
  /\ job \in Turns \union {NULL}
  /\ journal \in [Turns -> Seq(Terminal) \union {NULL}]
  /\ closed \in BOOLEAN

\* A turn whose answer is final kept every instruction it accepted: each was
\* delivered, none was dropped in the moment the turn ended (chat_steering.py,
\* "completion either observes accepted text or removes the turn").
FinalKeepsInstructions ==
  \A t \in Turns :
    journal[t] # NULL /\ "final" \in Elements(journal[t])
      => \A r \in Requests :
           Loaded.receipts[r] # NULL /\ Loaded.receipts[r].turn = t
             => Loaded.receipts[r].status = "delivered"

\* A turn that was stopped, or that has instructions waiting, has told its
\* process to end: no interleaving of a restart with stop or steer leaves the
\* new process running with a cancel event that nobody set.
CancelReaches ==
  active # NULL /\ Restarting => turn.cancel

\* Nothing is written to the journal of a turn after its final answer.
FinalIsLast ==
  \A t \in Turns :
    journal[t] # NULL =>
      \A i \in 1 .. Len(journal[t]) : journal[t][i] = "final" => i = Len(journal[t])

\* What a client was told in a receipt survives the server: a receipt that is
\* settled on disk and one in memory never disagree about it.
DiskAgrees ==
  \A r \in Requests :
    disk.receipts[r] # NULL /\ disk.receipts[r].status \in Settled
      => Loaded.receipts[r] = disk.receipts[r]

\* Memory, files and the provider's process agree at every step of a turn.
Consistent == TypeOK /\ CancelReaches /\ FinalIsLast /\ DiskAgrees

\* A stopped turn starts no further generation.
StopEndsRestarts ==
  [][turn.stopped /\ turn'.id = turn.id => turn'.generation = turn.generation]_vars

\* While a stopped turn winds down its unconfirmed instructions become
\* cancelled, not failed, whatever goes wrong with the disk in between.
StoppedIsCancelled ==
  [][active # NULL /\ turn.stopped /\ memory' # NULL =>
       \A r \in Accepted : Loaded'.receipts[r].status # "failed"
                             \/ Loaded.receipts[r].status = "failed"]_vars

\* A stop holds: the turn is not started again, and what it had not confirmed
\* is cancelled.
StopHolds == StopEndsRestarts /\ StoppedIsCancelled

\* Every accepted instruction is settled in the end.
InstructionsSettle ==
  \A r \in Requests : []<>~Unconfirmed(Loaded, r)

\* Every job ends and lets the conversation go.
JobsEnd == []<>(job = NULL)

\* Whatever fails or dies, no instruction and no conversation hangs for ever.
Settles == InstructionsSettle /\ JobsEnd

\* The refinement mapping: a receipt's status, and the instructions waiting and
\* handed to the provider's processes.
Status(r) == IF Loaded.receipts[r] = NULL THEN "none" ELSE Loaded.receipts[r].status

IQ == INSTANCE InstructionQueue
        WITH status <- [r \in Requests |-> Status(r)], waiting <- turn.pending,
             handed <- messages

\* ChatTurns implements InstructionQueue: instructions reach the processes in
\* the order they were accepted, once each, and receipts say no more than that.
KeepsPromise == IQ!ISpec
=============================================================================
