-------------------------- MODULE ChatTurnsProofs ---------------------------
(***************************************************************************)
(* Proofs about ChatTurns, for any turns and instructions.                 *)
(*                                                                         *)
(* Every handler touches the receipts through a document that is kept,     *)
(* saved or not saved, so the first lemmas say what becomes of Loaded; the *)
(* rest of the proof never looks into memory and disk again.               *)
(***************************************************************************)
EXTENDS ChatTurns, SequenceTheorems, TLAPS

USE NullAssumption, IoAssumption, NoValueAssumption

\* What a server makes of the file when it has just started.
Interrupted == Change(disk, Requests, "failed")

\* The receipts in memory are those on disk, or what was made of them.
Copies == memory \in {NULL, disk, Interrupted}

\* Loaded becomes a document that differs in unconfirmed receipts among ids,
\* which are then said to be one of how.
Moved(ids, how) ==
  /\ Loaded' \in Document
  /\ Loaded'.turnIds = Loaded.turnIds
  /\ \A r \in Requests :
       \/ Loaded'.receipts[r] = Loaded.receipts[r]
       \/ /\ r \in ids /\ Unconfirmed(Loaded, r)
          /\ Loaded'.receipts[r] # NULL
          /\ Loaded'.receipts[r].turn = Loaded.receipts[r].turn
          /\ Loaded'.receipts[r].status \in how

-----------------------------------------------------------------------------
(* The invariant.                                                          *)

\* Where the thread has a turn, and where that turn is still active.
AtWork == {"announce", "start", "follow", "event", "close", "decide"}
HasTurn == AtWork \union {"after", "finally", "unwind"}

\* The job thread, the turn and what is handed over belong together.
Thread ==
  /\ pc = "idle" <=> job = NULL
  /\ pc # "idle" => journal[job] # NULL
  /\ pc \in HasTurn => turn.id = job
  /\ pc \in AtWork => active = job
  /\ active # NULL => active = job /\ pc \in AtWork \union {"finally", "unwind"}
  /\ pc \in {"follow", "event"} => terminal = NULL
  /\ turn.id = NULL => turn = IdleTurn
  /\ turn.delivering = messages

\* Whatever names a turn names one that has begun.
Begun ==
  /\ turn.id # NULL => turn.id \in Loaded.turnIds
  /\ \A t \in Turns : ended[t] # NULL => t \in Loaded.turnIds
  /\ \A r \in Requests :
       Loaded.receipts[r] # NULL => Loaded.receipts[r].turn \in Loaded.turnIds
  /\ active # NULL => ended[active] = NULL

Mine(r) == Loaded.receipts[r] # NULL /\ Loaded.receipts[r].turn = turn.id

\* The active turn has accepted exactly the instructions whose receipts name
\* it, and gives none up before it is stopped.
Owned ==
  active # NULL =>
    \A r \in Requests :
      /\ Mine(r) <=> r \in Accepted
      /\ Mine(r) /\ ~turn.stopped => Loaded.receipts[r].status \in {"interrupting", "delivered"}

AllDelivered == \A r \in Requests : Mine(r) => Loaded.receipts[r].status = "delivered"

\* The provider's final answer is on its way to the journal.
Answering ==
  \/ pc = "event" /\ event = "final"
  \/ pc \in {"close", "decide", "after"} /\ terminal = "final"

\* Then what the turn has accepted was delivered, unless it goes on.
Confirmed ==
  Answering /\ ~turn.stopped /\ (turn.pending = <<>> \/ pc = "after") => AllDelivered

Answered(t) == journal[t] # NULL /\ "final" \in Elements(journal[t])

\* Once the turn has left _active in an orderly way, nothing is unconfirmed.
GivenUp ==
  pc = "after" \/ (pc = "finally" /\ Answered(job)) =>
    active = NULL /\ \A r \in Accepted : ~Unconfirmed(Loaded, r)

\* The final answer is the last thing the thread writes.
Silent == pc \notin {"finally", "leave", "idle"} => ~Answered(job)

IInv ==
  /\ TypeOK /\ Copies /\ Thread /\ CancelReaches /\ Begun /\ Owned
  /\ Confirmed /\ GivenUp /\ Silent /\ FinalIsLast /\ FinalKeepsInstructions

-----------------------------------------------------------------------------
(* Documents.                                                              *)

\* Change settles the unconfirmed receipts among ids and nothing else.
LEMMA ChangeDoc ==
  ASSUME turn.generation \in Nat, NEW doc \in Document, NEW ids, NEW s \in Settled
  PROVE  /\ Change(doc, ids, s) \in Document
         /\ Change(doc, ids, s).turnIds = doc.turnIds
         /\ \A r \in Requests :
              IF r \in ids /\ Unconfirmed(doc, r)
                THEN /\ Change(doc, ids, s).receipts[r] # NULL
                     /\ Change(doc, ids, s).receipts[r].turn = doc.receipts[r].turn
                     /\ Change(doc, ids, s).receipts[r].status = s
                ELSE Change(doc, ids, s).receipts[r] = doc.receipts[r]
<1> DEFINE New(r) == [turn |-> doc.receipts[r].turn,
                      generation |-> IF s = "delivered" THEN turn.generation
                                     ELSE doc.receipts[r].generation,
                      status |-> s]
           f == [r \in Requests |-> IF r \in ids /\ Unconfirmed(doc, r) THEN New(r)
                                                                   ELSE doc.receipts[r]]
<1>1. Change(doc, ids, s) = [doc EXCEPT !.receipts = f]
  BY DEF Change
<1>2. ASSUME NEW r \in Requests, Unconfirmed(doc, r) PROVE New(r) \in Receipt
  BY <1>2 DEF Unconfirmed, Document, Receipt
<1>3. f \in [Requests -> Receipt \union {NULL}]
  BY <1>2 DEF Document
<1>4. /\ Change(doc, ids, s) \in Document
      /\ Change(doc, ids, s).turnIds = doc.turnIds
      /\ Change(doc, ids, s).receipts = f
  BY <1>1, <1>3 DEF Document
<1> QED
  BY <1>2, <1>4

\* Loaded is a document.
LEMMA LoadedDoc == ASSUME TypeOK PROVE Loaded \in Document
BY ChangeDoc DEF TypeOK, Loaded, Settled

\* A saved document is the one that is loaded.
LEMMA Saved ==
  ASSUME NEW doc \in Document, Save(doc)
  PROVE  Loaded' = doc /\ Copies' /\ disk' \in Document /\ memory' \in Document
BY DEF Save, Loaded, Copies

\* A look at the receipts changes none.
LEMMA Kept ==
  ASSUME TypeOK, Copies, Keep
  PROVE  Loaded' = Loaded /\ Copies' /\ disk' \in Document /\ memory' \in Document
<1>1. Loaded \in Document
  BY LoadedDoc
<1>2. Loaded' = Loaded
  BY <1>1 DEF Keep, Loaded
<1>3. Interrupted' = Interrupted
  BY DEF Keep, Interrupted, Change, Unconfirmed
<1> QED
  BY <1>1, <1>2, <1>3 DEF Keep, Copies, Loaded, Interrupted, TypeOK

LEMMA Stored ==
  ASSUME TypeOK, Copies, NEW doc \in Document, Store(doc)
  PROVE  Loaded' = doc /\ Copies' /\ disk' \in Document /\ memory' \in Document
BY Saved, Kept DEF Store

LEMMA NotStored ==
  ASSUME TypeOK, Copies, NEW doc, StoreFails(doc)
  PROVE  Loaded' = Loaded /\ Copies' /\ disk' \in Document /\ memory' \in Document
BY Kept DEF StoreFails

LEMMA Untouched ==
  ASSUME TypeOK, Copies, UNCHANGED <<disk, memory>>
  PROVE  Loaded' = Loaded /\ Copies'
<1>1. Interrupted' = Interrupted
  BY DEF Interrupted, Change, Unconfirmed
<1> QED
  BY <1>1 DEF Loaded, Interrupted, Copies

\* A server that starts again finds the receipts it had, with those that were
\* unconfirmed failed.
LEMMA Reloaded ==
  ASSUME TypeOK, Copies, memory' = NULL, disk' = disk, turn'.generation \in Nat
  PROVE  Moved(Requests, {"failed"}) /\ Copies'
<1>1. Loaded' = Interrupted
  BY DEF Loaded, Interrupted, Change, Unconfirmed
<1>2. Loaded = disk \/ Loaded = Interrupted
  BY DEF Copies, Loaded, Interrupted, TypeOK
<1>3. disk \in Document /\ "failed" \in Settled /\ turn.generation \in Nat
  BY DEF TypeOK, Settled
<1>4. Interrupted \in Document /\ Interrupted.turnIds = disk.turnIds
  BY <1>3, ChangeDoc DEF Interrupted
<1>5. \A r \in Requests :
        IF Unconfirmed(disk, r)
          THEN /\ Interrupted.receipts[r] # NULL
               /\ Interrupted.receipts[r].turn = disk.receipts[r].turn
               /\ Interrupted.receipts[r].status = "failed"
          ELSE Interrupted.receipts[r] = disk.receipts[r]
  BY <1>3, ChangeDoc DEF Interrupted
<1> QED
  BY <1>1, <1>2, <1>4, <1>5 DEF Moved, Copies

\* The lookup settles receipts of turns that are over, as failed or cancelled.
LEMMA ReconciledDoc ==
  ASSUME TypeOK
  PROVE  /\ Reconciled \in Document
         /\ Reconciled.turnIds = Loaded.turnIds
         /\ \A r \in Requests :
              IF Over(r)
                THEN /\ Reconciled.receipts[r] # NULL
                     /\ Reconciled.receipts[r].turn = Loaded.receipts[r].turn
                     /\ Reconciled.receipts[r].status = HowItEnded(Loaded.receipts[r].turn)
                     /\ Reconciled.receipts[r].status \in {"failed", "cancelled"}
                ELSE Reconciled.receipts[r] = Loaded.receipts[r]
<1> DEFINE New(r) == [Loaded.receipts[r] EXCEPT !.status = HowItEnded(Loaded.receipts[r].turn)]
           f == [r \in Requests |-> IF Over(r) THEN New(r) ELSE Loaded.receipts[r]]
<1>0. Loaded \in Document
  BY LoadedDoc
<1>1. Reconciled = [Loaded EXCEPT !.receipts = f]
  BY DEF Reconciled
<1>2. ASSUME NEW r \in Requests, Over(r)
      PROVE  /\ New(r) \in Receipt
             /\ New(r).turn = Loaded.receipts[r].turn
             /\ New(r).status = HowItEnded(Loaded.receipts[r].turn)
             /\ New(r).status \in {"failed", "cancelled"}
  <2>1. Loaded.receipts[r] \in Receipt
    BY <1>0, <1>2 DEF Over, Unconfirmed, Document
  <2>2. Loaded.receipts[r].turn \in Turns
    BY <2>1 DEF Receipt
  <2>3. HowItEnded(Loaded.receipts[r].turn) \in {"failed", "cancelled"}
    BY <2>2 DEF HowItEnded, TypeOK
  <2> QED
    BY <2>1, <2>3 DEF Receipt, Settled
<1>3. f \in [Requests -> Receipt \union {NULL}]
  BY <1>0, <1>2 DEF Document
<1>4. /\ Reconciled \in Document
      /\ Reconciled.turnIds = Loaded.turnIds
      /\ Reconciled.receipts = f
  BY <1>0, <1>1, <1>3 DEF Document
<1> QED
  BY <1>2, <1>4

-----------------------------------------------------------------------------
(* Steps that leave the receipts alone.                                    *)

\* What a sequence of instructions or events holds after it has grown.
LEMMA ElementsGrow ==
  ASSUME NEW S, NEW s \in Seq(S), NEW t \in Seq(S), NEW e \in S
  PROVE  /\ Elements(Append(s, e)) = Elements(s) \union {e}
         /\ Elements(s \o t) = Elements(s) \union Elements(t)
         /\ Elements(<<>>) = {}
<1>1. Elements(Append(s, e)) = Elements(s) \union {e}
  BY AppendProperties, LenProperties DEF Elements
<1>2. Elements(s \o t) = Elements(s) \union Elements(t)
  <2>1. \A x \in Elements(s \o t) : x \in Elements(s) \union Elements(t)
    BY ConcatProperties, LenProperties DEF Elements
  <2>2. \A x \in Elements(s) : x \in Elements(s \o t)
    BY ConcatProperties, LenProperties DEF Elements
  <2>3. \A x \in Elements(t) : x \in Elements(s \o t)
    <3> SUFFICES ASSUME NEW j \in 1 .. Len(t) PROVE t[j] \in Elements(s \o t)
      BY DEF Elements
    <3>1. Len(s) \in Nat /\ Len(t) \in Nat
      BY LenProperties
    <3>2. Len(s) + j \in 1 .. Len(s) + Len(t) /\ ~(Len(s) + j <= Len(s)) /\ Len(s) + j - Len(s) = j
      BY <3>1
    <3>3. (s \o t)[Len(s) + j] = t[j] /\ Len(s) + j \in 1 .. Len(s \o t)
      BY <3>1, <3>2, ConcatProperties
    <3> QED
      BY <3>3 DEF Elements
  <2> QED
    BY <2>1, <2>2, <2>3
<1>3. Elements(<<>>) = {}
  BY DEF Elements
<1> QED
  BY <1>1, <1>2, <1>3

LEMMA InvClose == ASSUME IInv, Close PROVE IInv'
<1> USE DEF IInv, Close
<1>0. Loaded' = Loaded /\ Copies'
  BY Untouched
<1>1. TypeOK'
  BY DEF TypeOK, coordinator
<1>2. Thread' /\ CancelReaches'
  BY DEF Thread, CancelReaches, Restarting, TypeOK, coordinator, HasTurn, AtWork, IdleTurn
<1>3. Begun' /\ Owned'
  BY <1>0 DEF Begun, Owned, Mine, Accepted, TypeOK
<1>4. Confirmed' /\ GivenUp' /\ Silent'
  BY <1>0 DEF Confirmed, GivenUp, Silent, Answering, AllDelivered, Mine, Answered, Accepted,
              Unconfirmed, TypeOK, coordinator
<1>5. FinalIsLast' /\ FinalKeepsInstructions'
  BY <1>0 DEF FinalIsLast, FinalKeepsInstructions
<1> QED
  BY <1>0, <1>1, <1>2, <1>3, <1>4, <1>5

LEMMA InvStartProvider == ASSUME IInv, StartProvider PROVE IInv'
<1> USE DEF IInv, StartProvider
<1>0. Loaded' = Loaded /\ Copies'
  BY Untouched DEF jobs
<1>1. TypeOK'
  BY DEF TypeOK, coordinator, jobs, Places, Events
<1>2. Thread' /\ CancelReaches'
  BY DEF Thread, CancelReaches, Restarting, TypeOK, coordinator, jobs, HasTurn, AtWork, IdleTurn
<1>3. Begun' /\ Owned'
  BY <1>0 DEF Begun, Owned, Mine, Accepted, TypeOK, jobs
<1>4. Confirmed' /\ GivenUp' /\ Silent'
  BY <1>0 DEF Confirmed, GivenUp, Silent, Answering, AllDelivered, Mine, Answered, Accepted,
              Unconfirmed, TypeOK, coordinator, jobs, Thread
<1>5. FinalIsLast' /\ FinalKeepsInstructions'
  BY <1>0 DEF FinalIsLast, FinalKeepsInstructions, jobs
<1> QED
  BY <1>0, <1>1, <1>2, <1>3, <1>4, <1>5

LEMMA InvSourceEnds == ASSUME IInv, SourceEnds PROVE IInv'
<1> USE DEF IInv, SourceEnds
<1>0. Loaded' = Loaded /\ Copies'
  BY Untouched DEF jobs
<1>1. TypeOK'
  <2>1. provider' \in BOOLEAN /\ pc' \in Places
    BY DEF TypeOK, Places
  <2> QED
    BY <2>1 DEF TypeOK, jobs
<1>2. Thread' /\ CancelReaches'
  BY DEF Thread, CancelReaches, Restarting, TypeOK, coordinator, jobs, HasTurn, AtWork, IdleTurn
<1>3. Begun' /\ Owned'
  BY <1>0 DEF Begun, Owned, Mine, Accepted, TypeOK, jobs
<1>4. Confirmed' /\ GivenUp' /\ Silent'
  BY <1>0 DEF Confirmed, GivenUp, Silent, Answering, AllDelivered, Mine, Answered, Accepted,
              Unconfirmed, TypeOK, coordinator, jobs, Thread, Events
<1>5. FinalIsLast' /\ FinalKeepsInstructions'
  BY <1>0 DEF FinalIsLast, FinalKeepsInstructions, jobs
<1> QED
  BY <1>0, <1>1, <1>2, <1>3, <1>4, <1>5

LEMMA InvHandle == ASSUME IInv, Handle PROVE IInv'
<1> USE DEF IInv, Handle
<1>0. Loaded' = Loaded /\ Copies'
  BY Untouched DEF jobs
<1>1. TypeOK'
  BY DEF TypeOK, coordinator, jobs, Places, Events
<1>2. Thread' /\ CancelReaches'
  BY DEF Thread, CancelReaches, Restarting, TypeOK, coordinator, jobs, HasTurn, AtWork, IdleTurn
<1>3. Begun' /\ Owned'
  BY <1>0 DEF Begun, Owned, Mine, Accepted, TypeOK, jobs
<1>4. Confirmed' /\ GivenUp' /\ Silent'
  BY <1>0 DEF Confirmed, GivenUp, Silent, Answering, AllDelivered, Mine, Answered, Accepted,
              Unconfirmed, TypeOK, coordinator, jobs, Thread
<1>5. FinalIsLast' /\ FinalKeepsInstructions'
  BY <1>0 DEF FinalIsLast, FinalKeepsInstructions, jobs
<1> QED
  BY <1>0, <1>1, <1>2, <1>3, <1>4, <1>5

LEMMA InvCloseSource == ASSUME IInv, CloseSource PROVE IInv'
<1> USE DEF IInv, CloseSource
<1>0. Loaded' = Loaded /\ Copies'
  BY Untouched DEF jobs
<1>1. TypeOK'
  BY DEF TypeOK, coordinator, jobs, Places, Events
<1>2. Thread' /\ CancelReaches'
  BY DEF Thread, CancelReaches, Restarting, TypeOK, coordinator, jobs, HasTurn, AtWork, IdleTurn
<1>3. Begun' /\ Owned'
  BY <1>0 DEF Begun, Owned, Mine, Accepted, TypeOK, jobs
<1>4. Confirmed' /\ GivenUp' /\ Silent'
  BY <1>0 DEF Confirmed, GivenUp, Silent, Answering, AllDelivered, Mine, Answered, Accepted,
              Unconfirmed, TypeOK, coordinator, jobs, Thread
<1>5. FinalIsLast' /\ FinalKeepsInstructions'
  BY <1>0 DEF FinalIsLast, FinalKeepsInstructions, jobs
<1> QED
  BY <1>0, <1>1, <1>2, <1>3, <1>4, <1>5

LEMMA InvLeave == ASSUME IInv, Leave PROVE IInv'
<1> USE DEF IInv, Leave
<1>0. Loaded' = Loaded /\ Copies'
  BY Untouched DEF jobs
<1>1. TypeOK'
  BY DEF TypeOK, coordinator, jobs, Places, Events
<1>2. Thread' /\ CancelReaches'
  BY DEF Thread, CancelReaches, Restarting, TypeOK, coordinator, jobs, HasTurn, AtWork, IdleTurn
<1>3. Begun' /\ Owned'
  BY <1>0 DEF Begun, Owned, Mine, Accepted, TypeOK, jobs
<1>4. Confirmed' /\ GivenUp' /\ Silent'
  BY <1>0 DEF Confirmed, GivenUp, Silent, Answering, AllDelivered, Mine, Answered, Accepted,
              Unconfirmed, TypeOK, coordinator, jobs, Thread
<1>5. FinalIsLast' /\ FinalKeepsInstructions'
  BY <1>0 DEF FinalIsLast, FinalKeepsInstructions, jobs
<1> QED
  BY <1>0, <1>1, <1>2, <1>3, <1>4, <1>5

\* The journal of a turn grows by an event.
LEMMA Written ==
  ASSUME TypeOK, NEW t \in Turns, journal[t] # NULL, NEW e \in Terminal, Write(t, e)
  PROVE  /\ journal' \in [Turns -> Seq(Terminal) \union {NULL}]
         /\ \A u \in Turns : u # t => journal'[u] = journal[u]
         /\ journal'[t] # NULL
         /\ Answered(t)' <=> (Answered(t) \/ e = "final")
         /\ \A u \in Turns : u # t => (Answered(u)' <=> Answered(u))
         /\ FinalIsLast /\ ~Answered(t) => FinalIsLast'
<1>1. journal[t] \in Seq(Terminal)
  BY DEF TypeOK
<1>2. Append(journal[t], e) \in Seq(Terminal)
  BY <1>1, AppendProperties
<1>3. journal'[t] = Append(journal[t], e) /\ \A u \in Turns : u # t => journal'[u] = journal[u]
  BY DEF Write, TypeOK
<1>4. Elements(Append(journal[t], e)) = Elements(journal[t]) \union {e}
  BY <1>1, ElementsGrow
<1>5. Answered(t)' <=> (Answered(t) \/ e = "final")
  BY <1>2, <1>3, <1>4 DEF Answered
<1>6. ASSUME FinalIsLast, ~Answered(t) PROVE FinalIsLast'
  <2> SUFFICES ASSUME NEW u \in Turns, journal'[u] # NULL,
                      NEW i \in 1 .. Len(journal'[u]), journal'[u][i] = "final"
               PROVE  i = Len(journal'[u])
    BY DEF FinalIsLast
  <2>1. CASE u # t
    BY <1>3, <1>6, <2>1 DEF FinalIsLast
  <2>2. CASE u = t
    <3>1. Len(journal[t]) \in Nat /\ Len(journal'[u]) = Len(journal[t]) + 1
      BY <1>1, <1>3, <2>2, LenProperties, AppendProperties
    <3>2. CASE i \in 1 .. Len(journal[t])
      <4>1. journal[t][i] = "final"
        BY <1>1, <1>3, <2>2, <3>2, AppendProperties
      <4> QED
        BY <1>6, <3>2, <4>1 DEF Answered, Elements
    <3> QED
      BY <3>1, <3>2
  <2> QED
    BY <2>1, <2>2
<1> QED
  BY <1>2, <1>3, <1>5, <1>6 DEF Write, TypeOK, Answered

\* An event other than the answer keeps what the answers promise.
LEMMA KeptAnswers ==
  ASSUME FinalKeepsInstructions, Loaded' = Loaded,
         \A u \in Turns : Answered(u)' => Answered(u)
  PROVE  FinalKeepsInstructions'
BY DEF FinalKeepsInstructions, Answered


LEMMA InvAnnounce == ASSUME IInv, Announce PROVE IInv'
<1> USE DEF IInv, Announce
<1>0. Loaded' = Loaded /\ Copies'
  BY Untouched
<1>a. job \in Turns /\ journal[job] # NULL /\ {"stopped", "error"} \subseteq Terminal
  BY DEF Thread, TypeOK, Terminal
<1>b. CASE UNCHANGED journal
  <2>1. TypeOK'
    BY <1>b DEF TypeOK, Places, Events
  <2>2. Thread' /\ CancelReaches'
    BY <1>b DEF Thread, CancelReaches, Restarting, TypeOK, HasTurn, AtWork, IdleTurn
  <2>3. Begun' /\ Owned'
    BY <1>0 DEF Begun, Owned, Mine, Accepted, TypeOK, Thread, HasTurn, AtWork
  <2>4. Confirmed' /\ GivenUp' /\ Silent'
    BY <1>0, <1>b DEF Confirmed, GivenUp, Silent, Answering, AllDelivered, Mine, Answered, Accepted,
              Unconfirmed, TypeOK, Thread, HasTurn, AtWork
  <2>5. FinalIsLast' /\ FinalKeepsInstructions'
    BY <1>0, <1>b DEF FinalIsLast, FinalKeepsInstructions
  <2> QED
    BY <1>0, <2>1, <2>2, <2>3, <2>4, <2>5
<1>c. CASE Write(job, "stopped")
  <2>0. /\ journal' \in [Turns -> Seq(Terminal) \union {NULL}]
        /\ journal'[job] # NULL
        /\ \A u \in Turns : Answered(u)' <=> Answered(u)
        /\ ~Answered(job)
        /\ FinalIsLast'
    BY <1>a, <1>c, Written DEF Silent
  <2>1. TypeOK'
    BY <2>0 DEF TypeOK, Places, Events
  <2>2. Thread' /\ CancelReaches'
    BY <2>0 DEF Thread, CancelReaches, Restarting, TypeOK, HasTurn, AtWork, IdleTurn
  <2>3. Begun' /\ Owned'
    BY <1>0 DEF Begun, Owned, Mine, Accepted, TypeOK, Thread, HasTurn, AtWork
  <2>4. Confirmed' /\ GivenUp' /\ Silent'
    BY <1>a, <2>0 DEF Confirmed, GivenUp, Silent, Answering
  <2>5. FinalKeepsInstructions'
    BY <1>0, <2>0, KeptAnswers
  <2> QED
    BY <1>0, <2>0, <2>1, <2>2, <2>3, <2>4, <2>5
<1> QED
  BY <1>b, <1>c

LEMMA InvConsumerFails == ASSUME IInv, ConsumerFails PROVE IInv'
<1> USE DEF IInv, ConsumerFails
<1>0. Loaded' = Loaded /\ Copies'
  BY Untouched
<1>a. job \in Turns /\ journal[job] # NULL /\ {"stopped", "error"} \subseteq Terminal
  BY DEF Thread, TypeOK, Terminal
<1>b. CASE UNCHANGED journal
  <2>1. TypeOK'
    BY <1>b DEF TypeOK, Places, Events
  <2>2. Thread' /\ CancelReaches'
    BY <1>b DEF Thread, CancelReaches, Restarting, TypeOK, HasTurn, AtWork, IdleTurn
  <2>3. Begun' /\ Owned'
    BY <1>0 DEF Begun, Owned, Mine, Accepted, TypeOK, Thread, HasTurn, AtWork
  <2>4. Confirmed' /\ GivenUp' /\ Silent'
    BY <1>0, <1>b DEF Confirmed, GivenUp, Silent, Answering, AllDelivered, Mine, Answered, Accepted,
              Unconfirmed, TypeOK, Thread, HasTurn, AtWork
  <2>5. FinalIsLast' /\ FinalKeepsInstructions'
    BY <1>0, <1>b DEF FinalIsLast, FinalKeepsInstructions
  <2> QED
    BY <1>0, <2>1, <2>2, <2>3, <2>4, <2>5
<1>c. CASE Write(job, "error")
  <2>0. /\ journal' \in [Turns -> Seq(Terminal) \union {NULL}]
        /\ journal'[job] # NULL
        /\ \A u \in Turns : Answered(u)' <=> Answered(u)
        /\ ~Answered(job)
        /\ FinalIsLast'
    BY <1>a, <1>c, Written DEF Silent
  <2>1. TypeOK'
    BY <2>0 DEF TypeOK, Places, Events
  <2>2. Thread' /\ CancelReaches'
    BY <2>0 DEF Thread, CancelReaches, Restarting, TypeOK, HasTurn, AtWork, IdleTurn
  <2>3. Begun' /\ Owned'
    BY <1>0 DEF Begun, Owned, Mine, Accepted, TypeOK, Thread, HasTurn, AtWork
  <2>4. Confirmed' /\ GivenUp' /\ Silent'
    BY <1>a, <2>0 DEF Confirmed, GivenUp, Silent, Answering
  <2>5. FinalKeepsInstructions'
    BY <1>0, <2>0, KeptAnswers
  <2> QED
    BY <1>0, <2>0, <2>1, <2>2, <2>3, <2>4, <2>5
<1> QED
  BY <1>b, <1>c

LEMMA InvReport == ASSUME IInv, Report PROVE IInv'
<1> USE DEF IInv, Report
<1>0. Loaded' = Loaded /\ Copies'
  BY Untouched
<1>a. job \in Turns /\ journal[job] # NULL /\ {"stopped", "error"} \subseteq Terminal
  BY DEF Thread, TypeOK, Terminal
<1>b. CASE UNCHANGED journal
  <2>1. TypeOK'
    BY <1>b DEF TypeOK, Places, Events
  <2>2. Thread' /\ CancelReaches'
    BY <1>b DEF Thread, CancelReaches, Restarting, TypeOK, HasTurn, AtWork, IdleTurn
  <2>3. Begun' /\ Owned'
    BY <1>0 DEF Begun, Owned, Mine, Accepted, TypeOK, Thread, HasTurn, AtWork
  <2>4. Confirmed' /\ GivenUp' /\ Silent'
    BY <1>0, <1>b DEF Confirmed, GivenUp, Silent, Answering, AllDelivered, Mine, Answered, Accepted,
              Unconfirmed, TypeOK, Thread, HasTurn, AtWork
  <2>5. FinalIsLast' /\ FinalKeepsInstructions'
    BY <1>0, <1>b DEF FinalIsLast, FinalKeepsInstructions
  <2> QED
    BY <1>0, <2>1, <2>2, <2>3, <2>4, <2>5
<1>c. CASE Write(job, "error")
  <2>0. /\ journal' \in [Turns -> Seq(Terminal) \union {NULL}]
        /\ journal'[job] # NULL
        /\ \A u \in Turns : Answered(u)' <=> Answered(u)
        /\ ~Answered(job)
        /\ FinalIsLast'
    BY <1>a, <1>c, Written DEF Silent
  <2>1. TypeOK'
    BY <2>0 DEF TypeOK, Places, Events
  <2>2. Thread' /\ CancelReaches'
    BY <2>0 DEF Thread, CancelReaches, Restarting, TypeOK, HasTurn, AtWork, IdleTurn
  <2>3. Begun' /\ Owned'
    BY <1>0 DEF Begun, Owned, Mine, Accepted, TypeOK, Thread, HasTurn, AtWork
  <2>4. Confirmed' /\ GivenUp' /\ Silent'
    BY <1>a, <2>0 DEF Confirmed, GivenUp, Silent, Answering
  <2>5. FinalKeepsInstructions'
    BY <1>0, <2>0, KeptAnswers
  <2> QED
    BY <1>0, <2>0, <2>1, <2>2, <2>3, <2>4, <2>5
<1> QED
  BY <1>b, <1>c

\* A new job has an empty journal, or one that says the thread did not start.
LEMMA InvStartJob == ASSUME IInv, NEW t \in Turns, StartJob(t) PROVE IInv'
<1> USE DEF IInv, StartJob
<1>0. Loaded' = Loaded /\ Copies'
  BY Untouched
<1>a. <<>> \in Seq(Terminal) /\ <<"error">> \in Seq(Terminal)
  BY DEF Terminal
<1>b. PICK j \in {<<>>, <<"error">>} : journal' = [journal EXCEPT ![t] = j]
  OBVIOUS
<1>c. /\ journal' \in [Turns -> Seq(Terminal) \union {NULL}]
      /\ journal'[t] = j /\ j # NULL
      /\ \A u \in Turns : u # t => journal'[u] = journal[u]
  BY <1>a, <1>b DEF TypeOK
<1>d. /\ \A i \in 1 .. Len(j) : j[i] # "final"
      /\ "final" \notin Elements(j)
  BY <1>b DEF Elements
<1>e. \A u \in Turns : Answered(u)' <=> Answered(u)
  BY <1>c, <1>d DEF Answered
<1>1. TypeOK'
  BY <1>c DEF TypeOK, Places
<1>2. Thread' /\ CancelReaches'
  BY <1>c DEF Thread, CancelReaches, Restarting, TypeOK, HasTurn, AtWork, IdleTurn
<1>3. Begun' /\ Owned'
  BY <1>0 DEF Begun, Owned, Mine, Accepted, TypeOK
<1>4. Confirmed' /\ GivenUp' /\ Silent'
  BY <1>c, <1>d DEF Confirmed, GivenUp, Silent, Answering, Answered
<1>5. FinalIsLast'
  BY <1>c, <1>d DEF FinalIsLast
<1>6. FinalKeepsInstructions'
  BY <1>0, <1>e, KeptAnswers
<1> QED
  BY <1>0, <1>1, <1>2, <1>3, <1>4, <1>5, <1>6

\* The turn's last event.  It is the provider's answer only if the turn was not
\* stopped, and then all its instructions were delivered.
LEMMA InvConclude == ASSUME IInv, Conclude PROVE IInv'
<1> USE DEF IInv, Conclude
<1>0. Loaded' = Loaded /\ Copies'
  BY Untouched
<1>a. job \in Turns /\ journal[job] # NULL /\ ~Answered(job) /\ turn.id = job
  BY DEF Thread, TypeOK, Silent, HasTurn
<1>b. CASE UNCHANGED journal
  <2>1. TypeOK'
    BY <1>b DEF TypeOK, Places
  <2>2. Thread' /\ CancelReaches'
    BY <1>b DEF Thread, CancelReaches, Restarting, HasTurn, AtWork, IdleTurn
  <2>3. Begun' /\ Owned'
    BY <1>0 DEF Begun, Owned, Mine, Accepted
  <2>4. Confirmed' /\ GivenUp' /\ Silent'
    BY <1>0, <1>b DEF Confirmed, GivenUp, Silent, Answering, Answered, Accepted, Unconfirmed
  <2>5. FinalIsLast' /\ FinalKeepsInstructions'
    BY <1>0, <1>b DEF FinalIsLast, FinalKeepsInstructions
  <2> QED
    BY <1>0, <2>1, <2>2, <2>3, <2>4, <2>5
<1>c. ASSUME NEW e \in Terminal, Write(job, e), e = "final" => ~turn.stopped /\ terminal = "final"
      PROVE  IInv'
  <2>0. /\ journal' \in [Turns -> Seq(Terminal) \union {NULL}]
        /\ journal'[job] # NULL
        /\ Answered(job)' <=> e = "final"
        /\ \A u \in Turns : u # job => (Answered(u)' <=> Answered(u))
        /\ FinalIsLast'
    BY <1>a, <1>c, Written
  <2>1. TypeOK'
    BY <2>0 DEF TypeOK, Places
  <2>2. Thread' /\ CancelReaches'
    BY <2>0 DEF Thread, CancelReaches, Restarting, HasTurn, AtWork, IdleTurn
  <2>3. Begun' /\ Owned'
    BY <1>0 DEF Begun, Owned, Mine, Accepted
  <2>4. Confirmed' /\ GivenUp' /\ Silent'
    BY <1>0 DEF Confirmed, GivenUp, Silent, Answering, Accepted, Unconfirmed
  <2>5. FinalKeepsInstructions'
    <3>1. e = "final" => AllDelivered
      BY <1>c DEF Confirmed, Answering
    <3>2. ASSUME NEW u \in Turns, Answered(u)' PROVE Answered(u) \/ (u = turn.id /\ AllDelivered)
      <4>1. CASE u = job
        BY <1>a, <2>0, <3>1, <3>2, <4>1
      <4>2. CASE u # job
        BY <2>0, <3>2, <4>2
      <4> QED
        BY <4>1, <4>2
    <3> QED
      BY <1>0, <3>2 DEF FinalKeepsInstructions, Answered, AllDelivered, Mine
  <2> QED
    BY <1>0, <2>0, <2>1, <2>2, <2>3, <2>4, <2>5
<1>d. CASE turn.stopped
  BY <1>c, <1>d DEF Terminal
<1>e. CASE ~turn.stopped /\ terminal # NULL
  BY <1>c, <1>e DEF Terminal, TypeOK
<1> QED
  BY <1>b, <1>d, <1>e

-----------------------------------------------------------------------------
(* Steps that change receipts.                                             *)

\* Only requests are accepted.
LEMMA AcceptedType == ASSUME TypeOK PROVE Accepted \subseteq Requests
BY ElementOfSeq DEF TypeOK, Accepted, Elements

\* Settling unconfirmed receipts leaves the delivered ones, and the turns the
\* receipts name.
LEMMA MovedKeeps ==
  ASSUME TypeOK, Begun, FinalKeepsInstructions, NEW ids, NEW how, Moved(ids, how),
         journal' = journal
  PROVE  /\ FinalKeepsInstructions'
         /\ \A r \in Requests :
              Loaded'.receipts[r] # NULL => Loaded'.receipts[r].turn \in Loaded'.turnIds
<1>1. \A r \in Requests : Loaded'.receipts[r] # NULL =>
        /\ Loaded.receipts[r] # NULL
        /\ Loaded'.receipts[r].turn = Loaded.receipts[r].turn
  BY DEF Moved, Unconfirmed
<1>2. \A r \in Requests : Loaded.receipts[r].status = "delivered" =>
        Loaded'.receipts[r] = Loaded.receipts[r]
  BY DEF Moved, Unconfirmed
<1> QED
  BY <1>1, <1>2 DEF FinalKeepsInstructions, Begun, Moved

\* A document made by Change, stored or not.
LEMMA ChangeMoves ==
  ASSUME TypeOK, Copies, NEW ids, NEW s \in Settled,
         \/ Store(Change(Loaded, ids, s))
         \/ StoreFails(Change(Loaded, ids, s))
  PROVE  Moved(ids, {s}) /\ Copies' /\ disk' \in Document /\ memory' \in Document
<1> DEFINE doc == Change(Loaded, ids, s)
<1>1. Loaded \in Document /\ turn.generation \in Nat
  BY LoadedDoc DEF TypeOK
<1>2. /\ doc \in Document /\ doc.turnIds = Loaded.turnIds
      /\ \A r \in Requests :
           IF r \in ids /\ Unconfirmed(Loaded, r)
             THEN /\ doc.receipts[r] # NULL
                  /\ doc.receipts[r].turn = Loaded.receipts[r].turn
                  /\ doc.receipts[r].status = s
             ELSE doc.receipts[r] = Loaded.receipts[r]
  BY <1>1, ChangeDoc
<1> HIDE DEF doc
<1>3. CASE Store(doc)
  BY <1>2, <1>3, Stored DEF Moved
<1>4. CASE StoreFails(doc)
  BY <1>1, <1>4, NotStored DEF Moved
<1> QED
  BY <1>3, <1>4 DEF doc

\* What the lookup settles it settles as HowItEnded says.
LEMMA LookUpMoves ==
  ASSUME TypeOK, Copies, Store(Reconciled) \/ StoreFails(Reconciled)
  PROVE  /\ Moved({r \in Requests : Over(r)}, {"failed", "cancelled"})
         /\ \A r \in Requests : Loaded'.receipts[r] # Loaded.receipts[r] =>
              Loaded'.receipts[r].status = HowItEnded(Loaded.receipts[r].turn)
         /\ Copies' /\ disk' \in Document /\ memory' \in Document
<1>1. Loaded \in Document
  BY LoadedDoc
<1>2. CASE Store(Reconciled)
  BY <1>2, ReconciledDoc, Stored DEF Moved, Over
<1>3. CASE StoreFails(Reconciled)
  BY <1>1, <1>3, NotStored DEF Moved
<1> QED
  BY <1>2, <1>3

\* A turn owns what it accepted for as long as it is active, when receipts are
\* settled that are not its own, or as delivered, or after a stop.
LEMMA OwnedKeeps ==
  ASSUME TypeOK, Owned, NEW ids, NEW how, Moved(ids, how),
         turn'.id = turn.id, Accepted' = Accepted, active' \in {active, NULL},
         ~turn'.stopped => ~turn.stopped,
         ~turn'.stopped => how = {"delivered"} \/ \A r \in ids : ~Mine(r)
  PROVE  Owned'
<1> SUFFICES ASSUME active' # NULL, NEW r \in Requests
             PROVE  /\ Mine(r)' <=> r \in Accepted'
                    /\ Mine(r)' /\ ~turn'.stopped =>
                         Loaded'.receipts[r].status \in {"interrupting", "delivered"}
  BY DEF Owned
<1>1. /\ Mine(r) <=> r \in Accepted
      /\ Mine(r) /\ ~turn.stopped => Loaded.receipts[r].status \in {"interrupting", "delivered"}
  BY DEF Owned
<1>2. Mine(r)' <=> Mine(r)
  BY DEF Moved, Mine, Unconfirmed
<1> QED
  BY <1>1, <1>2 DEF Moved

LEMMA InvLookUp == ASSUME IInv, LookUp PROVE IInv'
<1> USE DEF IInv, LookUp, coordinator, jobs
<1>0. /\ Moved({r \in Requests : Over(r)}, {"failed", "cancelled"})
      /\ Copies' /\ disk' \in Document /\ memory' \in Document
  BY LookUpMoves
<1>1. TypeOK'
  BY <1>0 DEF TypeOK
<1>2. Thread' /\ CancelReaches'
  BY DEF Thread, CancelReaches, Restarting
<1>3. Begun' /\ FinalKeepsInstructions'
  BY <1>0, MovedKeeps DEF Begun, Moved
<1>4. Owned'
  <2>1. turn.stopped \/ \A r \in {q \in Requests : Over(q)} : active # NULL => ~Mine(r)
    BY DEF Over, Mine, Thread, HasTurn, AtWork
  <2>2. CASE active = NULL
    BY <2>2 DEF Owned
  <2>3. CASE active # NULL
    BY <1>0, <2>1, <2>3, OwnedKeeps DEF Accepted
  <2> QED
    BY <2>2, <2>3
<1>5. Confirmed' /\ GivenUp'
  <2>1. Confirmed'
    BY <1>0 DEF Confirmed, Answering, AllDelivered, Mine, Moved, Unconfirmed
  <2>2. GivenUp'
    BY <1>0, AcceptedType DEF GivenUp, Answered, Accepted, Unconfirmed, Moved
  <2> QED
    BY <2>1, <2>2
<1>6. Silent' /\ FinalIsLast'
  BY DEF Silent, Answered, FinalIsLast
<1> QED
  BY <1>0, <1>1, <1>2, <1>3, <1>4, <1>5, <1>6

LEMMA InvStop == ASSUME IInv, Stop PROVE IInv'
<1> USE DEF IInv, Stop, coordinator, jobs
<1>0. /\ Moved(Accepted, {"cancelled"})
      /\ Copies' /\ disk' \in Document /\ memory' \in Document
  BY ChangeMoves DEF Settled
<1>a. /\ turn'.id = turn.id /\ turn'.stopped /\ turn'.cancel /\ Accepted' = Accepted
      /\ turn'.pending = turn.pending /\ turn'.delivering = turn.delivering
  BY DEF TypeOK, Accepted
<1>b. active = job /\ turn.id = job /\ pc # "after" /\ ~(pc = "finally" /\ Answered(job))
  BY DEF Thread, GivenUp, HasTurn, AtWork
<1>1. TypeOK'
  BY <1>0 DEF TypeOK
<1>2. Thread' /\ CancelReaches'
  BY <1>a, <1>b DEF Thread, CancelReaches, TypeOK
<1>3. Begun' /\ FinalKeepsInstructions'
  BY <1>0, <1>a, MovedKeeps DEF Begun, Moved
<1>4. Owned'
  BY <1>0, <1>a, OwnedKeeps
<1>5. Confirmed' /\ GivenUp'
  BY <1>a, <1>b DEF Confirmed, GivenUp, Answered
<1>6. Silent' /\ FinalIsLast'
  BY DEF Silent, Answered, FinalIsLast
<1> QED
  BY <1>0, <1>1, <1>2, <1>3, <1>4, <1>5, <1>6

\* A new instruction is accepted by the active turn, which has not answered.
LEMMA InvSteer == ASSUME IInv, NEW r \in Requests, Steer(r) PROVE IInv'
<1> USE DEF IInv, coordinator, jobs
<1> DEFINE new == [turn |-> turn.id, generation |-> turn.generation + 1,
                   status |-> "interrupting"]
           doc == [Reconciled EXCEPT !.receipts[r] = new]
<1>b. /\ active # NULL /\ active = job /\ turn.id = job /\ job \in Turns /\ ~turn.stopped
      /\ pc \in AtWork \union {"finally", "unwind"} /\ ~Answered(job)
  BY DEF Thread, GivenUp, HasTurn, AtWork, Steer, TypeOK, Silent
<1>c. new \in Receipt /\ new # NULL
  BY <1>b DEF Receipt, TypeOK
<1>d. /\ Reconciled \in Document /\ Reconciled.turnIds = Loaded.turnIds
      /\ \A q \in Requests :
           IF Over(q)
             THEN /\ Reconciled.receipts[q] # NULL
                  /\ Reconciled.receipts[q].turn = Loaded.receipts[q].turn
                  /\ Loaded.receipts[q] # NULL /\ Loaded.receipts[q].status = "interrupting"
                  /\ Loaded.receipts[q].turn # turn.id
             ELSE Reconciled.receipts[q] = Loaded.receipts[q]
  BY <1>b, ReconciledDoc DEF Over, Unconfirmed
<1>e. /\ doc \in Document /\ doc.turnIds = Loaded.turnIds
      /\ doc.receipts[r] = new
      /\ \A q \in Requests : q # r => doc.receipts[q] = Reconciled.receipts[q]
  BY <1>c, <1>d DEF Document
<1>f. /\ Loaded' = doc
      /\ Copies' /\ disk' \in Document /\ memory' \in Document
  BY <1>e, Saved DEF Steer
<1>g. Reconciled.receipts[r] = NULL /\ Loaded.receipts[r] = NULL
  BY <1>d DEF Steer
<1> HIDE DEF doc
<1>h. /\ turn'.id = turn.id /\ ~turn'.stopped /\ turn'.cancel
      /\ turn'.pending = Append(turn.pending, r) /\ turn'.delivering = turn.delivering
      /\ Append(turn.pending, r) \in Seq(Requests) /\ Append(turn.pending, r) # <<>>
      /\ turn' \in [id : Turns \union {NULL}, generation : Nat, cancel : BOOLEAN,
               stopped : BOOLEAN, pending : Seq(Requests), delivering : Seq(Requests)]
  <2>1. turn.pending \in Seq(Requests)
    BY DEF TypeOK
  <2>2. Append(turn.pending, r) \in Seq(Requests) /\ Append(turn.pending, r) # <<>>
    BY <2>1, AppendProperties
  <2>3. turn' = [turn EXCEPT !.pending = Append(turn.pending, r), !.cancel = TRUE]
    BY DEF Steer
  <2> QED
    BY <1>b, <2>2, <2>3 DEF TypeOK
<1>i. Accepted' = Accepted \union {r}
  <2>1. turn.pending \in Seq(Requests)
    BY DEF TypeOK
  <2> QED
    BY <1>h, <2>1, ElementsGrow DEF Accepted
<1>1. TypeOK'
  BY <1>f, <1>h DEF TypeOK, Steer
<1>2. Thread' /\ CancelReaches'
  BY <1>b, <1>h DEF Thread, CancelReaches, Steer
<1>3. Begun'
  <2>1. turn'.id \in Loaded'.turnIds /\ ended' = ended /\ active' = active
    BY <1>b, <1>e, <1>f, <1>h DEF Begun, Steer
  <2>2. ASSUME NEW q \in Requests, Loaded'.receipts[q] # NULL
        PROVE  Loaded'.receipts[q].turn \in Loaded'.turnIds
    <3>1. CASE q = r
      BY <1>e, <1>f, <1>h, <2>1, <3>1
    <3>2. CASE q # r
      BY <1>d, <1>e, <1>f, <2>2, <3>2 DEF Begun
    <3> QED
      BY <3>1, <3>2
  <2> QED
    BY <1>e, <1>f, <2>1, <2>2 DEF Begun
<1>4. Owned'
  <2> SUFFICES ASSUME NEW q \in Requests
               PROVE  /\ Mine(q)' <=> q \in Accepted'
                      /\ Mine(q)' => Loaded'.receipts[q].status \in {"interrupting", "delivered"}
    BY DEF Owned
  <2>1. CASE q = r
    BY <1>c, <1>e, <1>f, <1>h, <1>i, <2>1 DEF Mine
  <2>2. CASE q # r
    <3>1. Mine(q)' <=> Mine(q)
      BY <1>d, <1>e, <1>f, <1>h, <2>2 DEF Mine
    <3>2. Mine(q) => Loaded'.receipts[q] = Loaded.receipts[q]
      BY <1>d, <1>e, <1>f, <2>2 DEF Mine
    <3> QED
      BY <1>b, <1>i, <2>2, <3>1, <3>2 DEF Owned
  <2> QED
    BY <2>1, <2>2
<1>5. Confirmed' /\ GivenUp' /\ Silent' /\ FinalIsLast'
  BY <1>b, <1>h DEF Confirmed, GivenUp, Silent, Answered, FinalIsLast, Steer, AtWork
<1>6. FinalKeepsInstructions'
  <2> SUFFICES ASSUME NEW t \in Turns, Answered(t), NEW q \in Requests,
                      Loaded'.receipts[q] # NULL, Loaded'.receipts[q].turn = t
               PROVE  Loaded'.receipts[q].status = "delivered"
    BY DEF FinalKeepsInstructions, Answered, Steer
  <2>1. q # r
    BY <1>b, <1>e, <1>f
  <2>2. Loaded.receipts[q] # NULL /\ Loaded.receipts[q].turn = t
    BY <1>d, <1>e, <1>f, <2>1
  <2>3. Loaded.receipts[q].status = "delivered"
    BY <2>2 DEF FinalKeepsInstructions, Answered
  <2> QED
    BY <1>d, <1>e, <1>f, <2>1, <2>3
<1> QED
  BY <1>f, <1>1, <1>2, <1>3, <1>4, <1>5, <1>6

\* A conversation that is forgotten leaves nothing behind.
LEMMA InvForget == ASSUME IInv, Forget PROVE IInv'
<1> USE DEF IInv, Forget, coordinator
<1>0. /\ disk'.receipts = [r \in Requests |-> NULL] /\ disk'.turnIds = {}
      /\ disk' \in Document
  <2>1. [receipts |-> NoReceipts, turnIds |-> {}] \in Document
    BY DEF NoReceipts, Document
  <2> QED
    BY <2>1 DEF NoReceipts
<1>1. \A r \in Requests : Loaded'.receipts[r] = NULL
  <2>1. Loaded' = Interrupted'
    BY DEF Loaded, Interrupted
  <2>2. \A r \in Requests : ~Unconfirmed(disk, r)'
    BY <1>0 DEF Unconfirmed
  <2>3. Interrupted'.receipts = [r \in Requests |-> disk'.receipts[r]]
    BY <1>0, <2>2 DEF Interrupted, Change, Document
  <2> QED
    BY <1>0, <2>1, <2>3
<1>a. turn'.pending = <<>> /\ turn'.delivering = <<>> /\ turn'.id = NULL /\ turn' = IdleTurn
  BY DEF IdleTurn
<1>b. pc = "idle"
  BY DEF Thread
<1>2. TypeOK'
  BY <1>0 DEF TypeOK, IdleTurn
<1>3. Thread' /\ CancelReaches' /\ Copies'
  BY <1>a, <1>b DEF Thread, CancelReaches, HasTurn, AtWork, Copies
<1>4. Begun' /\ Owned'
  BY <1>1, <1>a DEF Begun, Owned
<1>5. Confirmed' /\ GivenUp' /\ Silent'
  BY <1>b DEF Confirmed, GivenUp, Silent, Answering
<1>6. FinalIsLast' /\ FinalKeepsInstructions'
  BY DEF FinalIsLast, FinalKeepsInstructions
<1> QED
  BY <1>2, <1>3, <1>4, <1>5, <1>6

\* The server that starts again has no turn and no job.
LEMMA InvRestart == ASSUME IInv, Restart PROVE IInv'
<1> USE DEF IInv, Restart
<1>a. turn'.pending = <<>> /\ turn'.delivering = <<>> /\ turn'.id = NULL /\ turn' = IdleTurn
      /\ turn'.generation = 0
  BY DEF IdleTurn
<1>0. Moved(Requests, {"failed"}) /\ Copies'
  BY <1>a, Reloaded
<1>1. TypeOK'
  <2>1. provider' \in BOOLEAN /\ closed' \in BOOLEAN /\ pc' \in Places
    BY DEF Places
  <2>2. turn' \in [id : Turns \union {NULL}, generation : Nat, cancel : BOOLEAN,
               stopped : BOOLEAN, pending : Seq(Requests), delivering : Seq(Requests)]
    BY DEF IdleTurn
  <2> QED
    BY <2>1, <2>2 DEF TypeOK
<1>2. Thread' /\ CancelReaches' /\ Owned'
  BY <1>a DEF Thread, CancelReaches, HasTurn, AtWork, Owned
<1>3. Begun' /\ FinalKeepsInstructions'
  BY <1>0, <1>a, MovedKeeps DEF Begun, Moved
<1>4. Confirmed' /\ GivenUp' /\ Silent' /\ FinalIsLast'
  BY DEF Confirmed, GivenUp, Silent, Answering, FinalIsLast
<1> QED
  BY <1>0, <1>1, <1>2, <1>3, <1>4

\* A turn begins with a new id, so no receipt names it yet.
LEMMA InvBegin == ASSUME IInv, Begin PROVE IInv'
<1> USE DEF IInv, jobs
<1>a. active = NULL /\ job \in Turns /\ pc = "begin" /\ ~Answered(job) /\ journal[job] # NULL
  BY DEF Begin, Thread, AtWork, TypeOK, Silent
<1>b. UNCHANGED <<ended, event, terminal, provider, job, journal, closed>>
  BY DEF Begin
<1>1. CASE Keep /\ pc' = "raised" /\ UNCHANGED <<active, turn, messages>>
  <2>0. Loaded' = Loaded /\ Copies' /\ disk' \in Document /\ memory' \in Document
    BY <1>1, Kept
  <2>1. TypeOK'
    BY <1>1, <1>b, <2>0 DEF TypeOK, Places
  <2>2. Thread' /\ CancelReaches'
    BY <1>1, <1>a, <1>b DEF Thread, CancelReaches, HasTurn, AtWork
  <2>3. Begun' /\ Owned'
    BY <1>1, <1>a, <1>b, <2>0 DEF Begun, Owned
  <2>4. Confirmed' /\ GivenUp' /\ Silent'
    BY <1>1, <1>a, <1>b DEF Confirmed, GivenUp, Silent, Answering, Answered
  <2>5. FinalIsLast' /\ FinalKeepsInstructions'
    BY <1>b, <2>0 DEF FinalIsLast, FinalKeepsInstructions
  <2> QED
    BY <2>0, <2>1, <2>2, <2>3, <2>4, <2>5
<1>2. ASSUME job \notin Loaded.turnIds, Save([Loaded EXCEPT !.turnIds = @ \union {job}]),
             active' = job, turn' = [IdleTurn EXCEPT !.id = job], messages' = <<>>,
             pc' = "announce"
      PROVE  IInv'
  <2> DEFINE doc == [Loaded EXCEPT !.turnIds = @ \union {job}]
  <2>1. Loaded \in Document
    BY LoadedDoc
  <2>2. /\ doc \in Document /\ doc.receipts = Loaded.receipts
        /\ doc.turnIds = Loaded.turnIds \union {job}
    BY <1>a, <2>1 DEF Document
  <2>3. /\ Loaded'.receipts = Loaded.receipts /\ Loaded'.turnIds = Loaded.turnIds \union {job}
        /\ Copies' /\ disk' \in Document /\ memory' \in Document
    BY <1>2, <2>2, Saved
  <2> HIDE DEF doc
  <2>4. /\ turn'.id = job /\ turn'.pending = <<>> /\ turn'.delivering = <<>> /\ ~turn'.stopped
        /\ turn' \in [id : Turns \union {NULL}, generation : Nat, cancel : BOOLEAN,
               stopped : BOOLEAN, pending : Seq(Requests), delivering : Seq(Requests)]
    <3>1. turn' = [id |-> job, generation |-> 0, cancel |-> FALSE, stopped |-> FALSE,
                   pending |-> <<>>, delivering |-> <<>>]
      BY <1>2 DEF IdleTurn
    <3> QED
      BY <1>a, <3>1
  <2>5. TypeOK'
    BY <1>2, <1>a, <1>b, <2>3, <2>4 DEF TypeOK, Places
  <2>6. Thread' /\ CancelReaches'
    BY <1>2, <1>a, <1>b, <2>4 DEF Thread, CancelReaches, Restarting, HasTurn, AtWork
  <2>7. Begun'
    BY <1>2, <1>a, <1>b, <2>3, <2>4 DEF Begun
  <2>8. Owned'
    <3>1. \A r \in Requests : ~Mine(r)'
      BY <1>2, <2>3, <2>4 DEF Mine, Begun
    <3>2. Accepted' = {}
      BY <2>4 DEF Accepted, Elements
    <3> QED
      BY <3>1, <3>2 DEF Owned
  <2>9. Confirmed' /\ GivenUp' /\ Silent'
    BY <1>2, <1>a, <1>b DEF Confirmed, GivenUp, Silent, Answering, Answered
  <2>10. FinalIsLast' /\ FinalKeepsInstructions'
    BY <1>b, <2>3 DEF FinalIsLast, FinalKeepsInstructions
  <2> QED
    BY <2>3, <2>5, <2>6, <2>7, <2>8, <2>9, <2>10
<1> QED
  BY <1>1, <1>2 DEF Begin

\* What a saved Change makes of the receipts it is about.
LEMMA ChangeSaved ==
  ASSUME TypeOK, Copies, NEW ids, NEW s \in Settled, Store(Change(Loaded, ids, s))
  PROVE  \A r \in Requests : r \in ids /\ Unconfirmed(Loaded, r) =>
           Loaded'.receipts[r] # NULL /\ Loaded'.receipts[r].status = s
<1>1. Loaded \in Document /\ turn.generation \in Nat
  BY LoadedDoc DEF TypeOK
<1>2. Change(Loaded, ids, s) \in Document
  BY <1>1, ChangeDoc
<1>3. Loaded' = Change(Loaded, ids, s)
  BY <1>2, Stored
<1> QED
  BY <1>1, <1>3, ChangeDoc

\* The first words of a process confirm what it was given: a final answer
\* finds every instruction of the turn delivered, or the turn goes on.
LEMMA InvFollow == ASSUME IInv, NEW e \in Events, Follow(e) PROVE IInv'
<1> USE DEF IInv, jobs
<1> DEFINE ids == Elements(turn.delivering)
<1>a. /\ pc = "follow" /\ job \in Turns /\ active = job /\ turn.id = job /\ ~Answered(job)
      /\ terminal = NULL /\ active # NULL
  BY DEF Follow, Thread, AtWork, HasTurn, TypeOK, Silent
<1>b. UNCHANGED <<active, turn, ended, messages, terminal, job, journal, closed>>
  BY DEF Follow
<1>c. Accepted' = Accepted
  BY <1>b DEF Accepted
<1>1. ASSUME Moved(ids, {"delivered"}), Copies', disk' \in Document, memory' \in Document \union {NULL},
             pc' \in {"event", "unwind"}, event' \in {event, e}, provider' \in BOOLEAN,
             pc' = "event" /\ event' = "final" /\ ~turn.stopped /\ turn.pending = <<>> => AllDelivered'
      PROVE  IInv'
  <2>1. TypeOK'
    <3>1. event' \in Events \union {NULL} /\ pc' \in Places
      BY <1>1 DEF TypeOK, Places
    <3> QED
      BY <1>1, <1>b, <3>1 DEF TypeOK
  <2>2. Thread' /\ CancelReaches'
    BY <1>1, <1>a, <1>b DEF Thread, CancelReaches, Restarting, HasTurn, AtWork
  <2>3. Begun' /\ FinalKeepsInstructions'
    BY <1>1, <1>b, MovedKeeps DEF Begun, Moved
  <2>4. Owned'
    BY <1>1, <1>b, <1>c, OwnedKeeps
  <2>5. Confirmed' /\ GivenUp' /\ Silent'
    BY <1>1, <1>a, <1>b DEF Confirmed, Answering, GivenUp, Silent, Answered
  <2>6. FinalIsLast'
    BY <1>b DEF FinalIsLast
  <2> QED
    BY <1>1, <2>1, <2>2, <2>3, <2>4, <2>5, <2>6
<1>2. CASE ~Restarting /\ e \in {"thought", "final"} /\ Store(Change(Loaded, ids, "delivered"))
           /\ pc' = "event" /\ event' = e /\ UNCHANGED provider
  <2>1. Moved(ids, {"delivered"}) /\ Copies' /\ disk' \in Document /\ memory' \in Document
    BY <1>2, ChangeMoves DEF Settled
  <2>2. AllDelivered'
    <3> SUFFICES ASSUME NEW r \in Requests, Mine(r)' PROVE Loaded'.receipts[r].status = "delivered"
      BY DEF AllDelivered
    <3>1. Mine(r)
      BY <1>b, <2>1 DEF Mine, Moved, Unconfirmed
    <3>2. turn.pending = <<>> /\ ~turn.stopped
      BY <1>2 DEF Restarting
    <3>3. Accepted = ids
      BY <3>2 DEF Accepted, Elements
    <3>4. r \in ids /\ Loaded.receipts[r].status \in {"interrupting", "delivered"}
      BY <1>a, <3>1, <3>2, <3>3 DEF Owned
    <3>5. CASE Loaded.receipts[r].status = "interrupting"
      BY <1>2, <3>1, <3>4, <3>5, ChangeSaved DEF Unconfirmed, Mine, Settled
    <3>6. CASE Loaded.receipts[r].status = "delivered"
      BY <2>1, <3>6 DEF Moved
    <3> QED
      BY <3>4, <3>5, <3>6
  <2>3. provider' \in BOOLEAN
    BY <1>2 DEF TypeOK
  <2> QED
    BY <1>1, <1>2, <2>1, <2>2, <2>3
<1>3. CASE StoreFails(Change(Loaded, ids, "delivered")) /\ pc' = "unwind" /\ provider' = FALSE
           /\ UNCHANGED event
  <2>1. Moved(ids, {"delivered"}) /\ Copies' /\ disk' \in Document /\ memory' \in Document
    BY <1>3, ChangeMoves DEF Settled
  <2>2. provider' \in BOOLEAN
    BY <1>3
  <2> QED
    BY <1>1, <1>3, <2>1, <2>2
<1>4. CASE ~(~Restarting /\ e \in {"thought", "final"})
           /\ pc' = "event" /\ event' = e /\ UNCHANGED <<disk, memory, provider>>
  <2>1. Moved(ids, {"delivered"}) /\ Copies'
    <3>1. Loaded' = Loaded /\ Copies' /\ Loaded \in Document
      BY <1>4, Untouched, LoadedDoc
    <3> QED
      BY <3>1 DEF Moved
  <2>2. provider' \in BOOLEAN
    BY <1>4 DEF TypeOK
  <2>3. disk' \in Document /\ memory' \in Document \union {NULL}
    BY <1>4 DEF TypeOK
  <2>4. ~(event' = "final" /\ ~turn.stopped /\ turn.pending = <<>>)
    BY <1>4 DEF Restarting
  <2> QED
    BY <1>1, <1>4, <2>1, <2>2, <2>3, <2>4
<1> QED
  BY <1>2, <1>3, <1>4 DEF Follow

\* The turn goes on with what waited, or it ends and gives up the rest.
LEMMA InvDecide == ASSUME IInv, Decide PROVE IInv'
<1> USE DEF IInv, jobs
<1>a. /\ pc = "decide" /\ job \in Turns /\ active = job /\ turn.id = job /\ ~Answered(job)
      /\ active # NULL /\ journal[job] # NULL
  BY DEF Decide, Thread, AtWork, HasTurn, TypeOK, Silent
<1>b. UNCHANGED <<ended, event, terminal, provider, job, journal, closed>>
  BY DEF Decide
<1>1. ASSUME ~turn.stopped, turn.pending # <<>>,
             turn' = [turn EXCEPT !.delivering = @ \o turn.pending, !.pending = <<>>,
                                  !.generation = @ + 1, !.cancel = FALSE],
             messages' = messages \o turn.pending,
             pc' = "announce", UNCHANGED <<disk, memory, active>>
      PROVE  IInv'
  <2>0. Loaded' = Loaded /\ Copies'
    BY <1>1, Untouched
  <2>1. turn.pending \in Seq(Requests) /\ turn.delivering \in Seq(Requests)
        /\ messages \in Seq(Requests)
    BY DEF TypeOK
  <2>2. turn.delivering \o turn.pending \in Seq(Requests) /\ messages' \in Seq(Requests)
    BY <1>1, <2>1, ConcatProperties
  <2>3. /\ turn'.id = turn.id /\ turn'.pending = <<>> /\ ~turn'.stopped
        /\ turn'.delivering = turn.delivering \o turn.pending
        /\ turn' \in [id : Turns \union {NULL}, generation : Nat, cancel : BOOLEAN,
               stopped : BOOLEAN, pending : Seq(Requests), delivering : Seq(Requests)]
    <3>1. turn'.stopped = turn.stopped /\ turn'.pending = <<>> /\ turn'.id = turn.id
          /\ turn'.delivering = turn.delivering \o turn.pending
      BY <1>1 DEF TypeOK
    <3>2. turn.generation + 1 \in Nat
      BY DEF TypeOK
    <3>3. turn' \in [id : Turns \union {NULL}, generation : Nat, cancel : BOOLEAN,
               stopped : BOOLEAN, pending : Seq(Requests), delivering : Seq(Requests)]
      <4>1. PICK d \in Seq(Requests) : d = turn.delivering \o turn.pending
        BY <2>2
      <4>2. PICK g \in Nat : g = turn.generation + 1
        BY <3>2
      <4>3. turn' = [turn EXCEPT !.delivering = d, !.pending = <<>>, !.generation = g,
                                 !.cancel = FALSE]
        BY <1>1, <4>1, <4>2 DEF TypeOK
      <4>4. <<>> \in Seq(Requests)
        OBVIOUS
      <4> QED
        BY <4>3, <4>4 DEF TypeOK
    <3> QED
      BY <1>1, <3>1, <3>3
  <2>4. Accepted' = Accepted
    <3>1. Elements(turn.delivering \o turn.pending) = Elements(turn.delivering) \union Elements(turn.pending)
      <4>1. CASE Requests = {}
        BY <1>1, <2>1, <4>1
      <4>2. CASE Requests # {}
        BY <2>1, <4>2, ElementsGrow
      <4> QED
        BY <4>1, <4>2
    <3>2. Elements(turn'.pending) = {}
      BY <2>3 DEF Elements
    <3> QED
      BY <2>3, <3>1, <3>2 DEF Accepted
  <2>5. TypeOK'
    BY <1>1, <1>b, <2>2, <2>3 DEF TypeOK, Places
  <2>6. Thread' /\ CancelReaches'
    BY <1>1, <1>a, <1>b, <2>3 DEF Thread, CancelReaches, Restarting, HasTurn, AtWork
  <2>7. Begun'
    BY <1>1, <1>b, <2>0, <2>3 DEF Begun
  <2>8. Owned'
    BY <1>1, <1>a, <2>0, <2>3, <2>4 DEF Owned, Mine
  <2>9. Confirmed' /\ GivenUp' /\ Silent'
    BY <1>1, <1>a, <1>b DEF Confirmed, GivenUp, Silent, Answering, Answered
  <2>10. FinalIsLast' /\ FinalKeepsInstructions'
    BY <1>b, <2>0 DEF FinalIsLast, FinalKeepsInstructions
  <2> QED
    BY <2>0, <2>5, <2>6, <2>7, <2>8, <2>9, <2>10
<1>2. ASSUME turn.stopped \/ turn.pending = <<>>, UNCHANGED <<turn, messages>>,
             NEW s \in {"cancelled", "failed"},
             \/ Store(GiveUpTurn(s)) /\ active' = NULL /\ pc' = "after"
             \/ StoreFails(GiveUpTurn(s)) /\ pc' = "unwind" /\ UNCHANGED active
      PROVE  IInv'
  <2>0. /\ Moved(Accepted, {s})
        /\ Copies' /\ disk' \in Document /\ memory' \in Document
    BY <1>2, ChangeMoves DEF Settled, GiveUpTurn
  <2>1. Accepted' = Accepted
    BY <1>2 DEF Accepted
  <2>2. TypeOK'
    BY <1>2, <1>b, <2>0 DEF TypeOK, Places
  <2>3. Thread' /\ CancelReaches'
    BY <1>2, <1>a, <1>b DEF Thread, CancelReaches, Restarting, HasTurn, AtWork
  <2>4. Begun' /\ FinalKeepsInstructions'
    BY <1>2, <1>b, <2>0, MovedKeeps DEF Begun, Moved
  <2>5. FinalIsLast' /\ Silent'
    BY <1>a, <1>b DEF FinalIsLast, Silent, Answered
  <2>6. CASE Store(GiveUpTurn(s)) /\ active' = NULL /\ pc' = "after"
    <3>1. Owned'
      BY <2>6 DEF Owned
    <3>2. Confirmed'
      BY <1>2, <1>a, <1>b, <2>0 DEF Confirmed, Answering, AllDelivered, Mine, Moved, Unconfirmed
    <3>3. \A r \in Accepted : ~Unconfirmed(Loaded, r)'
      <4> SUFFICES ASSUME NEW r \in Accepted PROVE ~Unconfirmed(Loaded, r)'
        OBVIOUS
      <4>1. r \in Requests
        BY AcceptedType
      <4>2. CASE Unconfirmed(Loaded, r)
        BY <2>6, <4>1, <4>2, ChangeSaved DEF Unconfirmed, Settled, GiveUpTurn
      <4>3. CASE ~Unconfirmed(Loaded, r)
        BY <2>0, <4>1, <4>3 DEF Unconfirmed, Moved
      <4> QED
        BY <4>2, <4>3
    <3> QED
      BY <2>0, <2>1, <2>2, <2>3, <2>4, <2>5, <2>6, <3>1, <3>2, <3>3 DEF GivenUp
  <2>7. CASE StoreFails(GiveUpTurn(s)) /\ pc' = "unwind" /\ UNCHANGED active
    <3>0. Loaded' = Loaded
      BY <2>7, NotStored
    <3>1. Owned'
      BY <1>2, <2>7, <3>0, <2>1 DEF Owned, Mine
    <3>2. Confirmed' /\ GivenUp'
      BY <2>7 DEF Confirmed, Answering, GivenUp
    <3> QED
      BY <2>0, <2>2, <2>3, <2>4, <2>5, <3>1, <3>2
  <2> QED
    BY <1>2, <2>6, <2>7
<1> QED
  BY <1>1, <1>2 DEF Decide

\* Giving up a turn that has nothing unconfirmed changes nothing.
LEMMA NothingToGiveUp ==
  ASSUME TypeOK, \A r \in Accepted : ~Unconfirmed(Loaded, r), NEW s
  PROVE  GiveUpTurn(s) = Loaded
<1>1. Loaded \in Document
  BY LoadedDoc
<1>2. GiveUpTurn(s) = [Loaded EXCEPT !.receipts = [r \in Requests |-> Loaded.receipts[r]]]
  BY DEF GiveUpTurn, Change
<1> QED
  BY <1>1, <1>2 DEF Document

\* The finally clause; it reports nothing after a final answer, as by then
\* there is nothing left to save.
LEMMA InvFinally == ASSUME IInv, Finally PROVE IInv'
<1> USE DEF IInv, jobs
<1>a. /\ pc \in {"finally", "unwind"} /\ job \in Turns /\ turn.id = job /\ turn.id \in Turns
      /\ journal[job] # NULL
  BY DEF Finally, Thread, HasTurn, TypeOK
<1>b. UNCHANGED <<messages, event, terminal, provider, job, journal, closed>>
      /\ active' = NULL
  BY DEF Finally
<1>c. /\ turn' = [turn EXCEPT !.cancel = TRUE]
      /\ turn'.id = turn.id /\ turn'.delivering = turn.delivering /\ turn'.pending = turn.pending
      /\ turn' \in [id : Turns \union {NULL}, generation : Nat, cancel : BOOLEAN,
               stopped : BOOLEAN, pending : Seq(Requests), delivering : Seq(Requests)]
  BY DEF Finally, TypeOK
<1>d. PICK s \in {"cancelled", "failed"} :
        /\ ended' = [ended EXCEPT ![turn.id] = s]
        /\ \/ Store(GiveUpTurn(s)) /\ pc' = IF pc = "unwind" THEN "raised" ELSE "leave"
           \/ StoreFails(GiveUpTurn(s)) /\ pc' = "raised"
  BY DEF Finally
<1>0. /\ Moved(Accepted, {s})
      /\ Copies' /\ disk' \in Document /\ memory' \in Document
  BY <1>d, ChangeMoves DEF Settled, GiveUpTurn
<1>1. TypeOK'
  <2>1. ended' \in [Turns -> {"failed", "cancelled", NULL}] /\ pc' \in Places
    BY <1>a, <1>d DEF TypeOK, Places
  <2> QED
    BY <1>0, <1>b, <1>c, <2>1 DEF TypeOK
<1>2. Thread' /\ CancelReaches' /\ Owned'
  BY <1>a, <1>b, <1>c, <1>d DEF Thread, CancelReaches, HasTurn, AtWork, Owned
<1>3. Begun' /\ FinalKeepsInstructions'
  <2>1. \A t \in Turns : ended'[t] # NULL => t = turn.id \/ ended[t] # NULL
    BY <1>d DEF TypeOK
  <2> QED
    BY <1>0, <1>a, <1>b, <1>c, <2>1, MovedKeeps DEF Begun, Moved
<1>4. Silent'
  <2>1. CASE pc = "unwind"
    BY <1>b, <2>1 DEF Silent, Answered
  <2>2. CASE pc = "finally" /\ pc' = "leave"
    BY <2>2 DEF Silent
  <2>3. CASE pc = "finally" /\ StoreFails(GiveUpTurn(s))
    <3>1. ~Answered(job)
      BY <2>3, NothingToGiveUp DEF StoreFails, GivenUp
    <3> QED
      BY <1>b, <3>1 DEF Silent, Answered
  <2> QED
    BY <1>a, <1>d, <2>1, <2>2, <2>3
<1>5. Confirmed' /\ GivenUp' /\ FinalIsLast'
  BY <1>a, <1>b, <1>d DEF Confirmed, GivenUp, Answering, FinalIsLast
<1> QED
  BY <1>0, <1>1, <1>2, <1>3, <1>4, <1>5

-----------------------------------------------------------------------------
(* The invariant holds.                                                    *)

LEMMA InitInv == ASSUME Init PROVE IInv
<1> USE DEF Init
<1>a. turn.pending = <<>> /\ turn.delivering = <<>> /\ turn.id = NULL /\ turn = IdleTurn
  BY DEF IdleTurn
<1>0. /\ disk.receipts = [r \in Requests |-> NULL] /\ disk.turnIds = {}
      /\ disk \in Document
  <2>1. [receipts |-> NoReceipts, turnIds |-> {}] \in Document
    BY DEF NoReceipts, Document
  <2> QED
    BY <2>1 DEF NoReceipts
<1>1. \A r \in Requests : Loaded.receipts[r] = NULL
  <2>2. \A r \in Requests : ~Unconfirmed(disk, r)
    BY <1>0 DEF Unconfirmed
  <2>3. Loaded.receipts = [r \in Requests |-> disk.receipts[r]]
    BY <1>0, <2>2 DEF Loaded, Change, Document
  <2> QED
    BY <1>0, <2>3
<1>2. TypeOK
  <2>1. turn \in [id : Turns \union {NULL}, generation : Nat, cancel : BOOLEAN,
               stopped : BOOLEAN, pending : Seq(Requests), delivering : Seq(Requests)]
    BY DEF IdleTurn
  <2>2. provider \in BOOLEAN /\ closed \in BOOLEAN
    OBVIOUS
  <2> QED
    BY <1>0, <2>1, <2>2 DEF TypeOK, Places
<1>3. Thread /\ CancelReaches /\ Copies
  BY <1>a DEF Thread, CancelReaches, HasTurn, AtWork, Copies
<1>4. Begun /\ Owned
  BY <1>1, <1>a DEF Begun, Owned
<1>5. Confirmed /\ GivenUp /\ Silent
  BY DEF Confirmed, GivenUp, Silent, Answering
<1>6. FinalIsLast /\ FinalKeepsInstructions
  BY DEF FinalIsLast, FinalKeepsInstructions
<1> QED
  BY <1>2, <1>3, <1>4, <1>5, <1>6 DEF IInv

LEMMA InvStutter == ASSUME IInv, UNCHANGED vars PROVE IInv'
<1> USE DEF IInv, vars
<1>0. Loaded' = Loaded /\ Copies'
  BY Untouched
<1>1. TypeOK'
  BY DEF TypeOK
<1>2. Thread' /\ CancelReaches'
  BY DEF Thread, CancelReaches, Restarting
<1>3. Begun' /\ Owned'
  BY <1>0 DEF Begun, Owned, Mine, Accepted
<1>4. Confirmed' /\ GivenUp' /\ Silent'
  BY <1>0 DEF Confirmed, GivenUp, Silent, Answering, AllDelivered, Mine, Answered, Accepted,
              Unconfirmed
<1>5. FinalIsLast' /\ FinalKeepsInstructions'
  BY <1>0 DEF FinalIsLast, FinalKeepsInstructions
<1> QED
  BY <1>0, <1>1, <1>2, <1>3, <1>4, <1>5

LEMMA StepInv == ASSUME IInv, [Next]_vars PROVE IInv'
BY InvSteer, InvLookUp, InvStop, InvClose, InvForget, InvStartJob, InvFollow, InvSourceEnds,
   InvBegin, InvAnnounce, InvStartProvider, InvHandle, InvCloseSource, InvDecide, InvConclude,
   InvConsumerFails, InvFinally, InvReport, InvLeave, InvRestart, InvStutter
   DEF Next, Client, Worker

\* The invariant holds in every state of the chat coordinator.
THEOREM Invariant == Spec => []IInv
<1>1. Init => IInv
  BY InitInv
<1>2. IInv /\ [Next]_vars => IInv'
  BY StepInv
<1> QED
  BY <1>1, <1>2, PTL DEF Spec

-----------------------------------------------------------------------------
(* What the invariant is for.                                              *)

\* Memory, files and the provider's process agree at every step of a turn: a
\* receipt settled on disk is what memory says, a cancel event is set whenever
\* the turn is stopped or has instructions waiting, and no journal goes on
\* after a final answer.
THEOREM Agreement == Spec => []Consistent
<1>1. ASSUME IInv PROVE Consistent
  <2>1. disk \in Document /\ "failed" \in Settled /\ turn.generation \in Nat
    BY <1>1 DEF IInv, TypeOK, Settled
  <2>2. \A r \in Requests : ~Unconfirmed(disk, r) => Interrupted.receipts[r] = disk.receipts[r]
    BY <2>1, ChangeDoc DEF Interrupted
  <2>3. Loaded = disk \/ Loaded = Interrupted
    BY <1>1 DEF IInv, Copies, Loaded, Interrupted, TypeOK
  <2>4. DiskAgrees
    BY <2>2, <2>3 DEF DiskAgrees, Unconfirmed, Settled
  <2> QED
    BY <1>1, <2>4 DEF IInv, Consistent
<1> QED
  BY <1>1, Invariant, PTL

\* A turn whose answer is final kept every instruction it accepted: Decide
\* either sees an accepted instruction or takes the turn out of _active, and
\* the answer that is written was confirmed for all of them.
THEOREM NothingDropped == Spec => []FinalKeepsInstructions
<1>1. IInv => FinalKeepsInstructions
  BY DEF IInv
<1> QED
  BY <1>1, Invariant, PTL

\* A step of a stopped turn settles its instructions as cancelled.
LEMMA StoppedStep ==
  ASSUME IInv, Next, active # NULL, turn.stopped, memory' # NULL, NEW r \in Accepted
  PROVE  Loaded'.receipts[r] = Loaded.receipts[r] \/ Loaded'.receipts[r].status = "cancelled"
<1> USE DEF IInv
<1>a. r \in Requests /\ active = job /\ pc \in AtWork \union {"finally", "unwind"} /\ turn.id = job
  BY AcceptedType DEF Thread, HasTurn, AtWork
<1>b. Mine(r)
  BY <1>a DEF Owned
<1>c. ASSUME Store(GiveUpTurn("cancelled")) \/ StoreFails(GiveUpTurn("cancelled"))
      PROVE  Loaded'.receipts[r] = Loaded.receipts[r] \/ Loaded'.receipts[r].status = "cancelled"
  <2>1. Moved(Accepted, {"cancelled"})
    BY <1>c, ChangeMoves DEF Settled, GiveUpTurn
  <2> QED
    BY <1>a, <2>1 DEF Moved
<1>1. CASE LookUp
  <2>1. Moved({q \in Requests : Over(q)}, {"failed", "cancelled"})
        /\ \A q \in Requests : Loaded'.receipts[q] # Loaded.receipts[q] =>
             Loaded'.receipts[q].status = HowItEnded(Loaded.receipts[q].turn)
    BY <1>1, LookUpMoves DEF LookUp
  <2>2. HowItEnded(Loaded.receipts[r].turn) = "cancelled"
    BY <1>a, <1>b DEF HowItEnded, Mine, Begun
  <2> QED
    BY <1>a, <2>1, <2>2
<1>2. CASE Stop
  BY <1>2, <1>c DEF Stop, GiveUpTurn
<1>3. CASE Decide
  BY <1>3, <1>c DEF Decide
<1>4. CASE Finally
  BY <1>4, <1>c DEF Finally
<1>5. CASE UNCHANGED <<disk, memory>>
  BY <1>5, Untouched
<1>6. ASSUME NEW e \in Events, Follow(e) PROVE UNCHANGED <<disk, memory>>
  BY <1>6 DEF Follow, Restarting
<1>7. ~Forget /\ ~Begin /\ ~Restart
  BY <1>a DEF Forget, Begin, Restart, AtWork
<1>8. ASSUME NEW q \in Requests PROVE ~Steer(q)
  BY DEF Steer
<1>9. ASSUME NEW t \in Turns, StartJob(t) PROVE UNCHANGED <<disk, memory>>
  BY <1>9 DEF StartJob
<1>10. CASE Close \/ SourceEnds \/ Announce \/ StartProvider \/ Handle \/ CloseSource
            \/ Conclude \/ ConsumerFails \/ Report \/ Leave
  BY <1>10, <1>5 DEF Close, SourceEnds, Announce, StartProvider, Handle, CloseSource,
                     Conclude, ConsumerFails, Report, Leave
<1> QED
  BY <1>1, <1>2, <1>3, <1>4, <1>5, <1>6, <1>7, <1>8, <1>9, <1>10 DEF Next, Client, Worker

\* A step starts no further generation of a stopped turn.
LEMMA StoppedGeneration ==
  ASSUME IInv, Next, turn.stopped, turn'.id = turn.id
  PROVE  turn'.generation = turn.generation
<1> USE DEF IInv
<1>1. turn.id # NULL
  BY DEF Thread, IdleTurn
<1>3. CASE Begin
  <2>1. CASE turn' = turn
    BY <2>1
  <2>2. CASE job \notin Loaded.turnIds /\ turn' = [IdleTurn EXCEPT !.id = job]
    BY <1>1, <2>2 DEF Begun, IdleTurn
  <2> QED
    BY <1>3, <2>1, <2>2 DEF Begin
<1>4. CASE Forget \/ Restart
  BY <1>1, <1>4 DEF Forget, Restart, IdleTurn
<1>5. CASE Decide
  BY <1>5 DEF Decide
<1>6. CASE (\E r \in Requests : Steer(r)) \/ Stop \/ Close \/ ConsumerFails \/ Finally \/ Leave
  BY <1>6 DEF Steer, Stop, Close, ConsumerFails, Finally, Leave, TypeOK
<1>7. CASE LookUp \/ (\E t \in Turns : StartJob(t)) \/ (\E e \in Events : Follow(e)) \/ SourceEnds
           \/ Announce \/ StartProvider \/ Handle \/ CloseSource \/ Conclude \/ Report
  BY <1>7 DEF LookUp, StartJob, Follow, SourceEnds, Announce, StartProvider, Handle, CloseSource,
              Conclude, Report
<1> QED
  BY <1>3, <1>4, <1>5, <1>6, <1>7 DEF Next, Client, Worker

\* A stop holds: whatever comes between, a stopped turn starts no further
\* generation, and what it had not confirmed is cancelled, never failed.
THEOREM StopIsKept == Spec => StopHolds
<1>1. IInv /\ [Next]_vars =>
        [turn.stopped /\ turn'.id = turn.id => turn'.generation = turn.generation]_vars
  BY StoppedGeneration
<1>2. IInv /\ [Next]_vars =>
        [active # NULL /\ turn.stopped /\ memory' # NULL =>
           \A r \in Accepted : Loaded'.receipts[r].status # "failed"
                                 \/ Loaded.receipts[r].status = "failed"]_vars
  BY StoppedStep
<1> QED
  BY <1>1, <1>2, Invariant, PTL DEF Spec, StopHolds, StopEndsRestarts, StoppedIsCancelled

-----------------------------------------------------------------------------
(* The refinement.                                                         *)

\* A receipt's status is one of the statuses there are.
LEMMA StatusType == ASSUME Loaded \in Document PROVE \A r \in Requests : Status(r) \in IQ!Statuses
BY DEF Document, Receipt, Settled, Status, IQ!Statuses

\* Moved receipts in the terms of the abstract queue.
LEMMA MovedStatus ==
  ASSUME NEW ids, NEW how, Moved(ids, how)
  PROVE  \A r \in Requests : /\ Status(r)' \in IQ!Statuses
                             /\ \/ Status(r)' = Status(r)
                                \/ r \in ids /\ Status(r) = "interrupting" /\ Status(r)' \in how
<1>1. \A r \in Requests : Status(r)' \in IQ!Statuses
  BY DEF Moved, Document, Receipt, Settled, Status, IQ!Statuses
<1> QED
  BY <1>1 DEF Moved, Status, Unconfirmed

\* Giving instructions up, with the turn or without it.
LEMMA StepGivesUp ==
  ASSUME IInv, NEW ids, NEW how, how \subseteq {"failed", "cancelled"}, Moved(ids, how)
  PROVE  /\ UNCHANGED <<turn.pending, messages>> => IQ!GiveUp
         /\ turn'.pending = <<>> /\ messages' = <<>> => IQ!EndTurn
<1>1. \A r \in Requests : /\ Status(r)' \in IQ!Statuses
                          /\ \/ Status(r)' = Status(r)
                             \/ Status(r) = "interrupting" /\ Status(r)' \in {"failed", "cancelled"}
  BY MovedStatus
<1>2. [r \in Requests |-> Status(r)]' \in [Requests -> IQ!Statuses]
  BY <1>1
<1> QED
  BY <1>1, <1>2 DEF IQ!GiveUp, IQ!EndTurn, IQ!KeptOrGivenUp, IQ!Unsettled

\* Steps that leave receipts and instructions alone do not show.
LEMMA StepHidden ==
  ASSUME Loaded' = Loaded, turn'.pending = turn.pending, messages' = messages
  PROVE  UNCHANGED IQ!ivars
BY DEF IQ!ivars, Status

LEMMA StepAccepts == ASSUME IInv, NEW r \in Requests, Steer(r) PROVE IQ!Accept(r)
<1> USE DEF IInv
<1> DEFINE new == [turn |-> turn.id, generation |-> turn.generation + 1,
                   status |-> "interrupting"]
           doc == [Reconciled EXCEPT !.receipts[r] = new]
<1>1. active # NULL /\ turn.id \in Turns
  BY DEF Thread, HasTurn, AtWork, Steer, TypeOK
<1>2. new \in Receipt /\ new # NULL
  BY <1>1 DEF Receipt, TypeOK
<1>3. /\ Reconciled \in Document
      /\ \A q \in Requests :
           \/ Reconciled.receipts[q] = Loaded.receipts[q]
           \/ /\ Reconciled.receipts[q] # NULL
              /\ Unconfirmed(Loaded, q)
              /\ Reconciled.receipts[q].status \in {"failed", "cancelled"}
  BY ReconciledDoc DEF Over
<1>4. /\ doc \in Document
      /\ doc.receipts[r] = new
      /\ \A q \in Requests : q # r => doc.receipts[q] = Reconciled.receipts[q]
  BY <1>2, <1>3 DEF Document
<1>5. Loaded' = doc
  BY <1>4, Saved DEF Steer
<1> HIDE DEF doc
<1>6. Reconciled.receipts[r] = NULL /\ Loaded.receipts[r] = NULL
  BY <1>3 DEF Steer
<1>7. Status(r) = "none" /\ Status(r)' = "interrupting"
  BY <1>2, <1>4, <1>5, <1>6 DEF Status
<1>8. \A q \in Requests \ {r} : \/ Status(q)' = Status(q)
                                \/ Status(q) = "interrupting" /\ Status(q)' \in {"failed", "cancelled"}
  BY <1>3, <1>4, <1>5 DEF Status, Unconfirmed
<1>9. \A q \in Requests : Status(q)' \in IQ!Statuses
  BY <1>4, <1>5 DEF Document, Receipt, Settled, Status, IQ!Statuses
<1>10. [q \in Requests |-> Status(q)]' \in [Requests -> IQ!Statuses]
  BY <1>9
<1>11. turn'.pending = Append(turn.pending, r) /\ messages' = messages
  BY DEF Steer, TypeOK
<1> QED
  BY <1>7, <1>8, <1>10, <1>11 DEF IQ!Accept, IQ!KeptOrGivenUp, IQ!Unsettled

LEMMA StepDelivers ==
  ASSUME IInv, NEW e \in Events, Follow(e) PROVE IQ!Deliver \/ UNCHANGED IQ!ivars
<1> USE DEF IInv
<1> DEFINE doc == Change(Loaded, Elements(turn.delivering), "delivered")
<1>1. turn' = turn /\ messages' = messages
  BY DEF Follow
<1>2. CASE ~Restarting /\ (Store(doc) \/ StoreFails(doc))
  <2>1. Moved(Elements(messages), {"delivered"})
    BY <1>2, ChangeMoves DEF Settled, Thread
  <2>2. \A r \in Requests : /\ Status(r)' \in IQ!Statuses
                            /\ \/ Status(r)' = Status(r)
                               \/ /\ r \in Elements(messages) /\ Status(r) = "interrupting"
                                  /\ Status(r)' = "delivered"
    BY <2>1, MovedStatus
  <2>3. [r \in Requests |-> Status(r)]' \in [Requests -> IQ!Statuses]
    BY <2>2
  <2> QED
    BY <1>1, <1>2, <2>2, <2>3 DEF IQ!Deliver, IQ!Unsettled, IQ!Elements, Elements, Restarting
<1>3. CASE UNCHANGED <<disk, memory>>
  BY <1>1, <1>3, Untouched, StepHidden
<1> QED
  BY <1>2, <1>3 DEF Follow

LEMMA StepRefines == ASSUME IInv, [Next]_vars PROVE [IQ!INext]_(IQ!ivars)
<1> USE DEF IInv, IQ!INext
<1>1. CASE \E r \in Requests : Steer(r)
  BY <1>1, StepAccepts
<1>2. CASE LookUp
  <2>1. Moved({q \in Requests : Over(q)}, {"failed", "cancelled"})
    BY <1>2, LookUpMoves DEF LookUp
  <2> QED
    BY <1>2, <2>1, StepGivesUp DEF LookUp
<1>3. CASE Stop
  <2>1. Moved(Accepted, {"cancelled"})
    BY <1>3, ChangeMoves DEF Settled, Stop
  <2>2. UNCHANGED <<turn.pending, messages>>
    BY <1>3 DEF Stop, TypeOK
  <2> QED
    BY <2>1, <2>2, StepGivesUp
<1>4. CASE Forget
  <2>1. IInv'
    BY <1>4, InvForget
  <2>2. \A r \in Requests : Loaded'.receipts[r] = NULL
    BY <1>4, <2>1 DEF Forget, Begun, Loaded, Change, Unconfirmed, NoReceipts
  <2> QED
    BY <1>4, <2>2 DEF Forget, IdleTurn, Status, IQ!ForgetAll
<1>5. CASE \E e \in Events : Follow(e)
  BY <1>5, StepDelivers
<1>6. CASE Begin
  <2>1. CASE Keep /\ UNCHANGED <<turn, messages>>
    BY <2>1, Kept, StepHidden
  <2>2. ASSUME Save([Loaded EXCEPT !.turnIds = @ \union {job}]),
               turn' = [IdleTurn EXCEPT !.id = job], messages' = <<>>
        PROVE  IQ!EndTurn
    <3>1. Loaded \in Document /\ job \in Turns
      BY <1>6, LoadedDoc DEF Begin, Thread, TypeOK
    <3>2. /\ [Loaded EXCEPT !.turnIds = @ \union {job}] \in Document
          /\ [Loaded EXCEPT !.turnIds = @ \union {job}].receipts = Loaded.receipts
      BY <3>1 DEF Document
    <3>3. Loaded'.receipts = Loaded.receipts
      BY <2>2, <3>2, Saved
    <3>4. \A r \in Requests : Status(r)' = Status(r) /\ Status(r) \in IQ!Statuses
      BY <3>1, <3>3, StatusType DEF Status
    <3>5. turn'.pending = <<>>
      BY <2>2 DEF IdleTurn
    <3>6. [r \in Requests |-> Status(r)]' \in [Requests -> IQ!Statuses]
      BY <3>4
    <3> QED
      BY <2>2, <3>4, <3>5, <3>6 DEF IQ!EndTurn, IQ!KeptOrGivenUp
  <2> QED
    BY <1>6, <2>1, <2>2 DEF Begin
<1>7. CASE Decide
  <2>1. ASSUME NEW s \in {"cancelled", "failed"},
               Store(GiveUpTurn(s)) \/ StoreFails(GiveUpTurn(s)), UNCHANGED <<turn, messages>>
        PROVE  IQ!GiveUp
    <3>1. Moved(Accepted, {s})
      BY <2>1, ChangeMoves DEF Settled, GiveUpTurn
    <3> QED
      BY <2>1, <3>1, StepGivesUp
  <2>2. ASSUME turn' = [turn EXCEPT !.delivering = @ \o turn.pending, !.pending = <<>>,
                                    !.generation = @ + 1, !.cancel = FALSE],
               messages' = messages \o turn.pending, UNCHANGED <<disk, memory>>
        PROVE  IQ!HandOver
    <3>1. Loaded' = Loaded
      BY <2>2, Untouched
    <3>2. turn'.pending = <<>>
      BY <2>2 DEF TypeOK
    <3> QED
      BY <2>2, <3>1, <3>2 DEF IQ!HandOver, Status
  <2> QED
    BY <1>7, <2>1, <2>2 DEF Decide
<1>8. CASE Finally
  <2>1. PICK s \in {"cancelled", "failed"} : Store(GiveUpTurn(s)) \/ StoreFails(GiveUpTurn(s))
    BY <1>8 DEF Finally
  <2>2. Moved(Accepted, {s})
    BY <2>1, ChangeMoves DEF Settled, GiveUpTurn
  <2>3. UNCHANGED <<turn.pending, messages>>
    BY <1>8 DEF Finally, TypeOK
  <2> QED
    BY <2>2, <2>3, StepGivesUp
<1>9. CASE Restart
  <2>1. turn'.generation = 0 /\ turn'.pending = <<>> /\ messages' = <<>>
    BY <1>9 DEF Restart, IdleTurn
  <2>2. Moved(Requests, {"failed"})
    BY <1>9, <2>1, Reloaded DEF Restart
  <2> QED
    BY <2>1, <2>2, StepGivesUp
<1>10. CASE \/ Close \/ (\E t \in Turns : StartJob(t)) \/ SourceEnds \/ Announce \/ StartProvider
            \/ Handle \/ CloseSource \/ Conclude \/ ConsumerFails \/ Report \/ Leave
            \/ UNCHANGED vars
  <2>1. UNCHANGED <<disk, memory, messages>> /\ turn'.pending = turn.pending
    BY <1>10 DEF Close, StartJob, SourceEnds, Announce, StartProvider, Handle, CloseSource,
                 Conclude, ConsumerFails, Report, Leave, TypeOK, vars
  <2> QED
    BY <2>1, Untouched, StepHidden
<1> QED
  BY <1>1, <1>2, <1>3, <1>4, <1>5, <1>6, <1>7, <1>8, <1>9, <1>10 DEF Next, Client, Worker

\* Rem keeps what it promises about steering: instructions are handed to the
\* processes once each in the order they were accepted, only what was handed
\* over is called delivered, and what a receipt settled stays settled - through
\* restarts of the turn, failed writes and the death of the server.
THEOREM Implementation == Spec => KeepsPromise
<1>1. Init => IQ!IInit
  <2> SUFFICES ASSUME Init PROVE IQ!IInit
    OBVIOUS
  <2>1. \A r \in Requests : disk.receipts[r] = NULL
    BY DEF Init, NoReceipts
  <2>2. \A r \in Requests : Loaded.receipts[r] = NULL
    BY <2>1 DEF Init, Loaded, Change, Unconfirmed, NoReceipts
  <2> QED
    BY <2>2 DEF Init, IQ!IInit, Status, IdleTurn
<1>2. IInv /\ [Next]_vars => [IQ!INext]_(IQ!ivars)
  BY StepRefines
<1> QED
  BY <1>1, <1>2, Invariant, PTL DEF Spec, KeepsPromise, IQ!ISpec

=============================================================================
