-------------------------- MODULE InstructionQueue --------------------------
(***************************************************************************)
(* What Rem promises about steering instructions, apart from how a turn is *)
(* interrupted and restarted (docs/rem-steering-api.md, "Submit steering"):*)
(*   - an accepted instruction waits until the next process is started and *)
(*     is then handed to it, once, in the order of acceptance;             *)
(*   - only an instruction that was handed over is ever called delivered,  *)
(*     and only while none waits;                                          *)
(*   - a receipt that says delivered, failed or cancelled says so for good.*)
(* ChatTurns implements it.                                                *)
(***************************************************************************)
EXTENDS Naturals, Sequences

CONSTANT Requests   \* request ids

VARIABLES
  status,   \* what the receipt of a request says, "none" before there is one
  waiting,  \* accepted and not yet handed to a process, in order
  handed    \* handed to the processes of the current turn, in order

ivars == <<status, waiting, handed>>

Unsettled == "interrupting"
Statuses == {"none", "interrupting", "delivered", "failed", "cancelled"}

Elements(s) == {s[i] : i \in 1 .. Len(s)}

IInit ==
  /\ status = [r \in Requests |-> "none"]
  /\ waiting = <<>>
  /\ handed = <<>>

\* r keeps its status, or is given up if it is not settled.
KeptOrGivenUp(r) ==
  \/ status'[r] = status[r]
  \/ status[r] = Unsettled /\ status'[r] \in {"failed", "cancelled"}

\* Looking up the receipts of earlier turns may settle some of them.
Accept(r) ==
  /\ status' \in [Requests -> Statuses]
  /\ status[r] = "none"
  /\ status'[r] = Unsettled
  /\ \A q \in Requests \ {r} : KeptOrGivenUp(q)
  /\ waiting' = Append(waiting, r)
  /\ UNCHANGED handed

HandOver ==
  /\ handed' = handed \o waiting
  /\ waiting' = <<>>
  /\ UNCHANGED status

Deliver ==
  /\ status' \in [Requests -> Statuses]
  /\ waiting = <<>>
  /\ \A r \in Requests :
       \/ status'[r] = status[r]
       \/ /\ status[r] = Unsettled
          /\ status'[r] = "delivered"
          /\ r \in Elements(handed)
  /\ UNCHANGED <<waiting, handed>>

GiveUp ==
  /\ status' \in [Requests -> Statuses]
  /\ \A r \in Requests : KeptOrGivenUp(r)
  /\ UNCHANGED <<waiting, handed>>

\* The turn is over: the next one begins, or the server died with it.
EndTurn ==
  /\ status' \in [Requests -> Statuses]
  /\ \A r \in Requests : KeptOrGivenUp(r)
  /\ waiting' = <<>>
  /\ handed' = <<>>

ForgetAll ==
  /\ status' = [r \in Requests |-> "none"]
  /\ waiting' = <<>>
  /\ handed' = <<>>

INext ==
  \/ \E r \in Requests : Accept(r)
  \/ HandOver
  \/ Deliver
  \/ GiveUp
  \/ EndTurn
  \/ ForgetAll

ISpec == IInit /\ [][INext]_ivars
=============================================================================
