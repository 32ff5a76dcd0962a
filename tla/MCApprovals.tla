---------------------------- MODULE MCApprovals ----------------------------
(* A gate that times out, in a process of its own, and two people: one at  *)
(* the desktop, who answers under a name the gate accepts or under one it  *)
(* does not, and one at the command line.  Both may list the requests,     *)
(* which takes up what timed out.                                          *)
EXTENDS Approvals, TLC

CONSTANTS gate, cli, ui

Answer(v, by) == [value |-> v, by |-> by]
PossibleAnswers == (cli :> {}) @@ (ui :> {Answer("approved", "ops"), Answer("approved", "guest")})
=============================================================================
