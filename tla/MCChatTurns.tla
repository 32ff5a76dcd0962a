---------------------------- MODULE MCChatTurns -----------------------------
(***************************************************************************)
(* Two turns and two instructions; the disk may fail and the server die.   *)
(***************************************************************************)
EXTENDS ChatTurns

CONSTANTS t1, t2, r1, r2

MCTurns == {t1, t2}
MCRequests == {r1, r2}
=============================================================================
