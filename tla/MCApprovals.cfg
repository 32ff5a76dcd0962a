CONSTANTS
  gate = gate  cli = cli  ui = ui
  NULL = NULL  Absent = Absent  Torn = Torn  Garbled = Garbled
  Gate = gate
  Users = {cli, ui}
  Desktop = {ui}
  Approvers = {"ops"}
  Answers <- PossibleAnswers
  Timed = TRUE
  TimeoutDecision = "timeout"

SPECIFICATION FairSpec

CHECK_DEADLOCK FALSE

INVARIANTS Consistent ApprovalIsEarned AnswerResumes
PROPERTIES GateEnds
