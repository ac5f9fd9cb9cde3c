\* Two clients compete for room; two workers; stops and starts that fail.
SPECIFICATION FairSpec
CONSTANTS
  Connection = {c1, c2}
  Worker = {w1, w2}
  NoConnection = NoConnection
  Route = {"append", "query", "get", "session", "asset"}
  QueueLimit = 1
  BodyLimit = 3
  UploadBudget = 4
  ResponseBudget = 5
  ReplyLimit = 3
  AppendReplyLimit = 1
  Margin = 1
INVARIANTS
  BudgetsBalance
  AnswerHasRoom
  SuspendedOwned
PROPERTIES
  AdmittedAnswered
  ShutdownReturns
CHECK_DEADLOCK FALSE
