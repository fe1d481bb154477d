\* A worker, a periodic task and the pruner; a COMMIT is refused for conflicts only.
CONSTANTS
  Workers = {w1}
  Periodics = {p1}
  MaxRetries = 1
  OnError = FALSE
  CommitAnswers = {"ok", "serialization"}
  RollbackFails = FALSE
  HandlerFails = {"BOUNDED_RETRY"}
  Signals = {"undo", "final"}
  RequestsMax = 1
  AttemptsMax = 0
  TransMax = 2
SPECIFICATION FairSpec
INVARIANTS UndoneUnlessCommitted LockDiscipline NoIdleTransaction
PROPERTIES RequestAnswered
CHECK_DEADLOCK FALSE
