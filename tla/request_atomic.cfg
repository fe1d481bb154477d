\* COMMIT succeeds or fails for good; no final action fails.
CONSTANTS
  Workers = {w1}
  Periodics = {}
  MaxRetries = 2
  OnError = TRUE
  CommitAnswers = {"ok", "error"}
  RollbackFails = TRUE
  HandlerFails = {"FATAL", "BOUNDED_RETRY", "UNLIMITED_RETRY"}
  Signals = {"body", "undo"}
  RequestsMax = 2
  AttemptsMax = 1
  TransMax = 2
SPECIFICATION Spec
INVARIANTS TypeOK SettledOnce
PROPERTIES AtomicSpec
CHECK_DEADLOCK FALSE
