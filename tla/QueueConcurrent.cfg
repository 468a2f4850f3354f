\* Two sessions interleave statement by statement in a busy environment.
SPECIFICATION BusySpec
CONSTANTS
  t1 = t1
  t2 = t2
  Tx = {t1, t2}
  NoTx = NoTx
  MaxDeploys = 4
  MaxConcurrent = 2
  QueueMaxSize = 2
  Requests = {"active", "failed", "stopped"}
  Reconciler = TRUE
INVARIANTS TypeOK LockDiscipline
PROPERTIES LegalTransitions TransactionsEnd
