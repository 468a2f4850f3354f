\* Two deploys become active at the same time.
SPECIFICATION Spec
CONSTANTS
  t1 = t1
  t2 = t2
  Tx = {t1, t2}
  NoTx = NoTx
  MaxDeploys = 2
  MaxConcurrent = 2
  QueueMaxSize = 50
  Requests = {"artifact_ready", "provisioning", "healthy", "active"}
  Reconciler = FALSE
INVARIANT AtMostOneActive
