\* One transaction at a time.
SPECIFICATION Spec
CONSTANTS
  t1 = t1
  Tx = {t1}
  NoTx = NoTx
  MaxDeploys = 4
  MaxConcurrent = 2
  QueueMaxSize = 2
  Requests = {"queued", "building", "artifact_ready", "provisioning", "healthy", "active", "stopped", "failed", "rolled_back", "superseded"}
  Reconciler = TRUE
INVARIANTS AtMostOneActive FreedSlotIsFilled
PROPERTIES NewerIsNotDisplaced PromotesIntoFreeSlot PromotesInOrder
