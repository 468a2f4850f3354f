--------------------------- MODULE MCDeployQueue ---------------------------
(* Instances of DeployQueue for model checking. *)
EXTENDS DeployQueue

\* An environment in full swing: deploy 1 has passed its health checks,
\* deploy 2 is active, deploy 3 waits for a slot.  Each was created in turn,
\* and deploy 3 when deploys 1 and 2 were in progress.
BusyInit ==
  /\ status   = [d \in Deploys |-> CASE d = 1 -> "healthy" [] d = 2 -> "active"
                                     [] d = 3 -> "queued"  [] OTHER -> NoRow]
  /\ promoted = [d \in Deploys |-> d = 2]
  /\ written  = [t \in Tx |-> [d \in Deploys |-> Unwritten]]
  /\ locker   = [d \in Deploys |-> NoTx]
  /\ pc       = [t \in Tx |-> "idle"]
  /\ self     = [t \in Tx |-> 0]
  /\ target   = [t \in Tx |-> "queued"]
  /\ wanted   = [t \in Tx |-> {}]
  /\ matched  = [t \in Tx |-> {}]
  /\ picked   = [t \in Tx |-> 0]

BusySpec ==
  BusyInit /\ [][Next]_vars /\ \A t \in Tx : SF_vars(Step(t))
=============================================================================
