------------------------ MODULE MCDeployQueueProofs ------------------------
(***************************************************************************)
(* The theorems about DeployQueue for the environment in full swing from   *)
(* which the run queue_concurrent starts: what the proofs keep from step   *)
(* to step holds there too, so BusySpec has the properties of Spec, for    *)
(* any number of deploys and sessions.                                     *)
(***************************************************************************)
EXTENDS MCDeployQueue, DeployQueueProofs

\* What every step keeps, whatever the state it starts from.
Kept == TypeOK /\ LockDiscipline /\ ActiveHasPromotedAt /\ OpenInv

\* A step of any session keeps it.
LEMMA KeptStep == ASSUME Kept, [Next]_vars PROVE Kept'
  BY TypeStep, DisciplineStep, PromotedStep, OpenStep DEF Kept

\* The environment in full swing has it: nobody is in a transaction, and the
\* active deploy has its promotion time.
LEMMA BusyInitKept == ASSUME BusyInit PROVE Kept
<1> USE DEF BusyInit
<1>1. \A d \in Deploys : /\ status[d] \in {"healthy", "active", "queued", NoRow}
                         /\ status[d] = "active" => d = 2
  BY DEF NoRow
<1>2. /\ \A t \in Tx : /\ pc[t] = "idle" /\ matched[t] = {}
                       /\ \A d \in Deploys : written[t][d] = Unwritten
      /\ \A d \in Deploys : locker[d] = NoTx
  OBVIOUS
<1>3. /\ status \in [Deploys -> DEPLOY_STATES \cup {NoRow}]
      /\ promoted \in [Deploys -> BOOLEAN]
  BY <1>1 DEF DEPLOY_STATES
<1>4. TypeOK
  BY <1>3 DEF TypeOK, PCs, DEPLOY_STATES
<1>5. LockDiscipline
  BY <1>2 DEF LockDiscipline, WritesAreLocked, PendingIsLegal, QueuedIsNew, CalledForRow,
              ValidatedRow, InsertedRow, MatchedRows, PickedRow, Unwritten
<1>6. ActiveHasPromotedAt
  BY <1>1 DEF ActiveHasPromotedAt, Active
<1>7. OpenInv
  BY <1>2, SessionsAssumption DEF OpenInv, OpensClean
<1> QED
  BY <1>4, <1>5, <1>6, <1>7 DEF Kept

\* What the run queue_concurrent checks of its two sessions and four deploys
\* (types, lock discipline, promotion times, one promotion per queued deploy)
\* holds from the same start for any number of them.
THEOREM BusySafe ==
  BusySpec => [](TypeOK /\ LockDiscipline /\ ActiveHasPromotedAt /\ PickedStaysQueued)
<1> DEFINE Safe == TypeOK /\ LockDiscipline /\ ActiveHasPromotedAt /\ PickedStaysQueued
<1>1. Kept => Safe
  BY DEF Kept, LockDiscipline, PickedRow, PickedStaysQueued
<1> HIDE DEF Safe
<1>2. BusySpec => BusyInit /\ [][Next]_vars
  BY PTL DEF BusySpec
<1>3. BusySpec => []Safe
  BY <1>1, <1>2, BusyInitKept, KeptStep, PTL
<1> QED
  BY <1>3 DEF Safe

\* So does the legality of every committed change, and a slot that a request
\* frees is handed on, also when two sessions meet in a busy environment.
THEOREM BusyLegal == BusySpec => LegalTransitions /\ SlotIsHandedOn
<1> DEFINE HandsOn == \A t \in Tx : pc[t] # "commit" /\ pc'[t] = "commit" /\ FreesASlot(t)' =>
                        pc[t] \in {"count", "pick", "recount_lock"}
           Legal == \A d \in Deploys : Allowed(status[d], status'[d])
<1>1. BusySpec => BusyInit /\ [][Next]_vars
  BY PTL DEF BusySpec
<1>2. Kept /\ [Next]_vars => [Legal]_vars
  BY LegalStep DEF Kept
<1>3. Kept /\ [Next]_vars => [HandsOn]_vars
  BY HandOnStep DEF Kept
<1> QED
  BY <1>1, <1>2, <1>3, BusyInitKept, KeptStep, PTL DEF LegalTransitions, SlotIsHandedOn
=============================================================================
