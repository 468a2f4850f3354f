------------------------- MODULE DeployExecutorProofs -------------------------
(***************************************************************************)
(* Proofs about DeployExecutor, for any number of deploys, addresses and   *)
(* VMIDs, any set of deploys that meet errors or are destroyed, and any    *)
(* number of restarts.                                                     *)
(***************************************************************************)
EXTENDS DeployExecutor, WellFoundedInduction, TLAPS

-----------------------------------------------------------------------------
(* The inductive invariants. *)

RowRecords  == [status : DEPLOY_STATES \cup {NoRow}, ip : Ips \cup {0},
                vmid : Vmids \cup {0}, promoted : Nat]
TaskRecords == [pc : PCs, seen : DEPLOY_STATES, ip : Ips \cup {0},
                vmid : Vmids \cup {0}, created : BOOLEAN]
CtRecords   == [owner : Deploys \cup {0}, ip : Ips \cup {0}, up : BOOLEAN]

\* An executor has a row, and without one there is nothing to clean up.
TaskHasRow(d) ==
  /\ run[d].pc # "none" => row[d].status # NoRow
  /\ run[d].pc = "none" => run[d] = NoTask
  /\ row[d].status = NoRow => row[d].vmid = 0

\* The promotions are bounded, so that there is a last one.
PromotionsBounded == \E b \in Nat : \A e \in Deploys : row[e].promoted <= b

\* TypeOK, and what keeps it: an executor loads a row that exists.
Typed == TypeOK /\ PromotionsBounded /\ \A d \in Deploys : TaskHasRow(d)

\* What lies between the health check and the production file.
Checked == {"healthy", "promote", "route", "prod", "prod_write"}

GateInv == HealthGate /\ \A d \in Deploys : run[d].pc \in Checked => d \in passed

\* Before its container, with it recorded, and after its cleanup.
Early == {"scheduled", "loaded", "begin", "network", "claim", "prepare", "create"}
Saved == {"start", "health"} \cup Checked

\* What the executor and the row of d know of its container at each stage.
TaskKnows(d) ==
  /\ run[d].pc \in Early => run[d].created = FALSE /\ row[d].vmid = 0
  /\ run[d].pc = "persist" => run[d].created = TRUE
  /\ run[d].pc # "none" /\ row[d].vmid # 0 =>
       run[d].created = TRUE /\ row[d].vmid = run[d].vmid
  /\ run[d].pc \in Saved => row[d].vmid = run[d].vmid \/ d \in lost
  /\ run[d].pc = "record" => \A v \in Vmids : ct[v].owner = d => d \in lost

OwnersKnown == \A v \in Vmids : ct[v].owner = 0 => ct[v] = NoCt

OrphanInv == OrphanHasCause /\ OwnersKnown /\ \A d \in Deploys : TaskKnows(d)

-----------------------------------------------------------------------------
(* The smallest and the largest number of a set. *)

\* A nonempty set of numbers has a smallest member, which Smallest chooses.
LEMMA SmallestIsMember ==
  ASSUME NEW S \in SUBSET Nat, S # {}
  PROVE  Smallest(S) \in S /\ \A y \in S : Smallest(S) <= y
<1> DEFINE R == {ss \in Nat \X Nat : ss[1] < ss[2]}
<1>1. IsWellFoundedOn(R, Nat)
  BY NatLessThanWellFounded DEF OpToRel
<1>1a. ASSUME NEW x \in Nat, NEW y \in Nat, y < x
      PROVE  <<y, x>> \in R
  BY <1>1a
<1> HIDE DEF R
<1>2. PICK x \in S : \A y \in S : ~(<<y, x>> \in R)
  BY <1>1, WFMin
<1>3. \A y \in S : ~(y < x)
  BY <1>2, <1>1a
<1>4. \A y \in S : x <= y
  BY <1>3
<1> QED
  BY <1>4 DEF Smallest

\* A nonempty bounded set of numbers has a largest member, which Largest
\* chooses.
LEMMA LargestIsMember ==
  ASSUME NEW S \in SUBSET Nat, S # {}, NEW b \in Nat, \A x \in S : x <= b
  PROVE  Largest(S) \in S /\ \A y \in S : Largest(S) >= y
<1> DEFINE Bounds == {n \in Nat : \A x \in S : x <= n}
           m == Smallest(Bounds)
<1>1. Bounds \in SUBSET Nat /\ b \in Bounds
  OBVIOUS
<1>2. m \in Bounds /\ \A n \in Bounds : m <= n
  BY <1>1, SmallestIsMember
<1> HIDE DEF m
<1>3. m \in S
  <2> SUFFICES ASSUME m \notin S PROVE FALSE
    OBVIOUS
  <2>1. PICK x \in S : TRUE
    OBVIOUS
  <2>2. x \in Nat /\ m \in Nat /\ x < m
    BY <1>2
  <2>3. m - 1 \in Nat
    BY <2>2
  <2>4. \A y \in S : y \in Nat /\ y <= m /\ y # m
    BY <1>2
  <2>5. m - 1 \in Bounds
    BY <2>2, <2>3, <2>4
  <2> QED
    BY <1>2, <2>2, <2>3, <2>5
<1>4. \A y \in S : m >= y
  BY <1>2
<1> QED
  BY <1>3, <1>4 DEF Largest

-----------------------------------------------------------------------------
(* Type correctness. *)

\* _try_promote_next starts at most a queued deploy, and changes its status
\* alone.
LEMMA PromoteNextKeeps ==
  ASSUME NEW r \in [Deploys -> RowRecords]
  PROVE  /\ PromoteNext(r) \in [Deploys -> RowRecords]
         /\ \A e \in Deploys :
              /\ PromoteNext(r)[e].ip = r[e].ip
              /\ PromoteNext(r)[e].vmid = r[e].vmid
              /\ PromoteNext(r)[e].promoted = r[e].promoted
              /\ \/ PromoteNext(r)[e].status = r[e].status
                 \/ r[e].status = "queued" /\ PromoteNext(r)[e].status = "building"
<1> DEFINE queued == {d \in Deploys : r[d].status = "queued" /\ ~Locked(d)}
           q == Smallest(queued)
           p == [r EXCEPT ![q].status = "building"]
<1>1. PromoteNext(r) = r \/ (queued # {} /\ PromoteNext(r) = p)
  BY DEF PromoteNext
<1>2. ASSUME queued # {}
      PROVE  q \in Deploys /\ r[q].status = "queued"
  <2>1. queued \in SUBSET Nat
    BY DEF Deploys
  <2>2. q \in queued
    BY <1>2, <2>1, SmallestIsMember
  <2> QED
    BY <2>2
<1> HIDE DEF queued, q
<1>3. ASSUME q \in Deploys, r[q].status = "queued"
      PROVE  /\ p \in [Deploys -> RowRecords]
             /\ \A e \in Deploys :
                  /\ p[e].ip = r[e].ip /\ p[e].vmid = r[e].vmid
                  /\ p[e].promoted = r[e].promoted
                  /\ \/ p[e].status = r[e].status
                     \/ r[e].status = "queued" /\ p[e].status = "building"
  BY <1>3 DEF RowRecords, DEPLOY_STATES
<1> HIDE DEF p
<1> QED
  BY <1>1, <1>2, <1>3

\* A promotion is numbered after all the others.
LEMMA LastPromotionIsLast ==
  ASSUME row \in [Deploys -> RowRecords], PromotionsBounded, NEW d \in Deploys
  PROVE  LastPromotion \in Nat /\ \A e \in Deploys : row[e].promoted <= LastPromotion
<1> DEFINE S == {row[e].promoted : e \in Deploys}
<1>1. S \in SUBSET Nat /\ S # {}
  BY DEF RowRecords
<1>2. PICK b \in Nat : \A e \in Deploys : row[e].promoted <= b
  BY DEF PromotionsBounded
<1>3. \A x \in S : x <= b
  BY <1>2
<1>4. \A e \in Deploys : row[e].promoted \in S
  OBVIOUS
<1> HIDE DEF S
<1>5. Largest(S) \in S /\ \A y \in S : Largest(S) >= y
  BY <1>1, <1>3, LargestIsMember
<1>6. Largest(S) \in Nat /\ \A e \in Deploys : row[e].promoted <= Largest(S)
  BY <1>1, <1>4, <1>5
<1> QED
  BY <1>6 DEF LastPromotion, S

\* The rows SetActive writes before it hands on the slot.
ActiveRows(d, newer) ==
  [e \in Deploys |->
     IF e = d
       THEN [row[e] EXCEPT !.status = IF newer THEN "superseded" ELSE "active",
                           !.promoted = IF newer THEN @ ELSE LastPromotion + 1]
     ELSE IF ~newer /\ row[e].status = "active"
       THEN [row[e] EXCEPT !.status = "superseded"]
     ELSE row[e]]

\* SetActive makes its deploy active, or superseded by a newer one, and
\* supersedes the others.
LEMMA SetActiveWrites ==
  ASSUME Typed, NEW d \in Deploys, SetActive(d)
  PROVE  \E newer \in BOOLEAN :
           /\ ActiveRows(d, newer) \in [Deploys -> RowRecords]
           /\ row' = PromoteNext(ActiveRows(d, newer))
           /\ run' = [run EXCEPT ![d].pc = "route",
                                 ![d].seen = IF newer THEN "superseded" ELSE "active"]
<1> DEFINE newer == \E e \in Deploys : /\ e > d
                                       /\ row[e].status = "active"
                                       /\ row[e].promoted # 0
           own == [row EXCEPT ![d].status = IF newer THEN "superseded" ELSE "active",
                              ![d].promoted = IF newer THEN @ ELSE LastPromotion + 1]
           rows == [e \in Deploys |->
                      IF ~newer /\ e # d /\ row[e].status = "active"
                        THEN [row[e] EXCEPT !.status = "superseded"]
                        ELSE own[e]]
<1>1. /\ row' = PromoteNext(rows)
      /\ run' = [run EXCEPT ![d].pc = "route",
                            ![d].seen = IF newer THEN "superseded" ELSE "active"]
  BY DEF SetActive
<1>2. row \in [Deploys -> RowRecords]
  BY DEF Typed, TypeOK, RowRecords
<1>3. newer \in BOOLEAN
  OBVIOUS
<1> HIDE DEF newer
<1>4. LastPromotion + 1 \in Nat
  BY <1>2, LastPromotionIsLast DEF Typed
<1>5. rows = ActiveRows(d, newer)
  BY <1>2 DEF ActiveRows, RowRecords
<1>6. ActiveRows(d, newer) \in [Deploys -> RowRecords]
  <2> SUFFICES ASSUME NEW e \in Deploys
               PROVE  ActiveRows(d, newer)[e] \in RowRecords
    BY DEF ActiveRows
  <2> QED
    BY <1>2, <1>3, <1>4 DEF ActiveRows, RowRecords, DEPLOY_STATES
<1> QED
  BY <1>1, <1>3, <1>5, <1>6

\* The rows stay rows, none disappears, and the promotions stay bounded.
LEMMA RowStep ==
  ASSUME Typed, [Next]_vars
  PROVE  /\ row' \in [Deploys -> RowRecords]
         /\ \A e \in Deploys : row[e].status # NoRow => row'[e].status # NoRow
         /\ \A e \in Deploys : \/ row'[e].vmid \in {0, row[e].vmid}
                               \/ run[e].pc = "persist" /\ row'[e].vmid = run[e].vmid
         /\ PromotionsBounded'
<1> DEFINE Goal == /\ row' \in [Deploys -> RowRecords]
                   /\ \A e \in Deploys : row[e].status # NoRow => row'[e].status # NoRow
                   /\ \A e \in Deploys :
                        \/ row'[e].vmid \in {0, row[e].vmid}
                        \/ run[e].pc = "persist" /\ row'[e].vmid = run[e].vmid
                   /\ PromotionsBounded'
           Fits(d, x) == /\ x \in RowRecords
                         /\ x.promoted = row[d].promoted
                         /\ x.status = row[d].status \/ x.status \in DEPLOY_STATES
                         /\ \/ x.vmid \in {0, row[d].vmid}
                            \/ run[d].pc = "persist" /\ x.vmid = run[d].vmid
<1>1. row \in [Deploys -> RowRecords] /\ PromotionsBounded
  BY DEF Typed, TypeOK, RowRecords
<1>2. \A t \in DEPLOY_STATES : t # NoRow
  BY DEF DEPLOY_STATES, NoRow
<1>3. ASSUME UNCHANGED row PROVE Goal
  BY <1>1, <1>3 DEF PromotionsBounded
<1>4. ASSUME row' \in [Deploys -> RowRecords], \A e \in Deploys : Fits(e, row'[e])
      PROVE  Goal
  BY <1>1, <1>2, <1>4 DEF PromotionsBounded
<1>5. ASSUME NEW d \in Deploys, NEW x, Fits(d, x)
      PROVE  /\ [row EXCEPT ![d] = x] \in [Deploys -> RowRecords]
             /\ \A e \in Deploys : Fits(e, [row EXCEPT ![d] = x][e])
  BY <1>1, <1>5
<1>6. ASSUME NEW d \in Deploys, NEW x, Fits(d, x),
             row' = [row EXCEPT ![d] = x]
      PROVE  Goal
  BY <1>4, <1>5, <1>6
<1>7. ASSUME NEW d \in Deploys, NEW x, Fits(d, x),
             row' = PromoteNext([row EXCEPT ![d] = x])
      PROVE  Goal
  <2> DEFINE r == [row EXCEPT ![d] = x]
  <2>1. /\ r \in [Deploys -> RowRecords]
        /\ \A e \in Deploys : Fits(e, r[e])
    BY <1>5, <1>7
  <2>2. row' = PromoteNext(r)
    BY <1>7
  <2> HIDE DEF r
  <2>3. "building" \in DEPLOY_STATES
    BY DEF DEPLOY_STATES
  <2> QED
    BY <1>4, <2>1, <2>2, <2>3, PromoteNextKeeps
<1>8. ASSUME NEW d \in Deploys, Trigger(d) PROVE Goal
  <2> DEFINE x == [row[d] EXCEPT !.status = "queued"]
  <2>1. Fits(d, x)
    BY <1>1 DEF RowRecords, DEPLOY_STATES
  <2>2. row' = PromoteNext([row EXCEPT ![d] = x])
    BY <1>8 DEF Trigger
  <2> QED
    BY <1>7, <2>1, <2>2
<1>9. ASSUME NEW d \in Deploys, ToProvisioning(d) \/ SetHealthy(d) PROVE Goal
  <2>1. PICK s \in {"provisioning", "healthy"} : row' = [row EXCEPT ![d].status = s]
    BY <1>9 DEF ToProvisioning, SetHealthy
  <2> DEFINE x == [row[d] EXCEPT !.status = s]
  <2>2. Fits(d, x)
    BY <1>1 DEF RowRecords, DEPLOY_STATES
  <2> QED
    BY <1>6, <2>1, <2>2
<1>10. ASSUME NEW d \in Deploys, ClaimIp(d) \/ PersistVmid(d) PROVE Goal
  <2>1. run[d].ip \in Ips \cup {0} /\ run[d].vmid \in Vmids \cup {0}
    BY DEF Typed, TypeOK
  <2> DEFINE x == [row[d] EXCEPT !.ip = run[d].ip]
             y == [row[d] EXCEPT !.vmid = run[d].vmid]
  <2>2. \/ row' = [row EXCEPT ![d] = x]
        \/ run[d].pc = "persist" /\ row' = [row EXCEPT ![d] = y]
    BY <1>10 DEF ClaimIp, PersistVmid, At
  <2>3. Fits(d, x)
    BY <1>1, <2>1 DEF RowRecords
  <2>4. run[d].pc = "persist" => Fits(d, y)
    BY <1>1, <2>1 DEF RowRecords
  <2> QED
    BY <1>6, <2>2, <2>3, <2>4
<1>11. ASSUME NEW d \in Deploys, SetActive(d) PROVE Goal
  <2>1. PICK newer \in BOOLEAN :
          /\ ActiveRows(d, newer) \in [Deploys -> RowRecords]
          /\ row' = PromoteNext(ActiveRows(d, newer))
    BY <1>11, SetActiveWrites
  <2>2. LastPromotion \in Nat /\ \A e \in Deploys : row[e].promoted <= LastPromotion
    BY <1>1, LastPromotionIsLast
  <2>3. \A e \in Deploys :
          /\ row'[e].vmid = ActiveRows(d, newer)[e].vmid
          /\ row'[e].promoted = ActiveRows(d, newer)[e].promoted
          /\ \/ row'[e].status = ActiveRows(d, newer)[e].status
             \/ row'[e].status = "building"
    BY <2>1, PromoteNextKeeps
  <2>4. \A e \in Deploys :
          /\ ActiveRows(d, newer)[e].vmid = row[e].vmid
          /\ \/ ActiveRows(d, newer)[e].promoted = row[e].promoted
             \/ ActiveRows(d, newer)[e].promoted = LastPromotion + 1
          /\ \/ ActiveRows(d, newer)[e].status = row[e].status
             \/ ActiveRows(d, newer)[e].status \in {"active", "superseded"}
    BY <1>1 DEF ActiveRows, RowRecords
  <2>5. LastPromotion + 1 \in Nat
        /\ \A e \in Deploys : row'[e].promoted <= LastPromotion + 1
    BY <1>1, <2>2, <2>3, <2>4 DEF RowRecords
  <2>6. \A e \in Deploys : row[e].status # NoRow => row'[e].status # NoRow
    BY <2>3, <2>4 DEF NoRow
  <2>7. row' \in [Deploys -> RowRecords]
    BY <2>1, PromoteNextKeeps
  <2>8. PromotionsBounded'
    BY <2>5 DEF PromotionsBounded
  <2> QED
    BY <2>3, <2>4, <2>6, <2>7, <2>8
<1>12. ASSUME NEW d \in Deploys, RecordFailure(d) PROVE Goal
  <2> DEFINE x == [row[d] EXCEPT !.ip = 0, !.vmid = 0]
             y == [row[d] EXCEPT !.ip = 0, !.vmid = 0, !.status = "failed"]
  <2>1. \/ row' = [row EXCEPT ![d] = x]
        \/ row' = PromoteNext([row EXCEPT ![d] = y])
    <3>1. [row EXCEPT ![d].ip = 0, ![d].vmid = 0] = [row EXCEPT ![d] = x]
      BY <1>1 DEF RowRecords
    <3>2. [[row EXCEPT ![d].ip = 0, ![d].vmid = 0] EXCEPT ![d].status = "failed"]
            = [row EXCEPT ![d] = y]
      BY <1>1 DEF RowRecords
    <3> QED
      BY <1>12, <3>1, <3>2 DEF RecordFailure
  <2>2. Fits(d, x)
    BY <1>1 DEF RowRecords
  <2>3. Fits(d, y)
    BY <1>1 DEF RowRecords, DEPLOY_STATES
  <2> QED
    BY <1>6, <1>7, <2>1, <2>2, <2>3
<1>13. ASSUME NEW c \in 0..MaxDeploys, ReconcileCycle(c) PROVE Goal
  <2>1. PICK stuck : row' = [d \in Deploys |->
                       IF d \in stuck
                         THEN [row[d] EXCEPT !.status = "failed", !.ip = 0, !.vmid = 0]
                         ELSE row[d]]
    BY <1>13 DEF ReconcileCycle, Reconcile
  <2>2. \A e \in Deploys : Fits(e, row'[e])
    BY <1>1, <2>1 DEF RowRecords, DEPLOY_STATES
  <2>3. row' \in [Deploys -> RowRecords]
    BY <2>1, <2>2
  <2> QED
    BY <1>4, <2>2, <2>3
<1>14. ASSUME DestroyWrite PROVE Goal
  <2>1. row' = [row EXCEPT ![req.d].status = "rolled_back"]
    BY <1>14 DEF DestroyWrite
  <2>2. CASE req.d \in Deploys
    <3> DEFINE x == [row[req.d] EXCEPT !.status = "rolled_back"]
    <3>1. Fits(req.d, x)
      BY <1>1, <2>2 DEF RowRecords, DEPLOY_STATES
    <3> QED
      BY <1>6, <2>1, <2>2, <3>1
  <2>3. CASE req.d \notin Deploys
    <3>1. row' = row
      BY <1>1, <2>1, <2>3
    <3> QED
      BY <1>3, <3>1
  <2> QED
    BY <2>2, <2>3
<1>15. ASSUME NEW d \in Deploys, Execute(d) PROVE Goal
  BY <1>3, <1>9, <1>10, <1>11, <1>12, <1>15
  DEF Execute, Load, Begin, UnexpectedState, AllocateFlatIp, Prepare, StageFails,
      CreateLxc, CreateTimesOut, StartLxc, HealthPasses, RegisterDeployRouting,
      RoutingWriteFails, RaceGuard, RegisterProductionRouting, CleanupChecks,
      CleanupDestroys, CleanupSkips, CleanupTimesOut
<1>16. ASSUME Destroy PROVE Goal
  BY <1>3, <1>14, <1>16 DEF Destroy, TeardownChecks, TeardownDestroys, TeardownFails
<1> QED
  BY <1>3, <1>8, <1>13, <1>15, <1>16 DEF Next, vars, DestroyRead, Crash

\* The tasks stay tasks; one that ends leaves nothing, and none begins but by
\* the trigger.
LEMMA RunStep ==
  ASSUME Typed, [Next]_vars
  PROVE  /\ run' \in [Deploys -> TaskRecords]
         /\ \A e \in Deploys :
              /\ run'[e].pc = "none" => run'[e] = NoTask
              /\ run'[e].pc # "none" => row'[e].status # NoRow
<1> DEFINE Goal == /\ run' \in [Deploys -> TaskRecords]
                   /\ \A e \in Deploys :
                        /\ run'[e].pc = "none" => run'[e] = NoTask
                        /\ run'[e].pc # "none" => row'[e].status # NoRow
<1>1. /\ run \in [Deploys -> TaskRecords] /\ row \in [Deploys -> RowRecords]
      /\ \A e \in Deploys : /\ run[e].pc = "none" => run[e] = NoTask
                            /\ run[e].pc # "none" => row[e].status # NoRow
  BY DEF Typed, TypeOK, TaskRecords, RowRecords, TaskHasRow
<1>2. \A e \in Deploys : row[e].status # NoRow => row'[e].status # NoRow
  BY RowStep
<1>3. ASSUME UNCHANGED run PROVE Goal
  BY <1>1, <1>2, <1>3
<1>4. ASSUME NEW d \in Deploys, NEW t \in TaskRecords, t.pc # "none",
             run' = [run EXCEPT ![d] = t], row'[d].status # NoRow
      PROVE  Goal
  BY <1>1, <1>2, <1>4
<1>5. ASSUME NEW d \in Deploys, NEW l \in PCs \ {"none"}, Goto(d, l), row'[d].status # NoRow
      PROVE  Goal
  <2> DEFINE t == [run[d] EXCEPT !.pc = l]
  <2>1. t \in TaskRecords /\ t.pc # "none" /\ run' = [run EXCEPT ![d] = t]
    BY <1>1, <1>5 DEF TaskRecords, Goto
  <2> QED
    BY <1>4, <1>5, <2>1
<1>6. ASSUME NEW d \in Deploys, run' = [run EXCEPT ![d] = NoTask] PROVE Goal
  <2>1. NoTask \in TaskRecords /\ NoTask.pc = "none"
    BY DEF NoTask, TaskRecords, PCs, DEPLOY_STATES
  <2> QED
    BY <1>1, <1>2, <1>6, <2>1
<1>7. ASSUME NEW d \in Deploys, run[d].pc # "none", NEW t \in TaskRecords, t.pc # "none",
             run' = [run EXCEPT ![d] = t]
      PROVE  Goal
  BY <1>1, <1>2, <1>4, <1>7
<1>8. ASSUME NEW d \in Deploys, run[d].pc # "none", NEW l \in PCs \ {"none"}, Goto(d, l)
      PROVE  Goal
  BY <1>1, <1>2, <1>5, <1>8
<1>9. ASSUME NEW d \in Deploys, Trigger(d) PROVE Goal
  <2> DEFINE r == [row EXCEPT ![d].status = "queued"]
  <2>1. r \in [Deploys -> RowRecords] /\ r[d].status = "queued"
    BY <1>1 DEF RowRecords, DEPLOY_STATES
  <2>2. row' = PromoteNext(r)
    BY <1>9 DEF Trigger
  <2> HIDE DEF r
  <2>3. row'[d].status # NoRow
    BY <2>1, <2>2, PromoteNextKeeps DEF NoRow
  <2>4. "scheduled" \in PCs \ {"none"}
    BY DEF PCs
  <2> QED
    BY <1>5, <1>9, <2>3, <2>4 DEF Trigger
<1>10. ASSUME NEW d \in Deploys, Load(d) PROVE Goal
  <2> DEFINE t == [run[d] EXCEPT !.pc = "loaded", !.seen = row[d].status]
  <2>1. run[d].pc # "none" /\ run' = [run EXCEPT ![d] = t]
    BY <1>10 DEF Load, At
  <2>2. row[d].status \in DEPLOY_STATES
    BY <1>1, <2>1 DEF RowRecords
  <2>3. t \in TaskRecords /\ t.pc # "none"
    BY <1>1, <2>2 DEF TaskRecords, PCs
  <2> QED
    BY <1>7, <2>1, <2>3
<1>11. ASSUME NEW d \in Deploys, ToProvisioning(d) \/ SetHealthy(d) \/ SetActive(d)
       PROVE  Goal
  <2>1. PICK l \in {"network", "promote", "route"},
             s \in {"provisioning", "healthy", "superseded", "active"} :
          run[d].pc # "none" /\ run' = [run EXCEPT ![d].pc = l, ![d].seen = s]
    <3>1. run[d].pc # "none"
      BY <1>11 DEF ToProvisioning, SetHealthy, SetActive, At
    <3>2. CASE SetActive(d)
      BY <3>1, <3>2, SetActiveWrites
    <3>3. CASE ToProvisioning(d)
      BY <3>1, <3>3 DEF ToProvisioning
    <3>4. CASE SetHealthy(d)
      BY <3>1, <3>4 DEF SetHealthy
    <3> QED
      BY <1>11, <3>2, <3>3, <3>4
  <2> DEFINE t == [run[d] EXCEPT !.pc = l, !.seen = s]
  <2>2. t \in TaskRecords /\ t.pc # "none"
    <3>1. l \in PCs /\ l # "none" /\ s \in DEPLOY_STATES
      BY DEF PCs, DEPLOY_STATES
    <3> QED
      BY <1>1, <3>1 DEF TaskRecords
  <2>3. run' = [run EXCEPT ![d] = t]
    BY <2>1
  <2> HIDE DEF t
  <2> QED
    BY <1>7, <2>1, <2>2, <2>3
<1>12. ASSUME NEW d \in Deploys, AllocateFlatIp(d) PROVE Goal
  <2>1. run[d].pc # "none"
    BY <1>12 DEF AllocateFlatIp, At
  <2>2. PICK scanned \in {Vmids, {}} :
          LET free == Ips \ UsedIps(scanned)
          IN  IF free = {} THEN Goto(d, "cleanup")
              ELSE run' = [run EXCEPT ![d].pc = "claim", ![d].ip = Smallest(free)]
    BY <1>12 DEF AllocateFlatIp
  <2> DEFINE free == Ips \ UsedIps(scanned)
             ip == Smallest(free)
             t == [run[d] EXCEPT !.pc = "claim", !.ip = ip]
  <2>3. CASE free = {}
    BY <1>8, <2>1, <2>2, <2>3 DEF PCs
  <2>4. CASE free # {}
    <3>1. free \in SUBSET Nat
      BY DEF Ips
    <3>2. ip \in Ips
      BY <2>4, <3>1, SmallestIsMember
    <3>3. run' = [run EXCEPT ![d] = t]
      BY <2>2, <2>4
    <3> HIDE DEF ip
    <3>4. t \in TaskRecords /\ t.pc # "none"
      BY <1>1, <3>2 DEF TaskRecords, PCs
    <3> QED
      BY <1>7, <2>1, <3>3, <3>4
  <2> QED
    BY <2>3, <2>4
<1>13. ASSUME NEW d \in Deploys, Prepare(d) PROVE Goal
  <2> DEFINE unused == {v \in Vmids : ct[v] = NoCt}
             vmid == Smallest(unused)
             t == [run[d] EXCEPT !.pc = "create", !.vmid = vmid]
  <2>1. run[d].pc # "none" /\ unused # {} /\ run' = [run EXCEPT ![d] = t]
    BY <1>13 DEF Prepare, At
  <2>2. unused \in SUBSET Nat
    BY DEF Vmids
  <2>3. vmid \in Vmids
    BY <2>1, <2>2, SmallestIsMember
  <2> HIDE DEF vmid
  <2>4. t \in TaskRecords /\ t.pc # "none"
    BY <1>1, <2>3 DEF TaskRecords, PCs
  <2> QED
    BY <1>7, <2>1, <2>4
<1>14. ASSUME NEW d \in Deploys, CreateLxc(d) PROVE Goal
  <2>1. PICK l \in {"persist", "cleanup"} :
          run[d].pc # "none" /\ run' = [run EXCEPT ![d].pc = l, ![d].created = TRUE]
    BY <1>14 DEF CreateLxc, At
  <2> DEFINE t == [run[d] EXCEPT !.pc = l, !.created = TRUE]
  <2>2. t \in TaskRecords /\ t.pc # "none"
    <3>1. l \in PCs /\ l # "none"
      BY DEF PCs
    <3> QED
      BY <1>1, <3>1 DEF TaskRecords
  <2>3. run' = [run EXCEPT ![d] = t]
    BY <2>1
  <2> HIDE DEF t
  <2> QED
    BY <1>7, <2>1, <2>2, <2>3
<1>15. ASSUME NEW d \in Deploys,
              \/ Begin(d) \/ UnexpectedState(d) \/ ClaimIp(d) \/ StageFails(d)
              \/ CreateTimesOut(d) \/ PersistVmid(d) \/ StartLxc(d) \/ HealthPasses(d)
              \/ RoutingWriteFails(d) \/ CleanupChecks(d) \/ CleanupDestroys(d)
              \/ CleanupSkips(d)
       PROVE  Goal
  <2>1. run[d].pc # "none"
    BY <1>15 DEF Begin, UnexpectedState, ClaimIp, StageFails, CreateTimesOut, PersistVmid,
         StartLxc, HealthPasses, RoutingWriteFails, CleanupChecks, CleanupDestroys,
         CleanupSkips, At
  <2>2. \E l \in PCs \ {"none"} : Goto(d, l)
    BY <1>15 DEF Begin, UnexpectedState, ClaimIp, StageFails, CreateTimesOut, PersistVmid,
         StartLxc, HealthPasses, RoutingWriteFails, CleanupChecks, CleanupDestroys,
         CleanupSkips, PCs
  <2> QED
    BY <1>8, <2>1, <2>2
<1>16. ASSUME NEW d \in Deploys,
              \/ RegisterDeployRouting(d) \/ RaceGuard(d) \/ RegisterProductionRouting(d)
              \/ CleanupTimesOut(d) \/ RecordFailure(d)
       PROVE  Goal
  <2>1. "prod" \in PCs \ {"none"} /\ "prod_write" \in PCs \ {"none"}
    BY DEF PCs
  <2> QED
    BY <1>6, <1>8, <1>16, <2>1
    DEF RegisterDeployRouting, RaceGuard, RegisterProductionRouting, CleanupTimesOut,
        RecordFailure, At
<1>17. ASSUME Crash PROVE Goal
  <2>1. NoTask \in TaskRecords /\ NoTask.pc = "none"
    BY DEF NoTask, TaskRecords, PCs, DEPLOY_STATES
  <2> QED
    BY <1>17, <2>1 DEF Crash
<1>18. ASSUME NEW d \in Deploys, Execute(d) PROVE Goal
  BY <1>10, <1>11, <1>12, <1>13, <1>14, <1>15, <1>16, <1>18 DEF Execute
<1>19. ASSUME Destroy PROVE Goal
  BY <1>3, <1>19
  DEF Destroy, TeardownChecks, TeardownDestroys, TeardownFails, DestroyWrite
<1> QED
  BY <1>3, <1>9, <1>17, <1>18, <1>19
  DEF Next, vars, DestroyRead, ReconcileCycle, Reconcile

\* The cluster holds containers, and what is started, stopped or destroyed is
\* one of them.
LEMMA CtStep ==
  ASSUME Typed, [Next]_vars
  PROVE  ct' \in [Vmids -> CtRecords]
<1>1. ct \in [Vmids -> CtRecords] /\ run \in [Deploys -> TaskRecords]
  BY DEF Typed, TypeOK, CtRecords, TaskRecords
<1>2. ASSUME UNCHANGED ct PROVE ct' \in [Vmids -> CtRecords]
  BY <1>1, <1>2
<1>3. ASSUME NEW v, NEW u \in BOOLEAN, ct' = [ct EXCEPT ![v].up = u]
      PROVE  ct' \in [Vmids -> CtRecords]
  BY <1>1, <1>3 DEF CtRecords
<1>4. ASSUME NEW v, NEW c \in CtRecords, ct' = [ct EXCEPT ![v] = c]
      PROVE  ct' \in [Vmids -> CtRecords]
  BY <1>1, <1>4
<1>5. NoCt \in CtRecords
  BY DEF NoCt, CtRecords
<1>6. ASSUME NEW d \in Deploys, CreateLxc(d) \/ CreateTimesOut(d)
      PROVE  ct' \in [Vmids -> CtRecords]
  <2> DEFINE c == [owner |-> d, ip |-> run[d].ip, up |-> FALSE]
  <2>1. c \in CtRecords
    BY <1>1 DEF CtRecords, TaskRecords
  <2>2. ct' = [ct EXCEPT ![run[d].vmid] = c]
    BY <1>6 DEF CreateLxc, CreateTimesOut
  <2> QED
    BY <1>4, <2>1, <2>2
<1>7. ASSUME NEW d \in Deploys, StartLxc(d) \/ CleanupChecks(d)
      PROVE  ct' \in [Vmids -> CtRecords]
  BY <1>2, <1>3, <1>7 DEF StartLxc, CleanupChecks
<1>8. ASSUME NEW d \in Deploys, CleanupDestroys(d)
      PROVE  ct' \in [Vmids -> CtRecords]
  BY <1>4, <1>5, <1>8 DEF CleanupDestroys
<1>9. ASSUME TeardownChecks
      PROVE  ct' \in [Vmids -> CtRecords]
  BY <1>2, <1>3, <1>9 DEF TeardownChecks
<1>10. ASSUME TeardownDestroys
       PROVE  ct' \in [Vmids -> CtRecords]
  BY <1>1, <1>5, <1>10 DEF TeardownDestroys
<1>11. ASSUME NEW d \in Deploys, Execute(d)
       PROVE  ct' \in [Vmids -> CtRecords]
  BY <1>2, <1>6, <1>7, <1>8, <1>11
  DEF Execute, Load, Begin, ToProvisioning, UnexpectedState, AllocateFlatIp, ClaimIp,
      Prepare, StageFails, PersistVmid, HealthPasses, SetHealthy, SetActive,
      RegisterDeployRouting, RoutingWriteFails, RaceGuard, RegisterProductionRouting,
      CleanupSkips, CleanupTimesOut, RecordFailure
<1>12. ASSUME Destroy
       PROVE  ct' \in [Vmids -> CtRecords]
  BY <1>2, <1>9, <1>10, <1>12 DEF Destroy, TeardownFails, DestroyWrite
<1> QED
  BY <1>2, <1>11, <1>12 DEF Next, vars, Trigger, DestroyRead, ReconcileCycle, Reconcile, Crash

RestTyped ==
  /\ conf \subseteq Deploys /\ prod \in Deploys \cup {0}
  /\ req \in [d : Deploys \cup {0}, phase : {"none", "teardown", "destroy", "write"},
              status : DEPLOY_STATES, vmid : Vmids \cup {0}]
  /\ crashes \in 0..MaxCrashes
  /\ passed \subseteq Deploys /\ lost \subseteq Deploys

\* What one step does to the files, to the production address and to the
\* histories: only the health check adds to the first history, only a routing
\* step adds a file, and only its executor takes the production address.
LEMMA FilesStep ==
  ASSUME [Next]_vars
  PROVE  /\ passed' = passed \/ \E d \in Deploys : passed' = passed \cup {d}
         /\ \/ conf' \subseteq conf
            \/ \E d \in Deploys : /\ run[d].pc = "route" /\ RegisterDeployRouting(d)
                                  /\ conf' = conf \cup {d}
         /\ \/ prod' \in {0, prod}
            \/ \E d \in Deploys : /\ run[d].pc = "prod_write" /\ prod' = d
                                  /\ RegisterProductionRouting(d)
         /\ crashes' = crashes \/ (crashes < MaxCrashes /\ crashes' = crashes + 1)
<1> DEFINE Goal ==
      /\ passed' = passed \/ \E d \in Deploys : passed' = passed \cup {d}
      /\ \/ conf' \subseteq conf
         \/ \E d \in Deploys : /\ run[d].pc = "route" /\ RegisterDeployRouting(d)
                               /\ conf' = conf \cup {d}
      /\ \/ prod' \in {0, prod}
         \/ \E d \in Deploys : /\ run[d].pc = "prod_write" /\ prod' = d
                               /\ RegisterProductionRouting(d)
      /\ crashes' = crashes \/ (crashes < MaxCrashes /\ crashes' = crashes + 1)
<1>1. ASSUME UNCHANGED <<conf, prod, crashes, passed>> PROVE Goal
  BY <1>1
<1>2. ASSUME NEW d \in Deploys,
             \/ Load(d) \/ Begin(d) \/ ToProvisioning(d) \/ UnexpectedState(d)
             \/ AllocateFlatIp(d) \/ ClaimIp(d) \/ Prepare(d) \/ StageFails(d)
             \/ CreateLxc(d) \/ CreateTimesOut(d) \/ PersistVmid(d) \/ StartLxc(d)
      PROVE  UNCHANGED <<conf, prod, crashes, passed>>
  BY <1>2
  DEF Load, Begin, ToProvisioning, UnexpectedState, AllocateFlatIp, ClaimIp, Prepare,
      StageFails, CreateLxc, CreateTimesOut, PersistVmid, StartLxc
<1>3. ASSUME NEW d \in Deploys,
             \/ SetHealthy(d) \/ SetActive(d) \/ RoutingWriteFails(d) \/ RaceGuard(d)
             \/ CleanupChecks(d) \/ CleanupDestroys(d) \/ CleanupSkips(d)
             \/ CleanupTimesOut(d) \/ RecordFailure(d)
      PROVE  UNCHANGED <<conf, prod, crashes, passed>>
  BY <1>3
  DEF SetHealthy, SetActive, RoutingWriteFails, RaceGuard, CleanupChecks, CleanupDestroys,
      CleanupSkips, CleanupTimesOut, RecordFailure
<1>4. ASSUME NEW d \in Deploys, HealthPasses(d) PROVE Goal
  BY <1>4 DEF HealthPasses
<1>5. ASSUME NEW d \in Deploys, RegisterDeployRouting(d) PROVE Goal
  BY <1>5 DEF RegisterDeployRouting, At
<1>6. ASSUME NEW d \in Deploys, RegisterProductionRouting(d) PROVE Goal
  BY <1>6 DEF RegisterProductionRouting, At
<1>7. ASSUME NEW d \in Deploys, Execute(d) PROVE Goal
  <2> HIDE DEF Goal
  <2> QED
    BY <1>1, <1>2, <1>3, <1>4, <1>5, <1>6, <1>7 DEF Execute
<1>8. ASSUME NEW d \in Deploys, Trigger(d) \/ DestroyRead(d) PROVE Goal
  BY <1>8 DEF Trigger, DestroyRead
<1>9. ASSUME Destroy PROVE Goal
  BY <1>9 DEF Destroy, TeardownChecks, TeardownDestroys, TeardownFails, DestroyWrite
<1>10. ASSUME NEW c \in 0..MaxDeploys, ReconcileCycle(c) PROVE Goal
  BY <1>10 DEF ReconcileCycle, Reconcile
<1>11. ASSUME Crash PROVE Goal
  BY <1>11 DEF Crash
<1>12. ASSUME UNCHANGED vars PROVE Goal
  BY <1>1, <1>12 DEF vars
<1> HIDE DEF Goal
<1>13. Goal
  BY <1>7, <1>8, <1>9, <1>10, <1>11, <1>12 DEF Next
<1> QED
  BY <1>13 DEF Goal

\* What one step does to the history of hidden containers.
LEMMA LostStep ==
  ASSUME Typed, [Next]_vars
  PROVE  lost' \subseteq lost \cup Deploys
<1>1. ASSUME NEW d \in Deploys,
             \/ Load(d) \/ Begin(d) \/ ToProvisioning(d) \/ UnexpectedState(d)
             \/ AllocateFlatIp(d) \/ ClaimIp(d) \/ Prepare(d) \/ StageFails(d)
             \/ CreateLxc(d) \/ PersistVmid(d) \/ StartLxc(d)
             \/ HealthPasses(d) \/ SetHealthy(d)
      PROVE  lost' = lost
  BY <1>1
  DEF Load, Begin, ToProvisioning, UnexpectedState, AllocateFlatIp, ClaimIp, Prepare,
      StageFails, CreateLxc, PersistVmid, StartLxc, HealthPasses, SetHealthy
<1>2. ASSUME NEW d \in Deploys,
             \/ SetActive(d) \/ RegisterDeployRouting(d) \/ RoutingWriteFails(d)
             \/ RaceGuard(d) \/ RegisterProductionRouting(d) \/ CleanupChecks(d)
             \/ CleanupDestroys(d) \/ RecordFailure(d) \/ Trigger(d) \/ DestroyRead(d)
      PROVE  lost' = lost
  BY <1>2
  DEF SetActive, RegisterDeployRouting, RoutingWriteFails, RaceGuard,
      RegisterProductionRouting, CleanupChecks, CleanupDestroys, RecordFailure, Trigger,
      DestroyRead
<1>3. ASSUME NEW d \in Deploys, CreateTimesOut(d) \/ CleanupSkips(d) \/ CleanupTimesOut(d)
      PROVE  lost' \subseteq lost \cup Deploys
  <2>1. lost' = lost \/ lost' = lost \cup {d}
    BY <1>3 DEF CreateTimesOut, CleanupSkips, CleanupTimesOut
  <2> QED
    BY <2>1
<1>4. CASE Destroy
  BY <1>4 DEF Destroy, TeardownChecks, TeardownDestroys, TeardownFails, DestroyWrite
<1>5. ASSUME NEW c \in 0..MaxDeploys, ReconcileCycle(c)
      PROVE  lost' \subseteq lost \cup Deploys
  <2>1. \A d \in 1..c : d \in Deploys
    BY BoundsAssumption DEF Deploys
  <2> QED
    BY <1>5, <2>1 DEF ReconcileCycle, Reconcile
<1>6. CASE Crash
  BY <1>6 DEF Crash
<1>7. CASE UNCHANGED vars
  BY <1>7 DEF vars
<1> QED
  BY <1>1, <1>2, <1>3, <1>4, <1>5, <1>6, <1>7 DEF Next, Execute

\* The files, the request and the histories name deploys.
LEMMA RestStep ==
  ASSUME Typed, [Next]_vars
  PROVE  RestTyped'
<1>1. RestTyped /\ row \in [Deploys -> RowRecords]
  BY DEF Typed, TypeOK, RestTyped, RowRecords
<1>2. conf' \subseteq Deploys /\ passed' \subseteq Deploys
  BY <1>1, FilesStep DEF RestTyped
<1>3. lost' \subseteq Deploys
  BY <1>1, LostStep DEF RestTyped
<1>4. prod' \in Deploys \cup {0}
  BY <1>1, FilesStep DEF RestTyped
<1>5. crashes' \in 0..MaxCrashes
  <2>1. crashes' = crashes \/ (crashes < MaxCrashes /\ crashes' = crashes + 1)
    BY FilesStep
  <2> QED
    BY <1>1, <2>1, BoundsAssumption DEF RestTyped
<1>6. req' \in [d : Deploys \cup {0}, phase : {"none", "teardown", "destroy", "write"},
                status : DEPLOY_STATES, vmid : Vmids \cup {0}]
  <2> DEFINE Reqs == [d : Deploys \cup {0}, phase : {"none", "teardown", "destroy", "write"},
                      status : DEPLOY_STATES, vmid : Vmids \cup {0}]
  <2>1. NoReq \in Reqs
    BY DEF NoReq, DEPLOY_STATES
  <2>2. ASSUME NEW d \in Deploys, DestroyRead(d) PROVE req' \in Reqs
    BY <1>1, <2>2 DEF DestroyRead, RowRecords
  <2>3. ASSUME TeardownChecks \/ TeardownDestroys PROVE req' \in Reqs
    BY <1>1, <2>3 DEF TeardownChecks, TeardownDestroys, RestTyped
  <2>4. ASSUME UNCHANGED req PROVE req' \in Reqs
    BY <1>1, <2>4 DEF RestTyped
  <2> HIDE DEF Reqs
  <2>5. ASSUME NEW d \in Deploys, Execute(d) PROVE req' \in Reqs
    BY <2>4, <2>5
    DEF Execute, Load, Begin, ToProvisioning, UnexpectedState, AllocateFlatIp, ClaimIp,
      Prepare, StageFails, CreateLxc, CreateTimesOut, PersistVmid, StartLxc, HealthPasses,
      SetHealthy, SetActive, RegisterDeployRouting, RoutingWriteFails, RaceGuard,
      RegisterProductionRouting, CleanupChecks, CleanupDestroys, CleanupSkips,
      CleanupTimesOut, RecordFailure
  <2>6. req' \in Reqs
    BY <2>1, <2>2, <2>3, <2>4, <2>5
    DEF Next, vars, Trigger, Destroy, ReconcileCycle, Reconcile, Crash, TeardownFails,
        DestroyWrite
  <2> QED
    BY <2>6 DEF Reqs
<1> QED
  BY <1>2, <1>3, <1>4, <1>5, <1>6 DEF RestTyped

\* Nothing has been triggered yet.
LEMMA TypedInit == Init => Typed
<1> SUFFICES ASSUME Init PROVE Typed
  OBVIOUS
<1>1. row \in [Deploys -> RowRecords] /\ run \in [Deploys -> TaskRecords]
      /\ ct \in [Vmids -> CtRecords]
  BY DEF Init, RowRecords, TaskRecords, CtRecords, NoTask, NoCt, PCs, DEPLOY_STATES
<1>2. RestTyped
  BY BoundsAssumption DEF Init, RestTyped, NoReq, DEPLOY_STATES
<1>3. \A d \in Deploys : TaskHasRow(d)
  BY DEF Init, TaskHasRow, NoTask
<1>4. PromotionsBounded
  BY DEF Init, PromotionsBounded
<1> QED
  BY <1>1, <1>2, <1>3, <1>4
  DEF Typed, TypeOK, RowRecords, TaskRecords, CtRecords, RestTyped

\* Every state is typed, and every executor has its row.
LEMMA TypedAlways == Spec => []Typed
<1>1. Typed /\ [Next]_vars => Typed'
  <2> SUFFICES ASSUME Typed, [Next]_vars PROVE Typed'
    OBVIOUS
  <2>1. TypeOK'
    BY RowStep, RunStep, CtStep, RestStep
    DEF TypeOK, RowRecords, TaskRecords, CtRecords, RestTyped
  <2>2. PromotionsBounded'
    BY RowStep
  <2>3. ASSUME NEW d \in Deploys PROVE TaskHasRow(d)'
    <3>1. row'[d].status = NoRow => row'[d].vmid = 0
      BY RowStep DEF Typed, TaskHasRow
    <3> QED
      BY <3>1, RunStep DEF TaskHasRow
  <2> QED
    BY <2>1, <2>2, <2>3 DEF Typed
<1> QED
  BY TypedInit, <1>1, PTL DEF Spec

\* Type correctness: the columns of the rows, the contexts of the executors
\* and the containers keep to their ranges.
THEOREM TypeCorrect == Spec => []TypeOK
<1>1. Typed => TypeOK
  BY DEF Typed
<1> QED
  BY TypedAlways, <1>1, PTL

-----------------------------------------------------------------------------
(* The health gate. *)

\* Only transition_deploy(active), by the deploy's own executor, makes a deploy
\* active.
LEMMA ActiveComesFromPromotion ==
  ASSUME Typed, [Next]_vars, NEW e \in Deploys,
         row'[e].status = "active", row[e].status # "active"
  PROVE  run[e].pc = "promote"
<1>1. row \in [Deploys -> RowRecords]
  BY DEF Typed, TypeOK, RowRecords
<1>2. row' # row
  OBVIOUS
<1>3. ASSUME NEW d \in Deploys, NEW x \in RowRecords, x.status # "active"
      PROVE  /\ [row EXCEPT ![d] = x] \in [Deploys -> RowRecords]
             /\ [row EXCEPT ![d] = x][e].status # "active"
  BY <1>1, <1>3
<1>4. ASSUME NEW r \in [Deploys -> RowRecords], r[e].status # "active"
      PROVE  PromoteNext(r)[e].status # "active"
  BY <1>4, PromoteNextKeeps
<1>5. ASSUME NEW d \in Deploys, Trigger(d) PROVE FALSE
  <2> DEFINE x == [row[d] EXCEPT !.status = "queued"]
  <2>1. x \in RowRecords /\ x.status # "active"
    BY <1>1 DEF RowRecords, DEPLOY_STATES
  <2>2. row' = PromoteNext([row EXCEPT ![d] = x])
    BY <1>5 DEF Trigger
  <2> HIDE DEF x
  <2> QED
    BY <1>3, <1>4, <2>1, <2>2
<1>6. ASSUME NEW d \in Deploys,
             ToProvisioning(d) \/ SetHealthy(d) \/ ClaimIp(d) \/ PersistVmid(d)
      PROVE  FALSE
  BY <1>1, <1>6 DEF ToProvisioning, SetHealthy, ClaimIp, PersistVmid, RowRecords
<1>7. ASSUME NEW d \in Deploys, SetActive(d) PROVE run[e].pc = "promote"
  <2>1. PICK newer \in BOOLEAN :
          /\ ActiveRows(d, newer) \in [Deploys -> RowRecords]
          /\ row' = PromoteNext(ActiveRows(d, newer))
    BY <1>7, SetActiveWrites
  <2>2. ActiveRows(d, newer)[e].status = "active"
    BY <1>4, <2>1
  <2>3. e = d
    BY <1>1, <2>2 DEF ActiveRows, RowRecords
  <2> QED
    BY <1>7, <2>3 DEF SetActive, At
<1>8. ASSUME NEW d \in Deploys, RecordFailure(d) PROVE FALSE
  <2> DEFINE x == [row EXCEPT ![d].ip = 0, ![d].vmid = 0]
             y == [x EXCEPT ![d].status = "failed"]
  <2>1. row' = x \/ row' = PromoteNext(y)
    BY <1>8 DEF RecordFailure
  <2>2. x[e].status # "active" /\ x \in [Deploys -> RowRecords]
    BY <1>1 DEF RowRecords
  <2> HIDE DEF x
  <2>3. y[e].status # "active" /\ y \in [Deploys -> RowRecords]
    BY <2>2 DEF RowRecords, DEPLOY_STATES
  <2> HIDE DEF y
  <2> QED
    BY <1>4, <2>1, <2>2, <2>3
<1>9. ASSUME NEW c \in 0..MaxDeploys, ReconcileCycle(c) PROVE FALSE
  BY <1>1, <1>9 DEF ReconcileCycle, Reconcile, RowRecords
<1>10. ASSUME DestroyWrite PROVE FALSE
  BY <1>1, <1>10 DEF DestroyWrite, RowRecords
<1>11. ASSUME NEW d \in Deploys, Execute(d) PROVE run[e].pc = "promote"
  BY <1>2, <1>6, <1>7, <1>8, <1>11
  DEF Execute, Load, Begin, UnexpectedState, AllocateFlatIp, Prepare, StageFails,
      CreateLxc, CreateTimesOut, StartLxc, HealthPasses, RegisterDeployRouting,
      RoutingWriteFails, RaceGuard, RegisterProductionRouting, CleanupChecks,
      CleanupDestroys, CleanupSkips, CleanupTimesOut
<1> QED
  BY <1>2, <1>5, <1>9, <1>10, <1>11
  DEF Next, vars, Destroy, TeardownChecks, TeardownDestroys, TeardownFails, DestroyRead, Crash

\* The executor gets past its health check only by passing it.
LEMMA CheckedComesFromHealth ==
  ASSUME Typed, [Next]_vars, NEW e \in Deploys, run'[e].pc \in Checked
  PROVE  run[e].pc \in Checked \/ e \in passed'
<1>1. run \in [Deploys -> TaskRecords]
  BY DEF Typed, TypeOK, TaskRecords
<1>2. CASE UNCHANGED run
  BY <1>2
<1>3. ASSUME NEW d \in Deploys, Execute(d), d # e
      PROVE  run'[e] = run[e]
  BY <1>1, <1>3
  DEF Execute, Goto, Load, Begin, ToProvisioning, UnexpectedState, AllocateFlatIp, ClaimIp,
      Prepare, StageFails, CreateLxc, CreateTimesOut, PersistVmid, StartLxc, HealthPasses,
      SetHealthy, SetActive, RegisterDeployRouting, RoutingWriteFails, RaceGuard,
      RegisterProductionRouting, CleanupChecks, CleanupDestroys, CleanupSkips,
      CleanupTimesOut, RecordFailure
<1>4. ASSUME Execute(e)
      PROVE  run[e].pc \in Checked \/ e \in passed'
  <2>1. CASE HealthPasses(e)
    BY <2>1 DEF HealthPasses
  <2>2. CASE SetHealthy(e) \/ SetActive(e) \/ RegisterDeployRouting(e) \/ RaceGuard(e)
             \/ RegisterProductionRouting(e)
    BY <2>2 DEF SetHealthy, SetActive, RegisterDeployRouting, RaceGuard,
         RegisterProductionRouting, At, Checked
  <2>3. ASSUME NEW l, run'[e].pc = l, l \notin Checked PROVE FALSE
    BY <2>3
  <2>4. CASE Load(e) \/ Begin(e) \/ ToProvisioning(e) \/ UnexpectedState(e) \/ ClaimIp(e)
             \/ Prepare(e) \/ StageFails(e) \/ CreateLxc(e) \/ CreateTimesOut(e)
             \/ PersistVmid(e) \/ StartLxc(e)
    <3>1. run'[e].pc \in {"loaded", "begin", "network", "cleanup", "prepare", "create",
                          "err_cleanup", "persist", "start", "health"}
      <4>1. CASE Load(e) \/ Begin(e) \/ ToProvisioning(e) \/ UnexpectedState(e)
        BY <1>1, <4>1
        DEF Load, Begin, ToProvisioning, UnexpectedState, Goto, TaskRecords
      <4>2. CASE ClaimIp(e) \/ StageFails(e) \/ CreateTimesOut(e) \/ PersistVmid(e)
                 \/ StartLxc(e)
        BY <1>1, <4>2
        DEF ClaimIp, StageFails, CreateTimesOut, PersistVmid, StartLxc, Goto, TaskRecords
      <4>3. CASE Prepare(e)
        BY <1>1, <4>3 DEF Prepare, TaskRecords
      <4>4. CASE CreateLxc(e)
        BY <1>1, <4>4 DEF CreateLxc, TaskRecords
      <4> QED
        BY <2>4, <4>1, <4>2, <4>3, <4>4
    <3> QED
      BY <2>3, <3>1 DEF Checked
  <2>5. CASE AllocateFlatIp(e)
    BY <1>1, <2>3, <2>5 DEF AllocateFlatIp, Goto, TaskRecords, Checked
  <2>6. CASE RoutingWriteFails(e) \/ CleanupChecks(e) \/ CleanupDestroys(e) \/ CleanupSkips(e)
             \/ CleanupTimesOut(e) \/ RecordFailure(e)
    BY <1>1, <2>3, <2>6
    DEF RoutingWriteFails, CleanupChecks, CleanupDestroys, CleanupSkips, CleanupTimesOut,
        RecordFailure, Goto, TaskRecords, NoTask, Checked
  <2> QED
    BY <1>4, <2>1, <2>2, <2>4, <2>5, <2>6 DEF Execute
<1>5. ASSUME NEW d \in Deploys, Trigger(d)
      PROVE  run[e].pc \in Checked
  BY <1>1, <1>5 DEF Trigger, Goto, Checked, TaskRecords
<1>6. CASE Crash
  BY <1>6 DEF Crash, NoTask, Checked
<1> QED
  BY <1>2, <1>3, <1>4, <1>5, <1>6
  DEF Next, vars, Destroy, TeardownChecks, TeardownDestroys, TeardownFails, DestroyWrite,
      DestroyRead, ReconcileCycle, Reconcile

\* No deploy becomes active or is routed without having passed its health
\* check.
THEOREM RoutedWasHealthy == Spec => []HealthGate
<1>1. Init => GateInv
  BY DEF Init, GateInv, HealthGate, Checked, NoTask, NoRow
<1>2. Typed /\ GateInv /\ [Next]_vars => GateInv'
  <2> SUFFICES ASSUME Typed, GateInv, [Next]_vars PROVE GateInv'
    OBVIOUS
  <2>1. passed \subseteq passed'
    BY FilesStep
  <2>2. \A d \in Deploys : run'[d].pc \in Checked => d \in passed'
    BY <2>1, CheckedComesFromHealth DEF GateInv
  <2>3. \A d \in Deploys : row'[d].status = "active" => d \in passed'
    BY <2>1, ActiveComesFromPromotion DEF GateInv, HealthGate, Checked
  <2>4. \A d \in conf' : d \in conf \/ (d \in Deploys /\ run[d].pc = "route")
    BY FilesStep
  <2>5. prod' = 0 \/ prod' = prod \/ (prod' \in Deploys /\ run[prod'].pc = "prod_write")
    BY FilesStep
  <2>6. conf' \subseteq passed'
    BY <2>1, <2>4 DEF GateInv, HealthGate, Checked
  <2>7. prod' # 0 => prod' \in passed'
    BY <2>1, <2>5 DEF GateInv, HealthGate, Checked
  <2> QED
    BY <2>2, <2>3, <2>6, <2>7 DEF GateInv, HealthGate
<1>3. GateInv => HealthGate
  BY DEF GateInv
<1> QED
  BY TypedAlways, <1>1, <1>2, <1>3, PTL DEF Spec

-----------------------------------------------------------------------------
(* The routes. *)

Routing == {"route", "prod", "prod_write"}
Routed  == {"none", "prod", "prod_write"}

\* What keeps it: the executor is past its last write of the status.
ReleaseAt(d) ==
  /\ run[d].pc \in Routing => row[d].status \in Released
  /\ d \in conf \/ d = prod => run[d].pc \in Routed /\ row[d].status \in Released

ReleaseInv == \A d \in Deploys : ReleaseAt(d)

\* Once it is routed, no step takes a deploy out of the released statuses.
LEMMA ReleasedStays ==
  ASSUME Typed, [Next]_vars, NEW e \in Deploys,
         row[e].status \in Released, run[e].pc \in Routing \cup Routed
  PROVE  row'[e].status \in Released
<1> DEFINE Goal == row'[e].status \in Released
<1>1. row \in [Deploys -> RowRecords]
  BY DEF Typed, TypeOK, RowRecords
<1>q. "queued" \notin Released /\ NoRow \notin Released
      /\ Released \cap in_progress_states = {}
  BY DEF Released, NoRow, in_progress_states
<1>2. ASSUME UNCHANGED row PROVE Goal
  BY <1>2
<1>3. ASSUME NEW r \in [Deploys -> RowRecords], r[e].status \in Released
      PROVE  PromoteNext(r)[e].status \in Released
  BY <1>3, <1>q, PromoteNextKeeps
<1>4. ASSUME NEW d \in Deploys, Trigger(d) PROVE Goal
  <2> DEFINE x == [row EXCEPT ![d].status = "queued"]
  <2>1. row[d].status = NoRow /\ row' = PromoteNext(x)
    BY <1>4 DEF Trigger
  <2>2. d # e
    BY <1>q, <2>1
  <2>3. x \in [Deploys -> RowRecords] /\ x[e].status \in Released
    BY <1>1, <2>2 DEF RowRecords, DEPLOY_STATES
  <2> HIDE DEF x
  <2> QED
    BY <1>3, <2>1, <2>3
<1>5. ASSUME NEW d \in Deploys, ToProvisioning(d) \/ SetHealthy(d) PROVE Goal
  <2>1. d # e
    BY <1>5 DEF ToProvisioning, SetHealthy, At, Routing, Routed
  <2> QED
    BY <1>1, <1>5, <2>1 DEF ToProvisioning, SetHealthy, RowRecords
<1>6. ASSUME NEW d \in Deploys, ClaimIp(d) \/ PersistVmid(d) PROVE Goal
  BY <1>1, <1>6 DEF ClaimIp, PersistVmid, RowRecords
<1>7. ASSUME NEW d \in Deploys, SetActive(d) PROVE Goal
  <2>1. PICK newer \in BOOLEAN :
          /\ ActiveRows(d, newer) \in [Deploys -> RowRecords]
          /\ row' = PromoteNext(ActiveRows(d, newer))
    BY <1>7, SetActiveWrites
  <2>2. d # e
    BY <1>7 DEF SetActive, At, Routing, Routed
  <2>3. ActiveRows(d, newer)[e].status \in Released
    BY <1>1, <2>2 DEF ActiveRows, RowRecords, Released
  <2> QED
    BY <1>3, <2>1, <2>3
<1>8. ASSUME NEW d \in Deploys, RecordFailure(d) PROVE Goal
  <2> DEFINE x == [row EXCEPT ![d].ip = 0, ![d].vmid = 0]
             y == [x EXCEPT ![d].status = "failed"]
  <2>1. row' = x \/ row' = PromoteNext(y)
    BY <1>8 DEF RecordFailure
  <2>2. d # e
    BY <1>8 DEF RecordFailure, At, Routing, Routed
  <2>3. x[e] = row[e] /\ x \in [Deploys -> RowRecords]
    BY <1>1, <2>2 DEF RowRecords
  <2> HIDE DEF x
  <2>4. y[e] = row[e] /\ y \in [Deploys -> RowRecords]
    BY <2>2, <2>3 DEF RowRecords, DEPLOY_STATES
  <2> HIDE DEF y
  <2> QED
    BY <1>3, <2>1, <2>3, <2>4
<1>9. ASSUME NEW c \in 0..MaxDeploys, ReconcileCycle(c) PROVE Goal
  BY <1>1, <1>q, <1>9 DEF ReconcileCycle, Reconcile
<1>10. ASSUME DestroyWrite PROVE Goal
  BY <1>1, <1>10 DEF DestroyWrite, RowRecords, Released
<1>11. ASSUME NEW d \in Deploys, Execute(d) PROVE Goal
  <2> HIDE DEF Goal
  <2> QED
    BY <1>2, <1>5, <1>6, <1>7, <1>8, <1>11
    DEF Execute, Load, Begin, UnexpectedState, AllocateFlatIp, Prepare, StageFails,
        CreateLxc, CreateTimesOut, StartLxc, HealthPasses, RegisterDeployRouting,
        RoutingWriteFails, RaceGuard, RegisterProductionRouting, CleanupChecks,
        CleanupDestroys, CleanupSkips, CleanupTimesOut
<1> HIDE DEF Goal
<1>12. Goal
  BY <1>2, <1>4, <1>9, <1>10, <1>11
  DEF Next, vars, Destroy, TeardownChecks, TeardownDestroys, TeardownFails, DestroyRead, Crash
<1> QED
  BY <1>12 DEF Goal

\* The way of an executor through its routing: it comes there by its promotion,
\* and once routed goes on or ends.
LEMMA RoutingMoves ==
  ASSUME Typed, [Next]_vars, NEW e \in Deploys
  PROVE  /\ run'[e].pc \in Routing => run[e].pc \in Routing \/ SetActive(e)
         /\ run[e].pc \in Routed /\ row[e].status # NoRow => run'[e].pc \in Routed
<1> DEFINE Goal == /\ run'[e].pc \in Routing => run[e].pc \in Routing \/ SetActive(e)
                   /\ run[e].pc \in Routed /\ row[e].status # NoRow => run'[e].pc \in Routed
<1>1. run \in [Deploys -> TaskRecords]
  BY DEF Typed, TypeOK, TaskRecords
<1>2. ASSUME run'[e] = run[e] PROVE Goal
  BY <1>2 DEF Routing, Routed
<1>3. ASSUME NEW d \in Deploys, Execute(d), d # e PROVE run'[e] = run[e]
  BY <1>1, <1>3
  DEF Execute, Goto, Load, Begin, ToProvisioning, UnexpectedState, AllocateFlatIp, ClaimIp,
      Prepare, StageFails, CreateLxc, CreateTimesOut, PersistVmid, StartLxc, HealthPasses,
      SetHealthy, SetActive, RegisterDeployRouting, RoutingWriteFails, RaceGuard,
      RegisterProductionRouting, CleanupChecks, CleanupDestroys, CleanupSkips,
      CleanupTimesOut, RecordFailure
<1>4. ASSUME run[e].pc \notin Routed, run'[e].pc \notin Routing PROVE Goal
  BY <1>4
<1>5. ASSUME Load(e) \/ Begin(e) \/ ToProvisioning(e) \/ UnexpectedState(e) \/ ClaimIp(e)
             \/ AllocateFlatIp(e)
      PROVE  Goal
  <2>1. run[e].pc \notin Routed
    BY <1>5 DEF Load, Begin, ToProvisioning, UnexpectedState, ClaimIp, AllocateFlatIp, At, Routed
  <2>2. run'[e].pc \in {"loaded", "begin", "network", "cleanup", "prepare", "claim"}
    <3>1. CASE AllocateFlatIp(e)
      BY <1>1, <3>1 DEF AllocateFlatIp, Goto, TaskRecords
    <3>2. CASE ~AllocateFlatIp(e)
      BY <1>1, <1>5, <3>2
      DEF Load, Begin, ToProvisioning, UnexpectedState, ClaimIp, Goto, TaskRecords
    <3> QED
      BY <3>1, <3>2
  <2> HIDE DEF Goal
  <2>3. run'[e].pc \notin Routing
    BY <2>2 DEF Routing
  <2> QED
    BY <1>4, <2>1, <2>3
<1>6. ASSUME Prepare(e) \/ StageFails(e) \/ CreateLxc(e) \/ CreateTimesOut(e) \/ PersistVmid(e)
             \/ StartLxc(e)
      PROVE  Goal
  <2>1. run[e].pc \notin Routed
    BY <1>6 DEF Prepare, StageFails, CreateLxc, CreateTimesOut, PersistVmid, StartLxc, At, Routed
  <2>2. run'[e].pc \in {"cleanup", "create", "err_cleanup", "persist", "start", "health"}
    <3>1. CASE Prepare(e)
      BY <1>1, <3>1 DEF Prepare, TaskRecords
    <3>2. CASE CreateLxc(e)
      BY <1>1, <3>2 DEF CreateLxc, TaskRecords
    <3>3. CASE StageFails(e) \/ CreateTimesOut(e) \/ PersistVmid(e) \/ StartLxc(e)
      BY <1>1, <3>3 DEF StageFails, CreateTimesOut, PersistVmid, StartLxc, Goto, TaskRecords
    <3> QED
      BY <1>6, <3>1, <3>2, <3>3
  <2> HIDE DEF Goal
  <2>3. run'[e].pc \notin Routing
    BY <2>2 DEF Routing
  <2> QED
    BY <1>4, <2>1, <2>3
<1>7. ASSUME HealthPasses(e) \/ SetHealthy(e) PROVE Goal
  BY <1>1, <1>7 DEF HealthPasses, SetHealthy, At, Goto, TaskRecords, Routing, Routed
<1>8. ASSUME SetActive(e) PROVE Goal
  BY <1>8 DEF SetActive, At, Routed
<1>9. ASSUME RegisterDeployRouting(e) \/ RoutingWriteFails(e) PROVE Goal
  BY <1>9 DEF RegisterDeployRouting, RoutingWriteFails, At, Routing, Routed
<1>10. ASSUME RaceGuard(e) \/ RegisterProductionRouting(e) PROVE Goal
  BY <1>1, <1>10
  DEF RaceGuard, RegisterProductionRouting, At, Goto, NoTask, TaskRecords, Routing, Routed
<1>11. ASSUME CleanupChecks(e) \/ CleanupDestroys(e) \/ CleanupSkips(e) \/ CleanupTimesOut(e)
              \/ RecordFailure(e)
       PROVE  Goal
  <2>1. run[e].pc \notin Routed
    BY <1>11
    DEF CleanupChecks, CleanupDestroys, CleanupSkips, CleanupTimesOut, RecordFailure, At, Routed
  <2>2. run'[e].pc \in {"destroy", "err_destroy", "record", "none"}
    BY <1>1, <1>11
    DEF CleanupChecks, CleanupDestroys, CleanupSkips, CleanupTimesOut, RecordFailure, Goto,
        NoTask, TaskRecords
  <2> HIDE DEF Goal
  <2>3. run'[e].pc \notin Routing
    BY <2>2 DEF Routing
  <2> QED
    BY <1>4, <2>1, <2>3
<1>12. ASSUME NEW d \in Deploys, Trigger(d) PROVE Goal
  <2>1. CASE d = e
    BY <1>1, <1>12, <2>1 DEF Trigger, Goto, TaskRecords, Routing
  <2>2. CASE d # e
    BY <1>1, <1>2, <1>12, <2>2 DEF Trigger, Goto
  <2> QED
    BY <2>1, <2>2
<1>13. ASSUME Crash PROVE Goal
  BY <1>13 DEF Crash, NoTask, Routing, Routed
<1> HIDE DEF Goal
<1>14. ASSUME Execute(e) PROVE Goal
  BY <1>5, <1>6, <1>7, <1>8, <1>9, <1>10, <1>11, <1>14 DEF Execute
<1>15. Goal
  BY <1>2, <1>3, <1>12, <1>13, <1>14
  DEF Next, vars, Destroy, TeardownChecks, TeardownDestroys, TeardownFails, DestroyWrite,
      DestroyRead, ReconcileCycle, Reconcile
<1> QED
  BY <1>15 DEF Goal

\* The promotion releases its deploy, as the active one or as superseded.
LEMMA PromotionReleases ==
  ASSUME Typed, NEW d \in Deploys, SetActive(d)
  PROVE  row'[d].status \in Released
<1>1. row \in [Deploys -> RowRecords]
  BY DEF Typed, TypeOK, RowRecords
<1>2. PICK newer \in BOOLEAN :
        /\ ActiveRows(d, newer) \in [Deploys -> RowRecords]
        /\ row' = PromoteNext(ActiveRows(d, newer))
  BY SetActiveWrites
<1>3. ActiveRows(d, newer)[d].status \in {"active", "superseded"}
  BY <1>1 DEF ActiveRows, RowRecords
<1> QED
  BY <1>2, <1>3, PromoteNextKeeps DEF Released

\* Every step keeps the routes to released deploys.
LEMMA ReleaseStep == Typed /\ ReleaseInv /\ [Next]_vars => ReleaseInv'
<1> SUFFICES ASSUME Typed, ReleaseInv, [Next]_vars, NEW e \in Deploys
             PROVE  ReleaseAt(e)'
  BY DEF ReleaseInv
<1>0. ReleaseAt(e) /\ NoRow \notin Released
  BY DEF ReleaseInv, Released, NoRow
<1>1. run'[e].pc \in Routing => row'[e].status \in Released
  BY <1>0, RoutingMoves, ReleasedStays, PromotionReleases DEF ReleaseAt
<1>2. CASE e \in conf \/ e = prod
  <2>1. run[e].pc \in Routed /\ row[e].status \in Released
    BY <1>0, <1>2 DEF ReleaseAt
  <2>2. run'[e].pc \in Routed /\ row'[e].status \in Released
    BY <1>0, <2>1, RoutingMoves, ReleasedStays
  <2> QED
    BY <1>1, <2>2 DEF ReleaseAt
<1>3. CASE e \notin conf /\ e # prod /\ (e \in conf' \/ e = prod')
  <2>1. RegisterDeployRouting(e) \/ RegisterProductionRouting(e)
    <3>1. e # 0
      BY DEF Deploys
    <3> QED
      BY <1>3, <3>1, FilesStep
  <2>2. run[e].pc \in Routing
    BY <2>1 DEF RegisterDeployRouting, RegisterProductionRouting, At, Routing
  <2>3. run'[e].pc \in Routed
    BY <2>1 DEF RegisterDeployRouting, RegisterProductionRouting, Goto, NoTask, Routed,
                Typed, TypeOK
  <2>4. row'[e].status \in Released
    BY <1>0, <2>2, ReleasedStays DEF ReleaseAt
  <2> QED
    BY <1>1, <2>3, <2>4 DEF ReleaseAt
<1>4. CASE e \notin conf' /\ e # prod'
  BY <1>1, <1>4 DEF ReleaseAt
<1> QED
  BY <1>2, <1>3, <1>4

\* Whatever fails, whoever deletes and whenever the process restarts, Nginx
\* never leads to a deploy that has not been promoted or has failed.
THEOREM RoutesAreReleased == Spec => []RoutedIsReleased
<1>1. Init => ReleaseInv
  <2>1. \A d \in Deploys : d # 0
    BY DEF Deploys
  <2> QED
    BY <2>1 DEF Init, ReleaseInv, ReleaseAt, Routing, NoTask
<1>2. Typed /\ ReleaseInv => RoutedIsReleased
  <2>1. Typed => conf \subseteq Deploys /\ prod \in Deploys \cup {0}
    BY DEF Typed, TypeOK
  <2> QED
    BY <2>1 DEF ReleaseInv, ReleaseAt, RoutedIsReleased
<1> QED
  BY <1>1, <1>2, ReleaseStep, TypedAlways, PTL DEF Spec

-----------------------------------------------------------------------------
(* The containers. *)

VmidsKept == \A e \in Deploys : row'[e].vmid = row[e].vmid
\* No container is new; some may have been started, stopped or destroyed.
NoNewCt == \A v \in Vmids : ct'[v] # NoCt => ct[v] # NoCt /\ ct'[v].owner = ct[v].owner

\* The transitions of a deploy leave the VMIDs alone.
LEMMA TransitionsKeepVmids ==
  ASSUME Typed,
         \/ \E d \in Deploys : \/ Trigger(d) \/ ToProvisioning(d) \/ ClaimIp(d)
                               \/ SetHealthy(d) \/ SetActive(d)
         \/ DestroyWrite
  PROVE  VmidsKept
<1>1. row \in [Deploys -> RowRecords]
  BY DEF Typed, TypeOK, RowRecords
<1>2. ASSUME NEW d \in Deploys, Trigger(d) PROVE VmidsKept
  <2> DEFINE r == [row EXCEPT ![d].status = "queued"]
  <2>1. r \in [Deploys -> RowRecords] /\ \A e \in Deploys : r[e].vmid = row[e].vmid
    BY <1>1 DEF RowRecords, DEPLOY_STATES
  <2>2. row' = PromoteNext(r)
    BY <1>2 DEF Trigger
  <2> HIDE DEF r
  <2> QED
    BY <2>1, <2>2, PromoteNextKeeps DEF VmidsKept
<1>3. ASSUME NEW d \in Deploys, ToProvisioning(d) \/ ClaimIp(d) \/ SetHealthy(d)
      PROVE  VmidsKept
  BY <1>1, <1>3 DEF ToProvisioning, ClaimIp, SetHealthy, VmidsKept, RowRecords
<1>4. ASSUME NEW d \in Deploys, SetActive(d) PROVE VmidsKept
  <2>1. PICK newer \in BOOLEAN :
          /\ ActiveRows(d, newer) \in [Deploys -> RowRecords]
          /\ row' = PromoteNext(ActiveRows(d, newer))
    BY <1>4, SetActiveWrites
  <2>2. \A e \in Deploys : ActiveRows(d, newer)[e].vmid = row[e].vmid
    BY <1>1 DEF ActiveRows, RowRecords
  <2> QED
    BY <2>1, <2>2, PromoteNextKeeps DEF VmidsKept
<1>5. ASSUME DestroyWrite PROVE VmidsKept
  BY <1>1, <1>5 DEF DestroyWrite, VmidsKept, RowRecords
<1> QED
  BY <1>2, <1>3, <1>4, <1>5

\* What an executor knows stays true while others work, even when the
\* reconciler clears its row.
LEMMA KnowsWhileOthersWork ==
  ASSUME NEW e \in Deploys, TaskKnows(e), run'[e] = run[e], lost \subseteq lost',
         row'[e].vmid = row[e].vmid \/ (row'[e].vmid = 0 /\ e \in lost'),
         \A v \in Vmids : ct'[v].owner = e => ct[v].owner = e
  PROVE  TaskKnows(e)'
BY DEF TaskKnows

\* A container keeps its explanation when what names it still does, or its
\* deploy is recorded as disturbed.
LEMMA OrphansKeepCause ==
  ASSUME Typed, OrphanInv, NoNewCt, lost \subseteq lost',
         \A e \in Deploys, v \in Vmids :
           (run[e].created = TRUE /\ run[e].vmid = v) \/ row[e].vmid = v
           => \/ run'[e].created = TRUE /\ run'[e].vmid = v
              \/ row'[e].vmid = v
              \/ e \in lost'
  PROVE  OrphanHasCause'
<1> SUFFICES ASSUME NEW v \in Vmids, ct'[v] # NoCt
             PROVE  \/ Holds(ct[v].owner, v)'
                    \/ row'[ct'[v].owner].vmid = v
                    \/ ct'[v].owner \in lost'
  BY DEF OrphanHasCause
<1> DEFINE o == ct[v].owner
<1>1. ct[v] # NoCt /\ ct'[v].owner = o
  BY DEF NoNewCt
<1>2. o \in Deploys
  BY <1>1 DEF OrphanInv, OwnersKnown, Typed, TypeOK
<1>3. \/ run[o].created = TRUE /\ run[o].vmid = v
      \/ row[o].vmid = v
      \/ o \in lost
  BY <1>1 DEF OrphanInv, OrphanHasCause, Holds
<1> HIDE DEF o
<1>4. \/ run'[o].created = TRUE /\ run'[o].vmid = v
      \/ row'[o].vmid = v
      \/ o \in lost'
  BY <1>2, <1>3
<1> QED
  BY <1>1, <1>4 DEF Holds

\* The owners stay known when no container is new.
LEMMA OwnersStayKnown ==
  ASSUME Typed, OrphanInv, NoNewCt
  PROVE  OwnersKnown'
BY DEF NoNewCt, OrphanInv, OwnersKnown, NoCt

\* A step of an executor that neither creates nor records a container: the
\* stage it reaches promises no more than the one it leaves.
LEMMA ExecutorMoves ==
  ASSUME Typed, OrphanInv, NEW d \in Deploys, VmidsKept, NoNewCt, UNCHANGED lost,
         \A e \in Deploys \ {d} : run'[e] = run[e],
         run'[d].created = run[d].created, run'[d].vmid = run[d].vmid,
         run[d].pc # "none", run'[d].pc \notin {"persist", "record"},
         run'[d].pc \in Early => run[d].pc \in Early,
         run'[d].pc \in Saved => run[d].pc \in Saved
  PROVE  OrphanInv'
<1>1. OrphanHasCause'
  <2>1. \A e \in Deploys : run'[e].created = run[e].created /\ run'[e].vmid = run[e].vmid
    OBVIOUS
  <2> QED
    BY <2>1, OrphansKeepCause DEF VmidsKept
<1>2. OwnersKnown'
  BY OwnersStayKnown
<1>3. \A v \in Vmids, e \in Deploys : ct'[v].owner = e => ct[v].owner = e
  <2>1. \A e \in Deploys : e # 0
    BY DEF Deploys
  <2> QED
    BY <2>1 DEF NoNewCt, NoCt
<1>4. ASSUME NEW e \in Deploys, e # d PROVE TaskKnows(e)'
  BY <1>3, <1>4, KnowsWhileOthersWork DEF OrphanInv, VmidsKept
<1>5. TaskKnows(d)'
  BY DEF TaskKnows, OrphanInv, VmidsKept
<1> QED
  BY <1>1, <1>2, <1>4, <1>5 DEF OrphanInv

\* An executor that ends leaves its container to its row, or to the record of
\* faults.
LEMMA ExecutorEnds ==
  ASSUME Typed, OrphanInv, NEW d \in Deploys, UNCHANGED <<row, ct>>,
         run' = [run EXCEPT ![d] = NoTask],
         lost' = lost \cup {d} \/ (lost' = lost /\ run[d].pc \in Saved)
  PROVE  OrphanInv'
<1>1. run \in [Deploys -> TaskRecords]
  BY DEF Typed, TypeOK, TaskRecords
<1>2. run'[d] = NoTask /\ \A e \in Deploys \ {d} : run'[e] = run[e]
  BY <1>1
<1>3. NoNewCt
  BY DEF NoNewCt
<1>4. OrphanHasCause'
  <2>1. run[d].pc \in Saved => row[d].vmid = run[d].vmid \/ d \in lost
    BY DEF OrphanInv, TaskKnows
  <2> QED
    BY <1>2, <1>3, <2>1, OrphansKeepCause
<1>5. OwnersKnown'
  BY <1>3, OwnersStayKnown
<1>6. ASSUME NEW e \in Deploys, e # d PROVE TaskKnows(e)'
  BY <1>2, <1>6, KnowsWhileOthersWork DEF OrphanInv
<1>7. TaskKnows(d)'
  BY <1>2 DEF TaskKnows, NoTask, Early, Saved, Checked
<1> QED
  BY <1>4, <1>5, <1>6, <1>7 DEF OrphanInv

\* The stages that only move on: no step of theirs touches a container's
\* existence, or what the executor and the row say of it.
LEMMA MovesKeepOrphanInv ==
  ASSUME Typed, OrphanInv, NEW d \in Deploys,
         \/ Load(d) \/ Begin(d) \/ ToProvisioning(d) \/ UnexpectedState(d)
         \/ AllocateFlatIp(d) \/ ClaimIp(d) \/ StageFails(d) \/ StartLxc(d)
         \/ HealthPasses(d) \/ SetHealthy(d) \/ SetActive(d) \/ RoutingWriteFails(d)
         \/ CleanupChecks(d)
  PROVE  OrphanInv'
<1>1. run \in [Deploys -> TaskRecords] /\ ct \in [Vmids -> CtRecords]
  BY DEF Typed, TypeOK, TaskRecords, CtRecords
<1>2. VmidsKept
  BY TransitionsKeepVmids
  DEF VmidsKept, Load, Begin, UnexpectedState, AllocateFlatIp, StageFails, StartLxc,
      HealthPasses, RoutingWriteFails, CleanupChecks
<1>3. UNCHANGED lost
  BY DEF Load, Begin, ToProvisioning, UnexpectedState, AllocateFlatIp, ClaimIp, StageFails,
         StartLxc, HealthPasses, SetHealthy, SetActive, RoutingWriteFails, CleanupChecks
<1>4. NoNewCt
  <2>1. CASE StartLxc(d)
    BY <1>1, <2>1 DEF StartLxc, NoNewCt, CtRecords
  <2>2. CASE CleanupChecks(d)
    <3> DEFINE w == run[d].vmid
    <3>1. d # 0 /\ NoCt.owner = 0
      BY DEF Deploys, NoCt
    <3>2. ct' = [ct EXCEPT ![w].up = FALSE] /\ ct[w].owner = d
      BY <2>2 DEF CleanupChecks
    <3> HIDE DEF w
    <3>3. \A v \in Vmids : ct'[v].owner = ct[v].owner /\ (v # w => ct'[v] = ct[v])
      BY <1>1, <3>2 DEF CtRecords
    <3>4. ct[w] # NoCt
      BY <3>1, <3>2
    <3> QED
      BY <3>3, <3>4 DEF NoNewCt
  <2> QED
    BY <2>1, <2>2
    DEF NoNewCt, Load, Begin, ToProvisioning, UnexpectedState, AllocateFlatIp, ClaimIp,
        StageFails, HealthPasses, SetHealthy, SetActive, RoutingWriteFails
<1> DEFINE Moves(l) ==
      /\ \A e \in Deploys \ {d} : run'[e] = run[e]
      /\ run'[d].created = run[d].created /\ run'[d].vmid = run[d].vmid
      /\ run'[d].pc = l
<1>5. ASSUME NEW l, Goto(d, l) PROVE Moves(l)
  BY <1>1, <1>5 DEF Goto, TaskRecords
<1>6. ASSUME NEW l, NEW t, run' = [run EXCEPT ![d].pc = l, ![d].seen = t] PROVE Moves(l)
  BY <1>1, <1>6 DEF TaskRecords
<1>7. ASSUME NEW l, NEW t, run' = [run EXCEPT ![d].pc = l, ![d].ip = t] PROVE Moves(l)
  BY <1>1, <1>7 DEF TaskRecords
<1>8. ASSUME NEW l, Moves(l), run[d].pc # "none", l \notin {"persist", "record"},
             l \in Early => run[d].pc \in Early,
             l \in Saved => run[d].pc \in Saved
      PROVE  OrphanInv'
  BY <1>2, <1>3, <1>4, <1>8, ExecutorMoves
<1> HIDE DEF Moves
<1>9. CASE Load(d) \/ ToProvisioning(d) \/ SetHealthy(d)
  BY <1>6, <1>8, <1>9 DEF Load, ToProvisioning, SetHealthy, At, Early, Saved, Checked
<1>10. CASE SetActive(d)
  <2>1. PICK t : run' = [run EXCEPT ![d].pc = "route", ![d].seen = t]
    BY <1>10, SetActiveWrites
  <2>2. run[d].pc = "promote"
    BY <1>10 DEF SetActive, At
  <2> QED
    BY <1>6, <1>8, <2>1, <2>2 DEF Early, Saved, Checked
<1>11. CASE AllocateFlatIp(d)
  <2>1. run[d].pc = "network"
    BY <1>11 DEF AllocateFlatIp, At
  <2>2. \/ Goto(d, "cleanup")
        \/ \E t : run' = [run EXCEPT ![d].pc = "claim", ![d].ip = t]
    BY <1>11 DEF AllocateFlatIp
  <2> QED
    BY <1>5, <1>7, <1>8, <2>1, <2>2 DEF Early, Saved, Checked
<1>12. CASE Begin(d) \/ UnexpectedState(d) \/ ClaimIp(d)
  BY <1>5, <1>8, <1>12 DEF Begin, UnexpectedState, ClaimIp, At, Early, Saved, Checked
<1>13. CASE StageFails(d) \/ RoutingWriteFails(d) \/ CleanupChecks(d)
  <2>1. run[d].pc # "none"
    BY <1>13 DEF StageFails, RoutingWriteFails, CleanupChecks, At
  <2>2. PICK l \in {"cleanup", "err_cleanup", "destroy", "err_destroy"} : Goto(d, l)
    BY <1>13 DEF StageFails, RoutingWriteFails, CleanupChecks
  <2> QED
    BY <1>5, <1>8, <2>1, <2>2 DEF Early, Saved, Checked
<1>14. CASE StartLxc(d) \/ HealthPasses(d)
  BY <1>5, <1>8, <1>14 DEF StartLxc, HealthPasses, At, Early, Saved, Checked
<1> QED
  BY <1>9, <1>10, <1>11, <1>12, <1>13, <1>14

\* The end of a deploy: routed, left to a newer one, or given up.
LEMMA EndsKeepOrphanInv ==
  ASSUME Typed, OrphanInv, NEW d \in Deploys,
         \/ RegisterDeployRouting(d) \/ RaceGuard(d) \/ RegisterProductionRouting(d)
         \/ CleanupTimesOut(d)
  PROVE  OrphanInv'
<1>1. run \in [Deploys -> TaskRecords]
  BY DEF Typed, TypeOK, TaskRecords
<1>2. UNCHANGED <<row, ct>>
  BY DEF RegisterDeployRouting, RaceGuard, RegisterProductionRouting, CleanupTimesOut
<1>3. CASE run' = [run EXCEPT ![d] = NoTask]
  <2>1. lost' = lost \cup {d} \/ (lost' = lost /\ run[d].pc \in Saved)
    BY DEF RegisterDeployRouting, RaceGuard, RegisterProductionRouting, CleanupTimesOut,
           At, Saved, Checked
  <2> QED
    BY <1>2, <1>3, <2>1, ExecutorEnds
<1>4. ASSUME NEW l \in {"prod", "prod_write"}, Goto(d, l), run[d].pc \in {"route", "prod"},
             UNCHANGED lost
      PROVE  OrphanInv'
  <2>1. /\ \A e \in Deploys \ {d} : run'[e] = run[e]
        /\ run'[d].created = run[d].created /\ run'[d].vmid = run[d].vmid /\ run'[d].pc = l
    BY <1>1, <1>4 DEF Goto, TaskRecords
  <2>2. VmidsKept /\ NoNewCt
    BY <1>2 DEF VmidsKept, NoNewCt
  <2>3. run[d].pc # "none" /\ run[d].pc \in Saved /\ l \notin Early \cup {"persist", "record"}
    BY <1>4 DEF Early, Saved, Checked
  <2> QED
    BY <1>4, <2>1, <2>2, <2>3, ExecutorMoves
<1> QED
  BY <1>3, <1>4 DEF RegisterDeployRouting, RaceGuard, RegisterProductionRouting,
     CleanupTimesOut, At

\* The rest of the system: containers only disappear, and a row that forgets
\* its container is recorded.
LEMMA OthersKeepOrphanInv ==
  ASSUME Typed, OrphanInv, UNCHANGED run, NoNewCt, lost \subseteq lost',
         \A e \in Deploys : \/ row'[e].vmid = row[e].vmid
                            \/ row'[e].vmid = 0 /\ e \in lost'
  PROVE  OrphanInv'
<1>1. OrphanHasCause' /\ OwnersKnown'
  BY OrphansKeepCause, OwnersStayKnown
<1>2. \A v \in Vmids, e \in Deploys : ct'[v].owner = e => ct[v].owner = e
  <2>1. \A e \in Deploys : e # 0
    BY DEF Deploys
  <2> QED
    BY <2>1 DEF NoNewCt, NoCt
<1>3. ASSUME NEW e \in Deploys PROVE TaskKnows(e)'
  BY <1>2, KnowsWhileOthersWork DEF OrphanInv
<1> QED
  BY <1>1, <1>3 DEF OrphanInv

\* A deploy is triggered: its executor knows of no container, and none is its.
LEMMA TriggerKeepsOrphanInv ==
  ASSUME Typed, OrphanInv, NEW d \in Deploys, Trigger(d)
  PROVE  OrphanInv'
<1>1. run \in [Deploys -> TaskRecords]
  BY DEF Typed, TypeOK, TaskRecords
<1>2. VmidsKept /\ NoNewCt /\ lost' = lost
  BY TransitionsKeepVmids DEF Trigger, NoNewCt
<1>3. run[d] = NoTask /\ row[d].vmid = 0
  BY DEF Typed, TaskHasRow, Trigger
<1>4. /\ \A e \in Deploys \ {d} : run'[e] = run[e]
      /\ run'[d].created = run[d].created /\ run'[d].vmid = run[d].vmid
      /\ run'[d].pc = "scheduled"
  BY <1>1 DEF Trigger, Goto, TaskRecords
<1>5. OrphanHasCause'
  BY <1>2, <1>4, OrphansKeepCause DEF VmidsKept
<1>6. OwnersKnown'
  BY <1>2, OwnersStayKnown
<1>7. ASSUME NEW e \in Deploys, e # d PROVE TaskKnows(e)'
  <2>1. UNCHANGED ct
    BY DEF Trigger
  <2> QED
    BY <1>2, <1>4, <1>7, <2>1, KnowsWhileOthersWork DEF OrphanInv, VmidsKept
<1>8. TaskKnows(d)'
  BY <1>2, <1>3, <1>4 DEF TaskKnows, VmidsKept, NoTask, Early, Saved, Checked
<1> QED
  BY <1>5, <1>6, <1>7, <1>8 DEF OrphanInv

\* A VMID is chosen before anything is created.
LEMMA PrepareKeepsOrphanInv ==
  ASSUME Typed, OrphanInv, NEW d \in Deploys, Prepare(d)
  PROVE  OrphanInv'
<1>1. run \in [Deploys -> TaskRecords]
  BY DEF Typed, TypeOK, TaskRecords
<1>2. UNCHANGED <<row, ct, lost>> /\ run[d].pc = "prepare"
  BY DEF Prepare, At
<1>3. PICK w : run' = [run EXCEPT ![d].pc = "create", ![d].vmid = w]
  BY DEF Prepare
<1>4. /\ \A e \in Deploys \ {d} : run'[e] = run[e]
      /\ run'[d].created = run[d].created /\ run'[d].pc = "create"
  BY <1>1, <1>3 DEF TaskRecords
<1>5. run[d].created = FALSE /\ row[d].vmid = 0
  BY <1>2 DEF OrphanInv, TaskKnows, Early
<1>6. OrphanHasCause' /\ OwnersKnown'
  BY <1>2, <1>4, <1>5, OrphansKeepCause, OwnersStayKnown DEF NoNewCt
<1>7. ASSUME NEW e \in Deploys, e # d PROVE TaskKnows(e)'
  BY <1>2, <1>4, <1>7, KnowsWhileOthersWork DEF OrphanInv
<1>8. TaskKnows(d)'
  BY <1>2, <1>4, <1>5 DEF TaskKnows, Early, Saved, Checked
<1> QED
  BY <1>6, <1>7, <1>8 DEF OrphanInv

\* A container is created: its executor knows of it, or the timeout that hid
\* it is recorded.
LEMMA CreateKeepsOrphanInv ==
  ASSUME Typed, OrphanInv, NEW d \in Deploys, CreateLxc(d) \/ CreateTimesOut(d)
  PROVE  OrphanInv'
<1> DEFINE w == run[d].vmid
           c == [owner |-> d, ip |-> run[d].ip, up |-> FALSE]
<1>1. run \in [Deploys -> TaskRecords] /\ ct \in [Vmids -> CtRecords]
  BY DEF Typed, TypeOK, TaskRecords, CtRecords
<1>2. UNCHANGED row /\ run[d].pc = "create" /\ ct' = [ct EXCEPT ![w] = c]
  BY DEF CreateLxc, CreateTimesOut, At
<1>3. c.owner = d /\ d # 0 /\ NoCt.owner = 0
  BY DEF Deploys, NoCt
<1> HIDE DEF c, w
<1>4. \A v \in Vmids : ct'[v] = IF v = w THEN c ELSE ct[v]
  BY <1>1, <1>2
<1>5. /\ \A e \in Deploys \ {d} : run'[e] = run[e]
      /\ run'[d].vmid = w /\ run'[d].pc \in {"persist", "cleanup", "err_cleanup"}
      /\ run'[d].pc = "persist" => run'[d].created = TRUE
      /\ run'[d].created = TRUE \/ (d \in lost' /\ run'[d].created = run[d].created)
      /\ lost \subseteq lost'
  <2>1. CASE CreateLxc(d)
    <3>1. PICK l \in {"persist", "cleanup"} :
            run' = [run EXCEPT ![d].pc = l, ![d].created = TRUE] /\ lost' = lost
      BY <2>1 DEF CreateLxc
    <3> QED
      BY <1>1, <3>1 DEF TaskRecords, w
  <2>2. CASE CreateTimesOut(d)
    <3>1. run' = [run EXCEPT ![d].pc = "err_cleanup"] /\ lost' = lost \cup {d}
      BY <2>2 DEF CreateTimesOut, Goto
    <3> QED
      BY <1>1, <3>1 DEF TaskRecords, w
  <2> QED
    BY <2>1, <2>2
<1>6. run[d].created = FALSE /\ row[d].vmid = 0
  BY <1>2 DEF OrphanInv, TaskKnows, Early
<1>7. OrphanHasCause'
  <2> SUFFICES ASSUME NEW v \in Vmids, ct'[v] # NoCt
               PROVE  \/ Holds(ct[v].owner, v)'
                      \/ row'[ct'[v].owner].vmid = v
                      \/ ct'[v].owner \in lost'
    BY DEF OrphanHasCause
  <2>1. CASE v = w
    BY <1>3, <1>4, <1>5, <2>1 DEF Holds
  <2>2. CASE v # w
    <3>1. ct'[v] = ct[v] /\ ct[v].owner \in Deploys
      BY <1>1, <1>4, <2>2 DEF CtRecords, OrphanInv, OwnersKnown
    <3>2. \/ run[ct[v].owner].created /\ run[ct[v].owner].vmid = v
          \/ row[ct[v].owner].vmid = v
          \/ ct[v].owner \in lost
      BY <3>1 DEF OrphanInv, OrphanHasCause, Holds
    <3>3. CASE ct[v].owner = d
      BY <1>2, <1>5, <1>6, <3>1, <3>2, <3>3
    <3>4. CASE ct[v].owner # d
      BY <1>2, <1>5, <3>1, <3>2, <3>4 DEF Holds
    <3> QED
      BY <3>3, <3>4
  <2> QED
    BY <2>1, <2>2
<1>8. OwnersKnown'
  BY <1>3, <1>4 DEF OrphanInv, OwnersKnown
<1>9. ASSUME NEW e \in Deploys, e # d PROVE TaskKnows(e)'
  BY <1>2, <1>3, <1>4, <1>5, <1>9, KnowsWhileOthersWork DEF OrphanInv
<1>10. TaskKnows(d)'
  BY <1>2, <1>5, <1>6 DEF TaskKnows, Early, Saved, Checked
<1> QED
  BY <1>7, <1>8, <1>9, <1>10 DEF OrphanInv

\* The row is told of the container.
LEMMA PersistKeepsOrphanInv ==
  ASSUME Typed, OrphanInv, NEW d \in Deploys, PersistVmid(d)
  PROVE  OrphanInv'
<1>1. run \in [Deploys -> TaskRecords] /\ row \in [Deploys -> RowRecords]
  BY DEF Typed, TypeOK, TaskRecords, RowRecords
<1>2. UNCHANGED <<ct, lost>> /\ run[d].pc = "persist"
  BY DEF PersistVmid, At
<1>3. /\ \A e \in Deploys \ {d} : row'[e] = row[e]
      /\ row'[d].vmid = run[d].vmid
  BY <1>1 DEF PersistVmid, RowRecords
<1>4. /\ \A e \in Deploys \ {d} : run'[e] = run[e]
      /\ run'[d].created = run[d].created /\ run'[d].vmid = run[d].vmid
      /\ run'[d].pc = "start"
  BY <1>1 DEF PersistVmid, Goto, TaskRecords
<1>5. run[d].created = TRUE /\ (row[d].vmid # 0 => row[d].vmid = run[d].vmid)
  BY <1>2 DEF OrphanInv, TaskKnows
<1>6. 0 \notin Vmids
  BY DEF Vmids
<1>7. OrphanHasCause' /\ OwnersKnown'
  BY <1>2, <1>3, <1>4, <1>5, <1>6, OrphansKeepCause, OwnersStayKnown DEF NoNewCt
<1>8. ASSUME NEW e \in Deploys, e # d PROVE TaskKnows(e)'
  BY <1>2, <1>3, <1>4, <1>8, KnowsWhileOthersWork DEF OrphanInv
<1>9. TaskKnows(d)'
  BY <1>2, <1>3, <1>4, <1>5 DEF TaskKnows, Early, Saved, Checked
<1> QED
  BY <1>7, <1>8, <1>9 DEF OrphanInv

\* The cleanup of a failed attempt destroys its container, finds none, or is
\* recorded; after it no container of the deploy is left unexplained.
LEMMA CleanupKeepsOrphanInv ==
  ASSUME Typed, OrphanInv, NEW d \in Deploys, CleanupDestroys(d) \/ CleanupSkips(d)
  PROVE  OrphanInv'
<1> DEFINE w == run[d].vmid
<1>1. run \in [Deploys -> TaskRecords] /\ ct \in [Vmids -> CtRecords]
  BY DEF Typed, TypeOK, TaskRecords, CtRecords
<1>2. UNCHANGED row /\ lost \subseteq lost' /\ run[d].pc # "none"
  BY DEF CleanupDestroys, CleanupSkips
<1>3. \A v \in Vmids : ct'[v] = ct[v] \/ (v = w /\ ct'[v] = NoCt)
  BY <1>1 DEF CleanupDestroys, CleanupSkips
<1>4. d # 0 /\ NoCt.owner = 0 /\ 0 \notin Vmids
  BY DEF Deploys, Vmids, NoCt
<1>5. NoNewCt
  BY <1>3 DEF NoNewCt
<1>6. /\ \A e \in Deploys \ {d} : run'[e] = run[e]
      /\ run'[d].created = run[d].created /\ run'[d].vmid = run[d].vmid
      /\ run'[d].pc = "record"
  BY <1>1 DEF CleanupDestroys, CleanupSkips, Goto, TaskRecords
<1>7. OrphanHasCause' /\ OwnersKnown'
  BY <1>2, <1>5, <1>6, OrphansKeepCause, OwnersStayKnown
<1>8. ASSUME NEW e \in Deploys, e # d PROVE TaskKnows(e)'
  BY <1>2, <1>3, <1>4, <1>6, <1>8, KnowsWhileOthersWork DEF OrphanInv, Deploys
<1>9. row[d].vmid # 0 => run[d].created = TRUE /\ row[d].vmid = w
  BY <1>2 DEF OrphanInv, TaskKnows
<1>10. ASSUME NEW v \in Vmids, ct'[v].owner = d PROVE d \in lost'
  <2>1. ct'[v] = ct[v] /\ ct[v] # NoCt
    BY <1>3, <1>4, <1>10
  <2>2. \/ run[d].created = TRUE /\ w = v
        \/ row[d].vmid = v
        \/ d \in lost
    BY <1>10, <2>1 DEF OrphanInv, OrphanHasCause, Holds
  <2>3. \/ run[d].created = TRUE /\ w = v
        \/ d \in lost
    BY <1>4, <1>9, <2>2
  <2>4. CASE CleanupDestroys(d)
    <3>1. w = v => ct'[v] = NoCt
      BY <1>1, <2>4 DEF CleanupDestroys
    <3> QED
      BY <1>2, <2>1, <2>3, <3>1
  <2>5. CASE CleanupSkips(d)
    BY <1>4, <2>3, <2>5 DEF CleanupSkips, HasCreated
  <2> QED
    BY <2>4, <2>5
<1>11. TaskKnows(d)'
  BY <1>2, <1>6, <1>9, <1>10 DEF TaskKnows, Early, Saved, Checked
<1> QED
  BY <1>7, <1>8, <1>11 DEF OrphanInv

\* The failure is recorded: the row forgets a container that the cleanup has
\* dealt with.
LEMMA RecordKeepsOrphanInv ==
  ASSUME Typed, OrphanInv, NEW d \in Deploys, RecordFailure(d)
  PROVE  OrphanInv'
<1>1. run \in [Deploys -> TaskRecords] /\ row \in [Deploys -> RowRecords]
      /\ ct \in [Vmids -> CtRecords]
  BY DEF Typed, TypeOK, TaskRecords, RowRecords, CtRecords
<1>2. UNCHANGED <<ct, lost>> /\ run[d].pc = "record"
  BY DEF RecordFailure, At
<1>3. \A e \in Deploys \ {d} : row'[e].vmid = row[e].vmid
  <2> DEFINE x == [row EXCEPT ![d].ip = 0, ![d].vmid = 0]
             y == [x EXCEPT ![d].status = "failed"]
  <2>1. row' = x \/ row' = PromoteNext(y)
    BY DEF RecordFailure
  <2>2. x \in [Deploys -> RowRecords] /\ \A e \in Deploys \ {d} : x[e] = row[e]
    BY <1>1 DEF RowRecords
  <2> HIDE DEF x
  <2>3. y \in [Deploys -> RowRecords] /\ \A e \in Deploys \ {d} : y[e] = row[e]
    BY <2>2 DEF RowRecords, DEPLOY_STATES
  <2> HIDE DEF y
  <2> QED
    BY <2>1, <2>2, <2>3, PromoteNextKeeps
<1>4. run'[d] = NoTask /\ \A e \in Deploys \ {d} : run'[e] = run[e]
  BY <1>1 DEF RecordFailure
<1>5. \A v \in Vmids : ct[v].owner = d => d \in lost
  BY <1>2 DEF OrphanInv, TaskKnows
<1>6. OrphanHasCause'
  <2> SUFFICES ASSUME NEW v \in Vmids, ct'[v] # NoCt
               PROVE  \/ Holds(ct[v].owner, v)'
                      \/ row'[ct'[v].owner].vmid = v
                      \/ ct'[v].owner \in lost'
    BY DEF OrphanHasCause
  <2>1. ct[v].owner \in Deploys /\ ct'[v] = ct[v]
    BY <1>1, <1>2 DEF CtRecords, OrphanInv, OwnersKnown
  <2>2. CASE ct[v].owner = d
    BY <1>2, <1>5, <2>2
  <2>3. CASE ct[v].owner # d
    BY <1>2, <1>3, <1>4, <2>1, <2>3 DEF OrphanInv, OrphanHasCause, Holds
  <2> QED
    BY <2>2, <2>3
<1>7. OwnersKnown'
  BY <1>2 DEF OrphanInv, OwnersKnown
<1>8. ASSUME NEW e \in Deploys, e # d PROVE TaskKnows(e)'
  BY <1>2, <1>3, <1>4, <1>8, KnowsWhileOthersWork DEF OrphanInv
<1>9. TaskKnows(d)'
  BY <1>4 DEF TaskKnows, NoTask, Early, Saved, Checked
<1> QED
  BY <1>6, <1>7, <1>8, <1>9 DEF OrphanInv

\* The API restarts, and every attempt that was under way is recorded.
LEMMA CrashKeepsOrphanInv ==
  ASSUME Typed, OrphanInv, Crash
  PROVE  OrphanInv'
<1>1. /\ \A e \in Deploys : run'[e] = NoTask /\ (run[e] # NoTask => e \in lost')
      /\ lost \subseteq lost' /\ UNCHANGED <<row, ct>>
  BY DEF Crash
<1>2. \A e \in Deploys : run[e].created = TRUE => e \in lost'
  BY <1>1 DEF NoTask
<1>3. OrphanHasCause' /\ OwnersKnown'
  BY <1>1, <1>2, OrphansKeepCause, OwnersStayKnown DEF NoNewCt
<1>4. ASSUME NEW e \in Deploys PROVE TaskKnows(e)'
  BY <1>1 DEF TaskKnows, NoTask, Early, Saved, Checked
<1> QED
  BY <1>3, <1>4 DEF OrphanInv

\* Every step explains the containers it leaves behind.
LEMMA OrphanStep ==
  ASSUME Typed, OrphanInv, [Next]_vars
  PROVE  OrphanInv'
<1>1. ct \in [Vmids -> CtRecords] /\ row \in [Deploys -> RowRecords]
  BY DEF Typed, TypeOK, CtRecords, RowRecords
<1>2. ASSUME UNCHANGED <<run, ct, lost>>, VmidsKept PROVE OrphanInv'
  BY <1>2, OthersKeepOrphanInv DEF NoNewCt, VmidsKept
<1>3. ASSUME NEW c \in 0..MaxDeploys, ReconcileCycle(c) PROVE OrphanInv'
  <2>1. UNCHANGED <<run, ct>> /\ lost \subseteq lost'
    BY <1>3 DEF ReconcileCycle, Reconcile
  <2>2. \A e \in Deploys : row'[e].vmid = row[e].vmid \/ (row'[e].vmid = 0 /\ e \in lost')
    BY <1>1, <1>3 DEF ReconcileCycle, Reconcile, RowRecords
  <2> QED
    BY <2>1, <2>2, OthersKeepOrphanInv DEF NoNewCt
<1>4. ASSUME TeardownChecks PROVE OrphanInv'
  <2>1. UNCHANGED <<row, run, lost>>
    BY <1>4 DEF TeardownChecks
  <2>2. ct' = ct \/ ct' = [ct EXCEPT ![req.vmid].up = FALSE]
    BY <1>4 DEF TeardownChecks
  <2>3. \A v \in Vmids : ct'[v].owner = ct[v].owner /\ (ct[v] = NoCt => ct'[v] = NoCt)
    <3> DEFINE w == req.vmid
    <3>1. [NoCt EXCEPT !.up = FALSE] = NoCt
      <4> DEFINE u == FALSE
      <4>1. NoCt = [owner |-> 0, ip |-> 0, up |-> u]
        BY DEF NoCt
      <4> HIDE DEF u
      <4>2. [NoCt EXCEPT !.up = u] = NoCt
        BY <4>1
      <4> QED
        BY <4>2 DEF u
    <3>2. ct' = [ct EXCEPT ![w].up = FALSE] =>
            \A v \in Vmids : ct'[v] = IF v = w THEN [ct[v] EXCEPT !.up = FALSE] ELSE ct[v]
      BY <1>1
    <3>3. \A v \in Vmids : [ct[v] EXCEPT !.up = FALSE].owner = ct[v].owner
      BY <1>1 DEF CtRecords
    <3> QED
      BY <2>2, <3>1, <3>2, <3>3
  <2>4. NoNewCt
    BY <2>3 DEF NoNewCt
  <2> QED
    BY <2>1, <2>4, OthersKeepOrphanInv
<1>5. ASSUME TeardownDestroys PROVE OrphanInv'
  <2>1. UNCHANGED <<row, run, lost>> /\ NoNewCt
    BY <1>5 DEF TeardownDestroys, NoNewCt
  <2> QED
    BY <2>1, OthersKeepOrphanInv
<1>6. ASSUME DestroyWrite PROVE OrphanInv'
  BY <1>2, <1>6, TransitionsKeepVmids DEF DestroyWrite
<1>7. ASSUME Destroy PROVE OrphanInv'
  BY <1>2, <1>4, <1>5, <1>6, <1>7 DEF Destroy, TeardownFails, VmidsKept
<1>8. ASSUME NEW d \in Deploys, Execute(d) PROVE OrphanInv'
  BY <1>8, MovesKeepOrphanInv, EndsKeepOrphanInv, PrepareKeepsOrphanInv,
     CreateKeepsOrphanInv, PersistKeepsOrphanInv, CleanupKeepsOrphanInv,
     RecordKeepsOrphanInv
  DEF Execute
<1>9. ASSUME NEW d \in Deploys, DestroyRead(d) PROVE OrphanInv'
  BY <1>2, <1>9 DEF DestroyRead, VmidsKept
<1>10. CASE UNCHANGED vars
  BY <1>2, <1>10 DEF vars, VmidsKept
<1> QED
  BY <1>3, <1>7, <1>8, <1>9, <1>10, TriggerKeepsOrphanInv, CrashKeepsOrphanInv DEF Next

\* A container that neither its deploy's row nor its executor names exists
\* only because a restart, a timeout, an error of Proxmox or the reconciler
\* came between.
THEOREM OrphansAreExplained == Spec => []OrphanHasCause
<1>1. Init => OrphanInv
  BY DEF Init, OrphanInv, OrphanHasCause, OwnersKnown, TaskKnows, NoTask, Early, Saved, Checked
<1>2. Typed /\ OrphanInv /\ [Next]_vars => OrphanInv'
  BY OrphanStep
<1>3. OrphanInv => OrphanHasCause
  BY DEF OrphanInv
<1> QED
  BY TypedAlways, <1>1, <1>2, <1>3, PTL DEF Spec
=============================================================================
