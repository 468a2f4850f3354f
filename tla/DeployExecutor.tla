--------------------------- MODULE DeployExecutor ---------------------------
(***************************************************************************)
(* execute_deploy: the background task that turns a deploy record into a   *)
(* running container, with everything it shares: the deploy rows, the      *)
(* containers and addresses of the Proxmox cluster, the Nginx files.  It   *)
(* runs beside the reconciler, DELETE /deploys/{id}, other executors, and  *)
(* restarts of the API.  One environment, flat addresses.                  *)
(*                                                                         *)
(* A step runs up to the executor's next commit, call to Proxmox or write  *)
(* of a file.  flush_logs updates the deploy's row after each commit, so   *)
(* the executor holds the row lock except right after a commit; others     *)
(* can write the row only then, and read it any time.                      *)
(*                                                                         *)
(* The executor's session keeps one Deploy object in its identity map, and *)
(* SELECT ... FOR UPDATE does not refresh it: run[d].seen is the status of *)
(* that object, against which transition_deploy validates.                 *)
(***************************************************************************)
EXTENDS DeployStates, Naturals, FiniteSets

CONSTANTS
  MaxDeploys,     \* bound on the deploys, numbered by created_at
  MaxIp,          \* size of the range deploy_ip_start .. deploy_ip_end
  MaxVmid,        \* bound on the VMIDs of the cluster
  MaxConcurrent,  \* settings.deploy_max_concurrent
  MaxCrashes,     \* bound on the restarts of the API
  Faulty,         \* bound: deploys whose executor may meet an error
  Deletable       \* bound: deploys that a user may ask to destroy

ASSUME BoundsAssumption ==
  /\ MaxDeploys \in Nat
  /\ MaxIp \in Nat
  /\ MaxVmid \in Nat
  /\ MaxConcurrent \in Nat
  /\ MaxCrashes \in Nat
  /\ Faulty \subseteq 1..MaxDeploys
  /\ Deletable \subseteq 1..MaxDeploys

VARIABLES
  row,      \* the committed deploy rows
  run,      \* the executor of each deploy and its DeployContext
  ct,       \* the containers, by VMID
  conf,     \* the deploys with a deploy-*.conf file
  prod,     \* the deploy behind prod-*.conf, 0 without the file
  req,      \* a DELETE request in progress
  crashes,  \* restarts of the API so far
  passed,   \* history: deploys whose health check has passed
  lost      \* history: deploys whose container a fault may have left behind

vars == <<row, run, ct, conf, prod, req, crashes, passed, lost>>

Deploys == 1..MaxDeploys
Ips     == 1..MaxIp
Vmids   == 1..MaxVmid
NoRow   == "no_row"

\* The reconciler's _TERMINAL_STATUSES, also the rows whose address
\* _allocate_flat_ip takes to be free.
TERMINAL_STATUSES == {"superseded", "rolled_back", "failed"}

NoCt   == [owner |-> 0, ip |-> 0, up |-> FALSE]
NoTask == [pc |-> "none", seen |-> "queued", ip |-> 0, vmid |-> 0,
           created |-> FALSE]
NoReq  == [d |-> 0, phase |-> "none", status |-> "queued", vmid |-> 0]

PCs == {"none", "scheduled", "loaded", "begin", "network", "claim", "prepare",
        "create", "persist", "start", "health", "healthy", "promote", "route",
        "prod", "prod_write", "cleanup", "err_cleanup", "destroy", "err_destroy", "record"}

Init ==
  /\ row     = [d \in Deploys |-> [status |-> NoRow, ip |-> 0, vmid |-> 0,
                                   promoted |-> 0]]
  /\ run     = [d \in Deploys |-> NoTask]
  /\ ct      = [v \in Vmids |-> NoCt]
  /\ conf    = {}
  /\ prod    = 0
  /\ req     = NoReq
  /\ crashes = 0
  /\ passed  = {}
  /\ lost    = {}

(***************************************************************************)
(* Helpers                                                                 *)
(***************************************************************************)

At(d, l)   == run[d].pc = l
Goto(d, l) == run' = [run EXCEPT ![d].pc = l]

\* The executor of d holds the lock of its row.
Locked(d) == run[d].pc \in {"begin", "claim", "create", "persist", "health",
                            "healthy", "prod", "prod_write", "cleanup",
                            "err_cleanup", "destroy", "err_destroy", "record"}

Smallest(S) == CHOOSE x \in S : \A y \in S : x <= y
Largest(S)  == CHOOSE x \in S : \A y \in S : x >= y

\* A container is running at the address.
Answers(ip) == \E v \in Vmids : ct[v].up /\ ct[v].ip = ip

\* _try_promote_next as one transaction on the rows r.
PromoteNext(r) ==
  LET busy   == {d \in Deploys : r[d].status \in in_progress_states}
      queued == {d \in Deploys : r[d].status = "queued" /\ ~Locked(d)}
  IN  IF Cardinality(busy) >= MaxConcurrent \/ queued = {} THEN r
      ELSE [r EXCEPT ![Smallest(queued)].status = "building"]

(***************************************************************************)
(* Step 1: the deploy is created and its executor started                  *)
(***************************************************************************)

\* trigger_deploy, then create_task of the executor, whatever the queue did.  The
\* checks trigger_deploy makes before (deploy lock, quota, container limit) only
\* refuse; a deploy that is refused is one that is not triggered.
Trigger(d) ==
  /\ row[d].status = NoRow
  /\ \A e \in 1..(d - 1) : row[e].status # NoRow
  /\ row' = PromoteNext([row EXCEPT ![d].status = "queued"])
  /\ Goto(d, "scheduled")
  /\ UNCHANGED <<ct, conf, prod, req, crashes, passed, lost>>

\* The task loads the deploy in a session of its own ...
Load(d) ==
  /\ At(d, "scheduled")
  /\ run' = [run EXCEPT ![d].pc = "loaded", ![d].seen = row[d].status]
  /\ UNCHANGED <<row, ct, conf, prod, req, crashes, passed, lost>>

\* ... and writes the first lines of the log.
Begin(d) ==
  /\ At(d, "loaded")
  /\ Goto(d, "begin")
  /\ UNCHANGED <<row, ct, conf, prod, req, crashes, passed, lost>>

\* building, artifact_ready and provisioning in one transaction, from a
\* deploy that may still be queued.
ToProvisioning(d) ==
  /\ At(d, "begin")
  /\ run[d].seen \in {"queued", "building", "artifact_ready", "provisioning"}
  /\ row' = [row EXCEPT ![d].status = "provisioning"]
  /\ run' = [run EXCEPT ![d].pc = "network", ![d].seen = "provisioning"]
  /\ UNCHANGED <<ct, conf, prod, req, crashes, passed, lost>>

UnexpectedState(d) ==
  /\ At(d, "begin")
  /\ run[d].seen \notin {"queued", "building", "artifact_ready", "provisioning"}
  /\ Goto(d, "cleanup")
  /\ UNCHANGED <<row, ct, conf, prod, req, crashes, passed, lost>>

(***************************************************************************)
(* Step 2: the address                                                     *)
(***************************************************************************)

\* The addresses in use: rows that are not terminal, and the containers that
\* the scan of the cluster has found (nodes that do not answer are passed
\* over).
UsedIps(scanned) ==
  {row[e].ip : e \in {x \in Deploys : row[x].status \notin TERMINAL_STATUSES}}
    \cup {ct[v].ip : v \in scanned}

\* Faulty variant: the walk goes down from one past the end of the range.
AllocatePastTheEnd(d) ==
  /\ At(d, "network")
  /\ LET free == Ips \ UsedIps(Vmids)
     IN  IF free = {}
           THEN Goto(d, "cleanup")
           ELSE run' = [run EXCEPT ![d].pc = "claim",
                                   ![d].ip = Largest(free) + 1]
  /\ UNCHANGED <<row, ct, conf, prod, req, crashes, passed, lost>>

\* Under _ip_allocation_lock.
AllocateFlatIp(d) ==
  /\ At(d, "network")
  /\ \E scanned \in {Vmids, {}} :
       LET free == Ips \ UsedIps(scanned)
       IN  IF free = {}
             THEN Goto(d, "cleanup")
             ELSE run' = [run EXCEPT ![d].pc = "claim",
                                     ![d].ip = Smallest(free)]
  /\ UNCHANGED <<row, ct, conf, prod, req, crashes, passed, lost>>

\* After the lock: container_ip is written and committed.
ClaimIp(d) ==
  /\ At(d, "claim")
  /\ row' = [row EXCEPT ![d].ip = run[d].ip]
  /\ Goto(d, "prepare")
  /\ UNCHANGED <<ct, conf, prod, req, crashes, passed, lost>>

(***************************************************************************)
(* Steps 3 to 11: the container                                            *)
(***************************************************************************)

\* OCI conversion, init script, secrets, tarball, scheduling and upload; then
\* the cluster names a VMID that is unused and reserves nothing.
Prepare(d) ==
  LET unused == {v \in Vmids : ct[v] = NoCt}
  IN  /\ At(d, "prepare")
      /\ unused # {}
      /\ run' = [run EXCEPT ![d].pc = "create", ![d].vmid = Smallest(unused)]
      /\ UNCHANGED <<row, ct, conf, prod, req, crashes, passed, lost>>

\* The cluster has no unused VMID, or the one that was named, or the container
\* that was created, is no longer what it was: the stage can only fail.
Blocked(d) ==
  \/ At(d, "prepare") /\ \A v \in Vmids : ct[v] # NoCt
  \/ At(d, "create")  /\ ct[run[d].vmid] # NoCt
  \/ At(d, "start")   /\ ct[run[d].vmid] = NoCt
  \/ At(d, "health")  /\ ~Answers(run[d].ip)

\* A stage raises DeployExecutionError, or something else: TimeoutError of
\* wait_for_task is no ProxmoxError.
StageFails(d) ==
  /\ d \in Faulty \/ Blocked(d)
  /\ run[d].pc \in {"prepare", "create", "start", "health"}
  /\ \E l \in {"cleanup", "err_cleanup"} : Goto(d, l)
  /\ UNCHANGED <<row, ct, conf, prod, req, crashes, passed, lost>>

\* create_lxc and its task succeed; the marker names this deploy and attempt.
\* The check of the marker that follows may fail.
CreateLxc(d) ==
  /\ At(d, "create")
  /\ ct[run[d].vmid] = NoCt
  /\ ct'  = [ct EXCEPT ![run[d].vmid] =
               [owner |-> d, ip |-> run[d].ip, up |-> FALSE]]
  /\ \E l \in {"persist"} \cup {x \in {"cleanup"} : d \in Faulty} :
       run' = [run EXCEPT ![d].pc = l, ![d].created = TRUE]
  /\ UNCHANGED <<row, conf, prod, req, crashes, passed, lost>>

\* The task outlasts wait_for_task: the container exists, the attempt does
\* not know.
CreateTimesOut(d) ==
  /\ d \in Faulty
  /\ At(d, "create")
  /\ ct[run[d].vmid] = NoCt
  /\ ct'   = [ct EXCEPT ![run[d].vmid] =
                [owner |-> d, ip |-> run[d].ip, up |-> FALSE]]
  /\ lost' = lost \cup {d}
  /\ Goto(d, "err_cleanup")
  /\ UNCHANGED <<row, conf, prod, req, crashes, passed>>

\* Faulty variant: the VMID is not saved.
PersistNothing(d) ==
  /\ At(d, "persist")
  /\ Goto(d, "start")
  /\ UNCHANGED <<row, ct, conf, prod, req, crashes, passed, lost>>

PersistVmid(d) ==
  /\ At(d, "persist")
  /\ row' = [row EXCEPT ![d].vmid = run[d].vmid]
  /\ Goto(d, "start")
  /\ UNCHANGED <<ct, conf, prod, req, crashes, passed, lost>>

\* Faulty variant: the health check is skipped.
StartUnchecked(d) ==
  /\ At(d, "start")
  /\ ct[run[d].vmid] # NoCt
  /\ ct' = [ct EXCEPT ![run[d].vmid].up = TRUE]
  /\ Goto(d, "healthy")
  /\ UNCHANGED <<row, conf, prod, req, crashes, passed, lost>>

\* The outcome of the start task is not looked at.
StartLxc(d) ==
  /\ At(d, "start")
  /\ ct[run[d].vmid] # NoCt
  /\ \/ ct' = [ct EXCEPT ![run[d].vmid].up = TRUE]
     \/ d \in Faulty /\ UNCHANGED ct
  /\ Goto(d, "health")
  /\ UNCHANGED <<row, conf, prod, req, crashes, passed, lost>>

(***************************************************************************)
(* Steps 13 to 15: health, promotion, routing                              *)
(***************************************************************************)

\* Whoever runs at the address answers.
HealthPasses(d) ==
  /\ At(d, "health")
  /\ Answers(run[d].ip)
  /\ passed' = passed \cup {d}
  /\ Goto(d, "healthy")
  /\ UNCHANGED <<row, ct, conf, prod, req, crashes, lost>>

\* Faulty variant: the routes are set up before the promotion.
RouteWhenHealthy(d) ==
  /\ At(d, "healthy")
  /\ CanTransitionTo(run[d].seen, "healthy")
  /\ row' = [row EXCEPT ![d].status = "healthy"]
  /\ run' = [run EXCEPT ![d].pc = "route", ![d].seen = "healthy"]
  /\ UNCHANGED <<ct, conf, prod, req, crashes, passed, lost>>

SetHealthy(d) ==
  /\ At(d, "healthy")
  /\ CanTransitionTo(run[d].seen, "healthy")
  /\ row' = [row EXCEPT ![d].status = "healthy"]
  /\ run' = [run EXCEPT ![d].pc = "promote", ![d].seen = "healthy"]
  /\ UNCHANGED <<ct, conf, prod, req, crashes, passed, lost>>

LastPromotion == Largest({row[e].promoted : e \in Deploys})

\* transition_deploy(active) as one transaction.
SetActive(d) ==
  /\ At(d, "promote")
  /\ CanTransitionTo(run[d].seen, "active")
  /\ LET newer == \E e \in Deploys : /\ e > d
                                     /\ row[e].status = "active"
                                     /\ row[e].promoted # 0
         new   == IF newer THEN "superseded" ELSE "active"
         own   == [row EXCEPT ![d].status = new,
                              ![d].promoted = IF newer THEN @
                                              ELSE LastPromotion + 1]
         rows  == [e \in Deploys |->
                     IF ~newer /\ e # d /\ row[e].status = "active"
                       THEN [row[e] EXCEPT !.status = "superseded"]
                       ELSE own[e]]
     IN  /\ row' = PromoteNext(rows)
         /\ run' = [run EXCEPT ![d].pc = "route", ![d].seen = new]
  /\ UNCHANGED <<ct, conf, prod, req, crashes, passed, lost>>

\* register_deploy_routing writes the file; if the reload cannot be signalled
\* the production URL is left alone.
RegisterDeployRouting(d) ==
  /\ At(d, "route")
  /\ conf' = conf \cup {d}
  /\ \/ Goto(d, "prod")
     \/ d \in Faulty /\ run' = [run EXCEPT ![d] = NoTask]
  /\ UNCHANGED <<row, ct, prod, req, crashes, passed, lost>>

\* The file cannot be written: an OSError, which the handler of
\* DNSRoutingError does not catch.
RoutingWriteFails(d) ==
  /\ d \in Faulty
  /\ At(d, "route")
  /\ Goto(d, "err_cleanup")
  /\ UNCHANGED <<row, ct, conf, prod, req, crashes, passed, lost>>

Actives       == {e \in Deploys : row[e].status = "active"}
NewestActives == {e \in Actives : \A f \in Actives :
                                    row[f].promoted <= row[e].promoted}

\* The race guard: the production URL is left to a deploy promoted later.
RaceGuard(d) ==
  /\ At(d, "prod")
  /\ IF NewestActives \subseteq {d}
       THEN Goto(d, "prod_write")
       ELSE run' = [run EXCEPT ![d] = NoTask]
  /\ UNCHANGED <<row, ct, conf, prod, req, crashes, passed, lost>>

\* An error here is logged and the previous file stays.
RegisterProductionRouting(d) ==
  /\ At(d, "prod_write")
  /\ prod' = d \/ (d \in Faulty /\ UNCHANGED prod)
  /\ run'  = [run EXCEPT ![d] = NoTask]
  /\ UNCHANGED <<row, ct, conf, req, crashes, passed, lost>>

(***************************************************************************)
(* The exception handlers                                                  *)
(***************************************************************************)

\* There is a container to destroy.
HasCreated(d) == run[d].created /\ run[d].vmid # 0

\* _require_attempt_owned, stop, _require_attempt_owned.
CleanupChecks(d) ==
  /\ run[d].pc \in {"cleanup", "err_cleanup"}
  /\ HasCreated(d)
  /\ ct[run[d].vmid].owner = d
  /\ ct' = [ct EXCEPT ![run[d].vmid].up = FALSE]
  /\ Goto(d, IF At(d, "cleanup") THEN "destroy" ELSE "err_destroy")
  /\ UNCHANGED <<row, conf, prod, req, crashes, passed, lost>>

\* destroy_lxc, of whatever now has the VMID.
CleanupDestroys(d) ==
  /\ run[d].pc \in {"destroy", "err_destroy"}
  /\ ct' = [ct EXCEPT ![run[d].vmid] = NoCt]
  /\ Goto(d, "record")
  /\ UNCHANGED <<row, conf, prod, req, crashes, passed, lost>>

\* Nothing was created, or Proxmox reports an error, which is logged.
CleanupSkips(d) ==
  /\ run[d].pc \in {"cleanup", "err_cleanup", "destroy", "err_destroy"}
  /\ (HasCreated(d) /\ d \notin Faulty) => ct[run[d].vmid].owner # d
  /\ lost' = IF HasCreated(d) THEN lost \cup {d} ELSE lost
  /\ Goto(d, "record")
  /\ UNCHANGED <<row, ct, conf, prod, req, crashes, passed>>

\* A TimeoutError in the handler of DeployExecutionError ends the task.
CleanupTimesOut(d) ==
  /\ d \in Faulty
  /\ run[d].pc \in {"cleanup", "destroy"}
  /\ HasCreated(d)
  /\ lost' = lost \cup {d}
  /\ run'  = [run EXCEPT ![d] = NoTask]
  /\ UNCHANGED <<row, ct, conf, prod, req, crashes, passed>>

\* The container columns are cleared; the status becomes failed if the state
\* machine allows it, and the session is committed either way.
RecordFailure(d) ==
  LET cleared == [row EXCEPT ![d].ip = 0, ![d].vmid = 0]
  IN  /\ At(d, "record")
      /\ row' = IF CanTransitionTo(run[d].seen, "failed")
                  THEN PromoteNext([cleared EXCEPT ![d].status = "failed"])
                  ELSE cleared
      /\ run' = [run EXCEPT ![d] = NoTask]
      /\ UNCHANGED <<ct, conf, prod, req, crashes, passed, lost>>

(***************************************************************************)
(* The reconciler: one cycle                                               *)
(***************************************************************************)

\* One cycle with the given ideas of what is stuck and which files are stale.
Reconcile(cutoff, stuckStates, staleStates) ==
  /\ LET stuck == {d \in 1..cutoff : row[d].status \in stuckStates /\ ~Locked(d)}
     IN  /\ row' = [d \in Deploys |->
                      IF d \in stuck
                        THEN [row[d] EXCEPT !.status = "failed",
                                            !.ip = 0, !.vmid = 0]
                        ELSE row[d]]
         /\ lost' = lost \cup stuck
  /\ conf' = {d \in conf : row[d].status \notin staleStates}
  /\ UNCHANGED <<run, ct, prod, req, crashes, passed>>

\* Faulty variant: a deploy that passed its check is never stuck.
ReconcileNotHealthy(cutoff) ==
  Reconcile(cutoff, in_progress_states \ {"healthy"}, TERMINAL_STATUSES)

\* Stale files go; the rows in progress that were created before the cutoff
\* and are not locked fail, and forget their container.
ReconcileCycle(cutoff) ==
  Reconcile(cutoff, in_progress_states, TERMINAL_STATUSES)

(***************************************************************************)
(* DELETE /deploys/{id}: the row is read without a lock, the infrastructure*)
(* torn down, the row written.                                             *)
(***************************************************************************)

DestroyRead(d) ==
  /\ d \in Deletable
  /\ req = NoReq
  /\ row[d].status \notin {NoRow, "rolled_back"}
  /\ req' = [d |-> d, phase |-> "teardown", status |-> row[d].status,
             vmid |-> row[d].vmid]
  /\ UNCHANGED <<row, run, ct, conf, prod, crashes, passed, lost>>

NeedsIdentity == {"provisioning", "healthy", "active", "superseded", "stopped"}

\* teardown_deploy: the stored container is stopped if the marker is this
\* deploy's; a deploy that never had one is not looked for.
TeardownChecks ==
  /\ req.phase = "teardown"
  /\ IF req.vmid # 0
       THEN /\ ct[req.vmid].owner = req.d
            /\ ct' = [ct EXCEPT ![req.vmid].up = FALSE]
       ELSE /\ req.status \notin NeedsIdentity
            /\ UNCHANGED ct
  /\ req' = [req EXCEPT !.phase = "destroy"]
  /\ UNCHANGED <<row, run, conf, prod, crashes, passed, lost>>

\* destroy_lxc, of whatever now has the VMID, then the Nginx files: one that
\* cannot be removed is logged and stays.
TeardownDestroys ==
  /\ req.phase = "destroy"
  /\ ct'   = [v \in Vmids |-> IF v = req.vmid THEN NoCt ELSE ct[v]]
  /\ conf' \in {conf, conf \ {req.d}}
  /\ prod' \in {prod, IF req.status = "active" THEN 0 ELSE prod}
  /\ req'  = [req EXCEPT !.phase = "write"]
  /\ UNCHANGED <<row, run, crashes, passed, lost>>

\* TeardownError: the container is not there, not provably this deploy's, not
\* recorded, or Proxmox fails.
TeardownFails ==
  /\ req.phase \in {"teardown", "destroy"}
  /\ req.vmid # 0 \/ req.status \in NeedsIdentity
  /\ req' = NoReq
  /\ UNCHANGED <<row, run, ct, conf, prod, crashes, passed, lost>>

DestroyWrite ==
  /\ req.phase = "write"
  /\ ~Locked(req.d)
  /\ row' = [row EXCEPT ![req.d].status = "rolled_back"]
  /\ req' = NoReq
  /\ UNCHANGED <<run, ct, conf, prod, crashes, passed, lost>>

(***************************************************************************)
(* The API process restarts: tasks and requests are gone, rows stay.       *)
(***************************************************************************)

Crash ==
  /\ crashes < MaxCrashes
  /\ crashes' = crashes + 1
  /\ run'  = [d \in Deploys |-> NoTask]
  /\ req'  = NoReq
  /\ lost' = lost \cup {d \in Deploys : run[d] # NoTask}
  /\ UNCHANGED <<row, ct, conf, prod, passed>>

Execute(d) ==
  \/ Load(d) \/ Begin(d) \/ ToProvisioning(d) \/ UnexpectedState(d)
  \/ AllocateFlatIp(d) \/ ClaimIp(d)
  \/ Prepare(d) \/ StageFails(d)
  \/ CreateLxc(d) \/ CreateTimesOut(d) \/ PersistVmid(d) \/ StartLxc(d)
  \/ HealthPasses(d) \/ SetHealthy(d) \/ SetActive(d)
  \/ RegisterDeployRouting(d) \/ RoutingWriteFails(d)
  \/ RaceGuard(d) \/ RegisterProductionRouting(d)
  \/ CleanupChecks(d) \/ CleanupDestroys(d)
  \/ CleanupSkips(d) \/ CleanupTimesOut(d)
  \/ RecordFailure(d)

Destroy == TeardownChecks \/ TeardownDestroys \/ TeardownFails \/ DestroyWrite

Next ==
  \/ \E d \in Deploys : Trigger(d) \/ Execute(d) \/ DestroyRead(d)
  \/ Destroy
  \/ \E cutoff \in 0..MaxDeploys : ReconcileCycle(cutoff)
  \/ Crash

Spec == Init /\ [][Next]_vars

\* The event loop runs every task on, and the reconciler's loop comes round
\* until every deploy is older than the threshold; clients and crashes owe
\* nothing.
FairSpec ==
  /\ Spec
  /\ \A d \in Deploys : WF_vars(Execute(d))
  /\ WF_vars(Destroy)
  /\ WF_vars(ReconcileCycle(MaxDeploys))

-----------------------------------------------------------------------------
(***************************************************************************)
(* Properties                                                              *)
(***************************************************************************)

TypeOK ==
  /\ row     \in [Deploys -> [status : DEPLOY_STATES \cup {NoRow},
                              ip : Ips \cup {0}, vmid : Vmids \cup {0},
                              promoted : Nat]]
  /\ run     \in [Deploys -> [pc : PCs, seen : DEPLOY_STATES,
                              ip : Ips \cup {0}, vmid : Vmids \cup {0},
                              created : BOOLEAN]]
  /\ ct      \in [Vmids -> [owner : Deploys \cup {0}, ip : Ips \cup {0},
                            up : BOOLEAN]]
  /\ conf    \subseteq Deploys
  /\ prod    \in Deploys \cup {0}
  /\ req     \in [d : Deploys \cup {0},
                  phase : {"none", "teardown", "destroy", "write"},
                  status : DEPLOY_STATES, vmid : Vmids \cup {0}]
  /\ crashes \in 0..MaxCrashes
  /\ passed  \subseteq Deploys
  /\ lost    \subseteq Deploys

\* No deploy becomes active, or is routed, without having passed its health
\* check, whatever else writes its row meanwhile.
HealthGate ==
  /\ \A d \in Deploys : row[d].status = "active" => d \in passed
  /\ conf \subseteq passed
  /\ prod # 0 => prod \in passed

\* The statuses of a deploy whose promotion has been committed.
Released == {"active", "superseded", "rolled_back"}

\* No Nginx file leads to a deploy that is queued, in progress or failed: a file
\* is written after the promotion is committed, and neither a stale session,
\* the exception handlers nor the reconciler takes that status back afterwards.
RoutedIsReleased ==
  /\ \A d \in conf : row[d].status \in Released
  /\ prod # 0 => row[prod].status \in Released

\* The executor of d knows of the container v.
Holds(d, v) == run[d].created /\ run[d].vmid = v

\* A container that neither its deploy's row nor its executor names exists
\* only because a restart, a timeout, an error of Proxmox or the reconciler
\* came between.
OrphanHasCause ==
  \A v \in Vmids : ct[v] # NoCt =>
    \/ Holds(ct[v].owner, v)
    \/ row[ct[v].owner].vmid = v
    \/ ct[v].owner \in lost

\* No deploy stays in progress, not even one whose executor died with the
\* API: the executor or the reconciler ends it.
InProgressEnds ==
  \A d \in Deploys :
    row[d].status \in in_progress_states ~>
      row[d].status \notin in_progress_states

\* "Superseded deploys keep their containers and per-deploy URLs alive so they
\* remain accessible" (transition_deploy): no step takes the file of a deploy
\* that is and stays superseded, unless the deploy is being destroyed.  The
\* code does: the reconciler counts superseded among the states whose files
\* are stale.
SupersededKeepsUrl ==
  [][\A d \in conf :
        row[d].status = "superseded" /\ row'[d].status = "superseded" /\ req.d # d
          => d \in conf']_vars
=============================================================================
