---------------------------- MODULE DeployControl ----------------------------
(***************************************************************************)
(* What users do to deploys that have been live: POST stop, start, promote *)
(* and rollback, and DELETE, of api/app/routers/deploys.py, beside the     *)
(* reconciler's sweep of stale Nginx files.  One project with one          *)
(* environment; every deploy has been promoted once and has a container,   *)
(* whose marker names it.                                                  *)
(*                                                                         *)
(* promote and rollback lock the rows they read (FOR UPDATE); stop, start  *)
(* and DELETE read the row of their deploy without a lock, work on Proxmox *)
(* and the files, and then write the row whatever it says by now.  A step  *)
(* runs up to the next statement, call to Proxmox or change of a file, as  *)
(* in DeployQueue; an UPDATE waits for the row lock.                       *)
(***************************************************************************)
EXTENDS DeployStates, Naturals, FiniteSets

CONSTANTS
  MaxDeploys,  \* the deploys of the environment, numbered by created_at
  Handlers,    \* requests that run at the same time
  Nobody,      \* no handler
  Ops,         \* the operations that users call
  MaxRunning,  \* MAX_RUNNING_PER_PROJECT
  MaxRequests  \* bound on the requests

ASSUME ControlAssumption ==
  /\ MaxDeploys \in Nat
  /\ Nobody \notin Handlers
  /\ Ops \subseteq {"stop", "start", "promote", "rollback", "destroy"}
  /\ MaxRunning \in 1..MaxDeploys
  /\ MaxRequests \in Nat

VARIABLES
  status,     \* Deploy.status as committed
  promoted,   \* Deploy.promoted_at as committed
  locker,     \* the request that holds the lock of a row
  req,        \* the requests
  ct,         \* the containers: running, stopped or gone
  conf,       \* the deploys with a deploy-*.conf file
  prod,       \* the deploy behind prod-*.conf, 0 without the file
  sweep,      \* files the reconciler is about to remove
  clock,      \* the last promoted_at
  requests,   \* requests so far
  disturbed   \* history: requests have overlapped, or a step of one has failed

vars == <<status, promoted, locker, req, ct, conf, prod, sweep, clock, requests,
          disturbed>>
rows  == <<status, promoted>>
files == <<conf, prod>>
past  == <<requests, disturbed>>

Deploys == 1..MaxDeploys

NoReq == [pc |-> "idle", d |-> 0, flag |-> FALSE, wanted |-> {}, matched |-> {},
          order |-> [d \in Deploys |-> 0], at |-> 0]

PCs == {"idle",
        "stop_prod", "stop_ct", "stop_conf", "stop_prod_file", "stop_write",
        "limit", "limit_lock", "start_ct", "start_conf", "start_write",
        "promote_lock", "promote_prod", "supersede", "supersede_lock",
        "promote_route", "promote_commit",
        "rollback_lock", "previous", "previous_lock", "rollback_route",
        "rollback_commit",
        "check", "destroy", "unroute", "unroute_prod", "destroy_write"}

\* The deploys were made in turn and the oldest ones stopped to make room.
Init ==
  /\ status    = [d \in Deploys |->
                    IF d = MaxDeploys THEN "active"
                    ELSE IF d + MaxRunning > MaxDeploys THEN "superseded"
                    ELSE "stopped"]
  /\ promoted  = [d \in Deploys |-> d]
  /\ locker    = [d \in Deploys |-> Nobody]
  /\ req       = [h \in Handlers |-> NoReq]
  /\ ct        = [d \in Deploys |-> IF status[d] = "stopped" THEN "stopped"
                                    ELSE "running"]
  /\ conf      = {d \in Deploys : status[d] # "stopped"}
  /\ prod      = MaxDeploys
  /\ sweep     = {}
  /\ clock     = MaxDeploys
  /\ requests  = 0
  /\ disturbed = FALSE

(***************************************************************************)
(* Helpers                                                                 *)
(***************************************************************************)

At(h, l)   == req[h].pc = l
Goto(h, l) == req' = [req EXCEPT ![h].pc = l]
Free(h, d) == locker[d] \in {Nobody, h}
Lock(h, d) == locker' = [locker EXCEPT ![d] = h]

\* The request returns or raises: its locks go.
End(h) ==
  /\ req'    = [req EXCEPT ![h] = NoReq]
  /\ locker' = [d \in Deploys |-> IF locker[d] = h THEN Nobody ELSE locker[d]]

\* A request arrives; the others that are running make it a disturbance.
Call(h, d, l, flag) ==
  /\ At(h, "idle")
  /\ requests < MaxRequests
  /\ requests' = requests + 1
  /\ req' = [req EXCEPT ![h].pc = l, ![h].d = d, ![h].flag = flag]
  /\ disturbed' = (disturbed \/ \E g \in Handlers : ~At(g, "idle"))
  /\ UNCHANGED <<rows, locker, ct, files, sweep, clock>>

Actives == {d \in Deploys : status[d] = "active"}

\* _get_production_deploy_id: the active deploy that was promoted last.
IsProduction(d) ==
  d \in Actives /\ \A e \in Actives : promoted[e] <= promoted[d]

(***************************************************************************)
(* SELECT ... FOR UPDATE of the rows in some states, as in DeployQueue     *)
(***************************************************************************)

Snapshot(h, at, next, S) ==
  /\ At(h, at)
  /\ req' = [req EXCEPT ![h].pc = next, ![h].wanted = S]
  /\ UNCHANGED <<rows, locker, ct, files, sweep, clock, past>>

LockNext(h, at, states) ==
  /\ At(h, at)
  /\ \E e \in req[h].wanted :
       /\ Free(h, e)
       /\ Lock(h, e)
       /\ req' = [req EXCEPT ![h].wanted = @ \ {e},
                             ![h].matched = IF status[e] \in states
                                              THEN @ \cup {e} ELSE @]
  /\ UNCHANGED <<rows, ct, files, sweep, clock, past>>

(***************************************************************************)
(* POST /deploys/{id}/stop                                                 *)
(***************************************************************************)

StopRead(h, d) ==
  /\ "stop" \in Ops
  /\ status[d] \in {"active", "superseded"}
  /\ Call(h, d, "stop_prod", FALSE)

\* was_production
StopReadProd(h) ==
  /\ At(h, "stop_prod")
  /\ req' = [req EXCEPT ![h].pc = "stop_ct", ![h].flag = IsProduction(req[h].d)]
  /\ UNCHANGED <<rows, locker, ct, files, sweep, clock, past>>

StopContainer(h) ==
  /\ At(h, "stop_ct")
  /\ ct[req[h].d] # "gone"
  /\ ct' = [ct EXCEPT ![req[h].d] = "stopped"]
  /\ Goto(h, "stop_conf")
  /\ UNCHANGED <<rows, locker, files, sweep, clock, past>>

\* Faulty variant: the file is kept.
StopKeepsRoute(h) ==
  /\ At(h, "stop_conf")
  /\ Goto(h, "stop_prod_file")
  /\ UNCHANGED <<rows, locker, ct, files, sweep, clock, past>>

StopUnregister(h) ==
  /\ At(h, "stop_conf")
  /\ conf' = conf \ {req[h].d}
  /\ Goto(h, "stop_prod_file")
  /\ UNCHANGED <<rows, locker, ct, prod, sweep, clock, past>>

StopUnregisterProduction(h) ==
  /\ At(h, "stop_prod_file")
  /\ prod' = IF req[h].flag THEN 0 ELSE prod
  /\ Goto(h, "stop_write")
  /\ UNCHANGED <<rows, locker, ct, conf, sweep, clock, past>>

StopWrite(h) ==
  /\ At(h, "stop_write")
  /\ Free(h, req[h].d)
  /\ status' = [status EXCEPT ![req[h].d] = "stopped"]
  /\ End(h)
  /\ UNCHANGED <<promoted, ct, files, sweep, clock, past>>

(***************************************************************************)
(* POST /deploys/{id}/start                                                *)
(***************************************************************************)

StartRead(h, d) ==
  /\ "start" \in Ops
  /\ status[d] = "stopped"
  /\ Call(h, d, "limit", FALSE)

Running == {"active", "superseded"}

\* _check_container_limit: the running rows are locked and counted.
CountRunning(h) ==
  Snapshot(h, "limit", "limit_lock", {d \in Deploys : status[d] \in Running})

LockRunning(h) == LockNext(h, "limit_lock", Running)

\* Faulty variant: one more than the limit.
LimitOffByOne(h) ==
  /\ At(h, "limit_lock")
  /\ req[h].wanted = {}
  /\ IF Cardinality(req[h].matched) > MaxRunning
       THEN End(h)
       ELSE Goto(h, "start_ct") /\ UNCHANGED locker
  /\ UNCHANGED <<rows, ct, files, sweep, clock, past>>

CheckLimit(h) ==
  /\ At(h, "limit_lock")
  /\ req[h].wanted = {}
  /\ IF Cardinality(req[h].matched) >= MaxRunning
       THEN End(h)
       ELSE Goto(h, "start_ct") /\ UNCHANGED locker
  /\ UNCHANGED <<rows, ct, files, sweep, clock, past>>

\* The outcome of the start task is not looked at.
StartContainer(h) ==
  /\ At(h, "start_ct")
  /\ ct[req[h].d] # "gone"
  /\ \/ ct' = [ct EXCEPT ![req[h].d] = "running"] /\ UNCHANGED disturbed
     \/ disturbed' = TRUE /\ UNCHANGED ct
  /\ Goto(h, "start_conf")
  /\ UNCHANGED <<rows, locker, files, sweep, clock, requests>>

\* An error here is logged and the file may be missing.
StartRegister(h) ==
  /\ At(h, "start_conf")
  /\ conf' \in {conf, conf \cup {req[h].d}}
  /\ Goto(h, "start_write")
  /\ UNCHANGED <<rows, locker, ct, prod, sweep, clock, past>>

\* The deploy is active; the others stay active too, and prod-*.conf is left.
StartWrite(h) ==
  /\ At(h, "start_write")
  /\ Free(h, req[h].d)
  /\ clock'    = clock + 1
  /\ status'   = [status EXCEPT ![req[h].d] = "active"]
  /\ promoted' = [promoted EXCEPT ![req[h].d] = clock + 1]
  /\ End(h)
  /\ UNCHANGED <<ct, files, sweep, past>>

(***************************************************************************)
(* POST /deploys/{id}/promote                                              *)
(***************************************************************************)

PromoteCall(h, d) == "promote" \in Ops /\ Call(h, d, "promote_lock", FALSE)

PromoteLock(h) ==
  /\ At(h, "promote_lock")
  /\ Free(h, req[h].d)
  /\ status[req[h].d] \in {"active", "superseded"}
  /\ Lock(h, req[h].d)
  /\ Goto(h, "promote_prod")
  /\ UNCHANGED <<rows, ct, files, sweep, clock, past>>

PromoteReject(h) ==
  /\ \/ /\ At(h, "promote_lock")
        /\ Free(h, req[h].d)
        /\ status[req[h].d] \notin {"active", "superseded"}
     \/ At(h, "promote_prod") /\ IsProduction(req[h].d)
  /\ End(h)
  /\ UNCHANGED <<rows, ct, files, sweep, clock, past>>

PromoteNotProduction(h) ==
  /\ At(h, "promote_prod")
  /\ ~IsProduction(req[h].d)
  /\ Goto(h, "supersede")
  /\ UNCHANGED <<rows, locker, ct, files, sweep, clock, past>>

MarkSuperseded(h) ==
  Snapshot(h, "supersede", "supersede_lock", Actives \ {req[h].d})

LockActive(h) == LockNext(h, "supersede_lock", {"active"})

\* The other rows and this one are written, but not committed.
PromoteWrite(h) ==
  /\ At(h, "supersede_lock")
  /\ req[h].wanted = {}
  /\ clock' = clock + 1
  /\ req'   = [req EXCEPT ![h].pc = "promote_route", ![h].at = clock + 1]
  /\ UNCHANGED <<rows, locker, ct, files, sweep, past>>

PromoteRegister(h) ==
  /\ At(h, "promote_route")
  /\ prod' = req[h].d
  /\ Goto(h, "promote_commit")
  /\ UNCHANGED <<rows, locker, ct, conf, sweep, clock, past>>

PromoteCommit(h) ==
  /\ At(h, "promote_commit")
  /\ status'   = [d \in Deploys |-> IF d = req[h].d THEN "active"
                                    ELSE IF d \in req[h].matched THEN "superseded"
                                    ELSE status[d]]
  /\ promoted' = [promoted EXCEPT ![req[h].d] = req[h].at]
  /\ End(h)
  /\ UNCHANGED <<ct, files, sweep, clock, past>>

(***************************************************************************)
(* POST /deploys/{id}/rollback                                             *)
(***************************************************************************)

RollbackCall(h, d) == "rollback" \in Ops /\ Call(h, d, "rollback_lock", FALSE)

\* Faulty variant: the row is read without a lock.
RollbackReads(h) ==
  /\ At(h, "rollback_lock")
  /\ status[req[h].d] = "active"
  /\ Goto(h, "previous")
  /\ UNCHANGED <<rows, locker, ct, files, sweep, clock, past>>

RollbackLock(h) ==
  /\ At(h, "rollback_lock")
  /\ Free(h, req[h].d)
  /\ status[req[h].d] = "active"
  /\ Lock(h, req[h].d)
  /\ Goto(h, "previous")
  /\ UNCHANGED <<rows, ct, files, sweep, clock, past>>

\* Faulty variant: the rejected request keeps its connection and its lock.
RejectLeaksLock(h) ==
  /\ At(h, "rollback_lock")
  /\ Free(h, req[h].d)
  /\ status[req[h].d] # "active"
  /\ Lock(h, req[h].d)
  /\ req' = [req EXCEPT ![h] = NoReq]
  /\ UNCHANGED <<rows, ct, files, sweep, clock, past>>

RollbackReject(h) ==
  /\ At(h, "rollback_lock")
  /\ Free(h, req[h].d)
  /\ status[req[h].d] # "active"
  /\ End(h)
  /\ UNCHANGED <<rows, ct, files, sweep, clock, past>>

Restorable == {"superseded", "stopped"}

\* The candidates in the order of the snapshot, the last promoted first.
FindPrevious(h) ==
  /\ At(h, "previous")
  /\ req' = [req EXCEPT ![h].pc = "previous_lock", ![h].order = promoted,
               ![h].wanted = {d \in Deploys \ {req[h].d} : status[d] \in Restorable}]
  /\ UNCHANGED <<rows, locker, ct, files, sweep, clock, past>>

FirstOf(h, e) ==
  e \in req[h].wanted
    /\ \A f \in req[h].wanted : req[h].order[f] <= req[h].order[e]

\* LIMIT 1 FOR UPDATE: waits for the first, and goes on to the next if that is
\* no longer a candidate.
LockPrevious(h) ==
  /\ At(h, "previous_lock")
  /\ req[h].matched = {}
  /\ \E e \in Deploys :
       /\ FirstOf(h, e)
       /\ Free(h, e)
       /\ Lock(h, e)
       /\ req' = [req EXCEPT ![h].wanted = @ \ {e},
                             ![h].matched = IF status[e] \in Restorable
                                              THEN {e} ELSE {}]
  /\ UNCHANGED <<rows, ct, files, sweep, clock, past>>

\* Written, but not committed.
RollbackWrite(h) ==
  /\ At(h, "previous_lock")
  /\ req[h].matched # {} \/ req[h].wanted = {}
  /\ clock' = IF req[h].matched = {} THEN clock ELSE clock + 1
  /\ req'   = [req EXCEPT ![h].pc = "rollback_route", ![h].at = clock']
  /\ UNCHANGED <<rows, locker, ct, files, sweep, past>>

\* An error of the registration is logged and the file stays as it is.
RollbackRegister(h) ==
  /\ At(h, "rollback_route")
  /\ IF req[h].matched = {} THEN prod' = 0
     ELSE prod' \in req[h].matched \cup {prod}
  /\ Goto(h, "rollback_commit")
  /\ UNCHANGED <<rows, locker, ct, conf, sweep, clock, past>>

RollbackCommit(h) ==
  /\ At(h, "rollback_commit")
  /\ status'   = [d \in Deploys |-> IF d = req[h].d THEN "superseded"
                                    ELSE IF d \in req[h].matched THEN "active"
                                    ELSE status[d]]
  /\ promoted' = [d \in Deploys |-> IF d \in req[h].matched THEN req[h].at
                                    ELSE promoted[d]]
  /\ End(h)
  /\ UNCHANGED <<ct, files, sweep, clock, past>>

(***************************************************************************)
(* DELETE /deploys/{id} with teardown_deploy                               *)
(***************************************************************************)

\* is_active
DestroyRead(h, d) ==
  /\ "destroy" \in Ops
  /\ status[d] # "rolled_back"
  /\ Call(h, d, "check", status[d] = "active")

TeardownChecks(h) ==
  /\ At(h, "check")
  /\ ct[req[h].d] # "gone"
  /\ ct' = [ct EXCEPT ![req[h].d] = "stopped"]
  /\ Goto(h, "destroy")
  /\ UNCHANGED <<rows, locker, files, sweep, clock, past>>

\* A container that is gone by now counts as destroyed.
TeardownDestroys(h) ==
  /\ At(h, "destroy")
  /\ ct' = [ct EXCEPT ![req[h].d] = "gone"]
  /\ Goto(h, "unroute")
  /\ UNCHANGED <<rows, locker, files, sweep, clock, past>>

\* A file that cannot be removed is logged and stays.
TeardownUnregister(h) ==
  /\ At(h, "unroute")
  /\ \/ conf' = conf \ {req[h].d} /\ UNCHANGED disturbed
     \/ disturbed' = TRUE /\ UNCHANGED conf
  /\ Goto(h, "unroute_prod")
  /\ UNCHANGED <<rows, locker, ct, prod, sweep, clock, requests>>

TeardownUnregisterProduction(h) ==
  /\ At(h, "unroute_prod")
  /\ prod' \in {prod, IF req[h].flag THEN 0 ELSE prod}
  /\ Goto(h, "destroy_write")
  /\ UNCHANGED <<rows, locker, ct, conf, sweep, clock, past>>

\* Faulty variant: a status that is none of the machine's.
DestroyWritesDeleted(h) ==
  /\ At(h, "destroy_write")
  /\ Free(h, req[h].d)
  /\ status' = [status EXCEPT ![req[h].d] = "deleted"]
  /\ End(h)
  /\ UNCHANGED <<promoted, ct, files, sweep, clock, past>>

DestroyWrite(h) ==
  /\ At(h, "destroy_write")
  /\ Free(h, req[h].d)
  /\ status' = [status EXCEPT ![req[h].d] = "rolled_back"]
  /\ End(h)
  /\ UNCHANGED <<promoted, ct, files, sweep, clock, past>>

(***************************************************************************)
(* Errors, the database and the reconciler                                 *)
(***************************************************************************)

\* Proxmox refuses: the container is gone, or is not running and cannot be
\* stopped.  The request has changed nothing.
ContainerRefused(h) ==
  /\ \/ req[h].pc \in {"stop_ct", "check"} /\ ct[req[h].d] # "running"
     \/ At(h, "start_ct") /\ ct[req[h].d] = "gone"
  /\ End(h)
  /\ UNCHANGED <<rows, ct, files, sweep, clock, past>>

\* An exception, a timeout or a restart of the API at any point: the session
\* is rolled back, containers and files stay as they are.
Fails(h) ==
  /\ ~At(h, "idle")
  /\ End(h)
  /\ disturbed' = TRUE
  /\ UNCHANGED <<rows, ct, files, sweep, clock, requests>>

\* The rows a request is waiting for.
Needs(h) ==
  IF req[h].pc \in {"promote_lock", "rollback_lock", "stop_write", "start_write",
                    "destroy_write"} THEN {req[h].d}
  ELSE IF req[h].pc \in {"limit_lock", "supersede_lock"} THEN req[h].wanted
  ELSE IF At(h, "previous_lock") /\ req[h].matched = {}
    THEN {e \in Deploys : FirstOf(h, e)}
  ELSE {}

WaitsFor(h, g) ==
  /\ h # g
  /\ \A e \in Needs(h) : ~Free(h, e)
  /\ \E e \in Needs(h) : locker[e] = g

\* PostgreSQL aborts a request that closes a circle of waiting requests.
DeadlockAbort(h) ==
  /\ \E S \in SUBSET Handlers :
       /\ h \in S
       /\ \A g \in S : /\ \E k \in S : WaitsFor(g, k)
                       /\ \E k \in S : WaitsFor(k, g)
  /\ Fails(h)

Terminal == {"superseded", "rolled_back", "failed"}

\* _reconcile_stale_nginx_configs reads the terminal deploys ...
SweepRead ==
  /\ sweep = {}
  /\ sweep' = {d \in conf : status[d] \in Terminal}
  /\ UNCHANGED <<rows, locker, req, ct, files, clock, past>>

\* ... and removes their files.
SweepRemove ==
  /\ sweep # {}
  /\ conf'  = conf \ sweep
  /\ sweep' = {}
  /\ UNCHANGED <<rows, locker, req, ct, prod, clock, past>>

Step(h) ==
  \/ StopReadProd(h) \/ StopContainer(h) \/ StopUnregister(h)
  \/ StopUnregisterProduction(h) \/ StopWrite(h)
  \/ CountRunning(h) \/ LockRunning(h) \/ CheckLimit(h)
  \/ StartContainer(h) \/ StartRegister(h) \/ StartWrite(h)
  \/ PromoteLock(h) \/ PromoteReject(h) \/ PromoteNotProduction(h)
  \/ MarkSuperseded(h) \/ LockActive(h) \/ PromoteWrite(h)
  \/ PromoteRegister(h) \/ PromoteCommit(h)
  \/ RollbackLock(h) \/ RollbackReject(h) \/ FindPrevious(h)
  \/ LockPrevious(h) \/ RollbackWrite(h) \/ RollbackRegister(h)
  \/ RollbackCommit(h)
  \/ TeardownChecks(h) \/ TeardownDestroys(h) \/ TeardownUnregister(h)
  \/ TeardownUnregisterProduction(h) \/ DestroyWrite(h)
  \/ ContainerRefused(h) \/ DeadlockAbort(h)

Begin(h, d) ==
  StopRead(h, d) \/ StartRead(h, d) \/ PromoteCall(h, d) \/ RollbackCall(h, d)
    \/ DestroyRead(h, d)

Sweep == SweepRead \/ SweepRemove

Next ==
  \/ \E h \in Handlers : Step(h) \/ Fails(h) \/ \E d \in Deploys : Begin(h, d)
  \/ Sweep

Spec == Init /\ [][Next]_vars

\* The event loop runs every request on.  Users and the reconciler owe nothing;
\* since the requests are bounded, a lock that is waited for stays free in the
\* end and no stronger fairness is needed.
FairSpec == Spec /\ \A h \in Handlers : WF_vars(Step(h))

-----------------------------------------------------------------------------
(***************************************************************************)
(* Properties                                                              *)
(***************************************************************************)

TypeOK ==
  /\ status    \in [Deploys -> DEPLOY_STATES]
  /\ promoted  \in [Deploys -> 1..(MaxDeploys + MaxRequests)]
  /\ locker    \in [Deploys -> Handlers \cup {Nobody}]
  /\ req       \in [Handlers ->
                     [pc : PCs, d : Deploys \cup {0}, flag : BOOLEAN,
                      wanted : SUBSET Deploys, matched : SUBSET Deploys,
                      order : [Deploys -> 0..(MaxDeploys + MaxRequests)], at : 0..(MaxDeploys + MaxRequests)]]
  /\ ct        \in [Deploys -> {"running", "stopped", "gone"}]
  /\ conf      \subseteq Deploys
  /\ prod      \in Deploys \cup {0}
  /\ sweep     \subseteq Deploys
  /\ clock     \in 1..(MaxDeploys + MaxRequests)
  /\ requests  \in 0..MaxRequests
  /\ disturbed \in BOOLEAN

\* What promote and rollback have validated under their locks still holds
\* when they commit, whatever the requests that take no lock do meanwhile: the
\* deploy may still be promoted or rolled back, the deploy that is restored is
\* still superseded or stopped, and those that are superseded still active.
Validated ==
  \A h \in Handlers :
    LET r == req[h] IN
    /\ r.pc \in {"promote_prod", "supersede", "supersede_lock", "promote_route",
                 "promote_commit"} =>
         /\ locker[r.d] = h /\ status[r.d] \in {"active", "superseded"}
         /\ \A e \in r.matched : locker[e] = h /\ status[e] = "active"
    /\ r.pc \in {"previous", "previous_lock", "rollback_route",
                 "rollback_commit"} =>
         /\ locker[r.d] = h /\ status[r.d] = "active"
         /\ \A e \in r.matched : locker[e] = h /\ status[e] \in Restorable

\* One request after the other and none failing, an Nginx file of a deploy
\* leads to a running container whenever no request is under way.
RoutedIsRunning ==
  (~disturbed /\ \A h \in Handlers : At(h, "idle")) =>
    \A d \in conf : ct[d] = "running"

RunningContainers == {d \in Deploys : ct[d] = "running"}

\* One request after the other and none failing, no more than MaxRunning
\* containers of the project run, although start counts rows by their status
\* and rollback makes a stopped deploy active without starting its container.
SerialLimit == ~disturbed => Cardinality(RunningContainers) <= MaxRunning

\* Every request ends, although promote, rollback and start lock rows in
\* different orders.
RequestsEnd == \A h \in Handlers : ~At(h, "idle") ~> At(h, "idle")
=============================================================================
