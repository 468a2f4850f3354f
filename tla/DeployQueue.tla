----------------------------- MODULE DeployQueue -----------------------------
(***************************************************************************)
(* The deploy queue of one environment and the transactions that change    *)
(* it: enqueue_deploy (behind create_deploy), transition_deploy with       *)
(* mark_superseded and _try_promote_next, and the reconciler's sweep of    *)
(* stuck deploys.                                                          *)
(*                                                                         *)
(* Each database statement of a transaction is a step, because the API     *)
(* awaits each one and another task may run in between.  The database is   *)
(* PostgreSQL at READ COMMITTED: a statement sees the rows committed when  *)
(* it starts and its own transaction's writes; SELECT ... FOR UPDATE waits *)
(* for the rows of that snapshot one by one, and looks again at the newest *)
(* version of each row it has waited for; row locks last until the         *)
(* transaction ends.                                                       *)
(*                                                                         *)
(* A deploy is a number: deploys are numbered by created_at.               *)
(*                                                                         *)
(* The sessions here are those of requests, which load a deploy when they  *)
(* lock it.  The executor's session has loaded its deploy long before: see *)
(* DeployExecutor.  What transition_deploy does outside the queue (the     *)
(* teardown of a rolled-back deploy, the report to GitHub, the audit log)  *)
(* can fail, and then rolls the transaction back.                          *)
(***************************************************************************)
EXTENDS DeployStates, Naturals, FiniteSets

CONSTANTS
  MaxDeploys,     \* bound on the deploys of the environment
  Tx,             \* sessions: requests and background tasks
  NoTx,           \* no session
  MaxConcurrent,  \* settings.deploy_max_concurrent
  QueueMaxSize,   \* settings.deploy_queue_max_size
  Requests,       \* the statuses that callers of transition_deploy ask for
  Reconciler      \* whether the reconciler runs

ASSUME SizesAssumption ==
  /\ MaxDeploys \in Nat
  /\ MaxConcurrent \in Nat
  /\ QueueMaxSize \in Nat
ASSUME SessionsAssumption == NoTx \notin Tx
ASSUME RequestsAssumption ==
  /\ Requests \subseteq DEPLOY_STATES
  /\ Reconciler \in BOOLEAN

VARIABLES
  status,    \* Deploy.status as committed; NoRow before the insert commits
  promoted,  \* Deploy.promoted_at is not null, as committed
  written,   \* written[t][d]: the status t has flushed for d, uncommitted
  locker,    \* the session that holds the row lock of a deploy
  pc,        \* the statement a session executes next
  self,      \* the deploy that a session was called for
  target,    \* the new_status argument
  wanted,    \* rows of the running SELECT ... FOR UPDATE still to be locked
  matched,   \* rows that this SELECT has returned
  picked     \* next_deploy of _try_promote_next, 0 for None

vars == <<status, promoted, written, locker,
          pc, self, target, wanted, matched, picked>>

Deploys   == 1..MaxDeploys
NoRow     == "no_row"
Unwritten == "unwritten"

PCs == {"idle", "lock", "guard", "supersede", "supersede_lock", "enqueue",
        "count", "pick", "recount", "recount_lock", "commit", "sweep"}

Init ==
  /\ status   = [d \in Deploys |-> NoRow]
  /\ promoted = [d \in Deploys |-> FALSE]
  /\ written  = [t \in Tx |-> [d \in Deploys |-> Unwritten]]
  /\ locker   = [d \in Deploys |-> NoTx]
  /\ pc       = [t \in Tx |-> "idle"]
  /\ self     = [t \in Tx |-> 0]
  /\ target   = [t \in Tx |-> "queued"]
  /\ wanted   = [t \in Tx |-> {}]
  /\ matched  = [t \in Tx |-> {}]
  /\ picked   = [t \in Tx |-> 0]

(***************************************************************************)
(* What a session sees                                                     *)
(***************************************************************************)

\* The row as a statement of t reads it.
View(t, d) == IF written[t][d] = Unwritten THEN status[d] ELSE written[t][d]

_count_queued(t) == Cardinality({d \in Deploys : View(t, d) = "queued"})

\* Faulty variant: a healthy deploy is not in progress.
InProgressButHealthy(t) ==
  {d \in Deploys : View(t, d) \in in_progress_states \ {"healthy"}}

InProgressSeenBy(t) == {d \in Deploys : View(t, d) \in in_progress_states}

Write(t, d, s) == written' = [written EXCEPT ![t][d] = s]
Goto(t, l)     == pc' = [pc EXCEPT ![t] = l]
Lock(t, d)     == locker' = [locker EXCEPT ![d] = t]

Free(t, d) == locker[d] \in {NoTx, t}

\* End of a transaction: its locks are released, its writes forgotten.
EndOfTx(t) ==
  /\ written' = [written EXCEPT ![t] = [d \in Deploys |-> Unwritten]]
  /\ locker'  = [d \in Deploys |-> IF locker[d] = t THEN NoTx ELSE locker[d]]
  /\ pc'      = [pc EXCEPT ![t] = "idle"]
  /\ self'    = [self EXCEPT ![t] = 0]
  /\ target'  = [target EXCEPT ![t] = "queued"]
  /\ wanted'  = [wanted EXCEPT ![t] = {}]
  /\ matched' = [matched EXCEPT ![t] = {}]
  /\ picked'  = [picked EXCEPT ![t] = 0]

(***************************************************************************)
(* transition_deploy                                                       *)
(***************************************************************************)

\* PATCH /deploys/{id}/status asks for a new status.
CallTransition(t) ==
  /\ pc[t] = "idle"
  /\ \E d \in Deploys, s \in Requests :
       /\ status[d] # NoRow
       /\ self'   = [self EXCEPT ![t] = d]
       /\ target' = [target EXCEPT ![t] = s]
  /\ Goto(t, "lock")
  /\ UNCHANGED <<status, promoted, written, locker, wanted, matched, picked>>

\* Faulty variant: a plain SELECT, which neither waits nor locks.
ReadRow(t) ==
  /\ pc[t] = "lock"
  /\ CanTransitionTo(status[self[t]], target[t])
  /\ IF target[t] = "active"
       THEN Goto(t, "guard") /\ UNCHANGED written
       ELSE /\ Write(t, self[t], target[t])
            /\ Goto(t, IF target[t] \in SlotFreeing THEN "count" ELSE "commit")
  /\ UNCHANGED <<status, promoted, locker, self, target,
                 wanted, matched, picked>>

\* SELECT ... FOR UPDATE of the deploy returned a row from which the new
\* status may be entered.  A status other than active is written at once.
LockRow(t) ==
  /\ pc[t] = "lock"
  /\ locker[self[t]] = NoTx
  /\ CanTransitionTo(status[self[t]], target[t])
  /\ Lock(t, self[t])
  /\ IF target[t] = "active"
       THEN Goto(t, "guard") /\ UNCHANGED written
       ELSE /\ Write(t, self[t], target[t])
            /\ Goto(t, IF target[t] \in SlotFreeing THEN "count" ELSE "commit")
  /\ UNCHANGED <<status, promoted, self, target, wanted, matched, picked>>

\* Faulty variant: the rejected request ends without a rollback and keeps its
\* row lock.
RejectLeaksLock(t) ==
  /\ pc[t] = "lock"
  /\ locker[self[t]] = NoTx
  /\ ~CanTransitionTo(status[self[t]], target[t])
  /\ Lock(t, self[t])
  /\ Goto(t, "idle")
  /\ UNCHANGED <<status, promoted, written, self, target,
                 wanted, matched, picked>>

\* ... from which it may not: ValueError, and the request rolls back.
RejectTransition(t) ==
  /\ pc[t] = "lock"
  /\ locker[self[t]] = NoTx
  /\ ~CanTransitionTo(status[self[t]], target[t])
  /\ EndOfTx(t)
  /\ UNCHANGED <<status, promoted>>

\* Faulty variant: the comparison of the creation times is the wrong way.
OlderActive(t) ==
  \E e \in Deploys : e < self[t] /\ View(t, e) = "active" /\ promoted[e]

\* A newer deploy that t can see is active and promoted.
NewerActive(t) ==
  \E e \in Deploys : e > self[t] /\ View(t, e) = "active" /\ promoted[e]

\* Faulty variant: the previous active deploy is not superseded.
GuardOnly(t) ==
  /\ pc[t] = "guard"
  /\ Write(t, self[t], IF NewerActive(t) THEN "superseded" ELSE "active")
  /\ Goto(t, "count")
  /\ UNCHANGED <<status, promoted, locker, self, target,
                 wanted, matched, picked>>

\* The newest-deploy guard: the loser of the promotion race is superseded.
NewestGuard(t) ==
  /\ pc[t] = "guard"
  /\ IF NewerActive(t)
       THEN Write(t, self[t], "superseded") /\ Goto(t, "count")
       ELSE Write(t, self[t], "active")     /\ Goto(t, "supersede")
  /\ UNCHANGED <<status, promoted, locker, self, target,
                 wanted, matched, picked>>

(***************************************************************************)
(* mark_superseded: SELECT ... FOR UPDATE of the other active deploys, in  *)
(* its snapshot, its waits, and what is done with the result.              *)
(***************************************************************************)

mark_superseded(t) ==
  /\ pc[t] = "supersede"
  /\ wanted' = [wanted EXCEPT ![t] =
                  {e \in Deploys \ {self[t]} : View(t, e) = "active"}]
  /\ Goto(t, "supersede_lock")
  /\ UNCHANGED <<status, promoted, written, locker, self, target,
                 matched, picked>>

\* One row of a waiting SELECT: locked once it is free, and returned if its
\* newest version still satisfies the WHERE clause.
LockNext(t, at, states) ==
  /\ pc[t] = at
  /\ \E e \in wanted[t] :
       /\ Free(t, e)
       /\ Lock(t, e)
       /\ wanted'  = [wanted EXCEPT ![t] = @ \ {e}]
       /\ matched' = [matched EXCEPT ![t] =
                        IF View(t, e) \in states THEN @ \cup {e} ELSE @]
  /\ UNCHANGED <<status, promoted, written, pc, self, target, picked>>

LockActive(t) == LockNext(t, "supersede_lock", {"active"})

WriteSuperseded(t) ==
  /\ pc[t] = "supersede_lock"
  /\ wanted[t] = {}
  /\ written' = [written EXCEPT ![t] =
                   [d \in Deploys |-> IF d \in matched[t] THEN "superseded"
                                      ELSE written[t][d]]]
  /\ matched' = [matched EXCEPT ![t] = {}]
  /\ Goto(t, "count")
  /\ UNCHANGED <<status, promoted, locker, self, target, wanted, picked>>

(***************************************************************************)
(* enqueue_deploy                                                          *)
(***************************************************************************)

\* The next creation time: every later number is unused too.
Unused(d) == \A e \in d..MaxDeploys : status[e] = NoRow /\ locker[e] = NoTx

\* create_deploy inserts the row and calls enqueue_deploy.  So does
\* trigger_deploy, which first counts the running deploys of the project under
\* FOR UPDATE: that part of it is not here (its like is DeployControl's
\* _check_container_limit).
InsertDeploy(t) ==
  /\ pc[t] = "idle"
  /\ \E d \in Deploys :
       /\ Unused(d)
       /\ \A e \in 1..(d - 1) : ~Unused(e)
       /\ Write(t, d, "queued")
       /\ Lock(t, d)
       /\ self' = [self EXCEPT ![t] = d]
  /\ Goto(t, "enqueue")
  /\ UNCHANGED <<status, promoted, target, wanted, matched, picked>>

\* Faulty variant: a full queue is reported with a status of its own.
EnqueueRejects(t) ==
  /\ pc[t] = "enqueue"
  /\ IF _count_queued(t) >= QueueMaxSize
       THEN Write(t, self[t], "rejected") /\ Goto(t, "commit")
       ELSE Write(t, self[t], "queued")   /\ Goto(t, "count")
  /\ UNCHANGED <<status, promoted, locker, self, target,
                 wanted, matched, picked>>

\* The new row is among those counted.
enqueue_deploy(t) ==
  /\ pc[t] = "enqueue"
  /\ IF _count_queued(t) >= QueueMaxSize
       THEN Write(t, self[t], "failed") /\ Goto(t, "commit")
       ELSE Write(t, self[t], "queued") /\ Goto(t, "count")
  /\ UNCHANGED <<status, promoted, locker, self, target,
                 wanted, matched, picked>>

(***************************************************************************)
(* _try_promote_next, behind enqueue_deploy and on_deploy_completed        *)
(***************************************************************************)

\* Faulty variant: the counts see the committed rows only (autoflush off).
CountsCommitted(t) ==
  /\ pc[t] = "count"
  /\ Goto(t, IF Cardinality({d \in Deploys : status[d] \in in_progress_states})
                  >= MaxConcurrent THEN "commit" ELSE "pick")
  /\ UNCHANGED <<status, promoted, written, locker, self, target,
                 wanted, matched, picked>>

FirstCount(t) ==
  /\ pc[t] = "count"
  /\ Goto(t, IF Cardinality(InProgressSeenBy(t)) >= MaxConcurrent
               THEN "commit" ELSE "pick")
  /\ UNCHANGED <<status, promoted, written, locker, self, target,
                 wanted, matched, picked>>

\* The queued rows that FOR UPDATE SKIP LOCKED does not pass over.
Pickable(t) == {d \in Deploys : View(t, d) = "queued" /\ Free(t, d)}

\* Faulty variant: the newest first.
Newest(S, d) == d \in S /\ \A e \in S : d >= e

Oldest(S, d) == d \in S /\ \A e \in S : d <= e

\* Faulty variant: the queued deploy is read without a lock.
PickUnlocked(t) ==
  /\ pc[t] = "pick"
  /\ \/ /\ Pickable(t) = {}
        /\ Goto(t, "commit")
        /\ UNCHANGED picked
     \/ \E d \in Deploys :
          /\ Oldest(Pickable(t), d)
          /\ picked' = [picked EXCEPT ![t] = d]
          /\ Goto(t, "recount")
  /\ UNCHANGED <<status, promoted, written, locker, self, target,
                 wanted, matched>>

PickNext(t) ==
  /\ pc[t] = "pick"
  /\ \/ /\ Pickable(t) = {}
        /\ Goto(t, "commit")
        /\ UNCHANGED <<locker, picked>>
     \/ \E d \in Deploys :
          /\ Oldest(Pickable(t), d)
          /\ Lock(t, d)
          /\ picked' = [picked EXCEPT ![t] = d]
          /\ Goto(t, "recount")
  /\ UNCHANGED <<status, promoted, written, self, target, wanted, matched>>

\* _count_in_progress(lock=True): the snapshot of the second count.
Recount(t) ==
  /\ pc[t] = "recount"
  /\ wanted' = [wanted EXCEPT ![t] = InProgressSeenBy(t)]
  /\ Goto(t, "recount_lock")
  /\ UNCHANGED <<status, promoted, written, locker, self, target,
                 matched, picked>>

LockInProgress(t) == LockNext(t, "recount_lock", in_progress_states)

\* queued -> building, if the locked rows leave room.
PromoteNext(t) ==
  /\ pc[t] = "recount_lock"
  /\ wanted[t] = {}
  /\ IF Cardinality(matched[t]) >= MaxConcurrent
       THEN UNCHANGED written
       ELSE Write(t, picked[t], "building")
  /\ matched' = [matched EXCEPT ![t] = {}]
  /\ Goto(t, "commit")
  /\ UNCHANGED <<status, promoted, locker, self, target, wanted, picked>>

(***************************************************************************)
(* _reconcile_stuck_deploys: fails the in-progress deploys created before  *)
(* the cutoff whose rows are not locked.  It promotes nothing.             *)
(***************************************************************************)

ReconcileStuck(t) ==
  /\ Reconciler
  /\ pc[t] = "idle"
  /\ \A u \in Tx : pc[u] # "sweep"
  /\ \E cutoff \in Deploys :
       LET stuck == {d \in 1..cutoff : /\ status[d] \in in_progress_states
                                       /\ locker[d] = NoTx}
       IN  /\ stuck # {}
           /\ written' = [written EXCEPT ![t] =
                            [d \in Deploys |-> IF d \in stuck THEN "failed"
                                               ELSE Unwritten]]
           /\ locker'  = [d \in Deploys |-> IF d \in stuck THEN t
                                            ELSE locker[d]]
  /\ Goto(t, "sweep")
  /\ UNCHANGED <<status, promoted, self, target, wanted, matched, picked>>

(***************************************************************************)
(* The end of a transaction                                                *)
(***************************************************************************)

\* promoted_at is assigned with the status active.
Commit(t) ==
  /\ pc[t] \in {"commit", "sweep"}
  /\ status'   = [d \in Deploys |-> View(t, d)]
  /\ promoted' = [d \in Deploys |-> promoted[d] \/ written[t][d] = "active"]
  /\ EndOfTx(t)

\* An exception (a failed call to GitHub, a cancelled request, a restart of
\* the API) rolls the session back.
Rollback(t) ==
  /\ pc[t] # "idle"
  /\ EndOfTx(t)
  /\ UNCHANGED <<status, promoted>>

\* The rows a session is waiting for, and for whom it waits.
Needs(t) == IF pc[t] = "lock" THEN {self[t]}
            ELSE IF pc[t] \in {"supersede_lock", "recount_lock"} THEN wanted[t]
            ELSE {}

WaitsFor(t, u) ==
  /\ t # u
  /\ \A e \in Needs(t) : ~Free(t, e)
  /\ \E e \in Needs(t) : locker[e] = u

\* Sessions that wait for each other in a circle.
Deadlocked(t) ==
  \E S \in SUBSET Tx :
    /\ t \in S
    /\ \A u \in S : /\ \E v \in S : WaitsFor(u, v)
                    /\ \E v \in S : WaitsFor(v, u)

\* PostgreSQL aborts a session that closes such a circle.
DeadlockAbort(t) ==
  /\ Deadlocked(t)
  /\ EndOfTx(t)
  /\ UNCHANGED <<status, promoted>>

Step(t) ==
  \/ LockRow(t) \/ RejectTransition(t) \/ NewestGuard(t)
  \/ mark_superseded(t) \/ LockActive(t) \/ WriteSuperseded(t)
  \/ enqueue_deploy(t)
  \/ FirstCount(t) \/ PickNext(t) \/ Recount(t)
  \/ LockInProgress(t) \/ PromoteNext(t)
  \/ Commit(t) \/ DeadlockAbort(t)

Call(t) == CallTransition(t) \/ InsertDeploy(t) \/ ReconcileStuck(t)

Next == \E t \in Tx : Call(t) \/ Step(t) \/ Rollback(t)

Spec == Init /\ [][Next]_vars

(***************************************************************************)
(* Fairness.  A session runs on until its transaction ends: the event loop *)
(* resumes a task whose statement has returned, and PostgreSQL serves the  *)
(* waiters of a row lock in order, so a wait that is over again and again  *)
(* ends.  Nothing obliges a client to call.                                *)
(***************************************************************************)
FairSpec == Spec /\ \A t \in Tx : SF_vars(Step(t))

-----------------------------------------------------------------------------
(***************************************************************************)
(* Properties                                                              *)
(***************************************************************************)

TypeOK ==
  /\ status   \in [Deploys -> DEPLOY_STATES \cup {NoRow}]
  /\ promoted \in [Deploys -> BOOLEAN]
  /\ written  \in [Tx -> [Deploys -> DEPLOY_STATES \cup {Unwritten}]]
  /\ locker   \in [Deploys -> Tx \cup {NoTx}]
  /\ pc       \in [Tx -> PCs]
  /\ self     \in [Tx -> Deploys \cup {0}]
  /\ target   \in [Tx -> DEPLOY_STATES]
  /\ wanted   \in [Tx -> SUBSET Deploys]
  /\ matched  \in [Tx -> SUBSET Deploys]
  /\ picked   \in [Tx -> Deploys \cup {0}]

InProgress == {d \in Deploys : status[d] \in in_progress_states}
Active     == {d \in Deploys : status[d] = "active"}

\* A status change that the state machine allows, or one of the two that the
\* services make besides it: the row of a new deploy, and the loser of the
\* promotion race, which goes to superseded from any state that could have
\* become active.
Allowed(s, new) ==
  \/ s = new
  \/ s = NoRow /\ new \in {"queued", "building", "failed"}
  \/ s # NoRow /\ CanTransitionTo(s, new)
  \/ s # NoRow /\ CanTransitionTo(s, "active") /\ new = "superseded"

\* Whatever the interleaving of requests and the reconciler, no committed change leaves the state machine:
\* the row lock of transition_deploy, the SKIP LOCKED of the promoter and of
\* the reconciler, and the re-check of rows that mark_superseded waited for
\* are together enough to validate each change against the row it replaces.
LegalTransitions ==
  [][\A d \in Deploys : Allowed(status[d], status'[d])]_vars

\* A session holds the row lock of every deploy it has written.
WritesAreLocked ==
  \A t \in Tx, d \in Deploys : written[t][d] # Unwritten => locker[d] = t

\* An uncommitted status is one that the committed row may still change to.
PendingIsLegal ==
  \A t \in Tx, d \in Deploys :
    written[t][d] # Unwritten => Allowed(status[d], written[t][d])

\* Before its commit, a session has written queued only for a row it inserts.
QueuedIsNew ==
  \A t \in Tx, d \in Deploys :
    written[t][d] = "queued" /\ pc[t] # "commit" => status[d] = NoRow

\* What a session has locked and found at each statement still holds when it
\* goes on: the row transition_deploy validated, the row enqueue_deploy
\* inserted, the active rows mark_superseded returned, the queued row
\* _try_promote_next picked.
CalledForRow(t) ==
  pc[t] = "lock" => self[t] \in Deploys /\ status[self[t]] # NoRow
ValidatedRow(t) ==
  pc[t] = "guard" => /\ self[t] \in Deploys
                     /\ locker[self[t]] = t
                     /\ status[self[t]] # NoRow
                     /\ CanTransitionTo(status[self[t]], "active")
InsertedRow(t) ==
  pc[t] = "enqueue" => /\ self[t] \in Deploys
                       /\ locker[self[t]] = t
                       /\ status[self[t]] = NoRow
MatchedRows(t) ==
  /\ pc[t] \notin {"supersede_lock", "recount_lock"} => matched[t] = {}
  /\ pc[t] = "supersede_lock" =>
       \A e \in matched[t] : locker[e] = t /\ View(t, e) = "active"
PickedRow(t) ==
  pc[t] \in {"recount", "recount_lock"} =>
    /\ picked[t] \in Deploys
    /\ locker[picked[t]] = t
    /\ View(t, picked[t]) = "queued"
    /\ status[picked[t]] \in {"queued", NoRow}

\* Two sessions never hold uncommitted statuses of the same deploy, and what
\* a session relies on when it writes is what the row says when it commits,
\* although reads, locks, writes and commit are separate statements.
LockDiscipline ==
  /\ WritesAreLocked
  /\ PendingIsLegal
  /\ QueuedIsNew
  /\ \A t \in Tx : /\ CalledForRow(t) /\ ValidatedRow(t) /\ InsertedRow(t)
                   /\ MatchedRows(t)  /\ PickedRow(t)

\* A deploy that is active has a promotion time.  NewestGuard overlooks an
\* active deploy without one.
ActiveHasPromotedAt == \A d \in Active : promoted[d]

\* The queue hands a slot to each queued deploy once: a session that will
\* promote a deploy holds a row that is still queued when it commits.
PickedStaysQueued ==
  \A t \in Tx : pc[t] \in {"recount", "recount_lock"} =>
    View(t, picked[t]) = "queued" /\ locker[picked[t]] = t

\* Every transaction ends, although sessions lock rows in different orders.
TransactionsEnd == \A t \in Tx : pc[t] # "idle" ~> pc[t] = "idle"

\* transition_deploy leaves one active deploy in the environment.
AtMostOneActive == Cardinality(Active) <= 1

\* transition_deploy never lets an older deploy take over from a newer one.
NewerIsNotDisplaced ==
  [][\A old, new \in Deploys :
       (old < new /\ new \in Active /\ old \notin Active) =>
         ~(status'[old] = "active" /\ status'[new] = "superseded")]_vars

\* The deploy that t's commit takes out of the queue.
Promotes(t) ==
  /\ picked[t] # 0
  /\ status[picked[t]] # "building"
  /\ status'[picked[t]] = "building"

\* _try_promote_next promotes only into a free slot.
PromotesIntoFreeSlot ==
  [][\A t \in Tx : Promotes(t) => Cardinality(InProgress') <= MaxConcurrent]_vars

\* _try_promote_next promotes the oldest queued deploy.
PromotesInOrder ==
  [][\A t \in Tx : Promotes(t) =>
       \A d \in 1..(picked[t] - 1) : status'[d] # "queued"]_vars

\* t has written a status that takes a deploy out of the states in progress.
FreesASlot(t) ==
  \E d \in Deploys : /\ status[d] \in in_progress_states
                     /\ written[t][d] \notin in_progress_states \cup {Unwritten}

\* The commit of a request that frees a slot hands it on: it promotes a queued
\* deploy too, unless none is queued or the limit is still reached.  The sweep of
\* the reconciler, which calls nobody, is no such request.
FreedSlotIsFilled ==
  \A t \in Tx : pc[t] = "commit" /\ FreesASlot(t) =>
    \/ picked[t] # 0 /\ View(t, picked[t]) = "building"
    \/ \A d \in Deploys : View(t, d) # "queued"
    \/ Cardinality(InProgressSeenBy(t)) >= MaxConcurrent
=============================================================================
