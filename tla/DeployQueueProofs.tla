-------------------------- MODULE DeployQueueProofs --------------------------
(***************************************************************************)
(* Proofs about DeployQueue, for any number of deploys, sessions, slots    *)
(* and any queue size.                                                     *)
(***************************************************************************)
EXTENDS DeployQueue, FiniteSetTheorems, TLAPS

(***************************************************************************)
(* The state machine                                                       *)
(***************************************************************************)

\* The entries of DEPLOY_TRANSITIONS that the queue and the reconciler use
\* without asking can_transition_to.
LEMMA UncheckedTransitions ==
  /\ CanTransitionTo("queued", "building")
  /\ CanTransitionTo("active", "superseded")
  /\ \A s \in in_progress_states : CanTransitionTo(s, "failed")
<1>1. CanTransitionTo("queued", "building")
  BY DEF CanTransitionTo, DEPLOY_TRANSITIONS
<1>2. CanTransitionTo("active", "superseded")
  BY DEF CanTransitionTo, DEPLOY_TRANSITIONS
<1>3. /\ CanTransitionTo("building", "failed")
      /\ CanTransitionTo("artifact_ready", "failed")
      /\ CanTransitionTo("provisioning", "failed")
      /\ CanTransitionTo("healthy", "failed")
  BY DEF CanTransitionTo, DEPLOY_TRANSITIONS
<1> QED
  BY <1>1, <1>2, <1>3 DEF in_progress_states

(***************************************************************************)
(* Type correctness                                                        *)
(***************************************************************************)

\* Whoever reads a row sees a status, or no row.
LEMMA ViewType ==
  ASSUME TypeOK, NEW t \in Tx, NEW d \in Deploys
  PROVE  View(t, d) \in DEPLOY_STATES \cup {NoRow}
  BY DEF TypeOK, View

\* So do the assignments that the steps are made of.
LEMMA WriteType ==
  ASSUME TypeOK, NEW t \in Tx, NEW d, NEW s \in DEPLOY_STATES, Write(t, d, s)
  PROVE  written' \in [Tx -> [Deploys -> DEPLOY_STATES \cup {Unwritten}]]
<1>1. [written[t] EXCEPT ![d] = s] \in [Deploys -> DEPLOY_STATES \cup {Unwritten}]
  BY DEF TypeOK
<1>2. written' = [written EXCEPT ![t] = [written[t] EXCEPT ![d] = s]]
  BY DEF Write, TypeOK
<1> QED
  BY <1>1, <1>2 DEF TypeOK

\* A session goes on to a statement of its own.
LEMMA GotoType ==
  ASSUME TypeOK, NEW t \in Tx, NEW l \in PCs, Goto(t, l)
  PROVE  pc' \in [Tx -> PCs]
  BY DEF Goto, TypeOK

\* A row is locked by a session.
LEMMA LockType ==
  ASSUME TypeOK, NEW t \in Tx, NEW d, Lock(t, d)
  PROVE  locker' \in [Deploys -> Tx \cup {NoTx}]
  BY DEF Lock, TypeOK

\* The end of a transaction keeps the types of what it resets.
LEMMA EndOfTxType ==
  ASSUME TypeOK, NEW t \in Tx, EndOfTx(t),
         status' \in [Deploys -> DEPLOY_STATES \cup {NoRow}],
         promoted' \in [Deploys -> BOOLEAN]
  PROVE  TypeOK'
<1>1. "idle" \in PCs /\ "queued" \in DEPLOY_STATES
  BY DEF PCs, DEPLOY_STATES
<1>2. /\ written' \in [Tx -> [Deploys -> DEPLOY_STATES \cup {Unwritten}]]
      /\ locker' \in [Deploys -> Tx \cup {NoTx}]
  BY DEF TypeOK, EndOfTx
<1>3. /\ pc' \in [Tx -> PCs]
      /\ self' \in [Tx -> Deploys \cup {0}]
      /\ target' \in [Tx -> DEPLOY_STATES]
      /\ picked' \in [Tx -> Deploys \cup {0}]
  BY <1>1 DEF TypeOK, EndOfTx
<1>4. /\ wanted' \in [Tx -> SUBSET Deploys]
      /\ matched' \in [Tx -> SUBSET Deploys]
  BY DEF TypeOK, EndOfTx
<1> QED
  BY <1>2, <1>3, <1>4 DEF TypeOK

\* Every step keeps the types.
LEMMA TypeStep ==
  ASSUME TypeOK, [Next]_vars
  PROVE  TypeOK'
<1> USE DEF PCs
<1>1. CASE UNCHANGED vars
  BY <1>1 DEF TypeOK, vars
<1>2. ASSUME NEW t \in Tx, Call(t) \/ Step(t) \/ Rollback(t)
      PROVE  TypeOK'
  <2>s. {"queued", "failed", "active", "superseded", "building"} \subseteq DEPLOY_STATES
    BY DEF DEPLOY_STATES
  <2>1. CASE CallTransition(t)
    BY <2>1, RequestsAssumption DEF CallTransition, Goto, TypeOK
  <2>2. CASE InsertDeploy(t)
    BY <2>2, <2>s DEF InsertDeploy, Write, Lock, Goto, TypeOK
  <2>3. CASE ReconcileStuck(t)
    <3>1. /\ written' \in [Tx -> [Deploys -> DEPLOY_STATES \cup {Unwritten}]]
          /\ locker' \in [Deploys -> Tx \cup {NoTx}]
      BY <2>3, <2>s DEF ReconcileStuck, TypeOK
    <3> QED
      BY <2>3, <3>1 DEF ReconcileStuck, Goto, TypeOK
  <2>4. CASE LockRow(t)
    <3>1. target[t] \in DEPLOY_STATES
      BY DEF TypeOK
    <3>2. written' \in [Tx -> [Deploys -> DEPLOY_STATES \cup {Unwritten}]]
      BY <2>4, <3>1, WriteType DEF LockRow, TypeOK
    <3>3. pc' \in [Tx -> PCs]
      BY <2>4, GotoType DEF LockRow
    <3>4. locker' \in [Deploys -> Tx \cup {NoTx}]
      BY <2>4, LockType DEF LockRow
    <3> QED
      BY <2>4, <3>2, <3>3, <3>4 DEF LockRow, TypeOK
  <2>5. CASE RejectTransition(t)
    BY <2>5, EndOfTxType DEF RejectTransition, TypeOK
  <2>6. CASE NewestGuard(t)
    <3>1. written' \in [Tx -> [Deploys -> DEPLOY_STATES \cup {Unwritten}]]
      BY <2>6, <2>s, WriteType DEF NewestGuard, TypeOK
    <3>2. pc' \in [Tx -> PCs]
      BY <2>6, GotoType DEF NewestGuard
    <3> QED
      BY <2>6, <3>1, <3>2 DEF NewestGuard, TypeOK
  <2>7. CASE mark_superseded(t)
    BY <2>7 DEF mark_superseded, Goto, TypeOK
  <2>8. ASSUME NEW at, NEW states, LockNext(t, at, states)
        PROVE  TypeOK'
    BY <2>8 DEF LockNext, Lock, TypeOK
  <2>9. CASE WriteSuperseded(t)
    BY <2>9, <2>s DEF WriteSuperseded, Goto, TypeOK
  <2>10. CASE enqueue_deploy(t)
    <3>1. written' \in [Tx -> [Deploys -> DEPLOY_STATES \cup {Unwritten}]]
      BY <2>10, <2>s, WriteType DEF enqueue_deploy, TypeOK
    <3>2. pc' \in [Tx -> PCs]
      BY <2>10, GotoType DEF enqueue_deploy
    <3> QED
      BY <2>10, <3>1, <3>2 DEF enqueue_deploy, TypeOK
  <2>11. CASE FirstCount(t)
    BY <2>11 DEF FirstCount, Goto, TypeOK
  <2>12. CASE PickNext(t)
    <3>1. locker' \in [Deploys -> Tx \cup {NoTx}]
      BY <2>12, LockType DEF PickNext, TypeOK
    <3>2. pc' \in [Tx -> PCs]
      BY <2>12, GotoType DEF PickNext
    <3>3. picked' \in [Tx -> Deploys \cup {0}]
      BY <2>12 DEF PickNext, TypeOK
    <3> QED
      BY <2>12, <3>1, <3>2, <3>3 DEF PickNext, TypeOK
  <2>13. CASE Recount(t)
    BY <2>13 DEF Recount, InProgressSeenBy, Goto, TypeOK
  <2>14. CASE PromoteNext(t)
    <3>1. written' \in [Tx -> [Deploys -> DEPLOY_STATES \cup {Unwritten}]]
      BY <2>14, <2>s, WriteType DEF PromoteNext, TypeOK
    <3>2. pc' \in [Tx -> PCs]
      BY <2>14, GotoType DEF PromoteNext
    <3> QED
      BY <2>14, <3>1, <3>2 DEF PromoteNext, TypeOK
  <2>15. CASE Commit(t)
    <3>1. status' \in [Deploys -> DEPLOY_STATES \cup {NoRow}]
      BY <2>15, ViewType DEF Commit
    <3>2. promoted' \in [Deploys -> BOOLEAN]
      BY <2>15 DEF Commit, TypeOK
    <3> QED
      BY <2>15, <3>1, <3>2, EndOfTxType DEF Commit
  <2>16. CASE Rollback(t) \/ DeadlockAbort(t)
    BY <2>16, EndOfTxType DEF Rollback, DeadlockAbort, TypeOK
  <2> QED
    BY <1>2, <2>1, <2>2, <2>3, <2>4, <2>5, <2>6, <2>7, <2>8, <2>9, <2>10,
       <2>11, <2>12, <2>13, <2>14, <2>15, <2>16
    DEF Call, Step, LockActive, LockInProgress
<1> QED
  BY <1>1, <1>2 DEF Next

\* Every variable keeps its type: no transition leaves the states of a deploy,
\* and every session stays within its own rows.
THEOREM TypeCorrect == Spec => []TypeOK
<1>1. Init => TypeOK
  BY DEF Init, TypeOK, PCs, DEPLOY_STATES
<1> QED
  BY <1>1, TypeStep, PTL DEF Spec

(***************************************************************************)
(* The lock discipline                                                     *)
(***************************************************************************)

\* LockDiscipline, session by session.
Disciplined(t) ==
  /\ \A d \in Deploys : written[t][d] # Unwritten =>
       locker[d] = t /\ Allowed(status[d], written[t][d])
  /\ \A d \in Deploys :
       written[t][d] = "queued" /\ pc[t] # "commit" => status[d] = NoRow
  /\ CalledForRow(t)
  /\ ValidatedRow(t)
  /\ InsertedRow(t)
  /\ MatchedRows(t)
  /\ PickedRow(t)

\* LockDiscipline says the same of every session.
LEMMA DisciplineBySession == LockDiscipline <=> \A t \in Tx : Disciplined(t)
  BY DEF LockDiscipline, WritesAreLocked, PendingIsLegal, QueuedIsNew, Disciplined

\* What a step of t leaves alone: the other sessions, and the rows that they
\* have locked; and no row disappears.
Frame(t) ==
  /\ \A u \in Tx \ {t} : /\ pc'[u] = pc[u]
                         /\ self'[u] = self[u]
                         /\ written'[u] = written[u]
                         /\ matched'[u] = matched[u]
                         /\ picked'[u] = picked[u]
  /\ \A d \in Deploys :
       locker[d] \notin {NoTx, t} => locker'[d] = locker[d] /\ status'[d] = status[d]
  /\ \A d \in Deploys : status[d] # NoRow => status'[d] # NoRow

\* The end of a transaction that does not commit.
LEMMA EndOfTxFrame ==
  ASSUME TypeOK, NEW t \in Tx, EndOfTx(t), UNCHANGED status
  PROVE  Frame(t)
  BY DEF EndOfTx, Frame, TypeOK

\* Every step of t leaves the other sessions and their rows alone.
LEMMA StepFrame ==
  ASSUME TypeOK, LockDiscipline, NEW t \in Tx, Call(t) \/ Step(t) \/ Rollback(t)
  PROVE  Frame(t)
<1>1. CASE CallTransition(t)
  BY <1>1 DEF CallTransition, Goto, Frame, TypeOK
<1>2. CASE InsertDeploy(t)
  BY <1>2 DEF InsertDeploy, Unused, Write, Lock, Goto, Frame, TypeOK, Deploys
<1>3. CASE ReconcileStuck(t)
  BY <1>3 DEF ReconcileStuck, Goto, Frame, TypeOK
<1>4. CASE LockRow(t)
  BY <1>4 DEF LockRow, Write, Lock, Goto, Frame, TypeOK
<1>5. CASE RejectTransition(t)
  BY <1>5, EndOfTxFrame DEF RejectTransition
<1>6. CASE NewestGuard(t)
  BY <1>6 DEF NewestGuard, Write, Goto, Frame, TypeOK
<1>7. CASE mark_superseded(t)
  BY <1>7 DEF mark_superseded, Goto, Frame, TypeOK
<1>8. ASSUME NEW at, NEW states, LockNext(t, at, states)
      PROVE  Frame(t)
  BY <1>8 DEF LockNext, Free, Lock, Frame, TypeOK
<1>9. CASE WriteSuperseded(t)
  BY <1>9 DEF WriteSuperseded, Goto, Frame, TypeOK
<1>10. CASE enqueue_deploy(t)
  BY <1>10 DEF enqueue_deploy, Write, Goto, Frame, TypeOK
<1>11. CASE FirstCount(t)
  BY <1>11 DEF FirstCount, Goto, Frame, TypeOK
<1>12. CASE PickNext(t)
  BY <1>12 DEF PickNext, Oldest, Pickable, Free, Lock, Goto, Frame, TypeOK
<1>13. CASE Recount(t)
  BY <1>13 DEF Recount, Goto, Frame, TypeOK
<1>14. CASE PromoteNext(t)
  BY <1>14 DEF PromoteNext, Write, Goto, Frame, TypeOK
<1>15. CASE Commit(t)
  <2>1. \A d \in Deploys : locker[d] # t => status'[d] = status[d]
    BY <1>15 DEF Commit, View, LockDiscipline, WritesAreLocked
  <2>2. NoRow \notin DEPLOY_STATES
    BY DEF NoRow, DEPLOY_STATES
  <2>3. \A d \in Deploys : status[d] # NoRow => status'[d] # NoRow
    BY <1>15, <2>2 DEF Commit, View, TypeOK
  <2> QED
    BY <1>15, <2>1, <2>3 DEF Commit, EndOfTx, Frame, TypeOK
<1>16. CASE Rollback(t) \/ DeadlockAbort(t)
  BY <1>16, EndOfTxFrame DEF Rollback, DeadlockAbort
<1> QED
  BY <1>1, <1>2, <1>3, <1>4, <1>5, <1>6, <1>7, <1>8, <1>9, <1>10, <1>11,
     <1>12, <1>13, <1>14, <1>15, <1>16
  DEF Call, Step, LockActive, LockInProgress

\* A session that another one's step leaves alone stays disciplined.
LEMMA OthersDisciplined ==
  ASSUME TypeOK, NEW t \in Tx, NEW u \in Tx \ {t}, Frame(t), Disciplined(u)
  PROVE  Disciplined(u)'
<1>1. \A d \in Deploys : locker[d] = u => locker'[d] = u /\ status'[d] = status[d]
  BY SessionsAssumption DEF Frame
<1>2. /\ pc'[u] = pc[u] /\ self'[u] = self[u] /\ written'[u] = written[u]
      /\ matched'[u] = matched[u] /\ picked'[u] = picked[u]
  BY DEF Frame
<1>3. \A d \in Deploys : written'[u][d] # Unwritten =>
        locker'[d] = u /\ Allowed(status'[d], written'[u][d])
  BY <1>1, <1>2 DEF Disciplined
<1>4. \A d \in Deploys :
        written'[u][d] = "queued" /\ pc'[u] # "commit" => status'[d] = NoRow
  BY <1>1, <1>2 DEF Disciplined, Unwritten
<1>5. CalledForRow(u)'
  BY <1>2 DEF Disciplined, CalledForRow, Frame
<1>6. ValidatedRow(u)' /\ InsertedRow(u)'
  BY <1>1, <1>2 DEF Disciplined, ValidatedRow, InsertedRow
<1>7. \A e \in Deploys : locker[e] = u => View(u, e)' = View(u, e)
  BY <1>1, <1>2 DEF View
<1>8. MatchedRows(u)'
  BY <1>1, <1>2, <1>7 DEF Disciplined, MatchedRows, TypeOK
<1>9. PickedRow(u)'
  BY <1>1, <1>2, <1>7 DEF Disciplined, PickedRow
<1> QED
  BY <1>3, <1>4, <1>5, <1>6, <1>8, <1>9 DEF Disciplined

\* A transaction that has ended relies on nothing.
LEMMA EndOfTxDisciplined ==
  ASSUME TypeOK, NEW t \in Tx, EndOfTx(t)
  PROVE  Disciplined(t)'
<1>1. /\ pc'[t] = "idle" /\ matched'[t] = {}
      /\ \A d \in Deploys : written'[t][d] = Unwritten
  BY DEF EndOfTx, TypeOK
<1> QED
  BY <1>1 DEF Disciplined, CalledForRow, ValidatedRow, InsertedRow, MatchedRows,
              PickedRow, Unwritten

\* A session that writes s for a row it has locked, where the state machine
\* allows it, and goes on to l stays disciplined about its writes.
LEMMA WriteDisciplined ==
  ASSUME TypeOK, NEW t \in Tx, NEW d \in Deploys, NEW s \in DEPLOY_STATES, NEW l,
         Disciplined(t), Write(t, d, s), UNCHANGED status, Goto(t, l),
         pc[t] # "commit",
         locker'[d] = t,
         \A e \in Deploys : locker[e] = t => locker'[e] = t,
         Allowed(status[d], s),
         s = "queued" => l = "commit" \/ status[d] = NoRow
  PROVE  /\ \A e \in Deploys : written'[t][e] # Unwritten =>
              locker'[e] = t /\ Allowed(status'[e], written'[t][e])
         /\ \A e \in Deploys :
              written'[t][e] = "queued" /\ pc'[t] # "commit" => status'[e] = NoRow
<1>1. written'[t][d] = s /\ \A e \in Deploys \ {d} : written'[t][e] = written[t][e]
  BY DEF Write, TypeOK
<1>2. pc'[t] = l
  BY DEF Goto, TypeOK
<1>3. \A e \in Deploys : written'[t][e] # Unwritten =>
        locker'[e] = t /\ Allowed(status'[e], written'[t][e])
  BY <1>1 DEF Disciplined
<1>4. \A e \in Deploys :
        written'[t][e] = "queued" /\ pc'[t] # "commit" => status'[e] = NoRow
  BY <1>1, <1>2 DEF Disciplined
<1> QED
  BY <1>3, <1>4

\* A session's own step keeps it disciplined.
LEMMA OwnDisciplined ==
  ASSUME TypeOK, TypeOK', LockDiscipline, NEW t \in Tx,
         Call(t) \/ Step(t) \/ Rollback(t)
  PROVE  Disciplined(t)'
<1>d. Disciplined(t)
  BY DisciplineBySession
<1>s. {"queued", "failed", "active", "superseded", "building"} \subseteq DEPLOY_STATES
  BY DEF DEPLOY_STATES
<1> DEFINE Waits == CalledForRow(t) /\ ValidatedRow(t) /\ InsertedRow(t)
                      /\ MatchedRows(t) /\ PickedRow(t)
           Writes == /\ \A d \in Deploys : written[t][d] # Unwritten =>
                          locker[d] = t /\ Allowed(status[d], written[t][d])
                     /\ \A d \in Deploys :
                          written[t][d] = "queued" /\ pc[t] # "commit" =>
                            status[d] = NoRow
<1>0. ASSUME Waits', Writes' PROVE Disciplined(t)'
  BY <1>0 DEF Disciplined
<1> USE DEF CalledForRow, ValidatedRow, InsertedRow, MatchedRows, PickedRow
<1>1. CASE CallTransition(t)
  BY <1>1, <1>d, <1>0 DEF CallTransition, Disciplined, Goto, TypeOK
<1>2. CASE InsertDeploy(t)
  <2>1. PICK d \in Deploys : /\ Unused(d)
                             /\ Write(t, d, "queued")
                             /\ Lock(t, d)
                             /\ self' = [self EXCEPT ![t] = d]
    BY <1>2 DEF InsertDeploy
  <2>2. status[d] = NoRow /\ locker[d] = NoTx
    BY <2>1, SizesAssumption DEF Unused, Deploys
  <2>3. locker'[d] = t /\ \A e \in Deploys : locker[e] = t => locker'[e] = t
    BY <2>1 DEF Lock, TypeOK
  <2>4. Allowed(status[d], "queued")
    BY <2>2 DEF Allowed
  <2>5. Writes'
    BY <1>2, <1>d, <1>s, <2>1, <2>2, <2>3, <2>4, WriteDisciplined DEF InsertDeploy
  <2>6. Waits'
    BY <1>2, <1>d, <2>1, <2>2, <2>3 DEF InsertDeploy, Disciplined, Goto, TypeOK
  <2> QED
    BY <1>0, <2>5, <2>6
<1>3. CASE ReconcileStuck(t)
  <2>1. PICK cutoff \in Deploys :
          LET stuck == {d \in 1..cutoff : /\ status[d] \in in_progress_states
                                          /\ locker[d] = NoTx}
          IN  /\ written' = [written EXCEPT ![t] =
                               [d \in Deploys |-> IF d \in stuck THEN "failed"
                                                  ELSE Unwritten]]
              /\ locker'  = [d \in Deploys |-> IF d \in stuck THEN t
                                               ELSE locker[d]]
    BY <1>3 DEF ReconcileStuck
  <2>2. NoRow \notin in_progress_states
    BY DEF NoRow, in_progress_states
  <2>3. \A d \in Deploys : written'[t][d] # Unwritten =>
          /\ written'[t][d] = "failed" /\ locker'[d] = t
          /\ status[d] \in in_progress_states
    BY <2>1 DEF TypeOK
  <2>4. Writes'
    BY <1>3, <2>2, <2>3, UncheckedTransitions DEF ReconcileStuck, Allowed, Unwritten
  <2>5. Waits'
    BY <1>3, <1>d DEF ReconcileStuck, Disciplined, Goto, TypeOK
  <2> QED
    BY <1>0, <2>4, <2>5
<1>4. CASE LockRow(t)
  <2>1. self[t] \in Deploys /\ status[self[t]] # NoRow /\ pc[t] = "lock"
    BY <1>4, <1>d DEF LockRow, Disciplined
  <2>2. locker'[self[t]] = t /\ \A e \in Deploys : locker[e] = t => locker'[e] = t
    BY <1>4, <2>1 DEF LockRow, Lock, TypeOK
  <2>3. CASE target[t] = "active"
    <3>1. pc'[t] = "guard" /\ UNCHANGED <<written, status, self, matched>>
      BY <1>4, <2>3 DEF LockRow, Goto, TypeOK
    <3>2. Writes'
      BY <1>d, <2>1, <2>2, <3>1 DEF Disciplined
    <3>3. Waits'
      BY <1>4, <1>d, <2>1, <2>2, <2>3, <3>1 DEF LockRow, Disciplined
    <3> QED
      BY <1>0, <3>2, <3>3
  <2>4. CASE target[t] # "active"
    <3> DEFINE l == IF target[t] \in SlotFreeing THEN "count" ELSE "commit"
    <3>1. /\ Write(t, self[t], target[t]) /\ Goto(t, l)
          /\ UNCHANGED <<status, self, matched, picked>>
      BY <1>4, <2>4 DEF LockRow
    <3>2. target[t] \in DEPLOY_STATES /\ Allowed(status[self[t]], target[t])
      BY <1>4, <2>1 DEF LockRow, Allowed, TypeOK
    <3>3. target[t] = "queued" => l = "commit"
      BY DEF SlotFreeing
    <3>4. Writes'
      <4> HIDE DEF l
      <4> QED
        BY <1>d, <2>1, <2>2, <3>1, <3>2, <3>3, WriteDisciplined
    <3>5. pc'[t] \in {"count", "commit"}
      BY <3>1 DEF Goto, TypeOK
    <3>6. Waits'
      BY <1>d, <2>1, <3>1, <3>5 DEF Disciplined
    <3> QED
      BY <1>0, <3>4, <3>6
  <2> QED
    BY <2>3, <2>4
<1>5. CASE RejectTransition(t)
  BY <1>5, EndOfTxDisciplined DEF RejectTransition
<1>6. CASE NewestGuard(t)
  <2>1. /\ self[t] \in Deploys /\ locker[self[t]] = t /\ status[self[t]] # NoRow
        /\ CanTransitionTo(status[self[t]], "active") /\ pc[t] = "guard"
    BY <1>6, <1>d DEF NewestGuard, Disciplined
  <2>2. Allowed(status[self[t]], "active") /\ Allowed(status[self[t]], "superseded")
    BY <2>1 DEF Allowed
  <2>3. PICK s \in {"active", "superseded"}, l \in {"count", "supersede"} :
          Write(t, self[t], s) /\ Goto(t, l)
    BY <1>6 DEF NewestGuard
  <2>4. Writes'
    BY <1>6, <1>d, <1>s, <2>1, <2>2, <2>3, WriteDisciplined DEF NewestGuard
  <2>5. pc'[t] \in {"count", "supersede"}
    BY <2>3 DEF Goto, TypeOK
  <2>6. Waits'
    BY <1>6, <1>d, <2>1, <2>5 DEF NewestGuard, Disciplined
  <2> QED
    BY <1>0, <2>4, <2>6
<1>7. CASE mark_superseded(t)
  BY <1>7, <1>d, <1>0 DEF mark_superseded, Disciplined, Goto, TypeOK
<1>8. CASE LockActive(t)
  <2>1. PICK e \in wanted[t] :
          /\ locker' = [locker EXCEPT ![e] = t]
          /\ matched' = [matched EXCEPT ![t] =
                           IF View(t, e) \in {"active"} THEN @ \cup {e} ELSE @]
    BY <1>8 DEF LockActive, LockNext, Lock
  <2>2. e \in Deploys /\ pc[t] = "supersede_lock"
        /\ UNCHANGED <<status, written, pc, self, picked>>
    BY <1>8, <2>1 DEF LockActive, LockNext, TypeOK
  <2>3. locker'[e] = t /\ \A d \in Deploys : locker[d] = t => locker'[d] = t
    BY <2>1, <2>2 DEF TypeOK
  <2>4. Writes'
    BY <1>d, <2>2, <2>3 DEF Disciplined
  <2>5. \A d \in matched'[t] : locker'[d] = t /\ View(t, d)' = "active"
    <3>1. \A d \in Deploys : View(t, d)' = View(t, d)
      BY <2>2 DEF View
    <3>2. \A d \in matched[t] : d \in Deploys /\ locker[d] = t /\ View(t, d) = "active"
      BY <1>d, <2>2 DEF Disciplined, TypeOK
    <3>3. matched'[t] \subseteq matched[t] \cup {d \in {e} : View(t, d) = "active"}
      BY <2>1 DEF TypeOK
    <3> QED
      BY <2>2, <2>3, <3>1, <3>2, <3>3
  <2>6. Waits'
    BY <2>2, <2>5
  <2> QED
    BY <1>0, <2>4, <2>6
<1>9. CASE WriteSuperseded(t)
  <2>1. /\ pc[t] = "supersede_lock" /\ pc'[t] = "count" /\ matched'[t] = {}
        /\ UNCHANGED <<status, locker>>
    BY <1>9 DEF WriteSuperseded, Goto, TypeOK
  <2>2. \A d \in Deploys : written'[t][d] = IF d \in matched[t] THEN "superseded"
                                            ELSE written[t][d]
    BY <1>9 DEF WriteSuperseded, TypeOK
  <2>3. \A e \in matched[t] : /\ e \in Deploys /\ locker[e] = t
                              /\ Allowed(status[e], "superseded")
    <3>1. SUFFICES ASSUME NEW e \in matched[t]
                   PROVE  /\ e \in Deploys /\ locker[e] = t
                          /\ Allowed(status[e], "superseded")
      OBVIOUS
    <3>2. e \in Deploys /\ locker[e] = t /\ View(t, e) = "active"
      BY <1>d, <2>1 DEF Disciplined, TypeOK
    <3>3. CASE written[t][e] = Unwritten
      BY <3>2, <3>3, UncheckedTransitions DEF View, Allowed, NoRow
    <3>4. CASE written[t][e] # Unwritten
      <4>1. Allowed(status[e], "active")
        BY <1>d, <3>2, <3>4 DEF View, Disciplined
      <4> QED
        BY <3>2, <4>1, UncheckedTransitions DEF Allowed, NoRow
    <3> QED
      BY <3>2, <3>3, <3>4
  <2>4. Writes'
    BY <1>d, <2>1, <2>2, <2>3 DEF Disciplined
  <2>5. Waits'
    BY <2>1
  <2> QED
    BY <1>0, <2>4, <2>5
<1>10. CASE enqueue_deploy(t)
  <2>1. /\ self[t] \in Deploys /\ locker[self[t]] = t /\ status[self[t]] = NoRow
        /\ pc[t] = "enqueue"
    BY <1>10, <1>d DEF enqueue_deploy, Disciplined
  <2>2. Allowed(status[self[t]], "queued") /\ Allowed(status[self[t]], "failed")
    BY <2>1 DEF Allowed
  <2>3. PICK s \in {"queued", "failed"}, l \in {"count", "commit"} :
          Write(t, self[t], s) /\ Goto(t, l)
    BY <1>10 DEF enqueue_deploy
  <2>4. Writes'
    BY <1>10, <1>d, <1>s, <2>1, <2>2, <2>3, WriteDisciplined DEF enqueue_deploy
  <2>5. pc'[t] \in {"count", "commit"}
    BY <2>3 DEF Goto, TypeOK
  <2>6. Waits'
    BY <1>10, <1>d, <2>1, <2>5 DEF enqueue_deploy, Disciplined
  <2> QED
    BY <1>0, <2>4, <2>6
<1>11. CASE FirstCount(t)
  BY <1>11, <1>d, <1>0 DEF FirstCount, Disciplined, Goto, TypeOK
<1>12. CASE PickNext(t)
  <2>1. CASE pc'[t] = "commit" /\ UNCHANGED locker
    BY <1>12, <1>d, <1>0, <2>1 DEF PickNext, Disciplined, TypeOK
  <2>2. ASSUME NEW d \in Deploys, Oldest(Pickable(t), d), Lock(t, d),
               picked' = [picked EXCEPT ![t] = d], Goto(t, "recount")
        PROVE  Disciplined(t)'
    <3>1. View(t, d) = "queued" /\ Free(t, d)
      BY <2>2 DEF Oldest, Pickable
    <3>2. /\ pc[t] = "pick" /\ pc'[t] = "recount" /\ picked'[t] = d
          /\ UNCHANGED <<status, written, self, matched>>
      BY <1>12, <2>2 DEF PickNext, Goto, TypeOK
    <3>3. locker'[d] = t /\ \A e \in Deploys : locker[e] = t => locker'[e] = t
      BY <2>2 DEF Lock, TypeOK
    <3>4. status[d] \in {"queued", NoRow} /\ View(t, d)' = "queued"
      BY <1>d, <3>1, <3>2 DEF View, Disciplined
    <3>5. Writes'
      BY <1>d, <3>2, <3>3 DEF Disciplined
    <3>6. Waits'
      BY <1>d, <3>2, <3>3, <3>4 DEF Disciplined
    <3> QED
      BY <1>0, <3>5, <3>6
  <2> QED
    BY <1>12, <2>1, <2>2 DEF PickNext, Goto, TypeOK
<1>13. CASE Recount(t)
  <2>1. /\ pc[t] = "recount" /\ pc'[t] = "recount_lock"
        /\ UNCHANGED <<status, written, locker, self, matched, picked>>
    BY <1>13 DEF Recount, Goto, TypeOK
  <2>2. \A d \in Deploys : View(t, d)' = View(t, d)
    BY <2>1 DEF View
  <2> QED
    BY <1>d, <1>0, <2>1, <2>2 DEF Disciplined
<1>14. CASE LockInProgress(t)
  <2>1. PICK e \in wanted[t] : locker' = [locker EXCEPT ![e] = t]
    BY <1>14 DEF LockInProgress, LockNext, Lock
  <2>2. e \in Deploys /\ pc[t] = "recount_lock"
        /\ UNCHANGED <<status, written, pc, self, picked>>
    BY <1>14, <2>1 DEF LockInProgress, LockNext, TypeOK
  <2>3. \A d \in Deploys : locker[d] = t => locker'[d] = t
    BY <2>1, <2>2 DEF TypeOK
  <2>4. \A d \in Deploys : View(t, d)' = View(t, d)
    BY <2>2 DEF View
  <2> QED
    BY <1>d, <1>0, <2>2, <2>3, <2>4 DEF Disciplined
<1>15. CASE PromoteNext(t)
  <2>1. /\ pc[t] = "recount_lock" /\ pc'[t] = "commit" /\ matched'[t] = {}
        /\ UNCHANGED <<status, locker, self, picked>>
    BY <1>15 DEF PromoteNext, Goto, TypeOK
  <2>2. /\ picked[t] \in Deploys /\ locker[picked[t]] = t
        /\ status[picked[t]] \in {"queued", NoRow}
    BY <1>d, <2>1 DEF Disciplined
  <2>3. Waits'
    BY <2>1
  <2>4. CASE UNCHANGED written
    BY <1>d, <1>0, <2>1, <2>3, <2>4 DEF Disciplined
  <2>5. CASE Write(t, picked[t], "building")
    <3>1. Allowed(status[picked[t]], "building")
      BY <2>2, UncheckedTransitions DEF Allowed, NoRow
    <3>2. Goto(t, "commit")
      BY <1>15 DEF PromoteNext
    <3>3. Writes'
      BY <1>d, <1>s, <2>1, <2>2, <2>5, <3>1, <3>2, WriteDisciplined
    <3> QED
      BY <1>0, <2>3, <3>3
  <2> QED
    BY <1>15, <2>4, <2>5 DEF PromoteNext
<1>16. CASE Commit(t) \/ Rollback(t) \/ DeadlockAbort(t)
  BY <1>16, EndOfTxDisciplined DEF Commit, Rollback, DeadlockAbort
<1> QED
  BY <1>1, <1>2, <1>3, <1>4, <1>5, <1>6, <1>7, <1>8, <1>9, <1>10, <1>11,
     <1>12, <1>13, <1>14, <1>15, <1>16
  DEF Call, Step

(***************************************************************************)
(* The theorems                                                            *)
(***************************************************************************)

\* A step of any session keeps every session disciplined.
LEMMA DisciplineStep ==
  ASSUME TypeOK, LockDiscipline, [Next]_vars
  PROVE  LockDiscipline'
<1>1. CASE UNCHANGED vars
  BY <1>1 DEF vars, LockDiscipline, WritesAreLocked, PendingIsLegal, QueuedIsNew,
              CalledForRow, ValidatedRow, InsertedRow, MatchedRows, PickedRow, View
<1>2. ASSUME NEW t \in Tx, Call(t) \/ Step(t) \/ Rollback(t)
      PROVE  LockDiscipline'
  <2>1. Frame(t)
    BY <1>2, StepFrame
  <2>2. Disciplined(t)'
    BY <1>2, TypeStep, OwnDisciplined DEF Next
  <2>3. \A u \in Tx \ {t} : Disciplined(u)'
    BY <2>1, DisciplineBySession, OthersDisciplined
  <2>4. (\A u \in Tx : Disciplined(u))'
    BY <2>2, <2>3
  <2> QED
    BY <2>4 DEF LockDiscipline, WritesAreLocked, PendingIsLegal, QueuedIsNew, Disciplined
<1> QED
  BY <1>1, <1>2 DEF Next

\* Sessions that interleave statement by statement rely, when they write, only
\* on what the row will say when they commit.
THEOREM Discipline == Spec => []LockDiscipline
<1>1. Init => LockDiscipline
  BY DEF Init, LockDiscipline, WritesAreLocked, PendingIsLegal, QueuedIsNew,
         CalledForRow, ValidatedRow, InsertedRow, MatchedRows, PickedRow, Unwritten
<1> QED
  BY <1>1, TypeCorrect, DisciplineStep, PTL DEF Spec

\* The queue never hands a slot to a deploy that has left the queue meanwhile.
THEOREM NoDoublePromotion == Spec => []PickedStaysQueued
<1>1. LockDiscipline => PickedStaysQueued
  BY DEF LockDiscipline, PickedRow, PickedStaysQueued
<1> QED
  BY <1>1, Discipline, PTL

\* Only a commit changes a committed status.
LEMMA OnlyCommits ==
  ASSUME [Next]_vars
  PROVE  UNCHANGED status \/ \E t \in Tx : Commit(t)
BY DEF vars, Next, Call, Step, Rollback, DeadlockAbort, CallTransition,
       InsertDeploy, ReconcileStuck, LockRow, RejectTransition, NewestGuard,
       mark_superseded, LockActive, LockInProgress, LockNext, WriteSuperseded,
       enqueue_deploy, FirstCount, PickNext, Recount, PromoteNext

\* A step commits only status changes that the state machine allows.
LEMMA LegalStep ==
  ASSUME LockDiscipline, [Next]_vars
  PROVE  \A d \in Deploys : Allowed(status[d], status'[d])
<1>1. CASE UNCHANGED status
  BY <1>1 DEF Allowed
<1>2. ASSUME NEW t \in Tx, Commit(t)
      PROVE  \A d \in Deploys : Allowed(status[d], status'[d])
  BY <1>2 DEF Commit, View, Allowed, LockDiscipline, PendingIsLegal
<1> QED
  BY <1>1, <1>2, OnlyCommits

\* No interleaving of requests and the reconciler commits a status change that
\* the state machine does not allow.
THEOREM OnlyLegalTransitions == Spec => LegalTransitions
<1>1. LockDiscipline /\ [Next]_vars =>
        [\A d \in Deploys : Allowed(status[d], status'[d])]_vars
  BY LegalStep
<1> QED
  BY <1>1, Discipline, PTL DEF Spec, LegalTransitions

\* A step that makes a deploy active sets its promoted_at.
LEMMA PromotedStep ==
  ASSUME ActiveHasPromotedAt, [Next]_vars
  PROVE  ActiveHasPromotedAt'
<1> USE DEF ActiveHasPromotedAt, Active
<1>1. CASE UNCHANGED <<status, promoted>>
  BY <1>1
<1>2. ASSUME NEW t \in Tx, Commit(t), NEW d \in Deploys, status'[d] = "active"
      PROVE  promoted'[d]
  <2>1. status[d] = "active" \/ written[t][d] = "active"
    BY <1>2 DEF Commit, View
  <2>2. promoted'[d] = (promoted[d] \/ written[t][d] = "active")
    BY <1>2 DEF Commit
  <2> QED
    BY <2>1, <2>2
<1>3. ASSUME NEW t \in Tx, Commit(t) PROVE ActiveHasPromotedAt'
  BY <1>2, <1>3
<1> QED
  BY <1>1, <1>3
  DEF vars, Next, Call, Step, Rollback, DeadlockAbort, CallTransition,
      InsertDeploy, ReconcileStuck, LockRow, RejectTransition, NewestGuard,
      mark_superseded, LockActive, LockInProgress, LockNext, WriteSuperseded,
      enqueue_deploy, FirstCount, PickNext, Recount, PromoteNext

\* The newest-deploy guard sees every active deploy: none lacks promoted_at.
THEOREM ActivesArePromoted == Spec => []ActiveHasPromotedAt
<1>1. Init => ActiveHasPromotedAt
  BY DEF Init, NoRow, ActiveHasPromotedAt, Active
<1> QED
  BY <1>1, PromotedStep, PTL DEF Spec

-----------------------------------------------------------------------------
(***************************************************************************)
(* What a session holds at the start and at the end of its transaction     *)
(***************************************************************************)

\* Between two transactions, and before the row it was called for is its own, a
\* session holds no row lock and no uncommitted status; until it goes on, an
\* insert has written its own row only.
OpensClean(t) ==
  /\ pc[t] \in {"idle", "lock"} => \A d \in Deploys : locker[d] # t
  /\ pc[t] \in {"idle", "lock", "guard"} => \A d \in Deploys : written[t][d] = Unwritten
  /\ pc[t] = "enqueue" => \A d \in Deploys \ {self[t]} : written[t][d] = Unwritten

OpenInv == \A t \in Tx : OpensClean(t)

\* Whatever ends a transaction (the commit, a refused transition, an exception,
\* an abort by PostgreSQL) leaves behind neither a lock nor a status: no row
\* waits for a session that is gone.  This is the safety half of
\* TransactionsEnd.
NothingIsLeftBehind ==
  \A t \in Tx : pc[t] = "idle" =>
    \A d \in Deploys : locker[d] # t /\ written[t][d] = Unwritten

\* A step of t locks rows for t and releases rows of t only.
LEMMA LocksForItself ==
  ASSUME TypeOK, NEW t \in Tx, Call(t) \/ Step(t) \/ Rollback(t), NEW d \in Deploys
  PROVE  locker'[d] \in {locker[d], t, NoTx}
<1>1. CASE CallTransition(t) \/ InsertDeploy(t)
  BY <1>1 DEF CallTransition, InsertDeploy, Lock, TypeOK
<1>2. CASE ReconcileStuck(t)
  BY <1>2 DEF ReconcileStuck
<1>3. CASE LockRow(t) \/ PickNext(t)
  BY <1>3 DEF LockRow, PickNext, Lock, TypeOK
<1>4. ASSUME NEW at, NEW states, LockNext(t, at, states)
      PROVE  locker'[d] \in {locker[d], t, NoTx}
  BY <1>4 DEF LockNext, Lock, TypeOK
<1>5. CASE EndOfTx(t)
  BY <1>5 DEF EndOfTx
<1>6. CASE UNCHANGED locker
  BY <1>6
<1>7. CASE Step(t)
  BY <1>3, <1>4, <1>5, <1>6, <1>7
  DEF Step, RejectTransition, NewestGuard, mark_superseded, LockActive, WriteSuperseded,
      enqueue_deploy, FirstCount, Recount, LockInProgress, PromoteNext, Commit, DeadlockAbort
<1> QED
  BY <1>1, <1>2, <1>5, <1>7 DEF Call, Rollback

\* A step of t does not lock or write for another session.
LEMMA OthersOpenClean ==
  ASSUME TypeOK, NEW t \in Tx, NEW u \in Tx \ {t}, Frame(t), OpensClean(u),
         Call(t) \/ Step(t) \/ Rollback(t)
  PROVE  OpensClean(u)'
<1>1. pc'[u] = pc[u] /\ self'[u] = self[u] /\ written'[u] = written[u]
  BY DEF Frame
<1>2. \A d \in Deploys : locker[d] # u => locker'[d] # u
  BY LocksForItself, SessionsAssumption
<1> QED
  BY <1>1, <1>2 DEF OpensClean

\* A session's own step keeps what it holds in order.
LEMMA OwnOpensClean ==
  ASSUME TypeOK, LockDiscipline, NEW t \in Tx, OpensClean(t),
         Call(t) \/ Step(t) \/ Rollback(t)
  PROVE  OpensClean(t)'
<1>1. CASE CallTransition(t)
  BY <1>1 DEF CallTransition, Goto, OpensClean, TypeOK
<1>2. CASE InsertDeploy(t)
  <2>1. PICK d \in Deploys : Write(t, d, "queued") /\ self' = [self EXCEPT ![t] = d]
    BY <1>2 DEF InsertDeploy
  <2>2. pc[t] = "idle" /\ pc'[t] = "enqueue" /\ self'[t] = d
    BY <1>2, <2>1 DEF InsertDeploy, Goto, TypeOK
  <2>3. \A e \in Deploys \ {d} : written'[t][e] = written[t][e]
    BY <2>1 DEF Write, TypeOK
  <2> QED
    BY <2>2, <2>3 DEF OpensClean
<1>3. CASE EndOfTx(t)
  <2>1. pc'[t] = "idle" /\ \A d \in Deploys : written'[t][d] = Unwritten
    BY <1>3 DEF EndOfTx, TypeOK
  <2>2. \A d \in Deploys : locker'[d] # t
    BY <1>3, SessionsAssumption DEF EndOfTx
  <2> QED
    BY <2>1, <2>2 DEF OpensClean
<1>4. CASE pc'[t] \notin {"idle", "lock", "guard", "enqueue"}
  BY <1>4 DEF OpensClean
<1>5. CASE LockRow(t)
  <2>1. /\ pc[t] = "lock"
        /\ \/ pc'[t] = "guard" /\ UNCHANGED written
           \/ pc'[t] \in {"count", "commit"}
    BY <1>5 DEF LockRow, Goto, TypeOK
  <2> QED
    BY <2>1 DEF OpensClean
<1>6. CASE ReconcileStuck(t) \/ NewestGuard(t) \/ mark_superseded(t) \/ WriteSuperseded(t)
           \/ enqueue_deploy(t) \/ FirstCount(t) \/ PickNext(t) \/ Recount(t) \/ PromoteNext(t)
  <2>1. pc'[t] \in {"sweep", "count", "supersede", "supersede_lock", "commit", "pick", "recount",
                    "recount_lock"}
    BY <1>6 DEF ReconcileStuck, NewestGuard, mark_superseded, WriteSuperseded, enqueue_deploy,
                FirstCount, PickNext, Recount, PromoteNext, Goto, TypeOK
  <2> QED
    BY <1>4, <2>1
<1>7. CASE LockActive(t) \/ LockInProgress(t)
  <2>1. pc'[t] \in {"supersede_lock", "recount_lock"}
    BY <1>7 DEF LockActive, LockInProgress, LockNext
  <2> QED
    BY <1>4, <2>1
<1>8. CASE RejectTransition(t) \/ Commit(t) \/ DeadlockAbort(t) \/ Rollback(t)
  BY <1>3, <1>8 DEF RejectTransition, Commit, DeadlockAbort, Rollback
<1> QED
  BY <1>1, <1>2, <1>5, <1>6, <1>7, <1>8 DEF Call, Step

\* Every step keeps what the sessions hold in order.
LEMMA OpenStep ==
  ASSUME TypeOK, LockDiscipline, OpenInv, [Next]_vars
  PROVE  OpenInv'
<1>1. CASE UNCHANGED vars
  BY <1>1 DEF vars, OpenInv, OpensClean
<1>2. ASSUME NEW t \in Tx, Call(t) \/ Step(t) \/ Rollback(t)
      PROVE  OpenInv'
  <2>1. OpensClean(t)'
    BY <1>2, OwnOpensClean DEF OpenInv
  <2>2. \A u \in Tx \ {t} : OpensClean(u)'
    BY <1>2, StepFrame, OthersOpenClean DEF OpenInv
  <2> QED
    BY <2>1, <2>2 DEF OpenInv
<1> QED
  BY <1>1, <1>2 DEF Next

\* Every session opens and closes its transactions in order.
LEMMA OpenAlways == Spec => []OpenInv
<1>1. Init => OpenInv
  BY SessionsAssumption DEF Init, OpenInv, OpensClean
<1> QED
  BY <1>1, OpenStep, TypeCorrect, Discipline, PTL DEF Spec

\* No row stays locked by a session whose transaction has ended.
THEOREM LocksEndWithTheTransaction == Spec => []NothingIsLeftBehind
<1>1. OpenInv => NothingIsLeftBehind
  BY DEF OpenInv, OpensClean, NothingIsLeftBehind
<1> QED
  BY <1>1, OpenAlways, PTL

-----------------------------------------------------------------------------
(***************************************************************************)
(* Whoever frees a slot tries to hand it on                                *)
(***************************************************************************)

\* A request that frees a slot reaches its commit through _try_promote_next
\* only: after the first count found no room, the queue empty, or the second
\* count was made.  The sweep of the reconciler commits from a statement of its
\* own and hands nothing on.
SlotIsHandedOn ==
  [][\A t \in Tx : pc[t] # "commit" /\ pc'[t] = "commit" /\ FreesASlot(t)' =>
       pc[t] \in {"count", "pick", "recount_lock"}]_vars

\* transition_deploy calls on_deploy_completed for every status that takes a
\* deploy out of progress.
LEMMA LeavingFreesASlot ==
  ASSUME NEW s \in in_progress_states, NEW new, CanTransitionTo(s, new)
  PROVE  new \in in_progress_states \cup SlotFreeing
<1>1. CASE s = "building"
  BY <1>1 DEF CanTransitionTo, DEPLOY_TRANSITIONS, in_progress_states, SlotFreeing
<1>2. CASE s = "artifact_ready"
  BY <1>2 DEF CanTransitionTo, DEPLOY_TRANSITIONS, in_progress_states, SlotFreeing
<1>3. CASE s = "provisioning"
  BY <1>3 DEF CanTransitionTo, DEPLOY_TRANSITIONS, in_progress_states, SlotFreeing
<1>4. CASE s = "healthy"
  BY <1>4 DEF CanTransitionTo, DEPLOY_TRANSITIONS, in_progress_states, SlotFreeing
<1> QED
  BY <1>1, <1>2, <1>3, <1>4 DEF in_progress_states

\* A session whose writes free a slot comes to its commit from
\* _try_promote_next.
LEMMA HandOnStep ==
  ASSUME TypeOK, LockDiscipline, OpenInv, [Next]_vars,
         NEW t \in Tx, pc[t] # "commit", pc'[t] = "commit", FreesASlot(t)'
  PROVE  pc[t] \in {"count", "pick", "recount_lock"}
<1>c. OpensClean(t)
  BY DEF OpenInv
<1>1. Call(t) \/ Step(t) \/ Rollback(t)
  <2>1. PICK u \in Tx : Call(u) \/ Step(u) \/ Rollback(u)
    BY DEF Next, vars
  <2>2. Frame(u)
    BY <2>1, StepFrame
  <2> QED
    BY <2>1, <2>2 DEF Frame
<1>2. ~LockRow(t)
  <2> SUFFICES ASSUME LockRow(t) PROVE FALSE
    OBVIOUS
  <2>1. /\ pc[t] = "lock" /\ UNCHANGED status /\ target[t] \notin SlotFreeing
        /\ Write(t, self[t], target[t]) /\ CanTransitionTo(status[self[t]], target[t])
    BY DEF LockRow, Goto, TypeOK
  <2>2. \A d \in Deploys \ {self[t]} : written'[t][d] = Unwritten
    BY <1>c, <2>1 DEF OpensClean, Write, TypeOK
  <2>3. self[t] \in Deploys /\ written'[t][self[t]] = target[t]
    BY <2>1 DEF LockDiscipline, CalledForRow, Write, TypeOK
  <2>4. status[self[t]] \in in_progress_states /\ target[t] \notin in_progress_states
    BY <2>1, <2>2, <2>3 DEF FreesASlot
  <2> QED
    BY <2>1, <2>4, LeavingFreesASlot
<1>3. ~enqueue_deploy(t)
  <2> SUFFICES ASSUME enqueue_deploy(t) PROVE FALSE
    OBVIOUS
  <2>1. pc[t] = "enqueue" /\ UNCHANGED status /\ \E s : Write(t, self[t], s)
    BY DEF enqueue_deploy
  <2>2. \A d \in Deploys \ {self[t]} : written'[t][d] = Unwritten
    BY <1>c, <2>1 DEF OpensClean, Write, TypeOK
  <2>3. status[self[t]] = NoRow
    BY <2>1 DEF LockDiscipline, InsertedRow
  <2> QED
    BY <2>1, <2>2, <2>3 DEF FreesASlot, in_progress_states, NoRow
<1>4. ~Call(t) /\ ~Rollback(t)
  BY DEF Call, CallTransition, InsertDeploy, ReconcileStuck, Rollback, EndOfTx, Goto, TypeOK
<1>5. Step(t)
  BY <1>1, <1>4
<1>6. ~RejectTransition(t) /\ ~DeadlockAbort(t) /\ ~Commit(t)
  BY DEF RejectTransition, DeadlockAbort, Commit, EndOfTx, TypeOK
<1>7. ~NewestGuard(t) /\ ~mark_superseded(t) /\ ~LockActive(t) /\ ~WriteSuperseded(t)
  BY DEF NewestGuard, mark_superseded, LockActive, LockNext, WriteSuperseded, Goto, TypeOK
<1> QED
  BY <1>2, <1>3, <1>5, <1>6, <1>7
  DEF Step, FirstCount, PickNext, Recount, LockInProgress, LockNext, PromoteNext, Goto, TypeOK

\* No request frees a slot without trying to promote the next deploy.
THEOREM SlotsAreHandedOn == Spec => SlotIsHandedOn
<1> DEFINE HandsOn == \A t \in Tx : pc[t] # "commit" /\ pc'[t] = "commit" /\ FreesASlot(t)' =>
                        pc[t] \in {"count", "pick", "recount_lock"}
<1>1. TypeOK /\ LockDiscipline /\ OpenInv /\ [Next]_vars => [HandsOn]_vars
  BY HandOnStep
<1> QED
  BY <1>1, TypeCorrect, Discipline, OpenAlways, PTL DEF Spec, SlotIsHandedOn

-----------------------------------------------------------------------------
(***************************************************************************)
(* One session at a time                                                   *)
(***************************************************************************)

\* Requests come one after the other, as in the run queue_serial.
OneSession == \E t : Tx = {t}

\* No deploy but d is active in S.
OnlyOne(S) == \A d, e \in S : d = e

ActiveSeenBy(t) == {d \in Deploys : View(t, d) = "active"}

\* A session has written nothing before the row it was called for is validated.
CleanInv(t) ==
  pc[t] \in {"idle", "lock", "guard"} => \A d \in Deploys : written[t][d] = Unwritten

\* One deploy is active, also for the session that changes it, except between
\* the write of the new active deploy and that of the superseded ones: then the
\* other active ones are still to be locked, or locked and matched.
ActiveInv(t) ==
  /\ OnlyOne(Active)
  /\ pc[t] \notin {"supersede", "supersede_lock"} => OnlyOne(ActiveSeenBy(t))
  /\ pc[t] = "supersede_lock" =>
       ActiveSeenBy(t) \ {self[t]} \subseteq wanted[t] \cup matched[t]

\* A deploy is made active only when no newer one is.
NewestInv(t) ==
  \A d, e \in Deploys : written[t][d] = "active" /\ d < e => status[e] # "active"

\* Nothing older than the picked deploy is queued.
OrderInv(t) ==
  picked[t] # 0 =>
    /\ pc[t] \in {"recount", "recount_lock", "commit"}
    /\ \A d \in 1..(picked[t] - 1) : View(t, d) # "queued"

\* The second count locks every row in progress.
SlotInv(t) ==
  /\ pc[t] = "recount_lock" => InProgressSeenBy(t) \subseteq wanted[t] \cup matched[t]
  /\ pc[t] = "commit" /\ picked[t] # 0 /\ View(t, picked[t]) = "building" =>
       Cardinality(InProgressSeenBy(t)) <= MaxConcurrent

SerialInv ==
  \A t \in Tx : CleanInv(t) /\ ActiveInv(t) /\ NewestInv(t) /\ OrderInv(t) /\ SlotInv(t)

\* A transaction that ends, with or without its writes, leaves one active
\* deploy and relies on nothing.
LEMMA EndOfTxSerial ==
  ASSUME TypeOK, NEW t \in Tx, EndOfTx(t), OnlyOne(Active)'
  PROVE  CleanInv(t)' /\ ActiveInv(t)' /\ NewestInv(t)' /\ OrderInv(t)' /\ SlotInv(t)'
<1>1. /\ pc'[t] = "idle" /\ picked'[t] = 0
      /\ \A d \in Deploys : written'[t][d] = Unwritten
  BY DEF EndOfTx, TypeOK
<1>2. \A d \in Deploys : View(t, d)' = status'[d]
  BY <1>1 DEF View
<1>3. OnlyOne(ActiveSeenBy(t))'
  BY <1>2 DEF OnlyOne, Active, ActiveSeenBy
<1> QED
  BY <1>1, <1>3 DEF CleanInv, ActiveInv, NewestInv, OrderInv, SlotInv, Unwritten

\* A step that reads only.
LEMMA ReadSerial ==
  ASSUME NEW t \in Tx, UNCHANGED <<status, written, picked>>,
         CleanInv(t) /\ ActiveInv(t) /\ NewestInv(t) /\ OrderInv(t), picked[t] = 0,
         pc[t] \notin {"supersede", "supersede_lock"},
         pc'[t] \notin {"supersede", "supersede_lock", "recount_lock"},
         pc'[t] \in {"idle", "lock", "guard"} => pc[t] \in {"idle", "lock", "guard"}
  PROVE  CleanInv(t)' /\ ActiveInv(t)' /\ NewestInv(t)' /\ OrderInv(t)' /\ SlotInv(t)'
<1>1. \A d \in Deploys : View(t, d)' = View(t, d)
  BY DEF View
<1>2. Active' = Active /\ ActiveSeenBy(t)' = ActiveSeenBy(t)
  BY <1>1 DEF Active, ActiveSeenBy
<1> QED
  BY <1>2 DEF CleanInv, ActiveInv, NewestInv, OrderInv, SlotInv, OnlyOne

\* A write of a status other than active.
LEMMA WriteSerial ==
  ASSUME TypeOK, NEW t \in Tx, NEW d \in Deploys, NEW s \in DEPLOY_STATES \ {"active"},
         Write(t, d, s), UNCHANGED <<status, picked>>,
         ActiveInv(t) /\ NewestInv(t), picked[t] = 0,
         pc[t] \notin {"supersede", "supersede_lock"},
         pc'[t] \notin {"idle", "lock", "guard", "supersede", "supersede_lock", "recount_lock"}
  PROVE  CleanInv(t)' /\ ActiveInv(t)' /\ NewestInv(t)' /\ OrderInv(t)' /\ SlotInv(t)'
<1>1. written'[t][d] = s /\ \A e \in Deploys \ {d} : written'[t][e] = written[t][e]
  BY DEF Write, TypeOK
<1>2. s # Unwritten
  BY DEF DEPLOY_STATES, Unwritten
<1>3. \A e \in Deploys \ {d} : View(t, e)' = View(t, e)
  BY <1>1 DEF View
<1>4. View(t, d)' = s
  BY <1>1, <1>2 DEF View
<1>5. ActiveSeenBy(t)' \subseteq ActiveSeenBy(t) /\ Active' = Active
  BY <1>3, <1>4 DEF ActiveSeenBy, Active
<1>6. ActiveInv(t)'
  BY <1>5 DEF ActiveInv, OnlyOne
<1>7. NewestInv(t)'
  BY <1>1 DEF NewestInv
<1> QED
  BY <1>6, <1>7 DEF CleanInv, OrderInv, SlotInv

\* A set of deploys is finite, and a part of it no larger.
LEMMA DeploysFinite ==
  ASSUME NEW S \in SUBSET Deploys, NEW T \in SUBSET S
  PROVE  /\ IsFiniteSet(S) /\ IsFiniteSet(T)
         /\ Cardinality(S) \in Nat /\ Cardinality(T) \in Nat /\ Cardinality(T) <= Cardinality(S)
<1>1. IsFiniteSet(Deploys)
  BY FS_Interval, SizesAssumption DEF Deploys
<1>2. IsFiniteSet(S)
  BY <1>1, FS_Subset
<1> QED
  BY <1>2, FS_Subset, FS_CardinalityType

\* The promotion of one more deploy than the second count has matched.
LEMMA PromoteNextSerial ==
  ASSUME TypeOK, LockDiscipline, SerialInv, NEW t \in Tx, PromoteNext(t)
  PROVE  CleanInv(t)' /\ ActiveInv(t)' /\ NewestInv(t)' /\ OrderInv(t)' /\ SlotInv(t)'
<1> DEFINE p == picked[t]
<1>i. ActiveInv(t) /\ NewestInv(t) /\ OrderInv(t) /\ SlotInv(t)
  BY DEF SerialInv
<1>1. /\ pc[t] = "recount_lock" /\ wanted[t] = {} /\ UNCHANGED <<status, picked, promoted>>
      /\ pc'[t] = "commit"
  BY DEF PromoteNext, Goto, TypeOK
<1>2. /\ p \in Deploys /\ View(t, p) = "queued" /\ p # 0
  BY <1>1, SizesAssumption DEF LockDiscipline, PickedRow, Deploys
<1>3. /\ OnlyOne(Active) /\ OnlyOne(ActiveSeenBy(t))
      /\ InProgressSeenBy(t) \subseteq matched[t]
      /\ \A d \in 1..(p - 1) : View(t, d) # "queued"
  BY <1>i, <1>1, <1>2 DEF ActiveInv, SlotInv, OrderInv
<1>4. CASE UNCHANGED written
  <2>1. \A d \in Deploys : View(t, d)' = View(t, d)
    BY <1>1, <1>4 DEF View
  <2>2. Active' = Active /\ ActiveSeenBy(t)' = ActiveSeenBy(t)
    BY <1>1, <2>1 DEF Active, ActiveSeenBy
  <2>3. \A d \in 1..(p - 1) : View(t, d)' # "queued"
    BY <1>1, <1>3, <1>4 DEF View
  <2> QED
    BY <1>i, <1>1, <1>2, <1>3, <1>4, <2>1, <2>2, <2>3
    DEF CleanInv, ActiveInv, NewestInv, OrderInv, SlotInv, OnlyOne
<1>5. CASE Write(t, p, "building") /\ ~(Cardinality(matched[t]) >= MaxConcurrent)
  <2>1. written'[t][p] = "building" /\ \A e \in Deploys \ {p} : written'[t][e] = written[t][e]
    BY <1>2, <1>5 DEF Write, TypeOK
  <2>2. View(t, p)' = "building" /\ \A e \in Deploys \ {p} : View(t, e)' = View(t, e)
    BY <1>1, <2>1 DEF View, Unwritten
  <2>3. Active' = Active /\ ActiveSeenBy(t)' \subseteq ActiveSeenBy(t)
    BY <1>1, <2>2 DEF Active, ActiveSeenBy
  <2>4. \A d \in 1..(p - 1) : View(t, d)' # "queued"
    <3>1. \A d \in 1..(p - 1) : d \in Deploys \ {p}
      BY <1>2, SizesAssumption DEF Deploys
    <3> QED
      BY <1>3, <2>2, <3>1
  <2>5. InProgressSeenBy(t)' \subseteq matched[t] \cup {p}
    BY <1>3, <2>2 DEF InProgressSeenBy
  <2>6. Cardinality(InProgressSeenBy(t)') <= MaxConcurrent
    <3> DEFINE M == matched[t]
               B == M \cup {p}
    <3>1. M \in SUBSET Deploys /\ B \in SUBSET Deploys
      BY <1>2 DEF TypeOK
    <3>2. IsFiniteSet(M) /\ Cardinality(M) \in Nat
      BY <3>1, DeploysFinite
    <3>3. Cardinality(B) = IF p \in M THEN Cardinality(M) ELSE Cardinality(M) + 1
      BY <3>2, FS_AddElement
    <3>4. Cardinality(InProgressSeenBy(t)') <= Cardinality(B)
          /\ Cardinality(InProgressSeenBy(t)') \in Nat
      BY <2>5, <3>1, DeploysFinite
    <3> HIDE DEF M, B
    <3>5. Cardinality(B) <= MaxConcurrent
      BY <1>5, <3>2, <3>3, SizesAssumption DEF M
    <3> QED
      BY <3>2, <3>3, <3>4, <3>5, SizesAssumption
  <2>7. NewestInv(t)'
    BY <1>i, <1>1, <2>1 DEF NewestInv
  <2>8. ActiveInv(t)'
    BY <1>1, <1>3, <2>3 DEF ActiveInv, OnlyOne
  <2> QED
    BY <1>1, <2>4, <2>6, <2>7, <2>8 DEF CleanInv, OrderInv, SlotInv
<1> QED
  BY <1>4, <1>5 DEF PromoteNext

\* A step of the one session.
LEMMA SerialActs ==
  ASSUME OneSession, TypeOK, LockDiscipline, ActiveHasPromotedAt, SerialInv, NEW t \in Tx,
         Call(t) \/ Step(t) \/ Rollback(t)
  PROVE  CleanInv(t)' /\ ActiveInv(t)' /\ NewestInv(t)' /\ OrderInv(t)' /\ SlotInv(t)'
<1> DEFINE Goal == CleanInv(t)' /\ ActiveInv(t)' /\ NewestInv(t)' /\ OrderInv(t)' /\ SlotInv(t)'
<1>i. CleanInv(t) /\ ActiveInv(t) /\ NewestInv(t) /\ OrderInv(t) /\ SlotInv(t)
  BY DEF SerialInv
<1>s. {"queued", "failed", "superseded", "building"} \subseteq DEPLOY_STATES \ {"active"}
  BY DEF DEPLOY_STATES
<1>p. pc[t] \notin {"recount", "recount_lock", "commit"} => picked[t] = 0
  BY <1>i DEF OrderInv
<1>1. CASE CallTransition(t)
  <2>1. pc[t] = "idle" /\ pc'[t] = "lock" /\ UNCHANGED <<status, written, picked>>
    BY <1>1 DEF CallTransition, Goto, TypeOK
  <2> QED
    BY <1>i, <1>p, <2>1, ReadSerial
<1>2. CASE InsertDeploy(t)
  <2>1. pc[t] = "idle" /\ pc'[t] = "enqueue" /\ UNCHANGED <<status, picked>>
    BY <1>2 DEF InsertDeploy, Goto, TypeOK
  <2>2. \E d \in Deploys : Write(t, d, "queued")
    BY <1>2 DEF InsertDeploy
  <2> QED
    BY <1>i, <1>s, <1>p, <2>1, <2>2, WriteSerial
<1>3. CASE ReconcileStuck(t)
  <2>1. pc[t] = "idle" /\ pc'[t] = "sweep" /\ UNCHANGED <<status, picked>>
    BY <1>3 DEF ReconcileStuck, Goto, TypeOK
  <2>2. \A d \in Deploys : written'[t][d] \in {"failed", Unwritten}
    BY <1>3 DEF ReconcileStuck, TypeOK
  <2>3. \A d \in Deploys : View(t, d)' = "active" => status[d] = "active"
    BY <2>1, <2>2 DEF View
  <2>4. Active' = Active /\ ActiveSeenBy(t)' \subseteq Active
    BY <2>1, <2>3 DEF Active, ActiveSeenBy
  <2> QED
    BY <1>i, <1>p, <2>1, <2>2, <2>4
    DEF CleanInv, ActiveInv, NewestInv, OrderInv, SlotInv, OnlyOne, Unwritten
<1>4. CASE LockRow(t)
  <2>1. pc[t] = "lock" /\ UNCHANGED <<status, picked>>
    BY <1>4 DEF LockRow
  <2>2. CASE target[t] = "active"
    <3>1. pc'[t] = "guard" /\ UNCHANGED written
      BY <1>4, <2>2 DEF LockRow, Goto, TypeOK
    <3> QED
      BY <1>i, <1>p, <2>1, <3>1, ReadSerial
  <2>3. CASE target[t] # "active"
    <3>1. Write(t, self[t], target[t]) /\ pc'[t] \in {"count", "commit"}
      BY <1>4, <2>3 DEF LockRow, Goto, TypeOK
    <3>2. self[t] \in Deploys /\ target[t] \in DEPLOY_STATES \ {"active"}
      BY <2>1, <2>3 DEF LockDiscipline, CalledForRow, TypeOK
    <3> QED
      BY <1>i, <1>p, <2>1, <3>1, <3>2, WriteSerial
  <2> QED
    BY <2>2, <2>3
<1>5. CASE RejectTransition(t) \/ Rollback(t) \/ DeadlockAbort(t)
  <2>1. EndOfTx(t) /\ UNCHANGED status
    BY <1>5 DEF RejectTransition, Rollback, DeadlockAbort
  <2> QED
    BY <1>i, <2>1, EndOfTxSerial DEF ActiveInv, OnlyOne, Active
<1>6. CASE NewestGuard(t)
  <2>1. pc[t] = "guard" /\ UNCHANGED <<status, picked>> /\ self[t] \in Deploys
    BY <1>6 DEF NewestGuard, LockDiscipline, ValidatedRow
  <2>2. CASE NewerActive(t)
    <3>1. Write(t, self[t], "superseded") /\ pc'[t] = "count"
      BY <1>6, <2>2 DEF NewestGuard, Goto, TypeOK
    <3> QED
      BY <1>i, <1>s, <1>p, <2>1, <3>1, WriteSerial
  <2>3. CASE ~NewerActive(t)
    <3>1. Write(t, self[t], "active") /\ pc'[t] = "supersede"
      BY <1>6, <2>3 DEF NewestGuard, Goto, TypeOK
    <3>2. \A e \in Deploys : written[t][e] = Unwritten /\ View(t, e) = status[e]
      BY <1>i, <2>1 DEF CleanInv, View
    <3>3. \A e \in Deploys : self[t] < e => status[e] # "active"
      <4>1. \A e \in Deploys : status[e] = "active" => promoted[e]
        BY DEF ActiveHasPromotedAt, Active
      <4>2. \A e \in Deploys : self[t] < e => e > self[t]
        BY <2>1, SizesAssumption DEF Deploys
      <4> QED
        BY <2>3, <3>2, <4>1, <4>2 DEF NewerActive
    <3>4. \A d \in Deploys : written'[t][d] = "active" => d = self[t]
      BY <3>1, <3>2 DEF Write, TypeOK, Unwritten
    <3>5. NewestInv(t)'
      BY <2>1, <3>3, <3>4 DEF NewestInv
    <3>6. ActiveInv(t)'
      BY <1>i, <2>1, <3>1 DEF ActiveInv, OnlyOne, Active
    <3> QED
      BY <1>p, <2>1, <3>1, <3>5, <3>6 DEF CleanInv, OrderInv, SlotInv
  <2> QED
    BY <2>2, <2>3
<1>7. CASE mark_superseded(t)
  <2>1. /\ pc[t] = "supersede" /\ pc'[t] = "supersede_lock"
        /\ UNCHANGED <<status, written, self, picked>>
        /\ wanted'[t] = {e \in Deploys \ {self[t]} : View(t, e) = "active"}
    BY <1>7 DEF mark_superseded, Goto, TypeOK
  <2>2. Active' = Active /\ ActiveSeenBy(t)' = ActiveSeenBy(t)
    BY <2>1 DEF Active, ActiveSeenBy, View
  <2>3. ActiveInv(t)'
    BY <1>i, <2>1, <2>2 DEF ActiveInv, OnlyOne, ActiveSeenBy
  <2> QED
    BY <1>i, <1>p, <2>1, <2>3 DEF CleanInv, NewestInv, OrderInv, SlotInv
<1>8. CASE LockActive(t)
  <2>1. pc[t] = "supersede_lock" /\ UNCHANGED <<status, written, pc, self, picked>>
    BY <1>8 DEF LockActive, LockNext
  <2>2. PICK e \in wanted[t] :
          /\ wanted'[t] = wanted[t] \ {e}
          /\ matched'[t] = IF View(t, e) \in {"active"} THEN matched[t] \cup {e} ELSE matched[t]
    BY <1>8 DEF LockActive, LockNext, TypeOK
  <2>3. Active' = Active /\ ActiveSeenBy(t)' = ActiveSeenBy(t)
    BY <2>1 DEF Active, ActiveSeenBy, View
  <2>4. ActiveSeenBy(t) \ {self[t]} \subseteq wanted'[t] \cup matched'[t]
    BY <1>i, <2>1, <2>2 DEF ActiveInv, ActiveSeenBy
  <2>5. ActiveInv(t)'
    BY <1>i, <2>1, <2>3, <2>4 DEF ActiveInv, OnlyOne
  <2> QED
    BY <1>i, <1>p, <2>1, <2>5 DEF CleanInv, NewestInv, OrderInv, SlotInv
<1>9. CASE WriteSuperseded(t)
  <2>1. /\ pc[t] = "supersede_lock" /\ pc'[t] = "count" /\ wanted[t] = {}
        /\ UNCHANGED <<status, self, picked>>
    BY <1>9 DEF WriteSuperseded, Goto, TypeOK
  <2>2. \A d \in Deploys : written'[t][d] = IF d \in matched[t] THEN "superseded"
                                            ELSE written[t][d]
    BY <1>9 DEF WriteSuperseded, TypeOK
  <2>3. \A d \in Deploys : View(t, d)' = "active" => View(t, d) = "active" /\ d \notin matched[t]
    BY <2>1, <2>2 DEF View, Unwritten
  <2>4. \A d \in ActiveSeenBy(t)' : d = self[t]
    BY <1>i, <2>1, <2>3 DEF ActiveInv, ActiveSeenBy
  <2>5. Active' = Active
    BY <2>1 DEF Active
  <2>6. ActiveInv(t)'
    BY <1>i, <2>1, <2>4, <2>5 DEF ActiveInv, OnlyOne
  <2>7. NewestInv(t)'
    BY <1>i, <2>1, <2>2 DEF NewestInv
  <2> QED
    BY <1>p, <2>1, <2>6, <2>7 DEF CleanInv, OrderInv, SlotInv
<1>10. CASE enqueue_deploy(t)
  <2>1. pc[t] = "enqueue" /\ UNCHANGED <<status, picked>> /\ self[t] \in Deploys
    BY <1>10 DEF enqueue_deploy, LockDiscipline, InsertedRow
  <2>2. pc'[t] \in {"count", "commit"} /\ \E s \in {"queued", "failed"} : Write(t, self[t], s)
    BY <1>10 DEF enqueue_deploy, Goto, TypeOK
  <2> QED
    BY <1>i, <1>s, <1>p, <2>1, <2>2, WriteSerial
<1>11. CASE FirstCount(t)
  <2>1. pc[t] = "count" /\ pc'[t] \in {"pick", "commit"} /\ UNCHANGED <<status, written, picked>>
    BY <1>11 DEF FirstCount, Goto, TypeOK
  <2> QED
    BY <1>i, <1>p, <2>1, ReadSerial
<1>12. CASE PickNext(t)
  <2>1. pc[t] = "pick" /\ UNCHANGED <<status, written>>
    BY <1>12 DEF PickNext
  <2>2. CASE pc'[t] = "commit" /\ UNCHANGED picked
    BY <1>i, <1>p, <2>1, <2>2, ReadSerial
  <2>3. ASSUME NEW d \in Deploys, Oldest(Pickable(t), d), picked'[t] = d, pc'[t] = "recount"
        PROVE  Goal
    <3>1. \A e \in Deploys : Free(t, e)
      BY DEF OneSession, Free, TypeOK
    <3>2. \A e \in 1..(d - 1) : e \in Deploys /\ ~(d <= e)
      BY <2>3, SizesAssumption DEF Deploys
    <3>3. \A e \in 1..(d - 1) : View(t, e) # "queued"
      BY <2>3, <3>1, <3>2 DEF Oldest, Pickable
    <3>4. \A e \in 1..(d - 1) : View(t, e)' # "queued"
      BY <2>1, <3>3 DEF View
    <3>5. Active' = Active /\ ActiveSeenBy(t)' = ActiveSeenBy(t)
      BY <2>1 DEF Active, ActiveSeenBy, View
    <3> QED
      BY <1>i, <2>1, <2>3, <3>4, <3>5
      DEF CleanInv, ActiveInv, NewestInv, OrderInv, SlotInv, OnlyOne
  <2> QED
    BY <1>12, <2>2, <2>3 DEF PickNext, Goto, TypeOK
<1>13. CASE Recount(t)
  <2>1. /\ pc[t] = "recount" /\ pc'[t] = "recount_lock" /\ UNCHANGED <<status, written, picked>>
        /\ wanted'[t] = InProgressSeenBy(t)
    BY <1>13 DEF Recount, Goto, TypeOK
  <2>2. Active' = Active /\ ActiveSeenBy(t)' = ActiveSeenBy(t)
        /\ InProgressSeenBy(t)' = InProgressSeenBy(t)
        /\ \A d : View(t, d)' = View(t, d)
    BY <2>1 DEF Active, ActiveSeenBy, InProgressSeenBy, View
  <2> QED
    BY <1>i, <2>1, <2>2 DEF CleanInv, ActiveInv, NewestInv, OrderInv, SlotInv, OnlyOne
<1>14. CASE LockInProgress(t)
  <2>1. pc[t] = "recount_lock" /\ UNCHANGED <<status, written, pc, picked>>
    BY <1>14 DEF LockInProgress, LockNext
  <2>2. PICK e \in wanted[t] :
          /\ wanted'[t] = wanted[t] \ {e}
          /\ matched'[t] = IF View(t, e) \in in_progress_states THEN matched[t] \cup {e}
                           ELSE matched[t]
    BY <1>14 DEF LockInProgress, LockNext, TypeOK
  <2>3. Active' = Active /\ ActiveSeenBy(t)' = ActiveSeenBy(t)
        /\ InProgressSeenBy(t)' = InProgressSeenBy(t)
        /\ \A d : View(t, d)' = View(t, d)
    BY <2>1 DEF Active, ActiveSeenBy, InProgressSeenBy, View
  <2>4. InProgressSeenBy(t) \subseteq wanted'[t] \cup matched'[t]
    BY <1>i, <2>1, <2>2 DEF SlotInv, InProgressSeenBy
  <2> QED
    BY <1>i, <2>1, <2>3, <2>4 DEF CleanInv, ActiveInv, NewestInv, OrderInv, SlotInv, OnlyOne
<1>15. CASE PromoteNext(t)
  BY <1>15, PromoteNextSerial
<1>16. CASE Commit(t)
  <2>1. pc[t] \in {"commit", "sweep"} /\ EndOfTx(t) /\ \A d \in Deploys : status'[d] = View(t, d)
    BY <1>16 DEF Commit
  <2>2. OnlyOne(Active)'
    BY <1>i, <2>1 DEF ActiveInv, OnlyOne, Active, ActiveSeenBy
  <2> QED
    BY <2>1, <2>2, EndOfTxSerial
<1> QED
  BY <1>1, <1>2, <1>3, <1>4, <1>5, <1>6, <1>7, <1>8, <1>9, <1>10, <1>11, <1>12, <1>13, <1>14,
     <1>15, <1>16
  DEF Call, Step

\* Every step of one session at a time keeps what it relies on.
LEMMA SerialStep ==
  ASSUME OneSession, TypeOK, LockDiscipline, ActiveHasPromotedAt, SerialInv, [Next]_vars
  PROVE  SerialInv'
<1>1. CASE UNCHANGED vars
  <2>1. UNCHANGED <<status, written, pc, self, wanted, matched, picked>>
    BY <1>1 DEF vars
  <2>2. \A t, d : View(t, d)' = View(t, d)
    BY <2>1 DEF View
  <2>3. Active' = Active /\ \A t : /\ ActiveSeenBy(t)' = ActiveSeenBy(t)
                                   /\ InProgressSeenBy(t)' = InProgressSeenBy(t)
    BY <2>1, <2>2 DEF Active, ActiveSeenBy, InProgressSeenBy
  <2> QED
    BY <2>1, <2>2, <2>3
    DEF SerialInv, CleanInv, ActiveInv, NewestInv, OrderInv, SlotInv, OnlyOne
<1>2. ASSUME NEW t \in Tx, Call(t) \/ Step(t) \/ Rollback(t)
      PROVE  SerialInv'
  BY <1>2, SerialActs DEF SerialInv, OneSession
<1> QED
  BY <1>1, <1>2 DEF Next

\* SerialInv is an invariant of one session at a time.
LEMMA SerialAlways == ASSUME OneSession PROVE Spec => []SerialInv
<1>1. Init => SerialInv
  BY DEF Init, SerialInv, CleanInv, ActiveInv, NewestInv, OrderInv, SlotInv, OnlyOne, Active,
         ActiveSeenBy, View, NoRow, Unwritten
<1> QED
  BY <1>1, SerialStep, TypeCorrect, Discipline, ActivesArePromoted, PTL DEF Spec

\* With one session at a time, transition_deploy leaves one active deploy: the
\* guard, mark_superseded and the commit together replace the active deploy.
\* With two, it does not (the run queue_two_active).
THEOREM OneActive == ASSUME OneSession PROVE Spec => []AtMostOneActive
<1>1. SerialInv => AtMostOneActive
  <2> SUFFICES ASSUME SerialInv PROVE AtMostOneActive
    OBVIOUS
  <2>1. OnlyOne(Active)
    BY DEF SerialInv, ActiveInv, OneSession
  <2>2. CASE Active = {}
    BY <2>2, FS_EmptySet DEF AtMostOneActive
  <2>3. CASE Active # {}
    <3>1. PICK d : Active = {d}
      BY <2>1, <2>3 DEF OnlyOne
    <3> QED
      <4>1. Cardinality({d}) = 1
        BY FS_Singleton
      <4> QED
        BY <3>1, <4>1 DEF AtMostOneActive
  <2> QED
    BY <2>2, <2>3
<1> QED
  BY <1>1, SerialAlways, PTL

\* With one session at a time, an older deploy never takes over from a newer
\* one: the guard looks at every active deploy and the promoted_at it requires
\* is there.
THEOREM NewerStays == ASSUME OneSession PROVE Spec => NewerIsNotDisplaced
<1> DEFINE Kept == \A old, new \in Deploys :
                     (old < new /\ new \in Active /\ old \notin Active) =>
                       ~(status'[old] = "active" /\ status'[new] = "superseded")
<1>1. ASSUME SerialInv, [Next]_vars PROVE [Kept]_vars
  <2>1. CASE UNCHANGED status
    BY <2>1 DEF Active
  <2>2. ASSUME NEW t \in Tx, Commit(t) PROVE Kept
    <3>1. \A d \in Deploys : status'[d] = "active" /\ d \notin Active => written[t][d] = "active"
      BY <2>2 DEF Commit, View, Active
    <3>2. NewestInv(t)
      BY <1>1 DEF SerialInv
    <3> QED
      BY <3>1, <3>2 DEF NewestInv, Active
  <2> QED
    BY <1>1, <2>1, <2>2, OnlyCommits
<1> QED
  BY <1>1, SerialAlways, PTL DEF Spec, NewerIsNotDisplaced

\* What the commit of the one session promotes, it has picked and counted.
LEMMA PromotingCommit ==
  ASSUME OneSession, TypeOK, SerialInv, [Next]_vars, NEW t \in Tx, Promotes(t)
  PROVE  /\ \A d \in Deploys : status'[d] = View(t, d)
         /\ picked[t] \in Deploys /\ picked[t] # 0 /\ View(t, picked[t]) = "building"
         /\ pc[t] = "commit"
<1>1. picked[t] # 0 /\ picked[t] \in Deploys /\ status'[picked[t]] # status[picked[t]]
      /\ status'[picked[t]] = "building"
  BY DEF Promotes, TypeOK
<1>2. Commit(t)
  BY <1>1, OnlyCommits DEF OneSession
<1>3. pc[t] = "commit"
  BY <1>1, <1>2 DEF Commit, SerialInv, OrderInv
<1> QED
  BY <1>1, <1>2, <1>3 DEF Commit

\* With one session at a time, _try_promote_next promotes only into a free
\* slot, although it counts twice and locks the rows of the second count one
\* by one.
THEOREM SlotsAreFree == ASSUME OneSession PROVE Spec => PromotesIntoFreeSlot
<1> DEFINE Room == \A t \in Tx : Promotes(t) => Cardinality(InProgress') <= MaxConcurrent
<1>1. ASSUME TypeOK, SerialInv, [Next]_vars PROVE Room
  <2> SUFFICES ASSUME NEW t \in Tx, Promotes(t)
               PROVE  Cardinality(InProgress') <= MaxConcurrent
    OBVIOUS
  <2>1. /\ \A d \in Deploys : status'[d] = View(t, d)
        /\ picked[t] # 0 /\ View(t, picked[t]) = "building" /\ pc[t] = "commit"
    BY <1>1, PromotingCommit
  <2>2. InProgress' = InProgressSeenBy(t)
    BY <2>1 DEF InProgress, InProgressSeenBy
  <2> QED
    BY <1>1, <2>1, <2>2 DEF SerialInv, SlotInv
<1> QED
  BY <1>1, TypeCorrect, SerialAlways, PTL DEF Spec, PromotesIntoFreeSlot

\* With one session at a time, _try_promote_next promotes the oldest queued
\* deploy: SKIP LOCKED passes over none.
THEOREM OldestFirst == ASSUME OneSession PROVE Spec => PromotesInOrder
<1> DEFINE InOrder == \A t \in Tx : Promotes(t) =>
                        \A d \in 1..(picked[t] - 1) : status'[d] # "queued"
<1>1. ASSUME TypeOK, SerialInv, [Next]_vars PROVE InOrder
  <2> SUFFICES ASSUME NEW t \in Tx, Promotes(t), NEW d \in 1..(picked[t] - 1)
               PROVE  status'[d] # "queued"
    OBVIOUS
  <2>1. /\ \A e \in Deploys : status'[e] = View(t, e)
        /\ picked[t] \in Deploys /\ picked[t] # 0
    BY <1>1, PromotingCommit
  <2>2. d \in Deploys
    BY <2>1, SizesAssumption DEF Deploys
  <2> QED
    BY <1>1, <2>1, <2>2 DEF SerialInv, OrderInv
<1> QED
  BY <1>1, TypeCorrect, SerialAlways, PTL DEF Spec, PromotesInOrder

\* The second count has returned rows in progress only, and a request that frees
\* a slot has handed it on when it comes to its commit.
FillInv(t) ==
  /\ pc[t] = "recount_lock" => matched[t] \subseteq InProgressSeenBy(t)
  /\ pc[t] = "commit" /\ FreesASlot(t) =>
       \/ picked[t] # 0 /\ View(t, picked[t]) = "building"
       \/ \A d \in Deploys : View(t, d) # "queued"
       \/ Cardinality(InProgressSeenBy(t)) >= MaxConcurrent

\* The rows that the second count locks.
LEMMA CountsInProgress ==
  ASSUME TypeOK, LockDiscipline, NEW t \in Tx, FillInv(t), Call(t) \/ Step(t) \/ Rollback(t),
         pc'[t] = "recount_lock"
  PROVE  matched'[t] \subseteq InProgressSeenBy(t)'
<1>1. Recount(t) \/ LockInProgress(t)
  BY DEF Call, Step, Rollback, CallTransition, InsertDeploy, ReconcileStuck, LockRow,
         RejectTransition, NewestGuard, mark_superseded, LockActive, LockNext, WriteSuperseded,
         enqueue_deploy, FirstCount, PickNext, PromoteNext, Commit, DeadlockAbort, EndOfTx,
         Goto, TypeOK
<1>2. UNCHANGED <<status, written>>
  BY <1>1 DEF Recount, LockInProgress, LockNext
<1>3. InProgressSeenBy(t)' = InProgressSeenBy(t)
  BY <1>2 DEF InProgressSeenBy, View
<1>4. CASE Recount(t)
  <2>1. pc[t] = "recount" /\ UNCHANGED matched
    BY <1>4 DEF Recount
  <2> QED
    BY <2>1 DEF LockDiscipline, MatchedRows
<1>5. CASE LockInProgress(t)
  <2>1. PICK e \in wanted[t] :
          matched' = [matched EXCEPT ![t] = IF View(t, e) \in in_progress_states
                                            THEN @ \cup {e} ELSE @]
    BY <1>5 DEF LockInProgress, LockNext
  <2>2. pc[t] = "recount_lock" /\ e \in Deploys
    BY <1>5 DEF LockInProgress, LockNext, TypeOK
  <2>3. matched[t] \subseteq InProgressSeenBy(t)
    BY <2>2 DEF FillInv
  <2>4. \/ matched'[t] = matched[t]
        \/ matched'[t] = matched[t] \cup {e} /\ e \in InProgressSeenBy(t)
    BY <2>1, <2>2 DEF InProgressSeenBy, TypeOK
  <2> QED
    BY <1>3, <2>3, <2>4
<1> QED
  BY <1>1, <1>4, <1>5

\* The last statement before the commit of a request that frees a slot.
LEMMA HandsOnSerial ==
  ASSUME OneSession, TypeOK, LockDiscipline, OpenInv, NEW t \in Tx, FillInv(t), [Next]_vars,
         pc[t] # "commit", pc'[t] = "commit", FreesASlot(t)'
  PROVE  \/ picked'[t] # 0 /\ View(t, picked[t])' = "building"
         \/ \A d \in Deploys : View(t, d)' # "queued"
         \/ Cardinality(InProgressSeenBy(t)') >= MaxConcurrent
<1>1. pc[t] \in {"count", "pick", "recount_lock"}
  BY HandOnStep
<1>2. Call(t) \/ Step(t) \/ Rollback(t)
  BY DEF OneSession, Next, vars
<1>3. FirstCount(t) \/ PickNext(t) \/ PromoteNext(t)
  BY <1>1, <1>2
  DEF Call, Step, Rollback, CallTransition, InsertDeploy, ReconcileStuck, LockRow,
      RejectTransition, NewestGuard, mark_superseded, LockActive, LockInProgress, LockNext,
      WriteSuperseded, enqueue_deploy, Recount, Commit, DeadlockAbort, EndOfTx, Goto, TypeOK
<1>4. ASSUME UNCHANGED <<status, written>>
      PROVE  /\ InProgressSeenBy(t)' = InProgressSeenBy(t)
             /\ \A d \in Deploys : View(t, d)' = View(t, d)
  BY <1>4 DEF InProgressSeenBy, View
<1>5. CASE FirstCount(t)
  <2>1. UNCHANGED <<status, written>> /\ Cardinality(InProgressSeenBy(t)) >= MaxConcurrent
    BY <1>5 DEF FirstCount, Goto, TypeOK
  <2> QED
    BY <1>4, <2>1
<1>6. CASE PickNext(t)
  <2>1. UNCHANGED <<status, written>> /\ Pickable(t) = {}
    BY <1>6 DEF PickNext, Goto, TypeOK
  <2>2. \A d \in Deploys : Free(t, d)
    BY DEF Free, TypeOK, OneSession
  <2>3. \A d \in Deploys : View(t, d) # "queued"
    BY <2>1, <2>2 DEF Pickable
  <2> QED
    BY <1>4, <2>1, <2>3
<1>7. CASE PromoteNext(t)
  <2>1. pc[t] = "recount_lock" /\ UNCHANGED <<status, picked>>
    BY <1>7 DEF PromoteNext
  <2>2. CASE UNCHANGED written /\ Cardinality(matched[t]) >= MaxConcurrent
    <3>1. matched[t] \subseteq InProgressSeenBy(t) /\ InProgressSeenBy(t) \in SUBSET Deploys
      BY <2>1 DEF FillInv, InProgressSeenBy
    <3>2. /\ Cardinality(matched[t]) <= Cardinality(InProgressSeenBy(t))
          /\ Cardinality(matched[t]) \in Nat /\ Cardinality(InProgressSeenBy(t)) \in Nat
      BY <3>1, DeploysFinite
    <3>3. Cardinality(InProgressSeenBy(t)) >= MaxConcurrent
      BY <2>2, <3>2, SizesAssumption
    <3> QED
      BY <1>4, <2>1, <2>2, <3>3
  <2>3. CASE Write(t, picked[t], "building")
    <3>1. picked[t] \in Deploys /\ picked[t] # 0
      BY <2>1, SizesAssumption DEF LockDiscipline, PickedRow, Deploys
    <3>2. written'[t][picked[t]] = "building"
      BY <2>3, <3>1 DEF Write, TypeOK
    <3> QED
      BY <2>1, <3>1, <3>2 DEF View, Unwritten
  <2> QED
    BY <1>7, <2>2, <2>3 DEF PromoteNext
<1> QED
  BY <1>3, <1>5, <1>6, <1>7

\* With one session at a time, no request leaves a queued deploy waiting for the
\* slot it frees: whatever status takes a deploy out of progress, the request
\* goes on to _try_promote_next, whose counts see its own write.
THEOREM FreedSlotsAreFilled == ASSUME OneSession PROVE Spec => []FreedSlotIsFilled
<1> DEFINE Inv == \A t \in Tx : FillInv(t)
<1>1. Init => Inv
  BY DEF Init, FillInv
<1>2. TypeOK /\ LockDiscipline /\ OpenInv /\ Inv /\ [Next]_vars => Inv'
  <2> SUFFICES ASSUME TypeOK, LockDiscipline, OpenInv, Inv, [Next]_vars, NEW t \in Tx
               PROVE  FillInv(t)'
    OBVIOUS
  <2>1. CASE UNCHANGED vars
    <3>1. UNCHANGED <<status, written, pc, picked, matched>>
      BY <2>1 DEF vars
    <3>2. InProgressSeenBy(t)' = InProgressSeenBy(t) /\ \A d : View(t, d)' = View(t, d)
      BY <3>1 DEF InProgressSeenBy, View
    <3> QED
      BY <3>1, <3>2 DEF FillInv, FreesASlot
  <2>2. CASE Call(t) \/ Step(t) \/ Rollback(t)
    <3>1. pc[t] = "commit" => pc'[t] # "commit"
      BY <2>2 DEF Call, Step, Rollback, CallTransition, InsertDeploy, ReconcileStuck, LockRow,
         RejectTransition, NewestGuard, mark_superseded, LockActive, LockInProgress, LockNext,
         WriteSuperseded, enqueue_deploy, FirstCount, PickNext, Recount, PromoteNext, Commit,
         DeadlockAbort, EndOfTx, Goto, TypeOK
    <3>2. pc'[t] = "recount_lock" => matched'[t] \subseteq InProgressSeenBy(t)'
      BY <2>2, CountsInProgress
    <3> QED
      BY <3>1, <3>2, HandsOnSerial DEF FillInv
  <2> QED
    BY <2>1, <2>2 DEF Next, OneSession
<1>3. Inv => FreedSlotIsFilled
  BY DEF FillInv, FreedSlotIsFilled
<1> QED
  BY <1>1, <1>2, <1>3, TypeCorrect, Discipline, OpenAlways, PTL DEF Spec
=============================================================================
