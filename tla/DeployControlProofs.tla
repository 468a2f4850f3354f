------------------------- MODULE DeployControlProofs -------------------------
(***************************************************************************)
(* Proofs about DeployControl, for any number of deploys, of requests at a *)
(* time and in all, and any limit on the running containers.               *)
(***************************************************************************)
EXTENDS DeployControl, FiniteSetTheorems, TLAPS

-----------------------------------------------------------------------------
(* The inductive invariants. *)

Bound    == MaxDeploys + MaxRequests
Requests == [pc : PCs, d : Deploys \cup {0}, flag : BOOLEAN,
             wanted : SUBSET Deploys, matched : SUBSET Deploys,
             order : [Deploys -> 0..Bound], at : 0..Bound]

\* The requests that have yet to draw a time for promoted_at.
Drawing == {h \in Handlers :
              req[h].pc \in {"limit", "limit_lock", "start_ct", "start_conf", "start_write",
                             "promote_lock", "promote_prod", "supersede", "supersede_lock",
                             "rollback_lock", "previous", "previous_lock"}}

\* A request draws at most one time.
ClockInv == IsFiniteSet(Drawing) /\ clock + Cardinality(Drawing) <= MaxDeploys + requests

\* An idle handler holds nothing; a request is about a deploy, and one that
\* has drawn its time keeps it.
RequestOK(h) ==
  /\ req[h].pc = "idle" => req[h] = NoReq
  /\ req[h].pc # "idle" => req[h].d \in Deploys
  /\ req[h].pc \in {"promote_route", "promote_commit", "rollback_route", "rollback_commit"} =>
       req[h].at # 0

Typed == TypeOK /\ ClockInv /\ \A h \in Handlers : RequestOK(h)

Promoting == {"promote_prod", "supersede", "supersede_lock", "promote_route", "promote_commit"}
Restoring == {"previous", "previous_lock", "rollback_route", "rollback_commit"}

\* What handler h has validated, and that nothing is matched before the first
\* row is locked.
ValidAt(h) ==
  /\ req[h].pc \in Promoting =>
       /\ locker[req[h].d] = h /\ status[req[h].d] \in {"active", "superseded"}
       /\ \A e \in req[h].matched : locker[e] = h /\ status[e] = "active"
  /\ req[h].pc \in Restoring =>
       /\ locker[req[h].d] = h /\ status[req[h].d] = "active"
       /\ \A e \in req[h].matched : locker[e] = h /\ status[e] \in Restorable
  /\ req[h].pc \in {"promote_lock", "promote_prod", "supersede", "rollback_lock", "previous"} =>
       req[h].matched = {}

ValidInv == \A h \in Handlers : ValidAt(h)

\* Undisturbed, one request runs at a time.
Serial == \A g, h \in Handlers : req[g].pc # "idle" /\ req[h].pc # "idle" => g = h

\* Undisturbed, the file of a container that is being taken down is the next
\* thing to go, and one that is started gets its file after it runs.
RouteInv ==
  ~disturbed =>
    /\ Serial
    /\ \A d \in conf :
         \/ ct[d] = "running"
         \/ \E h \in Handlers : req[h].d = d /\ req[h].pc \in {"stop_conf", "destroy", "unroute"}
    /\ \A h \in Handlers : req[h].pc = "start_conf" => ct[req[h].d] = "running"

RunningRows == {d \in Deploys : status[d] \in Running}

\* Undisturbed, start counts every running container before it starts one
\* more, and stop and destroy write the row of a container that is down.
LimitInv ==
  ~disturbed =>
    /\ Serial
    /\ Cardinality(RunningContainers) <= MaxRunning
    /\ \A d \in RunningContainers :
         \/ d \in RunningRows
         \/ \E h \in Handlers : req[h].d = d /\ req[h].pc \in {"start_conf", "start_write"}
    /\ \A h \in Handlers :
         /\ req[h].pc = "limit_lock" => RunningRows \subseteq req[h].wanted \cup req[h].matched
         /\ req[h].pc = "start_ct" => Cardinality(RunningContainers) < MaxRunning
         /\ req[h].pc \in {"stop_conf", "stop_prod_file", "stop_write", "destroy", "unroute",
                           "unroute_prod", "destroy_write"} =>
              ct[req[h].d] # "running"

-----------------------------------------------------------------------------
(* Type correctness. *)

\* Handler h takes a step.
Acts(h) == Step(h) \/ Fails(h) \/ \E d \in Deploys : Begin(h, d)

\* A request that calls or moves on changes its own record.
LEMMA OneActs ==
  ASSUME req \in [Handlers -> Requests], NEW h \in Handlers, Acts(h)
  PROVE  \A g \in Handlers \ {h} : req'[g] = req[g]
<1>1. ASSUME NEW t, req' = [req EXCEPT ![h] = t]
      PROVE  \A g \in Handlers \ {h} : req'[g] = req[g]
  BY <1>1
<1>2. ASSUME NEW l, Goto(h, l)
      PROVE  \A g \in Handlers \ {h} : req'[g] = req[g]
  BY <1>2 DEF Goto
<1>3. ASSUME End(h)
      PROVE  \A g \in Handlers \ {h} : req'[g] = req[g]
  BY <1>1, <1>3 DEF End
<1>4. ASSUME NEW d \in Deploys, Begin(h, d)
      PROVE  \A g \in Handlers \ {h} : req'[g] = req[g]
  BY <1>4 DEF Begin, StopRead, StartRead, PromoteCall, RollbackCall, DestroyRead, Call
<1>5. ASSUME StopReadProd(h) \/ CountRunning(h) \/ LockRunning(h) \/ MarkSuperseded(h)
             \/ LockActive(h) \/ PromoteWrite(h) \/ FindPrevious(h) \/ LockPrevious(h)
             \/ RollbackWrite(h)
      PROVE  \A g \in Handlers \ {h} : req'[g] = req[g]
  BY <1>5 DEF StopReadProd, CountRunning, LockRunning, MarkSuperseded, LockActive,
     PromoteWrite, FindPrevious, LockPrevious, RollbackWrite, Snapshot, LockNext
<1>6. ASSUME Step(h)
      PROVE  \A g \in Handlers \ {h} : req'[g] = req[g]
  BY <1>2, <1>3, <1>5, <1>6
  DEF Step, StopContainer, StopUnregister, StopUnregisterProduction, StopWrite, CheckLimit,
      StartContainer, StartRegister, StartWrite, PromoteLock, PromoteReject,
      PromoteNotProduction, PromoteRegister, PromoteCommit, RollbackLock, RollbackReject,
      RollbackRegister, RollbackCommit, TeardownChecks, TeardownDestroys,
      TeardownUnregister, TeardownUnregisterProduction, DestroyWrite, ContainerRefused,
      DeadlockAbort, Fails
<1> QED
  BY <1>3, <1>4, <1>6 DEF Acts, Fails

\* A request that has yet to draw its time finds one within the bound.
LEMMA TimeIsLeft ==
  ASSUME Typed, NEW h \in Drawing
  PROVE  clock + 1 \in 1..Bound
<1>1. Cardinality(Drawing) \in Nat /\ Cardinality(Drawing) # 0
  BY FS_CardinalityType, FS_EmptySet DEF Typed, ClockInv
<1>2. clock \in Nat /\ requests \in 0..MaxRequests /\ MaxDeploys \in Nat /\ MaxRequests \in Nat
  BY ControlAssumption DEF Typed, TypeOK
<1>3. clock + Cardinality(Drawing) <= MaxDeploys + requests
  BY DEF Typed, ClockInv
<1> QED
  BY <1>1, <1>2, <1>3 DEF Bound

\* Drawn and abandoned times are never more than the requests.
LEMMA ClockKept ==
  ASSUME Typed, NEW h \in Handlers, \A g \in Handlers \ {h} : req'[g] = req[g],
         \/ /\ UNCHANGED <<clock, requests>>
            /\ h \in Drawing' => h \in Drawing
         \/ clock' = clock + 1 /\ UNCHANGED requests /\ h \in Drawing /\ h \notin Drawing'
         \/ UNCHANGED clock /\ requests' = requests + 1
  PROVE  ClockInv'
<1>1. /\ IsFiniteSet(Drawing) /\ Cardinality(Drawing) \in Nat
      /\ clock + Cardinality(Drawing) <= MaxDeploys + requests
      /\ clock \in Nat /\ requests \in Nat /\ MaxDeploys \in Nat
  BY ControlAssumption, FS_CardinalityType DEF Typed, TypeOK, ClockInv
<1>2. \A g \in Handlers \ {h} : g \in Drawing' <=> g \in Drawing
  BY DEF Drawing
<1>3. Drawing \subseteq Handlers /\ Drawing' \subseteq Handlers
  BY DEF Drawing
<1>4. CASE UNCHANGED <<clock, requests>> /\ (h \in Drawing' => h \in Drawing)
  <2>1. Drawing' \subseteq Drawing
    BY <1>2, <1>3, <1>4
  <2>2. IsFiniteSet(Drawing') /\ Cardinality(Drawing') \in Nat
        /\ Cardinality(Drawing') <= Cardinality(Drawing)
    BY <1>1, <2>1, FS_Subset, FS_CardinalityType
  <2> QED
    BY <1>1, <1>4, <2>2 DEF ClockInv
<1>5. CASE clock' = clock + 1 /\ UNCHANGED requests /\ h \in Drawing /\ h \notin Drawing'
  <2>1. Drawing' = Drawing \ {h}
    BY <1>2, <1>3, <1>5
  <2>2. IsFiniteSet(Drawing') /\ Cardinality(Drawing') = Cardinality(Drawing) - 1
    BY <1>1, <1>5, <2>1, FS_RemoveElement
  <2> QED
    BY <1>1, <1>5, <2>2 DEF ClockInv
<1>6. CASE UNCHANGED clock /\ requests' = requests + 1
  <2> DEFINE S == Drawing \cup {h}
  <2>1. Drawing' \subseteq S
    BY <1>2, <1>3
  <2>2. IsFiniteSet(S) /\ Cardinality(S) \in Nat /\ Cardinality(S) <= Cardinality(Drawing) + 1
    <3>1. IsFiniteSet(S) /\ Cardinality(S) = IF h \in Drawing THEN Cardinality(Drawing)
                                             ELSE Cardinality(Drawing) + 1
      BY <1>1, FS_AddElement
    <3> HIDE DEF S
    <3> QED
      BY <1>1, <3>1, FS_CardinalityType
  <2> HIDE DEF S
  <2>3. IsFiniteSet(Drawing') /\ Cardinality(Drawing') \in Nat
        /\ Cardinality(Drawing') <= Cardinality(S)
    BY <2>1, <2>2, FS_Subset, FS_CardinalityType
  <2> QED
    BY <1>1, <1>6, <2>2, <2>3 DEF ClockInv
<1> QED
  BY <1>4, <1>5, <1>6

\* What a request's record must be.
RecordOK(t) ==
  /\ t \in Requests
  /\ t.pc = "idle" => t = NoReq
  /\ t.pc # "idle" => t.d \in Deploys
  /\ t.pc \in {"promote_route", "promote_commit", "rollback_route", "rollback_commit"} =>
       t.at # 0

\* An idle handler's record.
LEMMA NoReqIsOK == RecordOK(NoReq) /\ NoReq.pc = "idle"
<1>1. 0 \in 0..Bound
  BY ControlAssumption DEF Bound
<1> QED
  BY <1>1 DEF RecordOK, NoReq, Requests, PCs

\* Every step leaves a request's record.
LEMMA RecordStep ==
  ASSUME Typed, NEW h \in Handlers, Acts(h)
  PROVE  \E t : RecordOK(t) /\ req' = [req EXCEPT ![h] = t]
<1> DEFINE r == req[h]
           Goal == \E t : RecordOK(t) /\ req' = [req EXCEPT ![h] = t]
<1>1. /\ req \in [Handlers -> Requests] /\ RecordOK(r)
      /\ status \in [Deploys -> DEPLOY_STATES] /\ promoted \in [Deploys -> 1..Bound]
      /\ clock \in 1..Bound
  BY DEF Typed, TypeOK, Requests, Bound, RequestOK, RecordOK
<1>2. ASSUME End(h) PROVE Goal
  BY <1>2, NoReqIsOK DEF End
<1>3. ASSUME NEW l \in PCs \ {"idle"}, Goto(h, l), r.pc # "idle",
             l \in {"promote_route", "promote_commit", "rollback_route", "rollback_commit"} =>
               r.at # 0
      PROVE  Goal
  <2> DEFINE t == [r EXCEPT !.pc = l]
  <2>1. RecordOK(t)
    BY <1>1, <1>3 DEF RecordOK, Requests
  <2>2. req' = [req EXCEPT ![h] = t]
    BY <1>3 DEF Goto
  <2> QED
    BY <2>1, <2>2
<1>4. ASSUME NEW d \in Deploys, NEW l \in PCs \ {"idle"}, NEW f \in BOOLEAN, Call(h, d, l, f),
             l \notin {"promote_route", "promote_commit", "rollback_route", "rollback_commit"}
      PROVE  Goal
  <2> DEFINE t == [r EXCEPT !.pc = l, !.d = d, !.flag = f]
  <2>1. RecordOK(t)
    BY <1>1, <1>4 DEF RecordOK, Requests
  <2>2. req' = [req EXCEPT ![h] = t]
    BY <1>4 DEF Call
  <2> QED
    BY <2>1, <2>2
<1>5. ASSUME NEW d \in Deploys, Begin(h, d) PROVE Goal
  <2>1. {"stop_prod", "limit", "promote_lock", "rollback_lock", "check"} \subseteq PCs \ {"idle"}
    BY DEF PCs
  <2>2. CASE DestroyRead(h, d)
    BY <1>4, <2>1, <2>2 DEF DestroyRead
  <2> QED
    BY <1>4, <1>5, <2>1, <2>2 DEF Begin, StopRead, StartRead, PromoteCall, RollbackCall
<1>6. ASSUME StopReadProd(h) PROVE Goal
  <2> DEFINE f == IsProduction(r.d)
             t == [r EXCEPT !.pc = "stop_ct", !.flag = f]
  <2>1. f \in BOOLEAN
    BY DEF IsProduction
  <2>2. req' = [req EXCEPT ![h] = t] /\ r.pc = "stop_prod"
    BY <1>6 DEF StopReadProd, At
  <2> HIDE DEF f
  <2>3. RecordOK(t)
    BY <1>1, <2>1, <2>2 DEF RecordOK, Requests, PCs
  <2> QED
    BY <2>2, <2>3
<1>7. ASSUME NEW l \in PCs \ {"idle", "promote_route", "promote_commit", "rollback_route",
                              "rollback_commit"},
             NEW S \in SUBSET Deploys, NEW p, p # "idle", Snapshot(h, p, l, S)
      PROVE  Goal
  <2> DEFINE t == [r EXCEPT !.pc = l, !.wanted = S]
  <2>1. req' = [req EXCEPT ![h] = t] /\ r.pc # "idle"
    BY <1>7 DEF Snapshot, At
  <2>2. RecordOK(t)
    BY <1>1, <1>7, <2>1 DEF RecordOK, Requests
  <2> QED
    BY <2>1, <2>2
<1>8. ASSUME CountRunning(h) \/ MarkSuperseded(h) PROVE Goal
  <2>1. {d \in Deploys : status[d] \in Running} \subseteq Deploys /\ Actives \ {r.d} \subseteq Deploys
    BY DEF Actives
  <2>2. {"limit_lock", "supersede_lock"}
          \subseteq PCs \ {"idle", "promote_route", "promote_commit", "rollback_route",
                           "rollback_commit"}
    BY DEF PCs
  <2>3. CASE CountRunning(h)
    BY <1>7, <2>1, <2>2, <2>3 DEF CountRunning
  <2>4. CASE MarkSuperseded(h)
    BY <1>7, <2>1, <2>2, <2>4 DEF MarkSuperseded
  <2> QED
    BY <1>8, <2>3, <2>4
<1>9. ASSUME NEW W \in SUBSET Deploys, NEW M \in SUBSET Deploys, r.pc # "idle",
             req' = [req EXCEPT ![h].wanted = W, ![h].matched = M]
      PROVE  Goal
  <2> DEFINE t == [r EXCEPT !.wanted = W, !.matched = M]
  <2>1. RecordOK(t)
    BY <1>1, <1>9 DEF RecordOK, Requests
  <2> QED
    BY <1>9, <2>1
<1>10. r.wanted \subseteq Deploys /\ r.matched \subseteq Deploys
  BY <1>1 DEF Requests
<1>11. ASSUME NEW p, p # "idle", NEW states, LockNext(h, p, states) PROVE Goal
  <2>1. PICK e \in r.wanted :
          req' = [req EXCEPT ![h].wanted = @ \ {e},
                             ![h].matched = IF status[e] \in states THEN @ \cup {e} ELSE @]
    BY <1>11 DEF LockNext
  <2> DEFINE W == r.wanted \ {e}
             M == IF status[e] \in states THEN r.matched \cup {e} ELSE r.matched
  <2>2. W \in SUBSET Deploys /\ M \in SUBSET Deploys
    BY <1>10
  <2>3. req' = [req EXCEPT ![h].wanted = W, ![h].matched = M]
    BY <2>1
  <2> HIDE DEF W, M
  <2>4. r.pc # "idle"
    BY <1>11 DEF LockNext, At
  <2> QED
    BY <1>9, <2>2, <2>3, <2>4
<1>12. ASSUME LockPrevious(h) PROVE Goal
  <2>1. PICK e \in Deploys :
          req' = [req EXCEPT ![h].wanted = @ \ {e},
                             ![h].matched = IF status[e] \in Restorable THEN {e} ELSE {}]
    BY <1>12 DEF LockPrevious
  <2> DEFINE W == r.wanted \ {e}
             M == IF status[e] \in Restorable THEN {e} ELSE {}
  <2>2. W \in SUBSET Deploys /\ M \in SUBSET Deploys
    BY <1>10
  <2>3. req' = [req EXCEPT ![h].wanted = W, ![h].matched = M]
    BY <2>1
  <2> HIDE DEF W, M
  <2>4. r.pc # "idle"
    BY <1>12 DEF LockPrevious, At
  <2> QED
    BY <1>9, <2>2, <2>3, <2>4
<1>13. ASSUME FindPrevious(h) PROVE Goal
  <2> DEFINE S == {d \in Deploys \ {r.d} : status[d] \in Restorable}
             t == [r EXCEPT !.pc = "previous_lock", !.order = promoted, !.wanted = S]
  <2>1. S \in SUBSET Deploys
    OBVIOUS
  <2>2. req' = [req EXCEPT ![h] = t] /\ r.pc = "previous"
    BY <1>13 DEF FindPrevious, At
  <2> HIDE DEF S
  <2>3. promoted \in [Deploys -> 0..Bound]
    BY <1>1
  <2>4. RecordOK(t)
    BY <1>1, <2>1, <2>2, <2>3 DEF RecordOK, Requests, PCs
  <2> QED
    BY <2>2, <2>4
<1>14. ASSUME PromoteWrite(h) \/ RollbackWrite(h) PROVE Goal
  <2>1. r.pc \in {"supersede_lock", "previous_lock"}
    BY <1>14 DEF PromoteWrite, RollbackWrite, At
  <2>2. clock + 1 \in 1..Bound
    BY <2>1, TimeIsLeft DEF Drawing
  <2>3. PICK l \in {"promote_route", "rollback_route"}, n \in {clock, clock + 1} :
          req' = [req EXCEPT ![h].pc = l, ![h].at = n]
    <3>1. CASE PromoteWrite(h)
      BY <3>1 DEF PromoteWrite
    <3>2. CASE RollbackWrite(h)
      BY <3>2 DEF RollbackWrite
    <3> QED
      BY <1>14, <3>1, <3>2
  <2> DEFINE t == [r EXCEPT !.pc = l, !.at = n]
  <2>4. n \in 1..Bound /\ n \in 0..Bound /\ n # 0
    BY <1>1, <2>2
  <2>5. RecordOK(t)
    BY <1>1, <2>1, <2>4 DEF RecordOK, Requests, PCs
  <2> QED
    BY <2>3, <2>5
<1>15. ASSUME StopContainer(h) \/ StopUnregister(h) \/ StopUnregisterProduction(h)
              \/ StartContainer(h) \/ StartRegister(h) \/ PromoteLock(h)
              \/ PromoteNotProduction(h) \/ PromoteRegister(h) \/ RollbackLock(h)
              \/ RollbackRegister(h) \/ TeardownChecks(h) \/ TeardownDestroys(h)
              \/ TeardownUnregister(h) \/ TeardownUnregisterProduction(h)
       PROVE  Goal
  <2>1. CASE PromoteRegister(h) \/ RollbackRegister(h)
    <3>1. r.pc \in {"promote_route", "rollback_route"}
      BY <2>1 DEF PromoteRegister, RollbackRegister, At
    <3>2. \E l \in {"promote_commit", "rollback_commit"} : Goto(h, l)
      BY <2>1 DEF PromoteRegister, RollbackRegister
    <3> QED
      BY <1>1, <1>3, <3>1, <3>2 DEF RecordOK, PCs
  <2>2. CASE ~(PromoteRegister(h) \/ RollbackRegister(h))
    <3>1. r.pc # "idle"
      BY <1>15, <2>2
      DEF StopContainer, StopUnregister, StopUnregisterProduction, StartContainer,
          StartRegister, PromoteLock, PromoteNotProduction, RollbackLock, TeardownChecks,
          TeardownDestroys, TeardownUnregister, TeardownUnregisterProduction, At
    <3>2. \E l \in {"stop_conf", "stop_prod_file", "stop_write", "start_conf", "start_write",
                    "promote_prod", "supersede", "previous", "destroy", "unroute",
                    "unroute_prod", "destroy_write"} : Goto(h, l)
      BY <1>15, <2>2
      DEF StopContainer, StopUnregister, StopUnregisterProduction, StartContainer,
          StartRegister, PromoteLock, PromoteNotProduction, RollbackLock, TeardownChecks,
          TeardownDestroys, TeardownUnregister, TeardownUnregisterProduction
    <3> QED
      BY <1>3, <3>1, <3>2 DEF PCs
  <2> QED
    BY <2>1, <2>2
<1>16. ASSUME CheckLimit(h) PROVE Goal
  BY <1>2, <1>3, <1>16 DEF CheckLimit, At, PCs
<1>17. ASSUME Step(h) PROVE Goal
  BY <1>2, <1>6, <1>8, <1>11, <1>12, <1>13, <1>14, <1>15, <1>16, <1>17
  DEF Step, StopWrite, LockRunning, StartWrite, PromoteReject, LockActive, PromoteCommit,
      RollbackReject, RollbackCommit, DestroyWrite, ContainerRefused, DeadlockAbort, Fails
<1> QED
  BY <1>2, <1>5, <1>17 DEF Acts, Fails

\* The steps that write the rows.
LEMMA RowsFrame ==
  ASSUME NEW h \in Handlers, Acts(h)
  PROVE  UNCHANGED rows \/ StopWrite(h) \/ StartWrite(h) \/ PromoteCommit(h)
         \/ RollbackCommit(h) \/ DestroyWrite(h)
BY DEF Acts, Step, Fails, Begin, StopRead, StartRead, PromoteCall, RollbackCall,
       DestroyRead, Call, StopReadProd, StopContainer, StopUnregister,
       StopUnregisterProduction, CountRunning, LockRunning, CheckLimit, StartContainer,
       StartRegister, PromoteLock, PromoteReject, PromoteNotProduction, MarkSuperseded,
       LockActive, PromoteWrite, PromoteRegister, RollbackLock, RollbackReject,
       FindPrevious, LockPrevious, RollbackWrite, RollbackRegister, TeardownChecks,
       TeardownDestroys, TeardownUnregister, TeardownUnregisterProduction,
       ContainerRefused, DeadlockAbort, Snapshot, LockNext

\* The steps that draw a time.
LEMMA ClockFrame ==
  ASSUME NEW h \in Handlers, Acts(h)
  PROVE  UNCHANGED clock \/ StartWrite(h) \/ PromoteWrite(h) \/ RollbackWrite(h)
BY DEF Acts, Step, Fails, Begin, StopRead, StartRead, PromoteCall, RollbackCall,
       DestroyRead, Call, StopReadProd, StopContainer, StopUnregister,
       StopUnregisterProduction, StopWrite, CountRunning, LockRunning, CheckLimit,
       StartContainer, StartRegister, PromoteLock, PromoteReject, PromoteNotProduction,
       MarkSuperseded, LockActive, PromoteRegister, PromoteCommit, RollbackLock,
       RollbackReject, FindPrevious, LockPrevious, RollbackRegister, RollbackCommit,
       TeardownChecks, TeardownDestroys, TeardownUnregister, TeardownUnregisterProduction,
       DestroyWrite, ContainerRefused, DeadlockAbort, Snapshot, LockNext

\* The steps on the containers.
LEMMA ContainerFrame ==
  ASSUME NEW h \in Handlers, Acts(h)
  PROVE  UNCHANGED ct \/ StopContainer(h) \/ StartContainer(h) \/ TeardownChecks(h)
         \/ TeardownDestroys(h)
BY DEF Acts, Step, Fails, Begin, StopRead, StartRead, PromoteCall, RollbackCall,
       DestroyRead, Call, StopReadProd, StopUnregister, StopUnregisterProduction,
       StopWrite, CountRunning, LockRunning, CheckLimit, StartRegister, StartWrite,
       PromoteLock, PromoteReject, PromoteNotProduction, MarkSuperseded, LockActive,
       PromoteWrite, PromoteRegister, PromoteCommit, RollbackLock, RollbackReject,
       FindPrevious, LockPrevious, RollbackWrite, RollbackRegister, RollbackCommit,
       TeardownUnregister, TeardownUnregisterProduction, DestroyWrite, ContainerRefused,
       DeadlockAbort, Snapshot, LockNext

\* The steps on the Nginx files.
LEMMA FilesFrame ==
  ASSUME NEW h \in Handlers, Acts(h)
  PROVE  /\ UNCHANGED sweep
         /\ UNCHANGED conf \/ StopUnregister(h) \/ StartRegister(h) \/ TeardownUnregister(h)
         /\ UNCHANGED prod \/ StopUnregisterProduction(h) \/ PromoteRegister(h)
            \/ RollbackRegister(h) \/ TeardownUnregisterProduction(h)
BY DEF Acts, files, Step, Fails, Begin, StopRead, StartRead, PromoteCall, RollbackCall,
       DestroyRead, Call, StopReadProd, StopContainer, StopUnregister,
       StopUnregisterProduction, StopWrite, CountRunning, LockRunning, CheckLimit,
       StartContainer, StartRegister, StartWrite, PromoteLock, PromoteReject,
       PromoteNotProduction, MarkSuperseded, LockActive, PromoteWrite, PromoteRegister,
       PromoteCommit, RollbackLock, RollbackReject, FindPrevious, LockPrevious,
       RollbackWrite, RollbackRegister, RollbackCommit, TeardownChecks, TeardownDestroys,
       TeardownUnregister, TeardownUnregisterProduction, DestroyWrite, ContainerRefused,
       DeadlockAbort, Snapshot, LockNext

\* Only a call counts as a request, and only it and a failure disturb.
LEMMA PastFrame ==
  ASSUME NEW h \in Handlers, Acts(h)
  PROVE  /\ UNCHANGED requests \/ \E d \in Deploys : Begin(h, d)
         /\ UNCHANGED disturbed \/ disturbed' = TRUE \/ \E d \in Deploys : Begin(h, d)
BY DEF Acts, past, Step, Fails, StopReadProd, StopContainer, StopUnregister,
       StopUnregisterProduction, StopWrite, CountRunning, LockRunning, CheckLimit,
       StartContainer, StartRegister, StartWrite, PromoteLock, PromoteReject,
       PromoteNotProduction, MarkSuperseded, LockActive, PromoteWrite, PromoteRegister,
       PromoteCommit, RollbackLock, RollbackReject, FindPrevious, LockPrevious,
       RollbackWrite, RollbackRegister, RollbackCommit, TeardownChecks, TeardownDestroys,
       TeardownUnregister, TeardownUnregisterProduction, DestroyWrite, ContainerRefused,
       DeadlockAbort, Snapshot, LockNext

\* A request takes free rows one by one and gives them up together.
LEMMA LockFrame ==
  ASSUME NEW h \in Handlers, Acts(h)
  PROVE  UNCHANGED locker \/ End(h) \/ \E d : Free(h, d) /\ Lock(h, d)
BY DEF Acts, Step, Fails, Begin, StopRead, StartRead, PromoteCall, RollbackCall,
       DestroyRead, Call, StopReadProd, StopContainer, StopUnregister,
       StopUnregisterProduction, StopWrite, CountRunning, LockRunning, CheckLimit,
       StartContainer, StartRegister, StartWrite, PromoteLock, PromoteReject,
       PromoteNotProduction, MarkSuperseded, LockActive, PromoteWrite, PromoteRegister,
       PromoteCommit, RollbackLock, RollbackReject, FindPrevious, LockPrevious,
       RollbackWrite, RollbackRegister, RollbackCommit, TeardownChecks, TeardownDestroys,
       TeardownUnregister, TeardownUnregisterProduction, DestroyWrite, ContainerRefused,
       DeadlockAbort, Snapshot, LockNext

\* A rewritten row keeps its type.
LEMMA RowsStep ==
  ASSUME Typed, NEW h \in Handlers, Acts(h)
  PROVE  status' \in [Deploys -> DEPLOY_STATES] /\ promoted' \in [Deploys -> 1..Bound]
<1>1. /\ req[h] \in Requests /\ RecordOK(req[h])
      /\ status \in [Deploys -> DEPLOY_STATES] /\ promoted \in [Deploys -> 1..Bound]
  BY DEF Typed, TypeOK, Requests, Bound, RequestOK, RecordOK
<1>2. {"stopped", "active", "superseded", "rolled_back"} \subseteq DEPLOY_STATES
  BY DEF DEPLOY_STATES
<1>3. CASE UNCHANGED rows
  BY <1>1, <1>3 DEF rows
<1>4. CASE StopWrite(h) \/ DestroyWrite(h)
  <2>1. PICK s \in DEPLOY_STATES : status' = [status EXCEPT ![req[h].d] = s]
    BY <1>2, <1>4 DEF StopWrite, DestroyWrite
  <2>2. UNCHANGED promoted
    BY <1>4 DEF StopWrite, DestroyWrite
  <2> QED
    BY <1>1, <2>1, <2>2
<1>5. CASE StartWrite(h)
  <2>1. h \in Drawing
    BY <1>5 DEF StartWrite, At, Drawing
  <2>2. clock + 1 \in 1..Bound
    BY <2>1, TimeIsLeft
  <2> DEFINE n == clock + 1
  <2>3. status' = [status EXCEPT ![req[h].d] = "active"]
        /\ promoted' = [promoted EXCEPT ![req[h].d] = n]
    BY <1>5 DEF StartWrite
  <2> HIDE DEF n
  <2> QED
    BY <1>1, <1>2, <2>2, <2>3 DEF n
<1>6. CASE PromoteCommit(h) \/ RollbackCommit(h)
  <2> DEFINE n == req[h].at
  <2>1. n \in 1..Bound
    <3>1. n \in 0..Bound /\ n # 0
      BY <1>1, <1>6 DEF PromoteCommit, RollbackCommit, At, RecordOK, Requests
    <3> HIDE DEF n
    <3> QED
      BY <3>1, ControlAssumption DEF Bound
  <2>2. CASE PromoteCommit(h)
    BY <1>1, <1>2, <2>1, <2>2 DEF PromoteCommit
  <2>3. CASE RollbackCommit(h)
    BY <1>1, <1>2, <2>1, <2>3 DEF RollbackCommit
  <2> QED
    BY <1>6, <2>2, <2>3
<1> QED
  BY <1>3, <1>4, <1>5, <1>6, RowsFrame

\* Every step draws at most one time and no request draws twice.
LEMMA ClockStep ==
  ASSUME Typed, NEW h \in Handlers, Acts(h)
  PROVE  ClockInv' /\ clock' \in 1..Bound /\ requests' \in 0..MaxRequests
<1>1. req \in [Handlers -> Requests] /\ clock \in 1..Bound /\ requests \in 0..MaxRequests
  BY DEF Typed, TypeOK, Requests, Bound
<1>2. \A g \in Handlers \ {h} : req'[g] = req[g]
  BY <1>1, OneActs
<1>3. CASE \E d \in Deploys : Begin(h, d)
  <2>1. requests < MaxRequests /\ requests' = requests + 1 /\ UNCHANGED clock
    BY <1>3 DEF Begin, StopRead, StartRead, PromoteCall, RollbackCall, DestroyRead, Call
  <2> QED
    BY <1>1, <1>2, <2>1, ClockKept, ControlAssumption
<1>4. CASE StartWrite(h) \/ PromoteWrite(h) \/ RollbackWrite(h)
  <2>1. h \in Drawing
    BY <1>4 DEF StartWrite, PromoteWrite, RollbackWrite, At, Drawing
  <2>2. h \notin Drawing'
    BY <1>1, <1>4, NoReqIsOK
    DEF StartWrite, PromoteWrite, RollbackWrite, End, Drawing, Requests
  <2>3. UNCHANGED requests /\ clock' \in {clock, clock + 1}
    BY <1>4 DEF StartWrite, PromoteWrite, RollbackWrite, past
  <2>4. clock + 1 \in 1..Bound
    BY <2>1, TimeIsLeft
  <2>5. ClockInv'
    BY <1>2, <2>1, <2>2, <2>3, ClockKept
  <2> QED
    BY <1>1, <2>3, <2>4, <2>5
<1>5. CASE UNCHANGED <<clock, requests>> /\ ~(\E d \in Deploys : Begin(h, d))
  <2>1. h \in Drawing' => h \in Drawing
    <3>1. SUFFICES ASSUME h \in Drawing', h \notin Drawing PROVE FALSE
      OBVIOUS
    <3>2. ASSUME End(h) PROVE FALSE
      BY <1>1, <3>1, <3>2, NoReqIsOK DEF End, Drawing
    <3>3. Step(h) \/ Fails(h)
      BY <1>5 DEF Acts
    <3>4. ASSUME \/ CountRunning(h) \/ LockRunning(h) \/ CheckLimit(h) \/ StartContainer(h)
                 \/ StartRegister(h) \/ StartWrite(h) \/ PromoteLock(h)
                 \/ PromoteNotProduction(h) \/ MarkSuperseded(h) \/ LockActive(h)
                 \/ PromoteWrite(h) \/ RollbackLock(h) \/ FindPrevious(h)
                 \/ LockPrevious(h) \/ RollbackWrite(h)
          PROVE  FALSE
      <4>1. CASE \/ CountRunning(h) \/ LockRunning(h) \/ CheckLimit(h) \/ StartContainer(h)
                 \/ StartRegister(h) \/ StartWrite(h) \/ PromoteLock(h)
        BY <3>1, <4>1
        DEF Drawing, At, CountRunning, LockRunning, CheckLimit, StartContainer, StartRegister,
            StartWrite, PromoteLock, Snapshot, LockNext
      <4>2. CASE \/ PromoteNotProduction(h) \/ MarkSuperseded(h) \/ LockActive(h)
                 \/ PromoteWrite(h) \/ RollbackLock(h) \/ FindPrevious(h)
                 \/ LockPrevious(h) \/ RollbackWrite(h)
        BY <3>1, <4>2
        DEF Drawing, At, PromoteNotProduction, MarkSuperseded, LockActive, PromoteWrite,
            RollbackLock, FindPrevious, LockPrevious, RollbackWrite, Snapshot, LockNext
      <4> QED
        BY <3>4, <4>1, <4>2
    <3>5. ASSUME NEW l \in {"stop_conf", "stop_prod_file", "stop_write", "promote_commit",
                           "rollback_commit", "destroy", "unroute", "unroute_prod",
                           "destroy_write"}, Goto(h, l)
          PROVE  FALSE
      BY <1>1, <3>1, <3>5 DEF Goto, Drawing, Requests
    <3>6. ASSUME StopReadProd(h) PROVE FALSE
      BY <1>1, <3>1, <3>6 DEF StopReadProd, Drawing, Requests
    <3>7. ASSUME \/ StopContainer(h) \/ StopUnregister(h) \/ StopUnregisterProduction(h)
                 \/ PromoteRegister(h) \/ RollbackRegister(h) \/ TeardownChecks(h)
                 \/ TeardownDestroys(h) \/ TeardownUnregister(h)
                 \/ TeardownUnregisterProduction(h)
          PROVE  FALSE
      BY <3>5, <3>7
      DEF StopContainer, StopUnregister, StopUnregisterProduction, PromoteRegister,
          RollbackRegister, TeardownChecks, TeardownDestroys, TeardownUnregister,
          TeardownUnregisterProduction
    <3>8. ASSUME \/ StopWrite(h) \/ PromoteReject(h) \/ PromoteCommit(h) \/ RollbackReject(h)
                 \/ RollbackCommit(h) \/ DestroyWrite(h) \/ ContainerRefused(h)
                 \/ DeadlockAbort(h) \/ Fails(h)
          PROVE  FALSE
      BY <3>2, <3>8
      DEF StopWrite, PromoteReject, PromoteCommit, RollbackReject, RollbackCommit, DestroyWrite,
          ContainerRefused, DeadlockAbort, Fails
    <3> QED
      BY <3>3, <3>4, <3>6, <3>7, <3>8 DEF Step
  <2>2. ClockInv'
    BY <1>2, <1>5, <2>1, ClockKept
  <2> QED
    BY <1>1, <1>5, <2>2
<1> QED
  BY <1>3, <1>4, <1>5, ClockFrame, PastFrame

\* Containers, files and locks keep their types.
LEMMA RestStep ==
  ASSUME Typed, NEW h \in Handlers, Acts(h)
  PROVE  /\ ct' \in [Deploys -> {"running", "stopped", "gone"}]
         /\ conf' \subseteq Deploys /\ prod' \in Deploys \cup {0} /\ sweep' \subseteq Deploys
         /\ locker' \in [Deploys -> Handlers \cup {Nobody}]
         /\ disturbed' \in BOOLEAN
<1>1. /\ RecordOK(req[h]) /\ req[h] \in Requests
      /\ ct \in [Deploys -> {"running", "stopped", "gone"}]
      /\ conf \subseteq Deploys /\ prod \in Deploys \cup {0} /\ sweep \subseteq Deploys
      /\ locker \in [Deploys -> Handlers \cup {Nobody}] /\ disturbed \in BOOLEAN
  BY DEF Typed, TypeOK, Requests, Bound, RequestOK, RecordOK
<1>2. ct' \in [Deploys -> {"running", "stopped", "gone"}]
  BY <1>1, ContainerFrame DEF StopContainer, StartContainer, TeardownChecks, TeardownDestroys
<1>3. conf' \subseteq Deploys /\ sweep' \subseteq Deploys
  <2>1. StartRegister(h) => req[h].d \in Deploys
    BY <1>1 DEF StartRegister, At, RecordOK
  <2> QED
    BY <1>1, <2>1, FilesFrame DEF StopUnregister, StartRegister, TeardownUnregister
<1>4. prod' \in Deploys \cup {0}
  <2>1. req[h].d \in Deploys \cup {0} /\ req[h].matched \subseteq Deploys
    BY <1>1 DEF Requests
  <2> QED
    BY <1>1, <2>1, FilesFrame
    DEF StopUnregisterProduction, PromoteRegister, RollbackRegister,
        TeardownUnregisterProduction
<1>5. locker' \in [Deploys -> Handlers \cup {Nobody}]
  BY <1>1, LockFrame DEF End, Lock
<1>6. disturbed' \in BOOLEAN
  <2>1. ASSUME NEW d \in Deploys, Begin(h, d) PROVE disturbed' \in BOOLEAN
    BY <2>1 DEF Begin, StopRead, StartRead, PromoteCall, RollbackCall, DestroyRead, Call
  <2> QED
    BY <1>1, <2>1, PastFrame
<1> QED
  BY <1>2, <1>3, <1>4, <1>5, <1>6

\* A handler's step keeps the types.
LEMMA ActsTyped ==
  ASSUME Typed, NEW h \in Handlers, Acts(h)
  PROVE  Typed'
<1>1. req \in [Handlers -> Requests] /\ \A g \in Handlers : RequestOK(g)
  BY DEF Typed, TypeOK, Requests, Bound
<1>2. PICK t : RecordOK(t) /\ req' = [req EXCEPT ![h] = t]
  BY RecordStep
<1>3. req' \in [Handlers -> Requests]
  BY <1>1, <1>2 DEF RecordOK
<1>4. \A g \in Handlers : RequestOK(g)'
  BY <1>1, <1>2 DEF RecordOK, RequestOK
<1> QED
  BY <1>3, <1>4, RowsStep, ClockStep, RestStep DEF Typed, TypeOK, Requests, Bound

\* The first state is typed.
LEMMA TypedInit == Init => Typed
<1> SUFFICES ASSUME Init PROVE Typed
  OBVIOUS
<1>1. /\ MaxDeploys \in Nat /\ MaxDeploys # 0 /\ MaxRequests \in Nat
      /\ Deploys \subseteq 1..Bound /\ MaxDeploys \in Deploys /\ MaxDeploys \in 1..Bound
  BY ControlAssumption DEF Bound, Deploys
<1>2. req \in [Handlers -> Requests] /\ \A h \in Handlers : RequestOK(h) /\ req[h].pc = "idle"
  BY NoReqIsOK DEF Init, RecordOK, RequestOK
<1>3. Drawing = {}
  BY <1>2 DEF Drawing
<1>4. ClockInv
  BY <1>1, <1>3, FS_EmptySet DEF ClockInv, Init
<1>5. status \in [Deploys -> DEPLOY_STATES] /\ ct \in [Deploys -> {"running", "stopped", "gone"}]
  BY DEF Init, DEPLOY_STATES
<1>6. promoted \in [Deploys -> 1..Bound] /\ locker \in [Deploys -> Handlers \cup {Nobody}]
  BY <1>1 DEF Init
<1>7. /\ conf \subseteq Deploys /\ prod \in Deploys \cup {0} /\ sweep \subseteq Deploys
      /\ clock \in 1..Bound /\ requests \in 0..MaxRequests /\ disturbed \in BOOLEAN
  <2>1. /\ conf \subseteq Deploys /\ sweep = {} /\ disturbed = FALSE
        /\ prod = MaxDeploys /\ clock = MaxDeploys /\ requests = 0
    BY DEF Init
  <2>2. 0 \in 0..MaxRequests
    BY <1>1
  <2>3. disturbed \in BOOLEAN
    BY <2>1
  <2> QED
    BY <1>1, <2>1, <2>2, <2>3
<1> QED
  BY <1>2, <1>4, <1>5, <1>6, <1>7 DEF Typed, TypeOK, Requests, Bound

\* Every step keeps the types.
LEMMA TypedStep == Typed /\ [Next]_vars => Typed'
<1> SUFFICES ASSUME Typed, [Next]_vars PROVE Typed'
  OBVIOUS
<1>1. CASE \E h \in Handlers : Acts(h)
  BY <1>1, ActsTyped
<1>2. CASE Sweep
  <2>1. UNCHANGED <<status, promoted, locker, req, ct, prod, clock, requests, disturbed>>
    BY <1>2 DEF Sweep, SweepRead, SweepRemove, rows, files, past
  <2>2. conf' \subseteq Deploys /\ sweep' \subseteq Deploys
    BY <1>2 DEF Sweep, SweepRead, SweepRemove, files, Typed, TypeOK
  <2>3. ClockInv' /\ \A h \in Handlers : RequestOK(h)'
    BY <2>1 DEF Typed, ClockInv, Drawing, RequestOK
  <2> QED
    BY <2>1, <2>2, <2>3 DEF Typed, TypeOK
<1>3. CASE UNCHANGED vars
  BY <1>3 DEF vars, Typed, TypeOK, ClockInv, Drawing, RequestOK
<1> QED
  BY <1>1, <1>2, <1>3 DEF Next, Acts

\* Typed is an invariant.
LEMMA TypedAlways == Spec => []Typed
BY TypedInit, TypedStep, PTL DEF Spec

\* Every variable keeps its type; in particular the times drawn for
\* promoted_at stay within one per deploy and one per request, and only a
\* status of the deploy state machine is ever written.
THEOREM TypeCorrect == Spec => []TypeOK
<1>1. Typed => TypeOK
  BY DEF Typed
<1> QED
  BY <1>1, TypedAlways, PTL

-----------------------------------------------------------------------------
(* What promote and rollback validate stays true. *)

\* No other request writes or takes a locked row: stop, start and destroy wait
\* for the lock, promote and rollback write rows that they hold.
LEMMA LockedRowsAreKept ==
  ASSUME Typed, NEW h \in Handlers, ValidAt(h), Acts(h),
         NEW e \in Deploys, NEW g \in Handlers \ {h}, locker[e] = g
  PROVE  status'[e] = status[e] /\ locker'[e] = g
<1>1. /\ RecordOK(req[h]) /\ status \in [Deploys -> DEPLOY_STATES]
      /\ locker \in [Deploys -> Handlers \cup {Nobody}]
  BY DEF Typed, TypeOK, Requests, Bound, RequestOK, RecordOK
<1>2. ~Free(h, e)
  BY ControlAssumption DEF Free
<1>3. locker'[e] = g
  BY <1>1, <1>2, LockFrame DEF End, Lock
<1>4. CASE StopWrite(h) \/ StartWrite(h) \/ DestroyWrite(h)
  BY <1>1, <1>2, <1>3, <1>4 DEF StopWrite, StartWrite, DestroyWrite
<1>5. CASE PromoteCommit(h)
  <2>1. e # req[h].d /\ e \notin req[h].matched
    BY <1>5 DEF PromoteCommit, At, ValidAt, Promoting
  <2> QED
    BY <1>3, <1>5, <2>1 DEF PromoteCommit
<1>6. CASE RollbackCommit(h)
  <2>1. e # req[h].d /\ e \notin req[h].matched
    BY <1>6 DEF RollbackCommit, At, ValidAt, Restoring
  <2> QED
    BY <1>3, <1>6, <2>1 DEF RollbackCommit
<1> QED
  BY <1>3, <1>4, <1>5, <1>6, RowsFrame DEF rows

\* What another request has validated stays valid.
LEMMA OthersStayValid ==
  ASSUME Typed, ValidInv, NEW h \in Handlers, Acts(h), NEW g \in Handlers \ {h}
  PROVE  ValidAt(g)'
<1>1. req'[g] = req[g]
  BY OneActs DEF Typed, TypeOK, Requests, Bound
<1>2. RecordOK(req[g])
  BY DEF Typed, TypeOK, Requests, Bound, RequestOK, RecordOK
<1>3. \A e \in Deploys : locker[e] = g => status'[e] = status[e] /\ locker'[e] = g
  BY LockedRowsAreKept DEF ValidInv
<1>4. req[g].matched \subseteq Deploys
  BY <1>2 DEF RecordOK, Requests
<1>5. req[g].pc \in Promoting \cup Restoring => req[g].d \in Deploys
  BY <1>2 DEF RecordOK, Promoting, Restoring
<1>6. ValidAt(g)
  BY DEF ValidInv
<1> QED
  BY <1>1, <1>3, <1>4, <1>5, <1>6 DEF ValidAt

\* A request validates what it locks.
LEMMA ValidatesWhatItLocks ==
  ASSUME Typed, NEW h \in Handlers, ValidAt(h), Acts(h)
  PROVE  ValidAt(h)'
<1> DEFINE r == req[h]
<1>1. /\ RecordOK(r) /\ req \in [Handlers -> Requests]
      /\ locker \in [Deploys -> Handlers \cup {Nobody}]
      /\ r.wanted \subseteq Deploys
  BY DEF Typed, TypeOK, Requests, Bound, RequestOK, RecordOK
<1>2. ASSUME End(h) PROVE ValidAt(h)'
  <2>1. req'[h].pc = "idle"
    BY <1>1, <1>2, NoReqIsOK DEF End
  <2> QED
    BY <2>1 DEF ValidAt, Promoting, Restoring
<1>3. ASSUME NEW d \in Deploys, Begin(h, d) PROVE ValidAt(h)'
  <2>1. r = NoReq
    BY <1>1, <1>3
    DEF Begin, StopRead, StartRead, PromoteCall, RollbackCall, DestroyRead, Call, At, RecordOK
  <2>2. req'[h].matched = r.matched
        /\ req'[h].pc \in {"stop_prod", "limit", "promote_lock", "rollback_lock", "check"}
    BY <1>1, <1>3
    DEF Begin, StopRead, StartRead, PromoteCall, RollbackCall, DestroyRead, Call, Requests
  <2> QED
    BY <2>1, <2>2 DEF ValidAt, Promoting, Restoring, NoReq
<1>4. ASSUME StopReadProd(h) \/ StopContainer(h) \/ StopUnregister(h)
             \/ StopUnregisterProduction(h) \/ CountRunning(h) \/ LockRunning(h) \/ StartContainer(h)
             \/ StartRegister(h) \/ TeardownChecks(h) \/ TeardownDestroys(h)
             \/ TeardownUnregister(h) \/ TeardownUnregisterProduction(h)
      PROVE  ValidAt(h)'
  <2>1. req'[h].pc \in {"stop_ct", "stop_conf", "stop_prod_file", "stop_write", "limit_lock",
                        "start_conf", "start_write", "destroy", "unroute", "unroute_prod",
                        "destroy_write"}
    <3>1. CASE LockRunning(h)
      BY <1>1, <3>1 DEF LockRunning, LockNext, At, Requests
    <3>2. CASE ~LockRunning(h)
      BY <1>1, <1>4, <3>2
      DEF StopReadProd, StopContainer, StopUnregister, StopUnregisterProduction, CountRunning,
          StartContainer, StartRegister, TeardownChecks, TeardownDestroys,
          TeardownUnregister, TeardownUnregisterProduction, Snapshot, Goto, Requests
    <3> QED
      BY <3>1, <3>2
  <2> QED
    BY <2>1 DEF ValidAt, Promoting, Restoring
<1>5. ASSUME CheckLimit(h) PROVE ValidAt(h)'
  BY <1>1, <1>2, <1>5 DEF CheckLimit, Goto, ValidAt, Promoting, Restoring, Requests
<1>6. ASSUME PromoteLock(h) \/ RollbackLock(h) PROVE ValidAt(h)'
  <2>1. r.pc \in {"promote_lock", "rollback_lock"}
    BY <1>6 DEF PromoteLock, RollbackLock, At
  <2>2. r.matched = {} /\ r.d \in Deploys
    BY <1>1, <2>1 DEF ValidAt, RecordOK
  <2>3. req'[h].d = r.d /\ req'[h].matched = r.matched
    BY <1>1, <1>6 DEF PromoteLock, RollbackLock, Goto, Requests
  <2>4. locker'[r.d] = h /\ UNCHANGED status
    BY <1>1, <1>6, <2>2 DEF PromoteLock, RollbackLock, Lock, rows
  <2>5. CASE PromoteLock(h)
    <3>1. req'[h].pc = "promote_prod" /\ status[r.d] \in {"active", "superseded"}
      BY <1>1, <2>5 DEF PromoteLock, Goto, Requests
    <3> QED
      BY <2>2, <2>3, <2>4, <3>1 DEF ValidAt, Promoting, Restoring
  <2>6. CASE RollbackLock(h)
    <3>1. req'[h].pc = "previous" /\ status[r.d] = "active"
      BY <1>1, <2>6 DEF RollbackLock, Goto, Requests
    <3> QED
      BY <2>2, <2>3, <2>4, <3>1 DEF ValidAt, Promoting, Restoring
  <2> QED
    BY <1>6, <2>5, <2>6
<1>7. ASSUME PromoteNotProduction(h) \/ MarkSuperseded(h) \/ PromoteWrite(h) \/ PromoteRegister(h)
             \/ FindPrevious(h) \/ RollbackWrite(h) \/ RollbackRegister(h)
      PROVE  ValidAt(h)'
  <2>1. UNCHANGED <<status, locker>>
    BY <1>7
    DEF PromoteNotProduction, MarkSuperseded, PromoteWrite, PromoteRegister, FindPrevious,
        RollbackWrite, RollbackRegister, Snapshot, rows
  <2>2. req'[h].d = r.d /\ req'[h].matched = r.matched
    BY <1>1, <1>7
    DEF PromoteNotProduction, MarkSuperseded, PromoteWrite, PromoteRegister, FindPrevious,
        RollbackWrite, RollbackRegister, Snapshot, Goto, Requests
  <2>3. \/ r.pc \in {"promote_prod"} /\ req'[h].pc = "supersede"
        \/ r.pc \in Promoting /\ req'[h].pc \in {"supersede_lock", "promote_route", "promote_commit"}
        \/ r.pc \in Restoring /\ req'[h].pc \in {"previous_lock", "rollback_route", "rollback_commit"}
    BY <1>1, <1>7
    DEF PromoteNotProduction, MarkSuperseded, PromoteWrite, PromoteRegister, FindPrevious,
        RollbackWrite, RollbackRegister, Snapshot, Goto, At, Requests, Promoting, Restoring
  <2> QED
    BY <2>1, <2>2, <2>3 DEF ValidAt, Promoting, Restoring
<1>8. ASSUME LockActive(h) PROVE ValidAt(h)'
  <2>1. PICK e \in r.wanted :
          /\ Lock(h, e)
          /\ req' = [req EXCEPT ![h].wanted = @ \ {e},
                                ![h].matched = IF status[e] \in {"active"} THEN @ \cup {e} ELSE @]
    BY <1>8 DEF LockActive, LockNext
  <2>2. r.pc = "supersede_lock" /\ UNCHANGED status
    BY <1>8 DEF LockActive, LockNext, At, rows
  <2>3. req'[h].d = r.d /\ req'[h].pc = r.pc
        /\ req'[h].matched \subseteq r.matched \cup {x \in {e} : status[x] = "active"}
    BY <1>1, <2>1 DEF Requests
  <2>4. r.d \in Deploys /\ r.matched \subseteq Deploys
    BY <1>1, <2>2 DEF RecordOK, Requests
  <2>5. \A x \in Deploys : locker[x] = h \/ x = e => locker'[x] = h
    BY <1>1, <2>1 DEF Lock
  <2> QED
    BY <1>1, <2>2, <2>3, <2>4, <2>5 DEF ValidAt, Promoting, Restoring
<1>9. ASSUME LockPrevious(h) PROVE ValidAt(h)'
  <2>1. PICK e \in Deploys :
          /\ Lock(h, e)
          /\ req' = [req EXCEPT ![h].wanted = @ \ {e},
                                ![h].matched = IF status[e] \in Restorable THEN {e} ELSE {}]
    BY <1>9 DEF LockPrevious
  <2>2. r.pc = "previous_lock" /\ UNCHANGED status
    BY <1>9 DEF LockPrevious, At, rows
  <2>3. req'[h].d = r.d /\ req'[h].pc = r.pc
        /\ req'[h].matched \subseteq {x \in {e} : status[x] \in Restorable}
    BY <1>1, <2>1 DEF Requests
  <2>4. r.d \in Deploys
    BY <1>1, <2>2 DEF RecordOK
  <2>5. \A x \in Deploys : locker[x] = h \/ x = e => locker'[x] = h
    BY <1>1, <2>1 DEF Lock
  <2> QED
    BY <1>1, <2>2, <2>3, <2>4, <2>5 DEF ValidAt, Promoting, Restoring
<1>10. ASSUME Step(h) PROVE ValidAt(h)'
  BY <1>2, <1>4, <1>5, <1>6, <1>7, <1>8, <1>9, <1>10
  DEF Step, StopWrite, StartWrite, PromoteReject, PromoteCommit, RollbackReject,
      RollbackCommit, DestroyWrite, ContainerRefused, DeadlockAbort, Fails
<1> QED
  BY <1>2, <1>3, <1>10 DEF Acts, Fails

\* Every step keeps what is validated.
LEMMA ValidStep == Typed /\ ValidInv /\ [Next]_vars => ValidInv'
<1> SUFFICES ASSUME Typed, ValidInv, [Next]_vars PROVE ValidInv'
  OBVIOUS
<1>1. ASSUME NEW h \in Handlers, Acts(h) PROVE ValidInv'
  <2>1. ValidAt(h)'
    BY <1>1, ValidatesWhatItLocks DEF ValidInv
  <2>2. \A g \in Handlers \ {h} : ValidAt(g)'
    BY <1>1, OthersStayValid
  <2> QED
    BY <2>1, <2>2 DEF ValidInv
<1>2. CASE Sweep \/ UNCHANGED vars
  <2>1. UNCHANGED <<status, locker, req>>
    BY <1>2 DEF Sweep, SweepRead, SweepRemove, rows, vars
  <2> QED
    BY <2>1 DEF ValidInv, ValidAt
<1> QED
  BY <1>1, <1>2 DEF Next, Acts

\* What promote and rollback validated under their locks still holds when
\* they commit: no interleaving with stop, start or destroy, which read
\* without a lock, changes a row between the validation and the commit.
THEOREM ValidationsHold == Spec => []Validated
<1>1. Init => ValidInv
  <2> SUFFICES ASSUME Init, NEW h \in Handlers PROVE ValidAt(h)
    BY DEF ValidInv
  <2>1. req[h].pc = "idle"
    BY NoReqIsOK DEF Init
  <2> QED
    BY <2>1 DEF ValidAt, Promoting, Restoring
<1>2. ValidInv => Validated
  BY DEF ValidInv, ValidAt, Validated, Promoting, Restoring
<1> QED
  BY <1>1, <1>2, ValidStep, TypedAlways, PTL DEF Spec

-----------------------------------------------------------------------------
(* The locks of a request end with it. *)

\* Every locked row belongs to a request under way, however the requests before
\* it ended: the commit, a refusal, an error of Proxmox, an exception, an abort.
\* This is the safety half of RequestsEnd: nobody waits for a request that is
\* gone.
LocksAreLive ==
  \A d \in Deploys, h \in Handlers : locker[d] = h => req[h].pc # "idle"

\* A request that goes on does not become idle.
LEMMA GoesOn ==
  ASSUME req \in [Handlers -> Requests], NEW h \in Handlers, Acts(h), ~End(h)
  PROVE  req'[h].pc # "idle"
<1>1. ASSUME NEW l, l # "idle", Goto(h, l) PROVE req'[h].pc # "idle"
  BY <1>1 DEF Goto, Requests
<1>2. ASSUME NEW d, NEW f, NEW l, l # "idle", Call(h, d, l, f) PROVE req'[h].pc # "idle"
  BY <1>2 DEF Call, Requests
<1>3. CASE \E d \in Deploys : Begin(h, d)
  BY <1>2, <1>3 DEF Begin, StopRead, StartRead, PromoteCall, RollbackCall, DestroyRead
<1>4. ASSUME NEW at, NEW l, NEW S, l # "idle", Snapshot(h, at, l, S) PROVE req'[h].pc # "idle"
  BY <1>4 DEF Snapshot, Requests
<1>5. ASSUME NEW at, NEW states, at # "idle", LockNext(h, at, states) PROVE req'[h].pc # "idle"
  BY <1>5 DEF LockNext, At, Requests
<1>6. CASE StopReadProd(h) \/ PromoteWrite(h) \/ FindPrevious(h) \/ RollbackWrite(h)
  BY <1>6 DEF StopReadProd, PromoteWrite, FindPrevious, RollbackWrite, Requests
<1>7. CASE LockPrevious(h)
  BY <1>7 DEF LockPrevious, At, Requests
<1>8. CASE CountRunning(h) \/ LockRunning(h) \/ MarkSuperseded(h) \/ LockActive(h)
  BY <1>4, <1>5, <1>8 DEF CountRunning, LockRunning, MarkSuperseded, LockActive
<1>9. CASE Step(h)
  BY <1>1, <1>6, <1>7, <1>8, <1>9
  DEF Step, StopContainer, StopUnregister, StopUnregisterProduction, StopWrite, CheckLimit,
      StartContainer, StartRegister, StartWrite, PromoteLock, PromoteReject,
      PromoteNotProduction, PromoteRegister, PromoteCommit, RollbackLock, RollbackReject,
      RollbackRegister, RollbackCommit, TeardownChecks, TeardownDestroys,
      TeardownUnregister, TeardownUnregisterProduction, DestroyWrite, ContainerRefused,
      DeadlockAbort, Fails
<1> QED
  BY <1>3, <1>9 DEF Acts, Fails

\* A step of a request keeps every locked row with a request under way.
LEMMA LocksStep == Typed /\ LocksAreLive /\ [Next]_vars => LocksAreLive'
<1> SUFFICES ASSUME Typed, LocksAreLive, [Next]_vars PROVE LocksAreLive'
  OBVIOUS
<1>t. /\ req \in [Handlers -> Requests]
      /\ locker \in [Deploys -> Handlers \cup {Nobody}]
  BY DEF Typed, TypeOK, Requests, Bound
<1>1. ASSUME NEW h \in Handlers, Acts(h), NEW d \in Deploys, NEW g \in Handlers, locker'[d] = g
      PROVE  req'[g].pc # "idle"
  <2>1. CASE g # h
    <3>1. locker[d] = g
      BY <1>t, <1>1, <2>1, LockFrame, ControlAssumption DEF End, Lock
    <3> QED
      BY <1>t, <1>1, <2>1, <3>1, OneActs DEF LocksAreLive
  <2>2. CASE g = h
    <3>1. ~End(h)
      BY <1>1, <2>2, ControlAssumption DEF End
    <3> QED
      BY <1>t, <1>1, <2>2, <3>1, GoesOn
  <2> QED
    BY <2>1, <2>2
<1>2. CASE Sweep \/ UNCHANGED vars
  <2>1. UNCHANGED <<locker, req>>
    BY <1>2 DEF Sweep, SweepRead, SweepRemove, vars
  <2> QED
    BY <2>1 DEF LocksAreLive
<1>3. ASSUME NEW h \in Handlers, Acts(h) PROVE LocksAreLive'
  BY <1>1, <1>3 DEF LocksAreLive
<1> QED
  BY <1>2, <1>3 DEF Next, Acts

\* No row stays locked by a request that has ended.
THEOREM LocksEndWithTheRequest == Spec => []LocksAreLive
<1>1. Init => LocksAreLive
  BY ControlAssumption DEF Init, LocksAreLive
<1> QED
  BY <1>1, LocksStep, TypedAlways, PTL DEF Spec

-----------------------------------------------------------------------------
(* One request at a time. *)

\* A step that is not a call belongs to a request under way.
LEMMA StepIsBusy ==
  ASSUME NEW h \in Handlers, Step(h) \/ Fails(h)
  PROVE  req[h].pc # "idle"
BY DEF At, Step, Fails, StopReadProd, StopContainer,
       StopUnregister, StopUnregisterProduction, StopWrite, CountRunning, LockRunning,
       CheckLimit, StartContainer, StartRegister, StartWrite, PromoteLock, PromoteReject,
       PromoteNotProduction, MarkSuperseded, LockActive, PromoteWrite, PromoteRegister,
       PromoteCommit, RollbackLock, RollbackReject, FindPrevious, LockPrevious,
       RollbackWrite, RollbackRegister, RollbackCommit, TeardownChecks, TeardownDestroys,
       TeardownUnregister, TeardownUnregisterProduction, DestroyWrite, ContainerRefused,
       DeadlockAbort, Snapshot, LockNext

\* Undisturbed, the handler that acts is the only one.
LEMMA ActsAlone ==
  ASSUME Typed, ~disturbed => Serial, NEW h \in Handlers, Acts(h), ~disturbed'
  PROVE  /\ ~disturbed /\ Serial'
         /\ \A g \in Handlers \ {h} : req[g].pc = "idle" /\ req'[g].pc = "idle"
<1>1. \A g \in Handlers \ {h} : req'[g] = req[g]
  BY OneActs DEF Typed, TypeOK, Requests, Bound
<1>2. ~disturbed /\ \A g \in Handlers \ {h} : req[g].pc = "idle"
  <2>1. CASE \E d \in Deploys : Begin(h, d)
    <3>1. disturbed' = (disturbed \/ \E g \in Handlers : ~At(g, "idle"))
      BY <2>1 DEF Begin, StopRead, StartRead, PromoteCall, RollbackCall, DestroyRead, Call
    <3> QED
      BY <3>1 DEF At
  <2>2. CASE Step(h) \/ Fails(h)
    <3>1. ~(\E d \in Deploys : Begin(h, d))
      BY <2>2, StepIsBusy
      DEF Begin, StopRead, StartRead, PromoteCall, RollbackCall, DestroyRead, Call, At
    <3>2. ~disturbed
      BY <3>1, PastFrame
    <3> QED
      BY <2>2, <3>2, StepIsBusy DEF Serial
  <2> QED
    BY <2>1, <2>2 DEF Acts
<1>3. Serial'
  BY <1>1, <1>2 DEF Serial
<1> QED
  BY <1>1, <1>2, <1>3

-----------------------------------------------------------------------------
(* A file leads to a running container. *)

\* RouteInv for the one handler that acts.
RouteAt(h) ==
  /\ \A d \in conf :
       \/ ct[d] = "running"
       \/ req[h].d = d /\ req[h].pc \in {"stop_conf", "destroy", "unroute"}
  /\ req[h].pc = "start_conf" => ct[req[h].d] = "running"

\* The one handler that acts keeps files and containers together.
LEMMA RouteActs ==
  ASSUME Typed, NEW h \in Handlers, Acts(h), ~disturbed, ~disturbed', RouteAt(h)
  PROVE  RouteAt(h)'
<1> DEFINE r == req[h]
<1>1. /\ RecordOK(r) /\ req \in [Handlers -> Requests] /\ conf \subseteq Deploys
      /\ ct \in [Deploys -> {"running", "stopped", "gone"}]
  BY DEF Typed, TypeOK, Requests, Bound, RequestOK, RecordOK
<1>2. ASSUME UNCHANGED <<ct, conf>>, r.pc \notin {"stop_conf", "destroy", "unroute"},
             req'[h].pc # "start_conf"
      PROVE  RouteAt(h)'
  BY <1>2 DEF RouteAt
<1>3. ASSUME End(h) PROVE req'[h].pc # "start_conf"
  BY <1>1, <1>3, NoReqIsOK DEF End
<1>4. CASE StopContainer(h) \/ TeardownChecks(h) \/ TeardownDestroys(h)
  <2>1. /\ r.pc \in {"stop_ct", "check", "destroy"} /\ UNCHANGED conf
        /\ \E s : ct' = [ct EXCEPT ![r.d] = s]
    BY <1>4 DEF StopContainer, TeardownChecks, TeardownDestroys, At, files
  <2>2. req'[h].d = r.d /\ req'[h].pc \in {"stop_conf", "destroy", "unroute"}
    BY <1>1, <1>4 DEF StopContainer, TeardownChecks, TeardownDestroys, Goto, Requests
  <2>3. \A d \in conf \ {r.d} : ct'[d] = "running"
    BY <1>1, <2>1 DEF RouteAt
  <2> QED
    BY <2>1, <2>2, <2>3 DEF RouteAt
<1>5. CASE StartContainer(h)
  <2>1. r.pc = "start_ct" /\ UNCHANGED conf /\ ct' = [ct EXCEPT ![r.d] = "running"]
    BY <1>5 DEF StartContainer, At, files
  <2>2. req'[h].d = r.d /\ req'[h].pc = "start_conf"
    BY <1>1, <1>5 DEF StartContainer, Goto, Requests
  <2>3. r.d \in Deploys
    BY <1>1, <2>1 DEF RecordOK
  <2> QED
    BY <1>1, <2>1, <2>2, <2>3 DEF RouteAt
<1>6. CASE StopUnregister(h) \/ TeardownUnregister(h)
  <2>1. UNCHANGED ct /\ conf' = conf \ {r.d}
    BY <1>6 DEF StopUnregister, TeardownUnregister
  <2>2. req'[h].pc \in {"stop_prod_file", "unroute_prod"}
    BY <1>1, <1>6 DEF StopUnregister, TeardownUnregister, Goto, Requests
  <2> QED
    BY <2>1, <2>2 DEF RouteAt
<1>7. CASE StartRegister(h)
  <2>1. r.pc = "start_conf" /\ UNCHANGED ct /\ conf' \subseteq conf \cup {r.d}
    BY <1>7 DEF StartRegister, At
  <2>2. req'[h].pc = "start_write"
    BY <1>1, <1>7 DEF StartRegister, Goto, Requests
  <2> QED
    BY <2>1, <2>2 DEF RouteAt
<1>8. CASE ~(StopContainer(h) \/ TeardownChecks(h) \/ TeardownDestroys(h) \/ StartContainer(h)
             \/ StopUnregister(h) \/ TeardownUnregister(h) \/ StartRegister(h))
  <2>1. UNCHANGED <<ct, conf>>
    BY <1>8, ContainerFrame, FilesFrame
  <2>2. r.pc \notin {"stop_conf", "destroy", "unroute"}
    <3>1. ASSUME NEW d \in Deploys, Begin(h, d)
          PROVE  r.pc = "idle"
      BY <3>1
      DEF Begin, StopRead, StartRead, PromoteCall, RollbackCall, DestroyRead, Call, At
    <3>2. ~Fails(h) /\ ~DeadlockAbort(h)
      BY DEF Fails, DeadlockAbort
    <3>3. CASE \/ StopReadProd(h) \/ StopUnregisterProduction(h) \/ StopWrite(h)
               \/ CountRunning(h) \/ LockRunning(h) \/ CheckLimit(h) \/ StartWrite(h)
               \/ PromoteLock(h) \/ PromoteReject(h) \/ PromoteNotProduction(h)
      BY <3>3
      DEF StopReadProd, StopUnregisterProduction, StopWrite, CountRunning, LockRunning,
          CheckLimit, StartWrite, PromoteLock, PromoteReject, PromoteNotProduction, Snapshot,
          LockNext, At
    <3>4. CASE \/ MarkSuperseded(h) \/ LockActive(h) \/ PromoteWrite(h) \/ PromoteRegister(h)
               \/ PromoteCommit(h) \/ RollbackLock(h) \/ RollbackReject(h) \/ FindPrevious(h)
      BY <3>4
      DEF MarkSuperseded, LockActive, PromoteWrite, PromoteRegister, PromoteCommit,
          RollbackLock, RollbackReject, FindPrevious, Snapshot, LockNext, At
    <3>5. CASE \/ LockPrevious(h) \/ RollbackWrite(h) \/ RollbackRegister(h)
               \/ RollbackCommit(h) \/ TeardownUnregisterProduction(h) \/ DestroyWrite(h)
               \/ ContainerRefused(h)
      BY <3>5
      DEF LockPrevious, RollbackWrite, RollbackRegister, RollbackCommit,
          TeardownUnregisterProduction, DestroyWrite, ContainerRefused, At
    <3> QED
      BY <1>8, <3>1, <3>2, <3>3, <3>4, <3>5 DEF Acts, Step
  <2>3. req'[h].pc # "start_conf"
    <3>1. ASSUME LockNext(h, "limit_lock", Running) \/ LockNext(h, "supersede_lock", {"active"})
                 \/ LockPrevious(h)
          PROVE  req'[h].pc # "start_conf"
      <4>1. req'[h].pc = r.pc
        <5>1. ASSUME NEW W, NEW M, req' = [req EXCEPT ![h].wanted = W, ![h].matched = M]
              PROVE  req'[h].pc = r.pc
          BY <1>1, <5>1 DEF Requests
        <5>2. CASE LockPrevious(h)
          BY <5>1, <5>2 DEF LockPrevious
        <5>3. CASE LockNext(h, "limit_lock", Running) \/ LockNext(h, "supersede_lock", {"active"})
          BY <5>1, <5>3 DEF LockNext
        <5> QED
          BY <3>1, <5>2, <5>3
      <4>2. r.pc # "start_conf"
        BY <3>1 DEF LockNext, LockPrevious, At
      <4> QED
        BY <4>1, <4>2
    <3>2. ASSUME NEW l, Goto(h, l), l # "start_conf" PROVE req'[h].pc # "start_conf"
      BY <1>1, <3>2 DEF Goto, Requests
    <3>3. ASSUME NEW d \in Deploys, Begin(h, d) PROVE req'[h].pc # "start_conf"
      BY <1>1, <3>3
      DEF Begin, StopRead, StartRead, PromoteCall, RollbackCall, DestroyRead, Call, Requests
    <3>4. ASSUME StopReadProd(h) \/ CountRunning(h) \/ MarkSuperseded(h) \/ PromoteWrite(h)
                 \/ FindPrevious(h) \/ RollbackWrite(h)
          PROVE  req'[h].pc # "start_conf"
      BY <1>1, <3>4
      DEF StopReadProd, CountRunning, MarkSuperseded, PromoteWrite, FindPrevious, RollbackWrite,
          Snapshot, Requests
    <3>5. ASSUME Step(h) PROVE req'[h].pc # "start_conf"
      BY <1>3, <1>8, <3>1, <3>2, <3>4, <3>5
      DEF Step, StopUnregisterProduction, StopWrite, LockRunning, CheckLimit, StartWrite,
          PromoteLock, PromoteReject, PromoteNotProduction, LockActive, PromoteRegister,
          PromoteCommit, RollbackLock, RollbackReject, RollbackRegister, RollbackCommit,
          TeardownUnregisterProduction, DestroyWrite, ContainerRefused, DeadlockAbort, Fails
    <3> QED
      BY <1>3, <3>3, <3>5 DEF Acts, Fails
  <2> QED
    BY <1>2, <2>1, <2>2, <2>3
<1> QED
  BY <1>4, <1>5, <1>6, <1>7, <1>8

\* Every step keeps files and containers together.
LEMMA RouteStep == Typed /\ RouteInv /\ [Next]_vars => RouteInv'
<1> SUFFICES ASSUME Typed, RouteInv, [Next]_vars, ~disturbed' PROVE RouteInv'
  BY DEF RouteInv
<1>1. ASSUME NEW h \in Handlers, Acts(h) PROVE RouteInv'
  <2>1. /\ ~disturbed /\ Serial'
        /\ \A g \in Handlers \ {h} : req[g].pc = "idle" /\ req'[g].pc = "idle"
    BY <1>1, ActsAlone DEF RouteInv
  <2>2. RouteAt(h)
    BY <2>1 DEF RouteInv, RouteAt
  <2>3. RouteAt(h)'
    BY <1>1, <2>1, <2>2, RouteActs
  <2> QED
    BY <2>1, <2>3 DEF RouteInv, RouteAt
<1>2. CASE Sweep \/ UNCHANGED vars
  <2>1. UNCHANGED <<ct, req, disturbed>> /\ conf' \subseteq conf
    BY <1>2 DEF Sweep, SweepRead, SweepRemove, vars, files, past
  <2> QED
    BY <2>1 DEF RouteInv, Serial
<1> QED
  BY <1>1, <1>2 DEF Next, Acts

\* One request after the other and none failing, every Nginx file leads to a
\* running container once the request has ended: stop and destroy take the
\* file away with the container, start adds it only behind the container, and
\* neither promote, rollback nor the sweep of the reconciler leaves one behind.
THEOREM RoutesLead == Spec => []RoutedIsRunning
<1>1. Init => RouteInv
  <2> SUFFICES ASSUME Init PROVE RouteInv
    OBVIOUS
  <2>1. \A h \in Handlers : req[h].pc = "idle"
    BY NoReqIsOK DEF Init
  <2>2. \A d \in conf : ct[d] = "running"
    BY DEF Init
  <2> QED
    BY <2>1, <2>2 DEF RouteInv, Serial
<1>2. RouteInv => RoutedIsRunning
  BY DEF RouteInv, RoutedIsRunning, At
<1> QED
  BY <1>1, <1>2, RouteStep, TypedAlways, PTL DEF Spec

-----------------------------------------------------------------------------
(* The limit on running containers. *)

\* The states in which the container of the request has been taken down.
Down == {"stop_conf", "stop_prod_file", "stop_write", "destroy", "unroute", "unroute_prod",
         "destroy_write"}

\* LimitInv for the one handler that acts.
LimitAt(h) ==
  /\ Cardinality(RunningContainers) <= MaxRunning
  /\ \A d \in RunningContainers :
       d \in RunningRows \/ (req[h].d = d /\ req[h].pc \in {"start_conf", "start_write"})
  /\ req[h].pc = "limit_lock" => RunningRows \subseteq req[h].wanted \cup req[h].matched
  /\ req[h].pc = "start_ct" => Cardinality(RunningContainers) < MaxRunning
  /\ req[h].pc \in Down => ct[req[h].d] # "running"

\* A set of deploys is finite and a part of it is no larger.
LEMMA DeploysFinite ==
  ASSUME NEW S \in SUBSET Deploys, NEW T \in SUBSET S
  PROVE  /\ IsFiniteSet(S) /\ IsFiniteSet(T)
         /\ Cardinality(S) \in Nat /\ Cardinality(T) \in Nat /\ Cardinality(T) <= Cardinality(S)
<1>1. IsFiniteSet(Deploys)
  BY FS_Interval, ControlAssumption DEF Deploys
<1>2. IsFiniteSet(S)
  BY <1>1, FS_Subset
<1> QED
  BY <1>2, FS_Subset, FS_CardinalityType

\* A step of the request that leaves rows and containers alone.
LEMMA LimitQuiet ==
  ASSUME NEW h \in Handlers, LimitAt(h), UNCHANGED <<status, ct>>,
         req[h].pc \notin {"start_conf", "start_write"},
         req'[h].pc \notin {"limit_lock", "start_ct"} \cup Down
  PROVE  LimitAt(h)'
BY DEF LimitAt, RunningContainers, RunningRows

\* The one handler that acts keeps the limit.
LEMMA LimitActs ==
  ASSUME Typed, NEW h \in Handlers, Acts(h), ~disturbed', LimitAt(h)
  PROVE  LimitAt(h)'
<1> DEFINE r == req[h]
           RC == RunningContainers
<1>1. /\ RecordOK(r) /\ req \in [Handlers -> Requests] /\ MaxRunning \in Nat
      /\ status \in [Deploys -> DEPLOY_STATES]
      /\ ct \in [Deploys -> {"running", "stopped", "gone"}]
  BY ControlAssumption DEF Typed, TypeOK, Requests, Bound, RequestOK, RecordOK
<1>2. RC \in SUBSET Deploys /\ IsFiniteSet(RC) /\ Cardinality(RC) \in Nat
  BY DeploysFinite DEF RunningContainers
<1>3. ~Fails(h)
  BY DEF Fails
<1>4. ASSUME End(h) PROVE req'[h].pc = "idle"
  BY <1>1, <1>4, NoReqIsOK DEF End
<1>5. ASSUME NEW d \in Deploys, Begin(h, d) PROVE LimitAt(h)'
  <2>1. UNCHANGED <<status, ct>> /\ r.pc = "idle"
    BY <1>5 DEF Begin, StopRead, StartRead, PromoteCall, RollbackCall, DestroyRead, Call, rows, At
  <2>2. req'[h].pc \in {"stop_prod", "limit", "promote_lock", "rollback_lock", "check"}
    BY <1>1, <1>5
    DEF Begin, StopRead, StartRead, PromoteCall, RollbackCall, DestroyRead, Call, Requests
  <2> QED
    BY <2>1, <2>2, LimitQuiet DEF Down
<1>6. CASE StopContainer(h) \/ TeardownChecks(h) \/ TeardownDestroys(h)
  <2>1. /\ r.pc \in {"stop_ct", "check", "destroy"} /\ UNCHANGED status
        /\ \E s \in {"stopped", "gone"} : ct' = [ct EXCEPT ![r.d] = s]
    BY <1>6 DEF StopContainer, TeardownChecks, TeardownDestroys, At, rows
  <2>2. req'[h].d = r.d /\ req'[h].pc \in {"stop_conf", "destroy", "unroute"}
    BY <1>1, <1>6 DEF StopContainer, TeardownChecks, TeardownDestroys, Goto, Requests
  <2>3. RunningContainers' \subseteq RC /\ UNCHANGED RunningRows
    BY <1>1, <2>1 DEF RunningContainers, RunningRows
  <2>4. Cardinality(RunningContainers') \in Nat /\ Cardinality(RunningContainers') <= Cardinality(RC)
    BY <1>2, <2>3, DeploysFinite
  <2>5. Cardinality(RunningContainers') <= MaxRunning
    <3>1. Cardinality(RC) <= MaxRunning
      BY DEF LimitAt
    <3> QED
      BY <1>1, <1>2, <2>4, <3>1
  <2>6. ct'[r.d] # "running"
    <3>1. r.d \in Deploys
      BY <1>1, <2>1 DEF RecordOK
    <3> QED
      BY <1>1, <2>1, <3>1
  <2>7. \A d \in RC : d \in RunningRows
    BY <2>1 DEF LimitAt
  <2> QED
    BY <2>2, <2>3, <2>5, <2>6, <2>7 DEF LimitAt
<1>7. CASE StartContainer(h)
  <2>1. r.pc = "start_ct" /\ UNCHANGED status /\ ct' = [ct EXCEPT ![r.d] = "running"]
    BY <1>7 DEF StartContainer, At, rows
  <2>2. req'[h].d = r.d /\ req'[h].pc = "start_conf"
    BY <1>1, <1>7 DEF StartContainer, Goto, Requests
  <2>3. r.d \in Deploys
    BY <1>1, <2>1 DEF RecordOK
  <2>4. RunningContainers' = RC \cup {r.d} /\ UNCHANGED RunningRows
    BY <1>1, <2>1, <2>3 DEF RunningContainers, RunningRows
  <2>5. Cardinality(RC) < MaxRunning
    BY <2>1 DEF LimitAt
  <2>6. Cardinality(RunningContainers') <= MaxRunning
    <3>1. Cardinality(RC \cup {r.d}) = IF r.d \in RC THEN Cardinality(RC) ELSE Cardinality(RC) + 1
      BY <1>2, FS_AddElement
    <3> HIDE DEF RC
    <3> QED
      BY <1>1, <1>2, <2>4, <2>5, <3>1
  <2>7. \A d \in RC : d \in RunningRows
    BY <2>1 DEF LimitAt
  <2> QED
    BY <2>2, <2>4, <2>6, <2>7 DEF LimitAt, Down
<1>8. CASE StopUnregister(h) \/ StopUnregisterProduction(h) \/ TeardownUnregister(h)
           \/ TeardownUnregisterProduction(h)
  <2>1. r.pc \in Down /\ UNCHANGED <<status, ct>>
    BY <1>8
    DEF StopUnregister, StopUnregisterProduction, TeardownUnregister,
        TeardownUnregisterProduction, At, rows, Down
  <2>2. req'[h].d = r.d /\ req'[h].pc \in Down
    BY <1>1, <1>8
    DEF StopUnregister, StopUnregisterProduction, TeardownUnregister,
        TeardownUnregisterProduction, Goto, Requests, Down
  <2> QED
    BY <2>1, <2>2 DEF LimitAt, Down, RunningContainers, RunningRows
<1>9. CASE StartRegister(h)
  <2>1. r.pc = "start_conf" /\ UNCHANGED <<status, ct>>
    BY <1>9 DEF StartRegister, At, rows
  <2>2. req'[h].d = r.d /\ req'[h].pc = "start_write"
    BY <1>1, <1>9 DEF StartRegister, Goto, Requests
  <2> QED
    BY <2>1, <2>2 DEF LimitAt, Down, RunningContainers, RunningRows
<1>10. ASSUME UNCHANGED ct, End(h), RC \subseteq RunningRows' PROVE LimitAt(h)'
  <2>1. RunningContainers' = RC
    BY <1>10 DEF RunningContainers
  <2> QED
    BY <1>4, <1>10, <2>1 DEF LimitAt, Down
<1>11. CASE StopWrite(h) \/ DestroyWrite(h)
  <2>1. r.pc \in {"stop_write", "destroy_write"} /\ UNCHANGED ct /\ End(h)
        /\ \E s : status' = [status EXCEPT ![r.d] = s]
    BY <1>11 DEF StopWrite, DestroyWrite, At
  <2>2. r.d \notin RC /\ RC \subseteq RunningRows
    BY <2>1 DEF LimitAt, Down, RunningContainers
  <2>3. RC \subseteq RunningRows'
    BY <1>1, <2>1, <2>2 DEF RunningRows
  <2> QED
    BY <1>10, <2>1, <2>3
<1>12. CASE StartWrite(h)
  <2>1. r.pc = "start_write" /\ UNCHANGED ct /\ End(h)
        /\ status' = [status EXCEPT ![r.d] = "active"]
    BY <1>12 DEF StartWrite, At
  <2>2. r.d \in Deploys /\ RC \subseteq RunningRows \cup {r.d}
    BY <1>1, <2>1 DEF LimitAt, RecordOK
  <2>3. RC \subseteq RunningRows'
    BY <1>1, <2>1, <2>2 DEF RunningRows, Running
  <2> QED
    BY <1>10, <2>1, <2>3
<1>13. CASE PromoteCommit(h) \/ RollbackCommit(h)
  <2>1. r.pc \in {"promote_commit", "rollback_commit"} /\ UNCHANGED ct /\ End(h)
    BY <1>13 DEF PromoteCommit, RollbackCommit, At
  <2>2. \A d \in Deploys : status'[d] \in Running \/ status'[d] = status[d]
    BY <1>13 DEF PromoteCommit, RollbackCommit, Running
  <2>3. RC \subseteq RunningRows
    BY <2>1 DEF LimitAt
  <2>4. RC \subseteq RunningRows'
    BY <2>2, <2>3 DEF RunningRows
  <2> QED
    BY <1>10, <2>1, <2>4
<1>14. CASE CountRunning(h)
  <2>1. r.pc = "limit" /\ UNCHANGED <<status, ct>>
    BY <1>14 DEF CountRunning, Snapshot, At, rows
  <2>2. req'[h].pc = "limit_lock" /\ req'[h].wanted = RunningRows
    BY <1>1, <1>14 DEF CountRunning, Snapshot, Requests, RunningRows
  <2> QED
    BY <2>1, <2>2 DEF LimitAt, Down, RunningContainers, RunningRows
<1>15. CASE LockRunning(h)
  <2>1. r.pc = "limit_lock" /\ UNCHANGED <<status, ct>>
    BY <1>15 DEF LockRunning, LockNext, At, rows
  <2>2. PICK e \in r.wanted :
          req' = [req EXCEPT ![h].wanted = @ \ {e},
                             ![h].matched = IF status[e] \in Running THEN @ \cup {e} ELSE @]
    BY <1>15 DEF LockRunning, LockNext
  <2>3. /\ req'[h].pc = "limit_lock" /\ req'[h].wanted = r.wanted \ {e}
        /\ req'[h].matched = IF status[e] \in Running THEN r.matched \cup {e} ELSE r.matched
    BY <1>1, <2>1, <2>2 DEF Requests
  <2>4. RunningRows \subseteq req'[h].wanted \cup req'[h].matched
    BY <2>1, <2>3 DEF LimitAt, RunningRows
  <2> QED
    BY <2>1, <2>3, <2>4 DEF LimitAt, Down, RunningContainers, RunningRows
<1>16. CASE CheckLimit(h)
  <2>1. r.pc = "limit_lock" /\ r.wanted = {} /\ UNCHANGED <<status, ct>>
    BY <1>16 DEF CheckLimit, At, rows
  <2>2. RC \subseteq RunningRows /\ RunningRows \subseteq r.matched
    BY <2>1 DEF LimitAt
  <2>3. CASE End(h)
    <3>1. RunningRows' = RunningRows
      BY <2>1 DEF RunningRows
    <3> QED
      BY <1>10, <2>1, <2>2, <2>3, <3>1
  <2>4. CASE ~End(h)
    <3>1. ~(Cardinality(r.matched) >= MaxRunning) /\ Goto(h, "start_ct")
      BY <1>16, <2>4 DEF CheckLimit
    <3>2. r.matched \in SUBSET Deploys
      BY <1>1 DEF Requests
    <3>3. Cardinality(RC) <= Cardinality(r.matched) /\ Cardinality(r.matched) \in Nat
      BY <2>2, <3>2, DeploysFinite
    <3>4. Cardinality(RC) < MaxRunning
      BY <1>1, <1>2, <3>1, <3>3
    <3>5. req'[h].pc = "start_ct"
      BY <1>1, <3>1 DEF Goto, Requests
    <3>6. RunningRows' = RunningRows /\ RunningContainers' = RC
      BY <2>1 DEF RunningRows, RunningContainers
    <3>7. Cardinality(RC) <= MaxRunning
      BY DEF LimitAt
    <3> QED
      BY <2>2, <3>4, <3>5, <3>6, <3>7 DEF LimitAt, Down
  <2> QED
    BY <2>3, <2>4
<1>17. CASE StopReadProd(h) \/ PromoteLock(h) \/ PromoteReject(h) \/ PromoteNotProduction(h)
            \/ MarkSuperseded(h) \/ LockActive(h) \/ PromoteWrite(h) \/ PromoteRegister(h)
            \/ RollbackLock(h) \/ RollbackReject(h) \/ FindPrevious(h) \/ LockPrevious(h)
            \/ RollbackWrite(h) \/ RollbackRegister(h) \/ ContainerRefused(h)
  <2>1. UNCHANGED <<status, ct>>
    BY <1>17
    DEF StopReadProd, PromoteLock, PromoteReject, PromoteNotProduction, MarkSuperseded,
        LockActive, PromoteWrite, PromoteRegister, RollbackLock, RollbackReject, FindPrevious,
        LockPrevious, RollbackWrite, RollbackRegister, ContainerRefused, Snapshot, LockNext, rows
  <2>2. r.pc \notin {"start_conf", "start_write"}
    <3>1. CASE StopReadProd(h) \/ PromoteLock(h) \/ PromoteReject(h) \/ PromoteNotProduction(h)
               \/ MarkSuperseded(h) \/ LockActive(h) \/ PromoteWrite(h) \/ PromoteRegister(h)
      BY <3>1
      DEF StopReadProd, PromoteLock, PromoteReject, PromoteNotProduction, MarkSuperseded,
          LockActive, PromoteWrite, PromoteRegister, Snapshot, LockNext, At
    <3>2. CASE RollbackLock(h) \/ RollbackReject(h) \/ FindPrevious(h) \/ LockPrevious(h)
               \/ RollbackWrite(h) \/ RollbackRegister(h) \/ ContainerRefused(h)
      BY <3>2
      DEF RollbackLock, RollbackReject, FindPrevious, LockPrevious, RollbackWrite,
          RollbackRegister, ContainerRefused, At
    <3> QED
      BY <1>17, <3>1, <3>2
  <2>3. req'[h].pc \in {"idle", "stop_ct", "promote_prod", "supersede", "supersede_lock",
                        "promote_route", "promote_commit", "previous", "previous_lock",
                        "rollback_route", "rollback_commit"}
    <3>1. CASE PromoteReject(h) \/ RollbackReject(h) \/ ContainerRefused(h)
      BY <1>4, <3>1 DEF PromoteReject, RollbackReject, ContainerRefused
    <3>2. CASE LockActive(h) \/ LockPrevious(h)
      <4>1. ASSUME NEW W, NEW M, req' = [req EXCEPT ![h].wanted = W, ![h].matched = M]
            PROVE  req'[h].pc = r.pc
        BY <1>1, <4>1 DEF Requests
      <4>2. CASE LockActive(h)
        <5>1. req'[h].pc = r.pc
          BY <4>1, <4>2 DEF LockActive, LockNext
        <5>2. r.pc = "supersede_lock"
          BY <4>2 DEF LockActive, LockNext, At
        <5> QED
          BY <5>1, <5>2
      <4>3. CASE LockPrevious(h)
        <5>1. req'[h].pc = r.pc
          BY <4>1, <4>3 DEF LockPrevious
        <5>2. r.pc = "previous_lock"
          BY <4>3 DEF LockPrevious, At
        <5> QED
          BY <5>1, <5>2
      <4> QED
        BY <3>2, <4>2, <4>3
    <3>3. CASE StopReadProd(h) \/ MarkSuperseded(h) \/ PromoteWrite(h) \/ FindPrevious(h)
               \/ RollbackWrite(h)
      <4>1. CASE StopReadProd(h) \/ MarkSuperseded(h)
        BY <1>1, <4>1 DEF StopReadProd, MarkSuperseded, Snapshot, Requests
      <4>2. CASE PromoteWrite(h) \/ FindPrevious(h)
        BY <1>1, <4>2 DEF PromoteWrite, FindPrevious, Requests
      <4>3. CASE RollbackWrite(h)
        BY <1>1, <4>3 DEF RollbackWrite, Requests
      <4> QED
        BY <3>3, <4>1, <4>2, <4>3
    <3>4. CASE PromoteLock(h) \/ PromoteNotProduction(h) \/ PromoteRegister(h)
               \/ RollbackLock(h) \/ RollbackRegister(h)
      <4>1. ASSUME NEW l, Goto(h, l) PROVE req'[h].pc = l
        BY <1>1, <4>1 DEF Goto, Requests
      <4> QED
        BY <3>4, <4>1
        DEF PromoteLock, PromoteNotProduction, PromoteRegister, RollbackLock, RollbackRegister
    <3> QED
      BY <1>17, <3>1, <3>2, <3>3, <3>4
  <2> QED
    BY <2>1, <2>2, <2>3, LimitQuiet DEF Down
<1>18. CASE Step(h)
  BY <1>3, <1>6, <1>7, <1>8, <1>9, <1>11, <1>12, <1>13, <1>14, <1>15, <1>16, <1>17, <1>18
  DEF Step, DeadlockAbort
<1> QED
  BY <1>3, <1>5, <1>18 DEF Acts

\* Every step keeps the limit.
LEMMA LimitStep == Typed /\ LimitInv /\ [Next]_vars => LimitInv'
<1> SUFFICES ASSUME Typed, LimitInv, [Next]_vars, ~disturbed' PROVE LimitInv'
  BY DEF LimitInv
<1>1. ASSUME NEW h \in Handlers, Acts(h) PROVE LimitInv'
  <2>1. /\ ~disturbed /\ Serial'
        /\ \A g \in Handlers \ {h} : req[g].pc = "idle" /\ req'[g].pc = "idle"
    BY <1>1, ActsAlone DEF LimitInv
  <2>2. LimitAt(h)
    BY <2>1 DEF LimitInv, LimitAt, Down
  <2>3. LimitAt(h)'
    BY <1>1, <2>2, LimitActs
  <2> QED
    BY <2>1, <2>3 DEF LimitInv, LimitAt, Down
<1>2. CASE Sweep \/ UNCHANGED vars
  <2>1. UNCHANGED <<ct, req, status, disturbed>>
    BY <1>2 DEF Sweep, SweepRead, SweepRemove, vars, rows, past
  <2> QED
    BY <2>1 DEF LimitInv, Serial, RunningContainers, RunningRows
<1> QED
  BY <1>1, <1>2 DEF Next, Acts

\* The deploys that run at first are the MaxRunning last ones.
LEMMA LimitInit == Init => LimitInv
<1> SUFFICES ASSUME Init PROVE LimitInv
  OBVIOUS
<1>1. \A h \in Handlers : req[h].pc = "idle"
  BY NoReqIsOK DEF Init
<1> DEFINE m == MaxDeploys - MaxRunning + 1
<1>2. MaxDeploys \in Nat /\ MaxRunning \in 1..MaxDeploys
  BY ControlAssumption
<1>3. \A d \in Deploys : ct[d] = "running" => d \in RunningRows /\ d \in m..MaxDeploys
  <2> SUFFICES ASSUME NEW d \in Deploys, ct[d] = "running"
               PROVE  d \in RunningRows /\ d \in m..MaxDeploys
    OBVIOUS
  <2>1. status[d] # "stopped"
    BY DEF Init
  <2>2. status[d] \in Running /\ (d = MaxDeploys \/ d + MaxRunning > MaxDeploys)
    BY <2>1 DEF Init, Running
  <2>3. d \in 1..MaxDeploys
    BY DEF Deploys
  <2>4. d \in m..MaxDeploys
    BY <1>2, <2>2, <2>3
  <2> QED
    BY <2>2, <2>4 DEF RunningRows
<1>4. RunningContainers \subseteq m..MaxDeploys /\ RunningContainers \subseteq RunningRows
  BY <1>3 DEF RunningContainers
<1>5. Cardinality(RunningContainers) <= MaxRunning
  <2>1. m \in Int /\ MaxDeploys \in Int /\ MaxDeploys - m + 1 = MaxRunning /\ ~(m > MaxDeploys)
    BY <1>2
  <2>2. IsFiniteSet(m..MaxDeploys) /\ Cardinality(m..MaxDeploys) = MaxRunning
    <3> HIDE DEF m
    <3>1. IsFiniteSet(m..MaxDeploys)
          /\ Cardinality(m..MaxDeploys) = IF m > MaxDeploys THEN 0 ELSE MaxDeploys - m + 1
      BY <2>1, FS_Interval
    <3> QED
      BY <2>1, <3>1
  <2> HIDE DEF m
  <2> QED
    BY <1>4, <2>2, FS_Subset
<1> QED
  BY <1>1, <1>4, <1>5 DEF LimitInv, Serial

\* One request after the other and none failing, no more than MaxRunning
\* containers of the project run: the rows that start locks and counts
\* include one for every running container.
THEOREM LimitIsKept == Spec => []SerialLimit
<1>1. LimitInv => SerialLimit
  BY DEF LimitInv, SerialLimit
<1> QED
  BY <1>1, LimitInit, LimitStep, TypedAlways, PTL DEF Spec
=============================================================================
