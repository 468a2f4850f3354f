--------------------------- MODULE ProjectPageProofs ---------------------------
(***************************************************************************)
(* Proofs about ProjectPage, for any deploys, any selection of operations  *)
(* and any bounds.                                                         *)
(***************************************************************************)
EXTENDS ProjectPage, TLAPS

(***************************************************************************)
(* Types                                                                   *)
(***************************************************************************)

Statuses == [Deploys -> DEPLOY_STATES \cup {"absent"}]

\* What a GET of a part returns.
PartStates(p) ==
  CASE p = "project" -> [auto : BOOLEAN, repo : BOOLEAN]
    [] p = "builds"  -> {"queued", "building", "success", "failed"}
    [] p = "deploys" -> [status : Statuses, prod : Deploys \cup {NoDeploy}]

Cells == [v : Nat, s : {NoDeploy} \cup UNION {PartStates(p) : p \in Parts}]

\* The parts as they are shown, or as far as they were fetched, at some time.
IsView(f, time) ==
  /\ f \in [Parts -> Cells]
  /\ \A p \in Parts : f[p] = Nothing \/ (f[p].v \in 1..time /\ f[p].s \in PartStates(p))

AllTargets == Deploys \cup {"project"} \cup BuildRows

Requests == [op : Ops, d : AllTargets, val : BOOLEAN, mine : BOOLEAN,
             ans : {"none", "ok", "refused", "failed"}, seen : Rows, at : Nat, n : Nat]

\* TypeOK, and the types of what is in flight.
ServerTyped == srv \in Servers /\ now \in 1..MaxChanges

ViewsTyped ==
  /\ IsView(shown, now) /\ \A f \in fetches : IsView(f, now)
  /\ \/ \A p \in Parts : shown[p] = Nothing
     \/ \A p \in Parts : shown[p] # Nothing
  /\ loading => shown["project"] = Nothing

OpsTyped ==
  /\ ops \subseteq Requests
  /\ \A o \in ops : o.d \in Targets(o.op) /\ o.at <= now
  /\ busy \in [Ops -> AllTargets \cup {NoDeploy}]
  /\ \A op \in Ops : busy[op] \in Targets(op) \cup {NoDeploy}

FlagsTyped ==
  /\ mounted \in BOOLEAN /\ loading \in BOOLEAN /\ error \in BOOLEAN
  /\ interval \in BOOLEAN /\ cleanup \in BOOLEAN /\ switch \in BOOLEAN
  /\ doubtful \in BOOLEAN

RestTyped ==
  /\ tab \in Tabs /\ last \in {"idle", "polling"} /\ target \in Rows
  /\ events \in Nat /\ acked \in 0..now

Typed == ServerTyped /\ ViewsTyped /\ OpsTyped /\ FlagsTyped /\ RestTyped

\* A part as the server answers it has the part's type and the present age.
LEMMA PartType ==
  ASSUME ServerTyped, NEW p \in Parts
  PROVE  Part(p) \in Cells /\ Part(p).v = now /\ Part(p).s \in PartStates(p)
<1>1. srv.auto \in BOOLEAN /\ srv.repo \in BOOLEAN /\ srv.status \in Statuses
      /\ srv.prod \in Deploys \cup {NoDeploy}
      /\ srv.build \in {"queued", "building", "success", "failed"}
  BY DEF ServerTyped, Servers, Statuses
<1>2. PartState(p) \in PartStates(p)
  <2>1. CASE p = "project"
    BY <1>1, <2>1 DEF PartState, PartStates
  <2>2. CASE p = "builds"
    BY <1>1, <2>2 DEF PartState, PartStates
  <2>3. CASE p = "deploys"
    BY <1>1, <2>3 DEF PartState, PartStates
  <2> QED
    BY <2>1, <2>2, <2>3 DEF Parts
<1> QED
  BY <1>2 DEF Part, Cells, ServerTyped

\* The states that DEPLOY_TRANSITIONS leads to are states of a deploy.
LEMMA TransitionType ==
  ASSUME NEW x \in DEPLOY_STATES
  PROVE  DEPLOY_TRANSITIONS[x] \subseteq DEPLOY_STATES
  BY DEF DEPLOY_TRANSITIONS, DEPLOY_STATES

\* A change of the deploys touches neither the builds nor the settings.
LEMMA MovedType ==
  ASSUME NEW r \in Servers, NEW status \in Statuses, NEW s \in Moved(r, status)
  PROVE  s \in Servers /\ s.auto = r.auto
<1>1. PICK p \in Productions(status) : s = [r EXCEPT !.status = status, !.prod = p]
  BY DEF Moved
<1>2. p \in Deploys \cup {NoDeploy}
  BY DEF Productions, Actives
<1> QED
  BY <1>1, <1>2 DEF Servers, Statuses

\* A change of one deploy's status keeps the server's type and its settings.
LEMMA SetStatusType ==
  ASSUME NEW r \in Servers, NEW d, NEW new \in DEPLOY_STATES, NEW s \in SetStatus(r, d, new)
  PROVE  s \in Servers /\ s.auto = r.auto
<1>1. [r.status EXCEPT ![d] = new] \in Statuses
  BY DEF Servers, Statuses
<1> QED
  BY <1>1, MovedType DEF SetStatus

\* An operation leaves a state of the server, and only a toggle changes
\* the setting that the switch shows.
LEMMA EffectsType ==
  ASSUME ServerTyped, NEW o \in Requests, o.d \in Targets(o.op), NEW s \in Effects(o)
  PROVE  s \in Servers /\ s.auto = IF o.op = "toggle" THEN o.val ELSE srv.auto
<1> USE DEF ServerTyped
<1>s. {"queued", "stopped", "active", "rolled_back", "superseded"} \subseteq DEPLOY_STATES
  BY DEF DEPLOY_STATES
<1>1. CASE o.op = "stop"
  BY <1>1, <1>s, SetStatusType DEF Effects
<1>2. CASE o.op = "start"
  BY <1>2, <1>s, SetStatusType DEF Effects
<1>3. CASE o.op = "destroy"
  BY <1>3, <1>s, SetStatusType DEF Effects
<1>4. CASE o.op = "promote"
  <2> DEFINE st == [e \in Deploys |-> IF e = o.d THEN "active"
                                      ELSE IF srv.status[e] = "active" THEN "superseded"
                                      ELSE srv.status[e]]
  <2>1. s = [srv EXCEPT !.prod = o.d, !.status = st]
    BY <1>4 DEF Effects
  <2>2. st \in Statuses
    BY <1>s DEF Servers, Statuses
  <2>3. o.d \in Deploys
    BY <1>4 DEF Targets, DeployOps
  <2> HIDE DEF st
  <2> QED
    BY <1>4, <2>1, <2>2, <2>3 DEF Servers, Statuses
<1>5. CASE o.op = "rollback"
  <2> DEFINE prev == {e \in Deploys \ {o.d} : srv.status[e] \in {"superseded", "stopped"}}
             down == [srv.status EXCEPT ![o.d] = "superseded"]
  <2>1. down \in Statuses
    BY <1>s DEF Servers, Statuses
  <2>2. s \in Moved(srv, down) \/ \E e \in prev : s \in Moved(srv, [down EXCEPT ![e] = "active"])
    BY <1>5 DEF Effects
  <2>3. \A e : [down EXCEPT ![e] = "active"] \in Statuses
    BY <2>1, <1>s DEF Statuses
  <2> QED
    BY <1>5, <2>1, <2>2, <2>3, MovedType
<1>6. CASE o.op = "rebuild"
  BY <1>6 DEF Effects, Servers
<1>7. CASE o.op = "deployBuild"
  <2>1. PICK e \in Deploys : s \in SetStatus(srv, e, "queued")
    BY <1>7 DEF Effects
  <2> QED
    BY <1>7, <1>s, <2>1, SetStatusType
<1>8. CASE o.op = "toggle"
  BY <1>8 DEF Effects, Servers, Requests
<1>9. CASE o.op = "connect" \/ o.op = "disconnect"
  <2>1. PICK b \in BOOLEAN : s = [srv EXCEPT !.repo = b]
    BY <1>9 DEF Effects
  <2> QED
    BY <1>9, <2>1 DEF Servers
<1>10. CASE o.op \notin {"stop", "start", "destroy", "promote", "rollback", "rebuild",
                         "deployBuild", "toggle", "connect", "disconnect"}
  BY <1>10 DEF Effects
<1> QED
  BY <1>1, <1>2, <1>3, <1>4, <1>5, <1>6, <1>7, <1>8, <1>9, <1>10

\* A view stays one while the server goes on.
LEMMA ViewLater ==
  ASSUME NEW f, NEW m \in Nat, NEW n \in Nat, m <= n, IsView(f, m)
  PROVE  IsView(f, n)
  BY DEF IsView

\* A refresh starts with nothing.
LEMMA NewFetchView ==
  ASSUME NEW n \in Nat
  PROVE  IsView(NewFetch, n) /\ \A p \in Parts : NewFetch[p] = Nothing
<1>1. Nothing \in Cells
  BY DEF Nothing, Cells
<1>2. NewFetch \in [Parts -> Cells]
  BY <1>1 DEF NewFetch
<1>3. \A p \in Parts : NewFetch[p] = Nothing
  BY DEF NewFetch
<1> QED
  BY <1>2, <1>3 DEF IsView

\* A refresh that is started replaces every other one.
LEMMA FetchAllType ==
  ASSUME FetchAll
  PROVE  fetches' = {NewFetch}
  BY DEF FetchAll, Abort

\* Nothing is not a part that has arrived.
LEMMA NothingHasNoAge ==
  ASSUME NEW f, NEW n, IsView(f, n), NEW p \in Parts
  PROVE  f[p] # Nothing <=> f[p].v # 0
  BY DEF IsView, Nothing

\* The requests of unmounted components are still requests.
LEMMA UnmountType ==
  ASSUME OpsTyped, NEW S, Unmount(S), now' = now
  PROVE  OpsTyped'
<1>1. busy' \in [Ops -> AllTargets \cup {NoDeploy}]
      /\ \A op \in Ops : busy'[op] \in Targets(op) \cup {NoDeploy}
  BY DEF OpsTyped, Unmount
<1>2. ASSUME NEW q \in ops'
      PROVE  q \in Requests /\ q.d \in Targets(q.op) /\ q.at <= now
  <2>1. PICK o \in ops : q = [o EXCEPT !.mine = @ /\ o.op \notin S]
    BY DEF Unmount
  <2>2. o \in Requests /\ o.d \in Targets(o.op) /\ o.at <= now
    BY DEF OpsTyped
  <2> QED
    BY <2>1, <2>2 DEF Requests
<1> QED
  BY <1>1, <1>2 DEF OpsTyped

\* The steps that change the server keep its type.
LEMMA ServerStep ==
  ASSUME Typed, ServerMoves \/ \E o \in ops : Serve(o)
  PROVE  ServerTyped' /\ now <= now'
<1>1. ASSUME NEW s \in Servers, Becomes(s)
      PROVE  ServerTyped' /\ now <= now'
  BY <1>1, PageAssumption DEF Becomes, Typed, ServerTyped
<1>2. CASE ServerMoves
  <2>1. ASSUME NEW d \in Deploys,
               NEW new \in IF srv.status[d] = "absent" THEN {"queued"}
                           ELSE DEPLOY_TRANSITIONS[srv.status[d]],
               NEW s \in SetStatus(srv, d, new), Becomes(s)
        PROVE  ServerTyped' /\ now <= now'
    <3>1. srv \in Servers /\ srv.status[d] \in DEPLOY_STATES \cup {"absent"}
      BY DEF Typed, ServerTyped, Servers
    <3>2. new \in DEPLOY_STATES
      BY <3>1, TransitionType DEF DEPLOY_STATES
    <3> QED
      BY <1>1, <2>1, <3>1, <3>2, SetStatusType
  <2>2. ASSUME NEW b \in CASE srv.build = "queued"   -> {"building"}
                           [] srv.build = "building" -> {"success", "failed"}
                           [] OTHER                  -> {"queued"},
               Becomes([srv EXCEPT !.build = b])
        PROVE  ServerTyped' /\ now <= now'
    <3>1. b \in {"queued", "building", "success", "failed"}
      OBVIOUS
    <3>2. [srv EXCEPT !.build = b] \in Servers
      BY <3>1 DEF Typed, ServerTyped, Servers
    <3> QED
      BY <1>1, <2>2, <3>2
  <2>3. CASE Becomes([srv EXCEPT !.auto = ~@])
    <3>1. [srv EXCEPT !.auto = ~@] \in Servers
      BY DEF Typed, ServerTyped, Servers
    <3> QED
      BY <1>1, <2>3, <3>1
  <2> QED
    BY <1>2, <2>1, <2>2, <2>3 DEF ServerMoves
<1>3. ASSUME NEW o \in ops, Serve(o)
      PROVE  ServerTyped' /\ now <= now'
  <2>1. ASSUME NEW s \in Effects(o), Becomes(s)
        PROVE  ServerTyped' /\ now <= now'
    BY <1>1, <2>1, EffectsType DEF Typed, OpsTyped
  <2>2. CASE UNCHANGED server
    BY <2>2 DEF server, Typed, ServerTyped
  <2> QED
    BY <1>3, <2>1, <2>2 DEF Serve
<1> QED
  BY <1>2, <1>3

\* What is shown and fetched keeps its type: the answers are set all at once.
LEMMA ViewsStep ==
  ASSUME Typed, [Next]_vars
  PROVE  ViewsTyped'
<1>1. ASSUME now \in Nat, now' \in Nat, now <= now', UNCHANGED <<shown, loading>>,
             \A f \in fetches' : f \in fetches \/ f = NewFetch
      PROVE  ViewsTyped'
  <2>1. IsView(NewFetch, now')
    BY <1>1, NewFetchView
  <2> QED
    BY <1>1, <2>1, ViewLater DEF ViewsTyped, Typed
<1>n. now \in Nat
  BY DEF Typed, ServerTyped
<1>2. CASE ServerMoves \/ \E o \in ops : Serve(o)
  <2>1. now' \in Nat /\ now <= now'
    BY <1>2, ServerStep DEF ServerTyped
  <2>2. UNCHANGED <<shown, loading, fetches>>
    BY <1>2 DEF ServerMoves, Serve, page
  <2> QED
    BY <1>1, <1>n, <2>1, <2>2
<1>3. ASSUME NEW f \in fetches, NEW p \in Parts, Answer(f, p)
      PROVE  ViewsTyped'
  <2>1. UNCHANGED <<now, shown, loading>>
    BY <1>3 DEF Answer, server
  <2>2. IsView([f EXCEPT ![p] = Part(p)], now)
    <3>1. Part(p) \in Cells /\ Part(p).v = now /\ Part(p).s \in PartStates(p)
      BY PartType DEF Typed
    <3>2. IsView(f, now) /\ now \in 1..now
      BY DEF Typed, ViewsTyped, ServerTyped
    <3> QED
      BY <3>1, <3>2 DEF IsView
  <2> QED
    BY <1>3, <2>1, <2>2 DEF Answer, ViewsTyped, Typed
<1>4. ASSUME NEW f \in fetches, Apply(f)
      PROVE  ViewsTyped'
  BY <1>4 DEF Apply, Arrived, server, ViewsTyped, Typed, Parts
<1>5. ASSUME NEW f \in fetches, FetchFails(f)
      PROVE  ViewsTyped'
  BY <1>5 DEF FetchFails, server, ViewsTyped, Typed
<1>6. CASE Tick
  BY <1>1, <1>6, <1>n, FetchAllType DEF Tick, server
<1>7. ASSUME NEW o \in ops, Done(o)
      PROVE  ViewsTyped'
  BY <1>1, <1>7, <1>n, FetchAllType DEF Done, OnUpdate, server
<1>8. CASE Unload
  BY <1>1, <1>8, <1>n DEF Unload, server
<1>9. ASSUME UNCHANGED page, UNCHANGED server
      PROVE  ViewsTyped'
  BY <1>1, <1>9, <1>n DEF page, server
<1> QED
  BY <1>2, <1>3, <1>4, <1>5, <1>6, <1>7, <1>8, <1>9
  DEF Next, vars, Leave, Deleted, CloseModal, SetTab, AskDestroy, Press

\* What a request shows of the deploy it is about is a row of the page.
LEMMA SeenType ==
  ASSUME Typed, Ready, NEW op \in Ops, NEW d \in Targets(op), Offered(op, d)
  PROVE  Seen(op, d) \in Rows
<1>1. CASE op = "destroy"
  BY <1>1 DEF Seen, Typed, RestTyped
<1>2. CASE op \in DeployOps \ {"destroy"}
  <2>1. shown["deploys"].s \in [status : Statuses, prod : Deploys \cup {NoDeploy}]
    BY DEF Ready, Typed, ViewsTyped, IsView, PartStates, Parts
  <2>2. d \in Deploys
    BY <1>2 DEF Targets, DeployOps
  <2>3. StateOf(d) \in DEPLOY_STATES
    <3>1. StateOf(d) \in DEPLOY_STATES \cup {"absent"}
      BY <2>1, <2>2 DEF StateOf, Statuses
    <3>2. StateOf(d) \in {"active", "healthy", "superseded", "stopped"}
      BY <1>2 DEF Offered, BannerOffers, BuildsOffer, SettingsOffer, EnvironmentsOffer,
                  SettingOps, Saves, DeployOps, CanDeploy, isActive, hasContainer
    <3> QED
      BY <3>2 DEF DEPLOY_STATES
  <2>4. Seen(op, d) = [d |-> d, st |-> StateOf(d), prod |-> IsProd(d)]
    BY <1>2 DEF Seen
  <2> QED
    BY <2>2, <2>3, <2>4 DEF Rows, IsProd
<1>3. CASE op \notin DeployOps
  <2>1. op # "destroy"
    BY <1>3 DEF DeployOps
  <2>2. Seen(op, d) = NoDeploy
    BY <1>3, <2>1 DEF Seen
  <2> QED
    BY <2>2 DEF Rows
<1> QED
  BY <1>1, <1>2, <1>3

\* So do the requests in flight and the flags that disable their buttons.
LEMMA OpsStep ==
  ASSUME Typed, [Next]_vars
  PROVE  OpsTyped'
<1>n. now \in Nat /\ OpsTyped
  BY DEF Typed, ServerTyped
<1>1. ASSUME UNCHANGED busy, now' \in Nat, now <= now',
             \A q \in ops' : q \in ops \/ (q \in Requests /\ q.d \in Targets(q.op) /\ q.at <= now')
      PROVE  OpsTyped'
  BY <1>1, <1>n DEF OpsTyped, Requests
<1>2. CASE ServerMoves
  <2>1. now' \in Nat /\ now <= now'
    BY <1>2, ServerStep DEF ServerTyped
  <2> QED
    BY <1>1, <1>2, <2>1 DEF ServerMoves, form
<1>3. ASSUME NEW o \in ops, Serve(o)
      PROVE  OpsTyped'
  <2>1. now' \in Nat /\ now <= now'
    BY <1>3, ServerStep DEF ServerTyped
  <2>2. o \in Requests /\ o.d \in Targets(o.op) /\ o.at <= now
    BY DEF Typed, OpsTyped
  <2>3. \A a \in {"refused", "failed"} :
          LET q == [o EXCEPT !.ans = a] IN q \in Requests /\ q.d = o.d /\ q.op = o.op /\ q.at = o.at
    BY <2>2 DEF Requests
  <2>4. LET q == [o EXCEPT !.ans = "ok", !.at = now + 1]
        IN  q \in Requests /\ q.d = o.d /\ q.op = o.op /\ q.at = now + 1
    <3>1. now + 1 \in Nat
      BY <1>n
    <3> QED
      BY <2>2, <3>1 DEF Requests
  <2>5. o.at \in Nat
    BY <2>2 DEF Requests
  <2>6. ASSUME NEW q \in ops', q \notin ops
        PROVE  q \in Requests /\ q.d \in Targets(q.op) /\ q.at <= now'
    <3>1. CASE \E a \in {"refused", "failed"} : q = [o EXCEPT !.ans = a]
      BY <1>n, <2>1, <2>2, <2>3, <2>5, <3>1
    <3>2. CASE q = [o EXCEPT !.ans = "ok", !.at = now + 1] /\ now' = now + 1
      BY <1>n, <2>1, <2>2, <2>4, <3>2
    <3> QED
      BY <1>3, <2>6, <3>1, <3>2 DEF Serve, Becomes
  <2>7. UNCHANGED busy
    BY <1>3 DEF Serve, form
  <2> QED
    BY <1>1, <2>1, <2>6, <2>7
<1>4. ASSUME NEW f \in fetches, Apply(f) \/ FetchFails(f)
      PROVE  OpsTyped'
  BY <1>4, <1>n, UnmountType DEF Apply, FetchFails, server
<1>5. ASSUME NEW t \in Tabs, SetTab(t)
      PROVE  OpsTyped'
  BY <1>5, <1>n, UnmountType DEF SetTab, server
<1>6. ASSUME NEW op \in Ops, NEW d \in Targets(op), Press(op, d)
      PROVE  OpsTyped'
  <2> DEFINE q == [op |-> op, d |-> d, val |-> ~switch, mine |-> TRUE, ans |-> "none",
                   seen |-> Seen(op, d), at |-> 0, n |-> events]
  <2>1. Seen(op, d) \in Rows
    BY <1>6, SeenType DEF Press
  <2>2. d \in AllTargets /\ events \in Nat
    BY DEF Targets, AllTargets, Typed, RestTyped
  <2>3. q \in Requests /\ q.d \in Targets(q.op) /\ q.at <= now
    BY <1>n, <2>1, <2>2 DEF Requests
  <2>4. ops' = ops \cup {q} /\ UNCHANGED now
    BY <1>6 DEF Press, server
  <2>5. busy' = [busy EXCEPT ![op] = d]
    BY <1>6 DEF Press
  <2> HIDE DEF q
  <2> QED
    BY <1>n, <2>2, <2>3, <2>4, <2>5 DEF OpsTyped
<1>7. ASSUME NEW o \in ops, Done(o)
      PROVE  OpsTyped'
  <2>1. ops' \subseteq ops /\ UNCHANGED now
    BY <1>7 DEF Done, server
  <2>2. busy' = busy \/ busy' = [busy EXCEPT ![o.op] = NoDeploy]
    BY <1>7 DEF Done
  <2> QED
    BY <1>n, <2>1, <2>2 DEF OpsTyped
<1>8. CASE Unload
  BY <1>8, <1>n DEF Unload, server, OpsTyped, Idle
<1>9. ASSUME UNCHANGED <<busy, ops, now>>
      PROVE  OpsTyped'
  BY <1>1, <1>9, <1>n
<1> QED
  BY <1>2, <1>3, <1>4, <1>5, <1>6, <1>7, <1>8, <1>9
  DEF Next, vars, Leave, Deleted, CloseModal, AskDestroy, Answer, Tick, form, server

\* A row that is chosen to be destroyed is one of those shown.
LEMMA AskedType ==
  ASSUME Typed, NEW d \in Deploys, AskDestroy(d)
  PROVE  target' \in Rows
<1>1. shown["deploys"].s \in [status : Statuses, prod : Deploys \cup {NoDeploy}]
  BY DEF AskDestroy, Ready, Typed, ViewsTyped, IsView, PartStates, Parts
<1>2. StateOf(d) \in DEPLOY_STATES
  BY <1>1 DEF AskDestroy, StateOf, Statuses
<1> QED
  BY <1>2 DEF AskDestroy, Rows, IsProd

\* Every step keeps the types of the tab, the dialog's target and the counters.
LEMMA RestStep ==
  ASSUME Typed, [Next]_vars
  PROVE  RestTyped'
<1>n. now \in Nat /\ RestTyped /\ NoDeploy \in Rows
  BY DEF Typed, ServerTyped, Rows
<1>1. ASSUME now' \in Nat, now <= now', UNCHANGED <<tab, last, target, acked>>, events' \in Nat
      PROVE  RestTyped'
  BY <1>1, <1>n DEF RestTyped
<1>e. ASSUME Event \/ UNCHANGED events
      PROVE  events' \in Nat
  BY <1>e, <1>n DEF RestTyped, Event
<1>2. CASE ServerMoves \/ \E o \in ops : Serve(o)
  <2>1. now' \in Nat /\ now <= now'
    BY <1>2, ServerStep DEF ServerTyped
  <2> QED
    BY <1>1, <1>2, <1>e, <2>1 DEF ServerMoves, Serve, page, polling, form
<1>3. ASSUME NEW f \in fetches, Apply(f)
      PROVE  RestTyped'
  BY <1>3, <1>n DEF Apply, PollingEffect, RestTyped, server, past
<1>4. ASSUME NEW f \in fetches, FetchFails(f)
      PROVE  RestTyped'
  BY <1>4, <1>n, <1>e DEF FetchFails, RestTyped, server, polling
<1>5. ASSUME NEW t \in Tabs, SetTab(t)
      PROVE  RestTyped'
  BY <1>5, <1>n, <1>e DEF SetTab, RestTyped, server, page, polling
<1>6. ASSUME NEW d \in Deploys, AskDestroy(d)
      PROVE  RestTyped'
  BY <1>6, <1>n, AskedType DEF AskDestroy, RestTyped, server, page, polling, past
<1>7. CASE CloseModal
  BY <1>7, <1>n DEF CloseModal, RestTyped, server, page, polling, past
<1>8. ASSUME NEW op \in Ops, NEW d \in Targets(op), Press(op, d)
      PROVE  RestTyped'
  BY <1>1, <1>8, <1>n, <1>e DEF Press, server, page, polling
<1>9. ASSUME NEW o \in ops, Done(o)
      PROVE  RestTyped'
  <2>1. o.at \in Nat /\ o.at <= now
    BY DEF Typed, OpsTyped, Requests
  <2> QED
    BY <1>9, <1>n, <2>1 DEF Done, RestTyped, server, polling
<1>10. CASE Unload
  BY <1>10, <1>n DEF Unload, RestTyped, server, past
<1>11. ASSUME UNCHANGED <<server, tab, polling, form, past>>
       PROVE  RestTyped'
  BY <1>1, <1>11, <1>n DEF RestTyped, server, polling, form, past
<1> QED
  BY <1>2, <1>3, <1>4, <1>5, <1>6, <1>7, <1>8, <1>9, <1>10, <1>11
  DEF Next, vars, page, Leave, Deleted, Answer, Tick

\* Every step keeps the flags Boolean.
LEMMA FlagsStep ==
  ASSUME Typed, [Next]_vars
  PROVE  FlagsTyped'
<1>n. FlagsTyped
  BY DEF Typed
<1>1. CASE ServerMoves
  BY <1>1, <1>n DEF ServerMoves, FlagsTyped, page, polling, form
<1>2. ASSUME NEW o \in ops, Serve(o)
      PROVE  FlagsTyped'
  BY <1>2, <1>n DEF Serve, FlagsTyped, page, polling, form
<1>3. ASSUME NEW f \in fetches, Apply(f)
      PROVE  FlagsTyped'
  BY <1>3, <1>n DEF Apply, PollingEffect, FlagsTyped, past
<1>4. ASSUME NEW f \in fetches, FetchFails(f)
      PROVE  FlagsTyped'
  BY <1>4, <1>n DEF FetchFails, FlagsTyped, polling
<1>5. ASSUME NEW t \in Tabs, SetTab(t)
      PROVE  FlagsTyped'
  <2>1. shown["project"].s.auto \in BOOLEAN
    BY <1>5 DEF SetTab, Ready, Typed, ViewsTyped, IsView, PartStates, Parts
  <2> QED
    BY <1>5, <1>n, <2>1 DEF SetTab, FlagsTyped, page, polling
<1>6. ASSUME NEW op \in Ops, NEW d \in Targets(op), Press(op, d)
      PROVE  FlagsTyped'
  BY <1>6, <1>n DEF Press, FlagsTyped, page, polling
<1>7. ASSUME NEW o \in ops, Done(o)
      PROVE  FlagsTyped'
  <2>1. o.val \in BOOLEAN
    BY DEF Typed, OpsTyped, Requests
  <2> QED
    BY <1>7, <1>n, <2>1 DEF Done, RevertedSwitch, FlagsTyped, polling
<1>8. CASE Unload
  BY <1>8, <1>n DEF Unload, FlagsTyped, past
<1>9. ASSUME UNCHANGED <<mounted, loading, error, polling, switch, doubtful>>
      PROVE  FlagsTyped'
  BY <1>9, <1>n DEF FlagsTyped, polling
<1> QED
  BY <1>1, <1>2, <1>3, <1>4, <1>5, <1>6, <1>7, <1>8, <1>9
  DEF Next, vars, page, form, past, Leave, Deleted, Answer, Tick, AskDestroy, CloseModal

\* Every step keeps the types.
LEMMA TypeStep ==
  ASSUME Typed, [Next]_vars
  PROVE  Typed'
<1>1. ServerTyped'
  <2>1. CASE ServerMoves \/ \E o \in ops : Serve(o)
    BY <2>1, ServerStep
  <2>2. CASE UNCHANGED server
    BY <2>2 DEF server, Typed, ServerTyped
  <2> QED
    BY <2>1, <2>2
    DEF Next, vars, Answer, Apply, FetchFails, Tick, Leave, Deleted, Unload, CloseModal,
        SetTab, AskDestroy, Press, Done
<1> QED
  BY <1>1, ViewsStep, OpsStep, FlagsStep, RestStep DEF Typed

\* The page is typed when it mounts.
LEMMA TypeInit == Init => Typed
<1> SUFFICES ASSUME Init PROVE Typed
  OBVIOUS
<1>1. ServerTyped
  BY PageAssumption DEF Init, ServerTyped
<1>2. ViewsTyped
  <2>1. IsView(NewFetch, now)
    BY NewFetchView DEF Init
  <2> QED
    BY <2>1 DEF Init, ViewsTyped, NewFetch, Parts
<1>3. OpsTyped
  BY DEF Init, OpsTyped, Idle
<1>4. FlagsTyped
  BY DEF Init, FlagsTyped
<1>5. RestTyped
  BY DEF Init, RestTyped, Tabs, Rows
<1> QED
  BY <1>1, <1>2, <1>3, <1>4, <1>5 DEF Typed

\* Typed is an invariant.
LEMMA TypedAlways == Spec => []Typed
  BY TypeInit, TypeStep, PTL DEF Spec

\* Every variable keeps its type, and the parts of the page are all shown or
\* none is, whatever the order of answers, clicks and failures.
THEOREM TypeCorrect == Spec => []TypeOK
<1>1. Typed => TypeOK
  <2> SUFFICES ASSUME Typed PROVE TypeOK
    OBVIOUS
  <2> USE DEF Typed
  <2>1. \A p \in Parts : shown[p].v \in 0..now
    BY DEF ViewsTyped, IsView, Nothing, ServerTyped
  <2>2. \A o \in ops : /\ o.op \in Ops /\ o.d \in Targets(o.op) /\ o.seen \in Rows
                        /\ o.ans \in {"none", "ok", "refused", "failed"}
    BY DEF OpsTyped, Requests
  <2>3. {mounted, loading, error, interval, cleanup, switch, doubtful} \subseteq BOOLEAN
    BY DEF FlagsTyped
  <2> QED
    BY <2>1, <2>2, <2>3 DEF TypeOK, ServerTyped, ViewsTyped, OpsTyped, RestTyped
<1> QED
  BY <1>1, TypedAlways, PTL

(***************************************************************************)
(* Fresh data                                                              *)
(***************************************************************************)

\* At most one call of fetchAll is in flight that was not aborted; what it
\* has fetched so far is no older than what is shown, nor than what any
\* operation's answer told of; and AckedIsShown.
FreshInv ==
  /\ \A f, g \in fetches : f = g
  /\ \A f \in fetches : \A p, q \in Parts :
       f[p] # Nothing => shown[q].v <= f[p].v /\ acked <= f[p].v
  /\ AckedIsShown

\* Ages are numbers no greater than the server's.
LEMMA Ages ==
  ASSUME Typed
  PROVE  /\ now \in Nat /\ acked \in Nat /\ acked <= now
         /\ \A p \in Parts : shown[p].v \in Nat /\ shown[p].v <= now
         /\ \A f \in fetches : \A p \in Parts : f[p].v \in Nat /\ f[p].v <= now
<1>1. now \in Nat /\ acked \in Nat /\ acked <= now
  BY DEF Typed, ServerTyped, RestTyped
<1>2. ASSUME NEW f, IsView(f, now), NEW p \in Parts
      PROVE  f[p].v \in Nat /\ f[p].v <= now
  BY <1>1, <1>2 DEF IsView, Nothing
<1> QED
  BY <1>1, <1>2 DEF Typed, ViewsTyped

\* Every step keeps what is shown as new as the operations that were answered.
LEMMA FreshStep ==
  ASSUME Typed, FreshInv, [Next]_vars
  PROVE  FreshInv'
<1>1. ASSUME UNCHANGED <<mounted, error, fetches, shown, acked>>
      PROVE  FreshInv'
  BY <1>1 DEF FreshInv, AckedIsShown
<1>2. ASSUME NEW f \in fetches, NEW p \in Parts, Answer(f, p)
      PROVE  FreshInv'
  <2> DEFINE g == [f EXCEPT ![p] = Part(p)]
  <2>1. fetches = {f} /\ fetches' = {g}
    BY <1>2 DEF Answer, FreshInv
  <2>2. Part(p).v = now /\ f \in [Parts -> Cells]
    BY PartType DEF Typed, ViewsTyped, IsView
  <2>3. \A r, q \in Parts : g[r] # Nothing => shown[q].v <= g[r].v /\ acked <= g[r].v
    BY <2>2, Ages DEF FreshInv
  <2>4. UNCHANGED <<shown, acked>>
    BY <1>2 DEF Answer, past
  <2> QED
    BY <2>1, <2>3, <2>4 DEF FreshInv, AckedIsShown
<1>3. ASSUME NEW f \in fetches, Apply(f)
      PROVE  FreshInv'
  <2>1. fetches = {f} /\ fetches' = {}
    BY <1>3 DEF Apply, FreshInv
  <2>2. shown' = f /\ acked' = acked
    BY <1>3 DEF Apply, past
  <2>3. \A p \in Parts : f[p] # Nothing
    BY <1>3 DEF Apply, Arrived
  <2>4. \A p \in Parts : shown'[p].v >= acked'
    BY <2>2, <2>3, Ages DEF FreshInv
  <2> QED
    BY <2>1, <2>4 DEF FreshInv, AckedIsShown
<1>4. ASSUME NEW f \in fetches, FetchFails(f)
      PROVE  FreshInv'
  BY <1>4 DEF FetchFails, FreshInv, AckedIsShown
<1>5. ASSUME fetches' = {NewFetch}
      PROVE  FreshInv'
  <2>1. \A p \in Parts : NewFetch[p] = Nothing
    BY DEF NewFetch
  <2> QED
    BY <1>5, <2>1 DEF FreshInv, AckedIsShown
<1>6. CASE Tick
  BY <1>5, <1>6, FetchAllType DEF Tick
<1>7. ASSUME NEW o \in ops, Done(o)
      PROVE  FreshInv'
  BY <1>1, <1>5, <1>7, FetchAllType DEF Done, OnUpdate
<1>8. CASE Unload
  BY <1>8 DEF Unload, FreshInv, AckedIsShown
<1>9. ASSUME UNCHANGED page, UNCHANGED acked
      PROVE  FreshInv'
  BY <1>1, <1>9 DEF page
<1> QED
  BY <1>2, <1>3, <1>4, <1>6, <1>7, <1>8, <1>9
  DEF Next, vars, past, ServerMoves, Serve, Leave, Deleted, CloseModal, SetTab, AskDestroy, Press

\* FreshInv is an invariant.
LEMMA FreshAlways == Spec => []FreshInv
<1>1. Init => FreshInv
  BY DEF Init, FreshInv, AckedIsShown
<1>2. Typed /\ FreshInv /\ [Next]_vars => FreshInv'
  BY FreshStep
<1> QED
  BY <1>1, <1>2, TypedAlways, PTL DEF Spec

\* Once an operation has succeeded, the page shows what it did or a refresh
\* that will is in flight: the answer of no poll that was started earlier can
\* take its place.
THEOREM OperationsAreShown == Spec => []AckedIsShown
  BY FreshAlways, PTL DEF FreshInv

\* The page implements FreshView: every step either stutters, or is a change
\* of the server, or replaces all that is shown by states no older than
\* anything it replaces, whatever order the answers come in.
THEOREM PageIsFresh == Spec => ShowsFreshView
<1>1. Init => Fresh!Init
  BY DEF Init, Fresh!Init, Nothing
<1>2. Typed /\ FreshInv /\ [Next]_vars => [Fresh!Next]_<<now, [p \in Parts |-> shown[p].v]>>
  <2> SUFFICES ASSUME Typed, FreshInv, [Next]_vars
               PROVE  [Fresh!Next]_<<now, [p \in Parts |-> shown[p].v]>>
    OBVIOUS
  <2>1. ASSUME NEW f \in fetches, Apply(f)
        PROVE  Fresh!Refresh
    <3>1. shown' = f /\ now' = now
      BY <2>1 DEF Apply, server
    <3>2. \A p \in Parts : f[p] # Nothing
      BY <2>1 DEF Apply, Arrived
    <3>3. \A p \in Parts : f[p].v \in 1..now
      BY <3>2 DEF Typed, ViewsTyped, IsView
    <3>4. \A p, q \in Parts : shown[p].v <= f[q].v
      BY <3>2 DEF FreshInv
    <3> QED
      BY <3>1, <3>3, <3>4 DEF Fresh!Refresh
  <2>2. ASSUME UNCHANGED shown, UNCHANGED now \/ now' = now + 1
        PROVE  [Fresh!Next]_<<now, [p \in Parts |-> shown[p].v]>>
    BY <2>2 DEF Fresh!Next, Fresh!Change
  <2>3. CASE ServerMoves
    BY <2>2, <2>3 DEF ServerMoves, Becomes, page
  <2>4. ASSUME NEW o \in ops, Serve(o)
        PROVE  [Fresh!Next]_<<now, [p \in Parts |-> shown[p].v]>>
    BY <2>2, <2>4 DEF Serve, Becomes, page, server
  <2> QED
    BY <2>1, <2>2, <2>3, <2>4
    DEF Fresh!Next, Next, vars, server, page, Answer, FetchFails, Tick, Leave, Deleted, Unload,
        CloseModal, SetTab, AskDestroy, Press, Done
<1> QED
  BY <1>1, <1>2, TypedAlways, FreshAlways, PTL DEF Spec, ShowsFreshView, Fresh!Spec

(***************************************************************************)
(* One request of a kind                                                   *)
(***************************************************************************)

\* A request of an open tab holds its flag, which is why there is no second.
BusyInv ==
  /\ \A o \in ops : o.mine /\ o.op # "deployBuild" => busy[o.op] = o.d
  /\ NoDuplicateRequest

\* The deploy or project of a request is not null.
LEMMA RequestHasTarget ==
  ASSUME Typed, NEW o \in ops
  PROVE  o \in Requests /\ o.op \in Ops /\ o.d # NoDeploy
<1>1. o \in Requests /\ o.d \in Targets(o.op)
  BY DEF Typed, OpsTyped
<1> QED
  BY <1>1, PageAssumption DEF Requests, AllTargets, Targets

\* Answering a request changes nothing of it but the answer.
SameCall(q, o) ==
  q.op = o.op /\ q.d = o.d /\ q.mine = o.mine /\ q.val = o.val /\ q.seen = o.seen

\* The server answers a request and leaves what it asks for alone.
LEMMA ServedRequest ==
  ASSUME Typed, NEW o \in ops, Serve(o)
  PROVE  \E q \in Requests : ops' = (ops \ {o}) \cup {q} /\ SameCall(q, o)
<1>1. o \in Requests /\ now + 1 \in Nat
  BY DEF Typed, OpsTyped, ServerTyped
<1>2. ASSUME NEW a \in {"refused", "failed"}, ops' = (ops \ {o}) \cup {[o EXCEPT !.ans = a]}
      PROVE  \E q \in Requests : ops' = (ops \ {o}) \cup {q} /\ SameCall(q, o)
  <2>1. [o EXCEPT !.ans = a] \in Requests /\ SameCall([o EXCEPT !.ans = a], o)
    BY <1>1 DEF Requests, SameCall
  <2> QED
    BY <1>2, <2>1
<1>3. ASSUME ops' = (ops \ {o}) \cup {[o EXCEPT !.ans = "ok", !.at = now + 1]}
      PROVE  \E q \in Requests : ops' = (ops \ {o}) \cup {q} /\ SameCall(q, o)
  <2> DEFINE q == [o EXCEPT !.ans = "ok", !.at = now + 1]
  <2>1. q \in Requests /\ SameCall(q, o)
    BY <1>1 DEF Requests, SameCall
  <2> QED
    BY <1>3, <2>1
<1> QED
  BY <1>2, <1>3 DEF Serve

\* Unmounting frees the flags of the components that go, and disowns their
\* requests.
LEMMA UnmountBusy ==
  ASSUME Typed, BusyInv, NEW S, Unmount(S)
  PROVE  BusyInv'
<1>1. ASSUME NEW q \in ops'
      PROVE  \E o \in ops : /\ q = [o EXCEPT !.mine = @ /\ o.op \notin S]
                            /\ q.op = o.op /\ q.d = o.d
                            /\ q.mine => o.mine /\ o.op \notin S
  <2>1. PICK o \in ops : q = [o EXCEPT !.mine = @ /\ o.op \notin S]
    BY DEF Unmount
  <2>2. o \in Requests
    BY DEF Typed, OpsTyped
  <2> QED
    BY <2>1, <2>2 DEF Requests
<1>2. \A q \in ops' : q.mine /\ q.op # "deployBuild" => busy'[q.op] = q.d
  BY <1>1, RequestHasTarget DEF Unmount, BusyInv
<1>3. NoDuplicateRequest'
  <2>1. ASSUME NEW q \in ops', NEW r \in ops', q.mine, r.mine, Flag(q.op) = Flag(r.op),
               q.op # "deployBuild"
        PROVE  q = r
    BY <1>1, <2>1 DEF BusyInv, NoDuplicateRequest
  <2> QED
    BY <2>1 DEF NoDuplicateRequest
<1> QED
  BY <1>2, <1>3 DEF BusyInv

\* Every step keeps a busy flag for each request of this page.
LEMMA BusyStep ==
  ASSUME Typed, BusyInv, [Next]_vars
  PROVE  BusyInv'
<1>1. ASSUME NEW o \in ops, Serve(o)
      PROVE  BusyInv'
  <2>1. o \in Requests /\ UNCHANGED busy
    BY <1>1, RequestHasTarget DEF Serve, form
  <2>2. PICK q \in Requests : /\ ops' = (ops \ {o}) \cup {q}
                              /\ SameCall(q, o)
    BY <1>1, ServedRequest
  <2> QED
    BY <2>1, <2>2 DEF BusyInv, NoDuplicateRequest, SameCall
<1>2. ASSUME NEW o \in ops, Done(o)
      PROVE  BusyInv'
  <2>1. ops' = ops \ {o}
    BY <1>2 DEF Done
  <2>2. busy' = busy \/ (o.mine /\ busy' = [busy EXCEPT ![o.op] = NoDeploy])
    BY <1>2 DEF Done
  <2>3. ASSUME NEW q \in ops', q.mine, q.op # "deployBuild"
        PROVE  busy'[q.op] = q.d
    <3>1. CASE q.op = o.op /\ o.mine
      BY <2>1, <2>3, <3>1 DEF BusyInv, NoDuplicateRequest
    <3>2. CASE q.op # o.op \/ ~o.mine
      BY <2>1, <2>2, <2>3, <3>2, RequestHasTarget DEF BusyInv, Typed, OpsTyped
    <3> QED
      BY <3>1, <3>2
  <2> QED
    BY <2>1, <2>3 DEF BusyInv, NoDuplicateRequest
<1>3. ASSUME NEW f \in fetches, Apply(f) \/ FetchFails(f)
      PROVE  BusyInv'
  BY <1>3, UnmountBusy DEF Apply, FetchFails
<1>4. ASSUME NEW t \in Tabs, SetTab(t)
      PROVE  BusyInv'
  BY <1>4, UnmountBusy DEF SetTab
<1>5. ASSUME NEW op \in Ops, NEW d \in Targets(op), Press(op, d)
      PROVE  BusyInv'
  <2> DEFINE q == [op |-> op, d |-> d, val |-> ~switch, mine |-> TRUE, ans |-> "none",
                   seen |-> Seen(op, d), at |-> 0, n |-> events]
  <2>1. q.op = op /\ q.d = d
    OBVIOUS
  <2>2. ops' = ops \cup {q} /\ busy' = [busy EXCEPT ![op] = d]
    BY <1>5 DEF Press
  <2>3. \A o \in ops : o.mine /\ o.op # "deployBuild" => Flag(o.op) # Flag(op)
    <3>1. CASE op = "deployBuild"
      BY <3>1 DEF Flag
    <3>2. CASE op # "deployBuild"
      BY <1>5, <3>2, RequestHasTarget DEF Press, NotBusy, BusyInv
    <3> QED
      BY <3>1, <3>2
  <2>4. busy'[op] = d /\ \A x \in Ops : x # op => busy'[x] = busy[x]
    BY <2>2 DEF Typed, OpsTyped
  <2> HIDE DEF q
  <2>5. \A o \in ops' : o.mine /\ o.op # "deployBuild" => busy'[o.op] = o.d
    BY <2>1, <2>2, <2>3, <2>4, RequestHasTarget DEF BusyInv
  <2>6. \A o \in ops : Flag(o.op) = Flag(op) => (o.op = "deployBuild" <=> op = "deployBuild")
    BY DEF Flag
  <2> QED
    BY <2>1, <2>2, <2>3, <2>5, <2>6 DEF BusyInv, NoDuplicateRequest
<1>6. CASE Unload
  BY <1>6 DEF Unload, BusyInv, NoDuplicateRequest
<1>7. ASSUME UNCHANGED <<busy, ops>>
      PROVE  BusyInv'
  BY <1>7 DEF BusyInv, NoDuplicateRequest
<1> QED
  BY <1>1, <1>2, <1>3, <1>4, <1>5, <1>6, <1>7
  DEF Next, vars, form, ServerMoves, Answer, Tick, Leave, Deleted, CloseModal, AskDestroy

\* BusyInv is an invariant.
LEMMA BusyAlways == Spec => []BusyInv
<1>1. Init => BusyInv
  BY DEF Init, BusyInv, NoDuplicateRequest
<1>2. Typed /\ BusyInv /\ [Next]_vars => BusyInv'
  BY BusyStep
<1> QED
  BY <1>1, <1>2, TypedAlways, PTL DEF Spec

\* However many rows are clicked, a tab that stays open has at most one
\* request of a kind in flight, deploys of builds apart.
THEOREM OneRequestOfAKind == Spec => []NoDuplicateRequest
  BY BusyAlways, PTL DEF BusyInv

(***************************************************************************)
(* Polling                                                                 *)
(***************************************************************************)

\* An interval is one that the last run of the effect started and will clean
\* up, and nothing is in flight on a page that was left.
PollInv ==
  /\ interval => cleanup
  /\ fetches # {} \/ ops # {} => mounted
  /\ NoStrayInterval

\* Every step keeps the interval with the effect that clears it.
LEMMA PollStep ==
  ASSUME Typed, PollInv, [Next]_vars
  PROVE  PollInv'
<1>1. ASSUME UNCHANGED <<interval, cleanup, last, shown, mounted>>,
             (fetches' # {} \/ ops' # {}) => mounted
      PROVE  PollInv'
  BY <1>1 DEF PollInv, NoStrayInterval, ShouldPoll
<1>2. ASSUME NEW f \in fetches, Apply(f)
      PROVE  PollInv'
  <2>1. mounted /\ mounted' = mounted /\ shown' = f
    BY <1>2 DEF Apply, PollInv
  <2>2. PollingEffect(f)
    BY <1>2 DEF Apply
  <2>3. interval' => cleanup'
    BY <2>2 DEF PollingEffect, PollInv
  <2>4. interval' => last' = "polling" /\ ShouldPoll(f)
    BY <2>2 DEF PollingEffect, PollInv, NoStrayInterval
  <2> QED
    BY <2>1, <2>3, <2>4 DEF PollInv, NoStrayInterval, ShouldPoll
<1>3. ASSUME NEW f \in fetches, FetchFails(f)
      PROVE  PollInv'
  BY <1>1, <1>3 DEF FetchFails, polling, PollInv
<1>4. CASE Tick
  BY <1>1, <1>4 DEF Tick, polling, PollInv, NoStrayInterval
<1>5. ASSUME NEW o \in ops, Done(o) \/ Serve(o)
      PROVE  PollInv'
  BY <1>1, <1>5 DEF Done, Serve, page, polling, PollInv
<1>6. CASE Unload
  BY <1>6 DEF Unload, PollInv, NoStrayInterval
<1>7. ASSUME NEW op \in Ops, NEW d \in Targets(op), Press(op, d)
      PROVE  PollInv'
  BY <1>1, <1>7 DEF Press, Ready, page, polling
<1>8. ASSUME NEW t \in Tabs, SetTab(t)
      PROVE  PollInv'
  BY <1>1, <1>8 DEF SetTab, Ready, page, polling
<1>9. ASSUME NEW f \in fetches, NEW p \in Parts, Answer(f, p)
      PROVE  PollInv'
  BY <1>1, <1>9 DEF Answer, polling, PollInv
<1>10. ASSUME UNCHANGED page, UNCHANGED ops
       PROVE  PollInv'
  BY <1>1, <1>10 DEF page, polling, PollInv
<1> QED
  BY <1>2, <1>3, <1>4, <1>5, <1>6, <1>7, <1>8, <1>9, <1>10
  DEF Next, vars, ServerMoves, Leave, Deleted, CloseModal, AskDestroy

\* The interval never outlives the page or the work it is there to follow.
THEOREM IntervalIsCleared == Spec => []NoStrayInterval
<1>1. Init => PollInv
  BY DEF Init, PollInv, NoStrayInterval
<1>2. Typed /\ PollInv /\ [Next]_vars => PollInv'
  BY PollStep
<1>3. PollInv => NoStrayInterval
  BY DEF PollInv
<1> QED
  BY <1>1, <1>2, <1>3, TypedAlways, PTL DEF Spec

(***************************************************************************)
(* What the page offers                                                    *)
(***************************************************************************)

\* The rows for which DeploysTab has a button.
OfferedFor(op, row) ==
  /\ op = "rollback" => row.st \in {"active", "healthy"} /\ row.prod = TRUE
  /\ op = "stop"     => row.st \in {"active", "healthy", "superseded"}
  /\ op = "start"    => row.st = "stopped"
  /\ op = "promote"  => row.st \in {"active", "healthy", "superseded"} /\ row.prod = FALSE
  /\ op = "destroy"  => row.st # "rolled_back"

\* A request tells what the user saw when the button was there.
OfferInv ==
  /\ target # NoDeploy => target.st # "rolled_back"
  /\ \A o \in ops : o.op \in DeployOps => OfferedFor(o.op, o.seen)

\* Every step keeps a request for an operation that its button was offered for.
LEMMA OfferStep ==
  ASSUME Typed, OfferInv, [Next]_vars
  PROVE  OfferInv'
<1>1. ASSUME UNCHANGED target \/ target' = NoDeploy,
             \A q \in ops' : \E o \in ops : q.op = o.op /\ q.seen = o.seen
      PROVE  OfferInv'
  BY <1>1 DEF OfferInv
<1>2. ASSUME NEW o \in ops, Serve(o)
      PROVE  OfferInv'
  <2>1. PICK q \in Requests : ops' = (ops \ {o}) \cup {q} /\ SameCall(q, o)
    BY <1>2, ServedRequest
  <2> QED
    BY <1>1, <1>2, <2>1 DEF Serve, form, SameCall
<1>3. ASSUME NEW S, Unmount(S), UNCHANGED target \/ target' = NoDeploy
      PROVE  OfferInv'
  <2>1. ASSUME NEW q \in ops'
        PROVE  \E o \in ops : q.op = o.op /\ q.seen = o.seen
    <3>1. PICK o \in ops : q = [o EXCEPT !.mine = @ /\ o.op \notin S]
      BY <1>3 DEF Unmount
    <3>2. o \in Requests
      BY DEF Typed, OpsTyped
    <3> QED
      BY <3>1, <3>2 DEF Requests
  <2> QED
    BY <1>1, <1>3, <2>1
<1>4. ASSUME NEW d \in Deploys, AskDestroy(d)
      PROVE  OfferInv'
  BY <1>4 DEF AskDestroy, OfferInv
<1>5. ASSUME NEW op \in Ops, NEW d \in Targets(op), Press(op, d)
      PROVE  OfferInv'
  <2> DEFINE q == [op |-> op, d |-> d, val |-> ~switch, mine |-> TRUE, ans |-> "none",
                   seen |-> Seen(op, d), at |-> 0, n |-> events]
  <2>1. q.op = op /\ q.seen = Seen(op, d)
    OBVIOUS
  <2>2. ops' = ops \cup {q} /\ UNCHANGED target
    BY <1>5 DEF Press
  <2>3. ASSUME op \in DeployOps
        PROVE  OfferedFor(op, Seen(op, d))
    <3>1. CanDeploy(op, d)
      BY <1>5, <2>3 DEF Press, Offered, BannerOffers, BuildsOffer, SettingsOffer,
                        EnvironmentsOffer, SettingOps, Saves, DeployOps
    <3>2. CASE op = "destroy"
      BY <3>1, <3>2 DEF CanDeploy, Seen, OfferInv, OfferedFor
    <3>3. CASE op # "destroy"
      <4>1. Seen(op, d) = [d |-> d, st |-> StateOf(d), prod |-> IsProd(d)]
        BY <2>3, <3>3 DEF Seen
      <4>2. Seen(op, d).st = StateOf(d) /\ Seen(op, d).prod = IsProd(d)
        BY <4>1
      <4>3. IsProd(d) \in BOOLEAN
        BY DEF IsProd
      <4> QED
        BY <2>3, <3>1, <3>3, <4>2, <4>3
        DEF CanDeploy, isActive, hasContainer, OfferedFor, DeployOps
    <3> QED
      BY <3>2, <3>3
  <2> HIDE DEF q
  <2> QED
    BY <2>1, <2>2, <2>3 DEF OfferInv
<1> QED
  BY <1>1, <1>2, <1>3, <1>4, <1>5
  DEF Next, vars, form, ServerMoves, Answer, Apply, FetchFails, Tick, SetTab, Leave, Deleted,
      Unload, CloseModal, Done

\* As long as the deploy is as the user saw it, its status is never what makes
\* the API refuse: the conditions of the buttons imply those of the endpoints,
\* but for the container limit that a start meets.
THEOREM ButtonsMatchEndpoints == Spec => []OfferFitsStatus
<1>1. Init => OfferInv
  BY DEF Init, OfferInv
<1>2. Typed /\ OfferInv /\ [Next]_vars => OfferInv'
  BY OfferStep
<1>3. Typed /\ OfferInv => OfferFitsStatus
  <2> SUFFICES ASSUME OfferInv, NEW o \in ops, o.op \in DeployOps,
                      o.seen = [d |-> o.d, st |-> srv.status[o.d], prod |-> srv.prod = o.d],
                      o.seen.st # "healthy"
               PROVE  Accepts(o.op, o.d) \/ (o.op = "start" /\ AtLimit)
    BY DEF OfferFitsStatus
  <2>1. OfferedFor(o.op, o.seen)
    BY DEF OfferInv
  <2>2. PICK b \in BOOLEAN : b = (srv.prod = o.d)
    OBVIOUS
  <2>3. o.seen = [d |-> o.d, st |-> srv.status[o.d], prod |-> b]
    BY <2>2, Zenon
  <2>4. o.seen.st = srv.status[o.d] /\ o.seen.prod = b
    BY <2>3
  <2> QED
    BY <2>1, <2>2, <2>4 DEF OfferedFor, Accepts, DeployOps
<1> QED
  BY <1>1, <1>2, <1>3, TypedAlways, PTL DEF Spec

(***************************************************************************)
(* The switch                                                              *)
(***************************************************************************)

\* What the switch shows while a toggle of the open tab is in flight, and
\* when none is.
SwitchInv ==
  (mounted /\ ~error /\ tab = "settings" /\ ~doubtful) =>
    /\ \A o \in ops : o.op = "toggle" =>
         IF o.mine THEN /\ switch = o.val
                        /\ srv.auto = IF o.ans = "ok" THEN o.val ELSE ~o.val
         ELSE o.ans \notin {"none", "ok"}
    /\ (\A o \in ops : ~(o.op = "toggle" /\ o.mine)) => switch = srv.auto

\* Every step keeps the switch with the setting, or a request about it under way.
LEMMA SwitchStep ==
  ASSUME Typed, BusyInv, SwitchInv, [Next]_vars
  PROVE  SwitchInv'
<1>b. switch \in BOOLEAN /\ srv.auto \in BOOLEAN /\ \A o \in ops : o \in Requests
  BY DEF Typed, FlagsTyped, ServerTyped, Servers, OpsTyped
<1>1. ASSUME UNCHANGED <<tab, switch, ops, error, mounted>>, doubtful' \/ UNCHANGED doubtful,
             doubtful' \/ srv'.auto = srv.auto
      PROVE  SwitchInv'
  BY <1>1 DEF SwitchInv
<1>2. CASE ServerMoves
  BY <1>1, <1>2, <1>b DEF ServerMoves, page, form, Typed, FlagsTyped
<1>3. ASSUME NEW o \in ops, Serve(o)
      PROVE  SwitchInv'
  <2>1. UNCHANGED <<tab, switch, error, mounted>> /\ (doubtful' \/ UNCHANGED doubtful)
    BY <1>3 DEF Serve, page, form, Typed, FlagsTyped
  <2>2. PICK q \in Requests : ops' = (ops \ {o}) \cup {q} /\ SameCall(q, o)
    BY <1>3, ServedRequest
  <2> SUFFICES ASSUME mounted, ~error, tab = "settings", ~doubtful, ~doubtful'
               PROVE  SwitchInv'
    BY <2>1 DEF SwitchInv
  <2>3. CASE o.op # "toggle"
    <3>1. srv'.auto = srv.auto
      BY <1>3, <1>b, <2>3, EffectsType DEF Serve, Becomes, server, Typed, OpsTyped
    <3> QED
      BY <2>1, <2>2, <2>3, <3>1 DEF SwitchInv, SameCall
  <2>4. CASE o.op = "toggle"
    <3>1. o.mine /\ o.ans = "none"
      BY <1>3, <2>4 DEF Serve, SwitchInv
    <3>2. \A r \in ops : r.op = "toggle" /\ r.mine => r = o
      BY <2>4, <3>1 DEF BusyInv, NoDuplicateRequest
    <3>3. switch = o.val /\ srv.auto = ~o.val
      BY <2>4, <3>1 DEF SwitchInv
    <3>4. ASSUME NEW r \in Requests, SameCall(r, o), ops' = (ops \ {o}) \cup {r},
                 srv'.auto = IF r.ans = "ok" THEN o.val ELSE ~o.val
          PROVE  SwitchInv'
      BY <2>1, <2>4, <3>1, <3>2, <3>3, <3>4 DEF SwitchInv, SameCall
    <3>5. ASSUME NEW a \in {"refused", "failed"}, srv' = srv,
                 ops' = (ops \ {o}) \cup {[o EXCEPT !.ans = a]}
          PROVE  SwitchInv'
      <4> DEFINE r == [o EXCEPT !.ans = a]
      <4>1. r \in Requests /\ SameCall(r, o) /\ r.ans = a
        BY <1>b DEF Requests, SameCall
      <4> HIDE DEF r
      <4> QED
        BY <3>3, <3>4, <3>5, <4>1 DEF r
    <3>6. ASSUME NEW s \in Effects(o), Becomes(s),
                 ops' = (ops \ {o}) \cup {[o EXCEPT !.ans = "ok", !.at = now + 1]}
          PROVE  SwitchInv'
      <4> DEFINE r == [o EXCEPT !.ans = "ok", !.at = now + 1]
      <4>1. now + 1 \in Nat
        BY DEF Typed, ServerTyped
      <4>2. r \in Requests /\ SameCall(r, o) /\ r.ans = "ok"
        BY <1>b, <4>1 DEF Requests, SameCall
      <4>3. srv'.auto = o.val
        BY <1>b, <2>4, <3>6, EffectsType DEF Becomes, Typed, OpsTyped
      <4> HIDE DEF r
      <4> QED
        BY <3>4, <3>6, <4>2, <4>3 DEF r
    <3> QED
      BY <1>3, <2>4, <3>5, <3>6 DEF Serve, server
  <2> QED
    BY <2>3, <2>4
<1>4. ASSUME NEW f \in fetches, Apply(f)
      PROVE  SwitchInv'
  <2>1. Unmount({"connect"}) \/ Unmount({})
    BY <1>4 DEF Apply
  <2>2. UNCHANGED <<srv, tab, switch, error, mounted, doubtful>>
    BY <1>4 DEF Apply, server, past
  <2>3. ASSUME NEW S, Unmount(S), "toggle" \notin S
        PROVE  SwitchInv'
    <3> DEFINE Un(o) == [o EXCEPT !.mine = @ /\ o.op \notin S]
               Same(q, o) == /\ q.op = o.op /\ q.val = o.val /\ q.ans = o.ans
                             /\ o.op = "toggle" => q.mine = o.mine
    <3>1. \A o \in ops : Same(Un(o), o)
      BY <1>b, <2>3 DEF Requests
    <3>2. ops' = {Un(o) : o \in ops}
      BY <2>3 DEF Unmount
    <3> HIDE DEF Un
    <3>3. \A q \in ops' : \E o \in ops : Same(q, o)
      BY <3>1, <3>2
    <3>4. \A o \in ops : \E q \in ops' : Same(q, o)
      BY <3>1, <3>2
    <3> QED
      BY <2>2, <3>3, <3>4 DEF SwitchInv
  <2> QED
    BY <2>1, <2>3
<1>5. ASSUME NEW t \in Tabs, SetTab(t)
      PROVE  SwitchInv'
  <2> SUFFICES ASSUME t = "settings", ~doubtful'
               PROVE  SwitchInv'
    BY <1>5 DEF SetTab, SwitchInv
  <2>1. /\ switch' = srv.auto /\ srv' = srv
        /\ \A o \in ops : o.op = "toggle" => o.ans \notin {"none", "ok"}
    BY <1>5 DEF SetTab, TogglesInFlight, server
  <2>2. ASSUME NEW q \in ops', q.op = "toggle"
        PROVE  q.mine = FALSE /\ q.ans \notin {"none", "ok"}
    <3>1. PICK o \in ops : q = [o EXCEPT !.mine = @ /\ o.op \notin (Ops \ {"connect"})]
      BY <1>5 DEF SetTab, Unmount
    <3>2. o.op = q.op /\ o.ans = q.ans /\ o.op \in Ops /\ q.mine = (o.mine /\ o.op \notin (Ops \ {"connect"}))
      BY <1>b, <3>1 DEF Requests
    <3> QED
      BY <2>1, <2>2, <3>2
  <2> QED
    BY <2>1, <2>2 DEF SwitchInv
<1>6. ASSUME NEW op \in Ops, NEW d \in Targets(op), Press(op, d)
      PROVE  SwitchInv'
  <2> DEFINE q == [op |-> op, d |-> d, val |-> ~switch, mine |-> TRUE, ans |-> "none",
                   seen |-> Seen(op, d), at |-> 0, n |-> events]
  <2>1. q.op = op /\ q.val = ~switch /\ q.mine = TRUE /\ q.ans = "none"
    OBVIOUS
  <2>2. /\ ops' = ops \cup {q} /\ switch' = IF op = "toggle" THEN ~switch ELSE switch
        /\ UNCHANGED <<srv, tab, error, mounted, doubtful>>
    BY <1>6 DEF Press, server, page
  <2>3. op = "toggle" => \A o \in ops : ~(o.op = "toggle" /\ o.mine)
    BY <1>6, RequestHasTarget DEF Press, NotBusy, BusyInv
  <2> HIDE DEF q
  <2> QED
    BY <1>b, <2>1, <2>2, <2>3 DEF SwitchInv
<1>7. ASSUME NEW o \in ops, Done(o)
      PROVE  SwitchInv'
  <2>1. /\ ops' = ops \ {o} /\ o.ans # "none"
        /\ UNCHANGED <<srv, tab, error, mounted, doubtful>>
    BY <1>7 DEF Done, server
  <2>2. switch' = IF o.mine /\ o.ans # "ok" /\ o.op = "toggle" THEN ~o.val ELSE switch
    BY <1>7 DEF Done, RevertedSwitch
  <2>3. o.op = "toggle" /\ o.mine => \A r \in ops' : ~(r.op = "toggle" /\ r.mine)
    BY <2>1 DEF BusyInv, NoDuplicateRequest
  <2> QED
    BY <1>b, <2>1, <2>2, <2>3 DEF SwitchInv
<1>8. ASSUME mounted' = FALSE \/ error' = TRUE
      PROVE  SwitchInv'
  BY <1>8 DEF SwitchInv
<1>9. ASSUME UNCHANGED <<server, tab, switch, ops, error, mounted, doubtful>>
      PROVE  SwitchInv'
  BY <1>1, <1>9 DEF server
<1> QED
  BY <1>2, <1>3, <1>4, <1>5, <1>6, <1>7, <1>8, <1>9
  DEF Next, vars, page, form, past, Answer, FetchFails, Tick, Leave, Deleted, Unload,
      CloseModal, AskDestroy

\* A switch that is not in motion shows the setting, whatever toggles were
\* sent, refused or failed before; the exceptions are those that doubtful
\* records: another user's change, a toggle carried out whose answer was lost,
\* and a tab opened before the page had caught up.
THEOREM SwitchFollowsSetting == Spec => []SwitchIsTruthful
<1>1. Init => SwitchInv
  BY DEF Init, SwitchInv
<1>2. Typed /\ BusyInv /\ SwitchInv /\ [Next]_vars => SwitchInv'
  BY SwitchStep
<1>3. SwitchInv => SwitchIsTruthful
  BY DEF SwitchInv, SwitchIsTruthful, Ready
<1> QED
  BY <1>1, <1>2, <1>3, TypedAlways, BusyAlways, PTL DEF Spec

=============================================================================
