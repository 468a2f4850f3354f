----------------------------- MODULE ProjectPage -----------------------------
(***************************************************************************)
(* The page of a project, web/src/app/dashboard/[projectId]/page.tsx:      *)
(* fetchAll and its AbortController, the polling effect, the tabs and the  *)
(* operations their buttons call, against a server that other users and    *)
(* the pipeline change at the same time.                                   *)
(*                                                                         *)
(* A refresh is one GET for each part of the state, answered one by one    *)
(* (Promise.all); an operation is sent, answered and applied in steps of   *)
(* their own.  React runs the effects of a render with the step that       *)
(* caused it.  A tab that is left is unmounted: its guards and forms go,   *)
(* its requests do not, and their answers still call fetchAll.             *)
(*                                                                         *)
(* The server is external: api/app/routers/deploys.py as far as the page   *)
(* can tell.  Of the builds the newest has its status followed; the older  *)
(* ones with an image stay on the page, each with its Deploy button.       *)
(***************************************************************************)
EXTENDS DeployStates, Naturals, FiniteSets, TLC

CONSTANTS
  Deploys,      \* the deploys of the project, and those it may get
  NoDeploy,
  OlderBuilds,  \* successful builds before the newest
  Openings,     \* the states the deploys may be in when the page is opened
  Ops,          \* the operations the user calls
  MaxRunning,   \* MAX_RUNNING_PER_PROJECT
  MaxChanges,   \* bound on the states of the server
  MaxFetches,   \* bound on the refreshes in flight
  MaxEvents     \* bound on the operations the user calls, the tabs left other
                \* than the first, and the requests that fail, together

Parts == {"project", "builds", "deploys"}

DeployOps   == {"rollback", "stop", "start", "promote", "destroy"}
BuildOps    == {"rebuild", "deployBuild"}
Saves       == {"saveDomain", "saveBuild", "saveControls"}
SettingOps  == {"toggle", "lock", "disconnect", "delete"} \cup Saves
AllOps      == DeployOps \cup BuildOps \cup SettingOps \cup {"createEnv", "connect"}

\* The tab an operation's button is on; the banner that connects a
\* repository is above all of them.
TabOf(op) ==
  CASE op \in DeployOps   -> "deploys"
    [] op \in BuildOps    -> "builds"
    [] op \in SettingOps  -> "settings"
    [] op = "createEnv"   -> "environments"
    [] OTHER              -> "any"

Tabs == {"overview"} \cup ({TabOf(op) : op \in Ops} \ {"any"})

BuildRows == {"newest"} \cup OlderBuilds

ASSUME PageAssumption ==
  /\ NoDeploy \notin Deploys \cup {"project"} \cup BuildRows
  /\ Openings \subseteq [Deploys -> DEPLOY_STATES \cup {"absent"}]
  /\ Ops \subseteq AllOps
  /\ MaxChanges \in Nat \ {0} /\ MaxFetches \in Nat /\ MaxEvents \in Nat
  /\ MaxRunning \in Nat

VARIABLES
  \* the server
  srv,       \* its state: deploys, the production deploy, newest build, settings
  now,       \* the number of states it has had
  \* ProjectDetailPage
  mounted,   \* the page has not been left
  shown,     \* project, builds and deploys, as fetched, with their age
  loading,
  error,
  tab,
  fetches,   \* the calls of fetchAll that are in flight and not aborted
  interval,  \* pollingRef holds an interval
  last,      \* lastPollingStatusRef
  cleanup,   \* the last run of the polling effect returned a cleanup
  \* the tab that is open
  busy,      \* rolling, stopping, starting, promoting, destroying, rebuilding, ...
  target,    \* destroyTarget, of which the modal is open
  switch,    \* autoDeploy, the switch of the settings tab
  ops,       \* operations in flight
  \* bounds and history
  events,    \* operations called, tabs left, requests failed
  acked,     \* the newest state of the server an operation's answer told of
  doubtful   \* the switch may differ from the setting, for a reason SwitchIsTruthful gives

server  == <<srv, now>>
polling == <<interval, last, cleanup>>
page    == <<mounted, shown, loading, error, fetches, polling>>
form    == <<busy, target, switch>>
past    == <<events, acked, doubtful>>
vars    == <<server, page, tab, form, ops, past>>

Nothing == [v |-> 0, s |-> NoDeploy]

\* The part of the server's state that a GET returns, and when it did.
PartState(p) ==
  CASE p = "project" -> [auto |-> srv.auto, repo |-> srv.repo]
    [] p = "builds"  -> srv.build
    [] p = "deploys" -> [status |-> srv.status, prod |-> srv.prod]

Part(p) == [v |-> now, s |-> PartState(p)]

Targets(op) ==
  CASE op \in DeployOps    -> Deploys
    [] op = "deployBuild"  -> BuildRows
    [] OTHER               -> {"project"}

Actives(status) == {d \in Deploys : status[d] = "active"}

\* _get_production_deploy_id: one of the active deploys, or none.
Productions(status) == IF Actives(status) = {} THEN {NoDeploy} ELSE Actives(status)

Servers == [status : [Deploys -> DEPLOY_STATES \cup {"absent"}],
            prod : Deploys \cup {NoDeploy},
            build : {"queued", "building", "success", "failed"},
            auto : BOOLEAN, repo : BOOLEAN]

Idle == [op \in Ops |-> NoDeploy]

Init ==
  /\ srv \in {s \in Servers : /\ s.status \in Openings
                              /\ s.prod \in Productions(s.status)
                              /\ s.build = "success" /\ s.auto /\ s.repo}
  /\ now = 1
  /\ mounted = TRUE
  /\ shown = [p \in Parts |-> Nothing]
  /\ loading = TRUE /\ error = FALSE
  /\ tab = "overview"
  /\ fetches = {[p \in Parts |-> Nothing]}
  /\ interval = FALSE /\ last = "idle" /\ cleanup = FALSE
  /\ busy = Idle /\ target = NoDeploy /\ switch = TRUE
  /\ ops = {}
  /\ events = 0 /\ acked = 0 /\ doubtful = FALSE

Event == events < MaxEvents /\ events' = events + 1

-----------------------------------------------------------------------------
\* The server

Becomes(s) ==
  /\ now < MaxChanges
  /\ now' = now + 1
  /\ srv' = s

\* A deploy changes its state; the production deploy is one that is active.
Moved(s, status) == {[s EXCEPT !.status = status, !.prod = p] : p \in Productions(status)}

SetStatus(s, d, new) == Moved(s, [s.status EXCEPT ![d] = new])

\* The pipeline takes a deploy or a build one step further, a push starts a
\* deploy or a build, another user changes a setting.
ServerMoves ==
  /\ mounted
  /\ \/ \E d \in Deploys :
          \E new \in IF srv.status[d] = "absent" THEN {"queued"}
                     ELSE DEPLOY_TRANSITIONS[srv.status[d]] :
            \E s \in SetStatus(srv, d, new) : Becomes(s)
     \/ \E b \in CASE srv.build = "queued"   -> {"building"}
                   [] srv.build = "building" -> {"success", "failed"}
                   [] OTHER                  -> {"queued"} :
          Becomes([srv EXCEPT !.build = b])
     \/ Becomes([srv EXCEPT !.auto = ~@])
  /\ doubtful' = (doubtful \/ srv'.auto # srv.auto)
  /\ UNCHANGED <<page, tab, form, ops, events, acked>>

\* _check_container_limit, and the same check of trigger_deploy.
AtLimit ==
  Cardinality({e \in Deploys : srv.status[e] \in {"active", "superseded"}}) >= MaxRunning

\* The endpoints answer 409 for a deploy in another state, to a start or a new
\* deploy when the project has its MaxRunning containers.
Accepts(op, d) ==
  CASE op = "rollback" -> srv.status[d] = "active"
    [] op = "stop"     -> srv.status[d] \in {"active", "superseded"}
    [] op = "start"    -> srv.status[d] = "stopped" /\ ~AtLimit
    [] op = "promote"  -> srv.status[d] \in {"active", "superseded"} /\ srv.prod # d
    [] op = "destroy"  -> srv.status[d] # "rolled_back"
    [] op = "deployBuild" -> ~AtLimit
    [] OTHER           -> TRUE

\* They may refuse all the same, for what the page's state says nothing of: the
\* row has no container (promote, start), Proxmox cannot confirm the stop, the
\* project is locked or its owner over quota (a new deploy).
MayRefuse(op, d) == ~Accepts(op, d) \/ op \in {"promote", "stop", "start", "deployBuild"}

\* The states an operation may leave the server in.
Effects(o) ==
  LET d == o.d IN
  CASE o.op = "stop"    -> SetStatus(srv, d, "stopped")
    [] o.op = "start"   -> SetStatus(srv, d, "active")
    [] o.op = "destroy" -> SetStatus(srv, d, "rolled_back")
    [] o.op = "promote" ->
         {[srv EXCEPT !.prod = d,
                      !.status = [e \in Deploys |-> IF e = d THEN "active"
                                                    ELSE IF @[e] = "active" THEN "superseded"
                                                    ELSE @[e]]]}
    [] o.op = "rollback" ->
         LET prev == {e \in Deploys \ {d} : srv.status[e] \in {"superseded", "stopped"}}
             down == [srv.status EXCEPT ![d] = "superseded"]
         IN  IF prev = {} THEN Moved(srv, down)
             ELSE UNION {Moved(srv, [down EXCEPT ![e] = "active"]) : e \in prev}
    [] o.op = "rebuild"     -> {[srv EXCEPT !.build = "queued"]}
    [] o.op = "deployBuild" -> UNION {SetStatus(srv, e, "queued") :
                                        e \in {e \in Deploys : srv.status[e] = "absent"}}
    [] o.op = "toggle"      -> {[srv EXCEPT !.auto = o.val]}
    [] o.op = "connect"     -> {[srv EXCEPT !.repo = TRUE]}
    [] o.op = "disconnect"  -> {[srv EXCEPT !.repo = FALSE]}
    [] OTHER                -> {srv}

\* An endpoint answers: it does what it was asked, or refuses, or fails before
\* or after it has done it.
Serve(o) ==
  /\ o \in ops /\ o.ans = "none"
  /\ \/ /\ Accepts(o.op, o.d)
        /\ \E s \in Effects(o) : Becomes(s)
        /\ \/ /\ ops' = (ops \ {o}) \cup {[o EXCEPT !.ans = "ok", !.at = now + 1]}
              /\ UNCHANGED <<events, doubtful>>
           \/ /\ Event
              /\ ops' = (ops \ {o}) \cup {[o EXCEPT !.ans = "failed"]}
              /\ doubtful' = (doubtful \/ o.op = "toggle")
     \/ /\ MayRefuse(o.op, o.d)
        /\ ops' = (ops \ {o}) \cup {[o EXCEPT !.ans = "refused"]}
        /\ UNCHANGED <<server, events, doubtful>>
     \/ /\ Event
        /\ ops' = (ops \ {o}) \cup {[o EXCEPT !.ans = "failed"]}
        /\ UNCHANGED <<server, doubtful>>
  /\ UNCHANGED <<page, tab, form, acked>>

-----------------------------------------------------------------------------
\* fetchAll

\* Mutant: the list of builds is not waited for.
ArrivedWithoutBuilds(f) == \A p \in Parts \ {"builds"} : f[p] # Nothing

\* Promise.all
Arrived(f) == \A p \in Parts : f[p] # Nothing

\* abortRef.current.abort(): what the call in flight fetches is not used, and
\* an error of it not told.  That it ends the loading changes nothing: there is
\* no second call before the first has ended it.
Abort(S) == {}

\* Mutant: the project is fetched once, the lists again and again.
KeepsProject == [p \in Parts |-> IF p = "project" THEN shown[p] ELSE Nothing]

NewFetch == [p \in Parts |-> Nothing]

\* fetchAll() up to its await.
FetchAll ==
  /\ Cardinality(fetches) < MaxFetches
  /\ fetches' = Abort(fetches) \cup {NewFetch}

Answer(f, p) ==
  /\ f \in fetches /\ f[p] = Nothing
  /\ fetches' = (fetches \ {f}) \cup {[f EXCEPT ![p] = Part(p)]}
  /\ UNCHANGED <<server, mounted, shown, loading, error, polling, tab, form, ops, past>>

\* The states of a build and of a deploy in which the page polls.
ShouldPoll(sh) ==
  \/ sh["builds"].s \in {"building", "queued"}
  \/ \E d \in Deploys : sh["deploys"].s.status[d] \in in_progress_states \cup {"queued"}

\* Mutant: the effect returns no cleanup.
PollingEffectLeaks(sh) ==
  LET next == IF ShouldPoll(sh) THEN "polling" ELSE "idle"
  IN  IF next = last THEN UNCHANGED polling
      ELSE interval' = (next = "polling") /\ last' = next /\ cleanup' = FALSE

\* The polling effect after builds and deploys were set: React runs the cleanup
\* that the last run returned, then the effect, which returns early, and
\* without a cleanup, when the page goes on polling or goes on being idle.
PollingEffect(sh) ==
  LET next == IF ShouldPoll(sh) THEN "polling" ELSE "idle"
      kept == interval /\ ~cleanup
  IN  IF next = last
      THEN interval' = kept /\ last' = last /\ cleanup' = FALSE
      ELSE interval' = (next = "polling") /\ last' = next /\ cleanup' = TRUE

\* The components of some operations are unmounted: their guards go, their
\* requests are no longer theirs.
Unmount(S) ==
  /\ busy' = [op \in Ops |-> IF op \in S THEN NoDeploy ELSE busy[op]]
  /\ ops' = {[o EXCEPT !.mine = @ /\ o.op \notin S] : o \in ops}

\* The answers are set, all at once.
Apply(f) ==
  /\ f \in fetches /\ Arrived(f)
  /\ fetches' = fetches \ {f}
  /\ loading' = FALSE
  /\ shown' = f
  /\ PollingEffect(f)
  /\ Unmount(IF f["project"].s.repo THEN {"connect"} ELSE {})
  /\ UNCHANGED <<server, mounted, error, tab, target, switch, past>>

\* A part could not be fetched: the error replaces the tabs for good.
FetchFails(f) ==
  /\ f \in fetches /\ Event
  /\ fetches' = fetches \ {f}
  /\ loading' = FALSE
  /\ error' = TRUE
  /\ target' = NoDeploy /\ Unmount(Ops)
  /\ UNCHANGED <<server, mounted, shown, polling, tab, switch, acked, doubtful>>

\* The interval fires, five seconds after it was set or fired.
Tick ==
  /\ interval
  /\ FetchAll
  /\ UNCHANGED <<server, mounted, shown, loading, error, polling, tab, form, ops, past>>

-----------------------------------------------------------------------------
\* The tabs and their buttons

Ready == mounted /\ ~loading /\ ~error /\ shown["project"] # Nothing

TogglesInFlight == {o \in ops : o.op = "toggle" /\ o.ans \in {"none", "ok"}}

\* setTab: the tab that was open is unmounted, the new one is mounted.  The
\* form of the settings takes its values from the project as it is shown now,
\* and never again.
SetTab(t) ==
  /\ Ready
  /\ IF tab = "overview" THEN UNCHANGED events ELSE Event
  /\ tab' = t /\ t # tab
  /\ target' = NoDeploy
  /\ Unmount(Ops \ {"connect"})
  /\ IF t = "settings"
     THEN /\ switch' = shown["project"].s.auto
          /\ doubtful' = \/ shown["project"].s.auto # srv.auto
                         \/ TogglesInFlight # {}
     ELSE UNCHANGED <<switch, doubtful>>
  /\ UNCHANGED <<server, page, acked>>

\* The page is unmounted: the polling effect is cleaned up, and what is in
\* flight changes nothing that is shown any more.
Unload ==
  /\ mounted
  /\ mounted' = FALSE
  /\ interval' = (interval /\ ~cleanup) /\ cleanup' = FALSE
  /\ busy' = Idle /\ target' = NoDeploy
  /\ ops' = {} /\ fetches' = {}
  /\ UNCHANGED <<server, shown, loading, error, last, tab, switch, past>>

\* The user goes to another page.
Leave == Unload

\* The buttons of DeploysTab for a deploy as it is shown.
StateOf(d)  == shown["deploys"].s.status[d]
IsProd(d)   == shown["deploys"].s.prod = d
isActive(d) == StateOf(d) \in {"active", "healthy"}
hasContainer(d) == isActive(d) \/ StateOf(d) = "superseded"

\* Mutant: the deploy in production can be promoted, like any with a container.
PromotesProduction(op, d) == op = "promote" /\ hasContainer(d)

CanDeploy(op, d) ==
  CASE op = "rollback" -> isActive(d) /\ IsProd(d)
    [] op = "stop"     -> hasContainer(d)
    [] op = "start"    -> StateOf(d) = "stopped"
    [] op = "promote"  -> hasContainer(d) /\ ~IsProd(d)
    [] op = "destroy"  -> target # NoDeploy /\ target.d = d

HasRepo == shown["project"].s.repo

\* The banner with the repositories, the builds tab and the settings.
BannerOffers(op)   == op = "connect" /\ ~HasRepo
BuildsOffer(op, d) == \/ op = "rebuild" /\ HasRepo
                      \/ op = "deployBuild" /\ (d = "newest" => shown["builds"].s = "success")
SettingsOffer(op)  == op \in SettingOps /\ (op = "disconnect" => HasRepo)
EnvironmentsOffer(op) == op = "createEnv"

Offered(op, d) ==
  \/ op \in DeployOps /\ CanDeploy(op, d)
  \/ BannerOffers(op) \/ BuildsOffer(op, d) \/ SettingsOffer(op) \/ EnvironmentsOffer(op)

\* Mutant: only the button of the same deploy is disabled.
NotThisOne(op, d) == busy[op] # d

\* The flag of an operation: the two switches of the settings share one.
Flag(op) == IF op = "lock" THEN "toggle" ELSE op

\* if (stopping) return; disabled={saving}.  Of the builds only the row that was
\* pressed last is disabled, and handleDeployBuild has no guard of its own.
NotBusy(op, d) ==
  IF op = "deployBuild" THEN busy[op] # d
  ELSE \A q \in Ops : Flag(q) = Flag(op) => busy[q] = NoDeploy

\* The deploy as the user saw it: for one that is destroyed, when it was chosen.
Seen(op, d) ==
  CASE op = "destroy" -> target
    [] op \in DeployOps \ {"destroy"} -> [d |-> d, st |-> StateOf(d), prod |-> IsProd(d)]
    [] OTHER -> NoDeploy

\* A button is pressed, a form submitted, a modal confirmed.
Press(op, d) ==
  /\ Ready /\ TabOf(op) \in {tab, "any"}
  /\ Offered(op, d) /\ NotBusy(op, d)
  /\ Event
  /\ busy' = [busy EXCEPT ![op] = d]
  /\ switch' = IF op = "toggle" THEN ~switch ELSE switch
  /\ ops' = ops \cup {[op |-> op, d |-> d, val |-> ~switch, mine |-> TRUE, ans |-> "none",
                       seen |-> Seen(op, d), at |-> 0, n |-> events]}
  /\ UNCHANGED <<server, page, tab, target, acked, doubtful>>

\* setDestroyTarget(d), and the modal closed: its Cancel button is disabled
\* while a deploy is being destroyed, the Escape key and the backdrop are not.
AskDestroy(d) ==
  /\ Ready /\ tab = "deploys" /\ target = NoDeploy
  /\ "destroy" \in Ops
  /\ StateOf(d) \notin {"absent", "rolled_back"}
  /\ target' = [d |-> d, st |-> StateOf(d), prod |-> IsProd(d)]
  /\ UNCHANGED <<server, page, tab, busy, switch, ops, past>>

CloseModal ==
  /\ Ready /\ target # NoDeploy
  /\ target' = NoDeploy
  /\ UNCHANGED <<server, page, tab, busy, switch, ops, past>>

-----------------------------------------------------------------------------
\* The answer of an operation

\* Mutant: the refresh is forgotten.
NoUpdate == UNCHANGED fetches

\* onUpdate()
OnUpdate == FetchAll

\* Mutant: a failed toggle leaves the switch as it is.
KeptSwitch(o) == switch

\* setAutoDeploy(!newValue)
RevertedSwitch(o) == IF o.op = "toggle" THEN ~o.val ELSE switch

\* After the await: success refreshes the page, except that a deleted project
\* is left for the dashboard; failure is told, and a toggle reverted.  What
\* concerns the component is lost when it is no longer mounted.
Done(o) ==
  /\ o \in ops /\ o.ans # "none"
  /\ ops' = ops \ {o}
  /\ busy' = IF o.mine /\ ~(o.op = "delete" /\ o.ans = "ok")
             THEN [busy EXCEPT ![o.op] = NoDeploy] ELSE busy
  /\ target' = IF o.mine /\ o.op = "destroy" /\ o.ans = "ok" THEN NoDeploy ELSE target
  /\ switch' = IF o.mine /\ o.ans # "ok" THEN RevertedSwitch(o) ELSE switch
  /\ IF o.ans = "ok"
     THEN /\ acked' = IF o.at > acked THEN o.at ELSE acked
          /\ OnUpdate
     ELSE UNCHANGED <<acked, fetches>>
  /\ o.op # "delete" \/ o.ans # "ok"
  /\ UNCHANGED <<server, mounted, shown, loading, error, polling, tab, events, doubtful>>

\* router.push("/dashboard")
Deleted(o) ==
  /\ o \in ops /\ o.op = "delete" /\ o.ans = "ok"
  /\ Unload

Next ==
  \/ ServerMoves
  \/ \E o \in ops : Serve(o) \/ Done(o) \/ Deleted(o)
  \/ \E f \in fetches : (\E p \in Parts : Answer(f, p)) \/ Apply(f) \/ FetchFails(f)
  \/ Tick \/ Leave \/ CloseModal
  \/ \E t \in Tabs : SetTab(t)
  \/ \E d \in Deploys : AskDestroy(d)
  \/ \E op \in Ops : \E d \in Targets(op) : Press(op, d)

Spec == Init /\ [][Next]_vars

\* The browser fires intervals and the API answers requests.
FairSpec ==
  /\ Spec
  /\ WF_vars(Tick)
  /\ WF_vars(\E f \in fetches : (\E p \in Parts : Answer(f, p)) \/ Apply(f))

-----------------------------------------------------------------------------
\* Properties

Rows == [d : Deploys, st : DEPLOY_STATES, prod : BOOLEAN] \cup {NoDeploy}

\* Types; and the parts of the page are all shown or none is (Promise.all and
\* the four setters after it).
TypeOK ==
  /\ srv \in Servers /\ now \in 1..MaxChanges
  /\ \A p \in Parts : shown[p].v \in 0..now
  /\ \/ \A p \in Parts : shown[p] = Nothing
     \/ \A p \in Parts : shown[p] # Nothing
  /\ loading => shown["project"] = Nothing
  /\ tab \in Tabs /\ last \in {"idle", "polling"}
  /\ target \in Rows
  /\ \A op \in Ops : busy[op] \in Targets(op) \cup {NoDeploy}
  /\ \A o \in ops : /\ o.op \in Ops /\ o.d \in Targets(o.op) /\ o.seen \in Rows
                    /\ o.ans \in {"none", "ok", "refused", "failed"}
  /\ {mounted, loading, error, interval, cleanup, switch, doubtful} \subseteq BOOLEAN

\* "Abort any in-flight polling request to prevent stale responses overwriting
\* fresh data": whatever order the answers come in, a refresh shows nothing
\* older than anything it replaces.
Fresh == INSTANCE FreshView WITH shown <- [p \in Parts |-> shown[p].v]

ShowsFreshView == Fresh!Spec

\* Once an operation has succeeded the page shows what it did, or a refresh
\* that will is on its way, whatever polling and other operations are doing,
\* unless a failure has replaced the page.
AckedIsShown ==
  (mounted /\ ~error /\ fetches = {})
    => \A p \in Parts : shown[p].v >= acked

\* The guards let at most one request of a kind be in flight from an open tab,
\* also when several rows are clicked in turn and answered in any order; the
\* two switches of the settings count as one kind.  Builds are the exception:
\* their rows guard themselves only, and two can be deployed at once.
NoDuplicateRequest ==
  \A o, q \in ops :
    o.mine /\ q.mine /\ Flag(o.op) = Flag(q.op) /\ o.op # "deployBuild" => o = q

\* A button is offered for a status its endpoint accepts: when the deploy is
\* still as the user saw it, and the rows behind it have their containers, the
\* only 409 left is that of a start when the project runs its MaxRunning
\* deploys, which the page does not look at.  A healthy deploy is the
\* exception, which the page takes for active.
OfferFitsStatus ==
  \A o \in ops :
    /\ o.op \in DeployOps /\ o.ans = "none"
    /\ o.seen = [d |-> o.d, st |-> srv.status[o.d], prod |-> srv.prod = o.d]
    /\ o.seen.st # "healthy"
    => Accepts(o.op, o.d) \/ (o.op = "start" /\ AtLimit)

\* An interval runs only while the page is open and shows work in progress:
\* every path that ends either also clears it.
NoStrayInterval == interval => mounted /\ last = "polling" /\ ShouldPoll(shown)

\* The switch of the settings shows the server's setting when no toggle is in
\* flight, unless another user changed it, a toggle was carried out and its
\* answer lost, or the tab was opened before the page had caught up.
SwitchIsTruthful ==
  (Ready /\ tab = "settings" /\ ~doubtful /\ \A o \in ops : o.op # "toggle")
    => switch = srv.auto

\* "Project-level polling handles build/deploy updates" (line 1418): a page that
\* shows work in progress comes to show the state the server is in.
PollingFollows ==
  (Ready /\ ShouldPoll(shown))
    ~> \/ ~mounted \/ error
       \/ \A p \in {"builds", "deploys"} : shown[p].s = Part(p).s
=============================================================================
