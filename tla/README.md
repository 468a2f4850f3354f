# TLA+ verification of the TBD platform

The repository is a small platform-as-a-service: a FastAPI service (`api/app`)
takes builds of student projects, turns each deploy into an LXC container on a
Proxmox cluster, and publishes it through Nginx; a Next.js client (`web/src`)
is what its users see of it. This directory models the parts in which something
can go wrong that a unit test hardly reaches: in the service, the deploy records,
the queue, and the background tasks and requests that change them concurrently;
in the client, what its pages show, write and keep while requests, timers, tabs
and other users overtake each other.

## 1. Inventory

| Part | State | Operations | Interacts with |
|---|---|---|---|
| Deploy state machine (`models/deploy.py`) | `status` of a deploy | `can_transition_to` | everything below |
| Deploy queue (`services/deploy_queue.py`) | the rows of an environment, row locks | `enqueue_deploy`, `on_deploy_completed`, `_try_promote_next`, `mark_superseded` | called inside the callers' transactions |
| Build coordinator (`services/build_coordinator.py`) | build and deploy rows | `transition_deploy`, `trigger_deploy`, build intake | queue, teardown, GitHub |
| Deploy executor (`services/deploy_executor.py`) | a `DeployContext`, one ORM session, containers, addresses, Nginx files | `execute_deploy`: 15 stages, 2 failure handlers | Proxmox, Nginx, `transition_deploy` |
| Reconciler (`services/reconciler.py`) | none of its own | every 5 minutes: stale files, stuck deploys; reports duplicates and ghosts | deploy rows, Nginx files |
| Teardown (`services/deploy_teardown.py`, `resource_ownership.py`) | none of its own | `teardown_deploy` with ownership checks | Proxmox, Nginx |
| Deploy endpoints (`routers/deploys.py`) | none of their own | create, status, destroy, stop, start, promote, rollback, log stream | all of the above |
| Nginx routing (`services/dns_routing.py`) | `deploy-*.conf`, `prod-*.conf`, per-project locks | register, unregister, reload flag | executor, endpoints, reconciler |
| Build pipeline (`services/builder.py`, `routers/builds.py`) | build rows, a semaphore | clone, detect, build, start a deploy | BuildKit, executor |
| GitHub (`routers/github.py`, `services/github.py`) | installations, tokens | webhook, reports | build pipeline |
| Network allocator, scheduler | VLANs, subnets, node scores | allocate, deallocate, choose a node | executor (VLAN mode) |
| Quotas, lifecycle | limits, expiry times | check, expire | projects, teardown |
| Authentication, authorization, rate limit | sessions, tokens, windows | login, OIDC, permission lookup | every endpoint |
| Web session (`lib/api.ts`, `contexts/auth.tsx`, the OIDC routes, the bridge page, sidebar, layouts) | `tbd_token` in localStorage, `user` and `loading` of each tab, the flow cookies | sign in, out and on, restore, refresh, redirect | tabs by storage events, API, identity provider |
| Project page (`app/dashboard/[projectId]/page.tsx`) | project, builds, deploys as fetched; interval, abort controller; tab, guards, form | `fetchAll`, polling effect, 16 operations | API; its own refreshes in flight |
| Deploy page (`deploys/[deployId]/page.tsx`, `hooks/useLogStream.ts`) | status, log from two sources, EventSource | poll, stream, fetch the log, roll back | log stream of `routers/deploys.py` |
| List, management and overview pages (`app/faculty`, `app/staff`, `app/admin`, secrets, members) | query, list, edited row, dialogs, busy flags | fetch, filter, page, save, create, toggle, delete | API, other users |
| Dashboard with import and template panels (`app/dashboard/page.tsx`, `template-gallery.tsx`) | project list, open panel | import a repository, deploy a template | API, router |
| Demo shell of the landing page (`app/page.tsx`) | a file system in memory, working directory | some 40 commands, `;`, `&&`, pipes, redirection | nothing else |
| Infrastructure, templates | - | - | - |

What makes the deploy core hard:

* everything is `async`: each database statement, call to Proxmox and file
  write is a point where another task runs;
* several writers share a deploy row without sharing a lock: requests,
  executors, the reconciler;
* PostgreSQL runs at READ COMMITTED, so a guard sees committed rows only;
* SQLAlchemy's identity map keeps an object as it was loaded, even through
  `SELECT ... FOR UPDATE`;
* a restart of the API forgets every background task, and nothing restarts them;
* Proxmox tasks fail, time out, and go on after the caller has given up.

What has to be right: only legal transitions; one active deploy, the newest; no
deploy promoted twice; a promotion only after a health check; no container that
nobody knows of without a reason; no deploy stuck for ever; the concurrency
limit; unique addresses; a terminal state that stays.

What makes the client hard: nothing but the project page cancels a request, so
answers arrive in any order; a handler runs on with the values of the render it
was created in, also after its tab or form is gone; effects clean up what they
set on every render; tabs share a token and cookies. What has to be right: a page
never goes back in time and shows what its operations did; it does not send what
the user did not choose, nor twice; it settles on the server's state; no button,
spinner, interval or stream stays for ever; a session ends in all tabs, and only
when it should. In the demo shell files are objects shared by reference: copies and
moves have to keep them a tree and lose none. The list of hazards with source lines is in `PROJECT.json`.

## 2. Modules

| Module | Models |
|---|---|
| `DeployStates` | states, transition table and groups of states |
| `DeployQueue` | the transactions on one environment's deploys, statement by statement |
| `MCDeployQueue` | an initial state in which the queue is busy, for `DeployQueue` |
| `DeployExecutor` | executors, reconciler, DELETE and restarts on shared rows, containers and files |
| `DeployControl` | stop, start, promote, rollback and DELETE on live deploys, their containers and files |
| `WebSession`, `MCWebSession` | the tabs of one browser, their token, user and OIDC flows |
| `FreshView` | abstract: a page whose refreshes never go back in time |
| `ProjectPage`, `MCProjectPage` | the project page, which implements `FreshView` |
| `DeployView` | the page of one deploy with both ends of its log stream |
| `DemoShell`, `MCDemoShell` | the file system and commands of the landing page's shell; the tree and the lines TLC gives it |
| `ListPages` | the list, management, overview and dashboard pages |
| `DeployQueueProofs`, `DeployExecutorProofs`, `DeployControlProofs`, `WebSessionProofs`, `ProjectPageProofs`, `DeployViewProofs`, `ListPagesProofs`, `MCDeployQueueProofs` | theorems about the module they are named after, with the inductive invariants (section 4) |

### DeployQueue

`status` and `promoted` are the committed columns of the rows, `written[t]` what
session `t` has flushed and not committed, `locker` the row locks. `View(t, d)`
is what a statement of `t` reads. The remaining variables are the locals of a
session: `pc` (its next statement), `self` and `target` (the arguments),
`wanted` and `matched` (the rows of a `SELECT ... FOR UPDATE` that is still
waiting, and those already returned), `picked` (`next_deploy`).

A request goes through `transition_deploy`: `CallTransition`, `LockRow` or
`RejectTransition`, `NewestGuard`, `mark_superseded` / `LockActive` /
`WriteSuperseded`, then `_try_promote_next`: `FirstCount`, `PickNext` (SKIP
LOCKED), `Recount` / `LockInProgress`, `PromoteNext`, `Commit`. A new deploy goes
`InsertDeploy`, `enqueue_deploy`, and joins at `FirstCount`. `ReconcileStuck` is
the reconciler's SELECT and writes, committed by `Commit`. `Rollback` is an
exception or a restart at any statement. `DeadlockAbort` is PostgreSQL's
deadlock detection.

PostgreSQL is modelled by what the code relies on: a statement's snapshot, own
writes, row locks held to the end of the transaction, and the re-evaluation of
the `WHERE` clause on a row that was waited for. Everything in `transition_deploy`
outside the queue (teardown of a rolled-back deploy, report to GitHub, audit
log) can only make the transaction fail, which is `Rollback`.

### DeployExecutor

`row[d]` is the committed row (status, address, VMID, order of promotion;
0 stands for NULL), `run[d]` the executor and its `DeployContext`, `ct` the
containers by VMID, `conf` the deploys with a per-deploy Nginx file, `prod` the
deploy behind the production file, `req` a DELETE in progress. `run[d].seen` is
the status of the `Deploy` object in the executor's session. `passed` and `lost`
are history variables that only properties read.

An action runs to the next commit, call to Proxmox or file write. After each
commit `flush_logs` updates the row again, so the executor holds the row lock
except just after a commit (`Locked`); others read the row at any time, write it
only when it is free. Checks and the calls that follow them (ownership and
destruction, race guard and production file) are separate actions.

Abstractions, with their reasons:

* `SetActive` is one action: its interleaving is what `DeployQueue` is about.
* Stages 3 to 8 (conversion, secrets, tarball, scheduling, upload) are one
  action that may fail: they keep nothing that others read.
* `existing_vmid` is never set by the code, so its branches (restart of an old
  container, step 14b) are unreachable and absent.
* `url`, `production_url`, ports, nodes and logs are left out: no decision here
  depends on them. The maximal queue size is in `DeployQueue` only.
* Flat address mode; the VLAN mode belongs to the allocator module.
* The reconciler's own input/output errors are left out; teardown's are in.

### DeployControl

The requests that users make on deploys that have been live. `status`, `promoted`
(the order of `promoted_at`) and `locker` are the rows, `req[h]` a request: its
`pc`, its deploy, a remembered decision (`was_production` or `is_active`), and the
rows of its `SELECT ... FOR UPDATE` with the order of its snapshot. `ct`, `conf`
and `prod` are containers and files, `sweep` the files the reconciler has decided
to remove. promote and rollback take row locks; stop, start and DELETE read
first, act, and write the row whatever it says by then, which is how the code
does it. start also holds the rows counted by `_check_container_limit`. What a
transaction has written is computed at its commit from what it has locked: it
reads none of it before.

`Fails` ends a request at any point and leaves containers and files as they are.
The history variable `disturbed` records that requests overlapped or that a step of
one failed; properties of one request after the other are stated under
`~disturbed`. Not modelled: permission checks, `production_url`, ports.
A container carries its deploy's number, so VMIDs are not reused here; that is in
`DeployExecutor`.

After `start` two deploys are active, `_get_production_deploy_id` names the started
one and the production file still leads to the other; no run is devoted to that.

### WebSession

`store` is the token in localStorage, `user` and `loading` the AuthProvider's state
in each tab, `removed` the tabs that have not handled a storage event yet, `calls`
the requests on their way with the token they were sent with. A request is three
steps: sent (`Refresh`, `Logout`, `SubmitLogin`, ...), served by the API (`Serve`,
`Break`), applied by the tab (`ApplyRestore`, `ApplyLogin`, ...). `cookie` is the
flow whose state, verifier and nonce the cookies hold, `flow[t]` the one a tab
carries to the provider and back (`StartSso`, `Callback`, `CallbackEnds`).
`Navigate` and `Redirect` are the sidebar and the layouts: the shell sends a tab
without a user to the login page, but the layouts that ask for a role
(`RoleLayouts`) return before they render the shell. Accounts are named by
their role; the exchange of code and identity token is a step that may fail
(`ExchangeFails`).

### FreshView and ProjectPage

`FreshView` promises that a refresh replaces all parts of a page at once, by states
no older than any it replaces: "prevent stale responses overwriting fresh data",
as the comment of `fetchAll` says. `ProjectPage` implements it by the mapping
`shown <- [p \in Parts |-> shown[p].v]`, where `v` counts the states of the server.

`fetches` are the calls of `fetchAll`, each with the answers it has (`Answer` one
by one, `Apply` all at once, `FetchFails`); `Abort` drops those in flight.
`PollingEffect` runs the cleanup of the last run, then the effect, as React does.
`Press` sends an operation of an open tab, `Serve` is the API (from
`routers/deploys.py`), `Done` the code after the `await`. `SetTab` unmounts a tab: its
guards and form go, its requests do not. `doubtful` and `acked` are history.
Of the builds the newest has a status that is followed; `OlderBuilds` are the successful
ones before it, which keep their Deploy button. That button is guarded per row
(`NotBusy`), every other operation by one flag. `Accepts` is what an endpoint asks of
the status and of the container limit, `MayRefuse` adds the 409s for what the page
cannot see (no container, a stop that Proxmox does not confirm, a locked project). Of
the settings the auto-deploy switch is kept; the other forms are operations that are
sent and refresh.

### DeployView

`calls` and `requests` are the slots of `fetchData` and of the log request,
`es`, `pipe` and `serving` the EventSource, the events on their way and
`event_generator`. `Apply` runs the effects of the status it shows: polling, stream,
log request. A log is its length. `ServerMoves` takes the deploy to any status the
state machine allows, a retry of a failed one included, and lets the log grow in any
status: `execute_deploy` commits `active` and then goes on writing. `unwatched` records
that somebody changed a deploy that the page had shown as ended, which it does not
poll any more, and `lost` that its log grew then, that a request for it failed, or
that an older answer came last.

### DemoShell

A node is a JavaScript object, `fs` gives its kind and children, so that two links to
one node are a shared object and a link upwards is a circle. `resolvePath` to `moveNode`
keep their names; a command is a function of the state before it, and `Pipeline`,
`AndList` and `runShell` combine them as the shell does. A walk through a circle throws
(`Endless`), which ends the line (`handleCommand`). The text of files and output is left
out, with all that only prints.

### ListPages

The pages are one program written many times; a page is a record of what
distinguishes it (filter, order, pager, the writes it offers, what runs its fetch
again, whether the role may open it), one definition for each page with its
lines. `query` is what the current render asks for, `fetches` the list requests,
`writes` the write requests and the handlers that await a refetch. A write keeps
the query of the render that sent it. The form of the secrets page and the panels
of the dashboard are components of their own: closing them drops their flag,
not their request (`orphan`). A row is a number with one value, the attribute the
page edits; of a dashboard project, whether its repository is connected.

## 3. Runs

| Run | Checks | Shows |
|---|---|---|
| `queue_serial` | `AtMostOneActive`, `FreedSlotIsFilled`, `NewerIsNotDisplaced`, `PromotesIntoFreeSlot`, `PromotesInOrder` | one session at a time, every history of 4 deploys from an empty environment, every status a caller may ask for |
| `queue_concurrent` | `TypeOK`, `LockDiscipline`, `LegalTransitions`, `TransactionsEnd` | several sessions on a busy environment |
| `queue_two_active` | `AtMostOneActive` violated | two sessions promote different deploys; neither sees the other |
| `executor` | `TypeOK`, `HealthGate`, `OrphanHasCause`, `RoutedIsReleased`, `InProgressEnds` | two executors, errors, DELETE, reconciler, one restart |
| `executor_superseded_url` | `SupersededKeepsUrl` violated | the reconciler removes the file of a superseded deploy |
| `control` | `TypeOK`, `Validated`, `RoutedIsRunning`, `SerialLimit`, `RequestsEnd` | any two requests at a time, errors at every point |
| `session` | `TypeOK`, `TokenlessTabIsExplained`, `LoadingIsAwaited`, `SessionNotDropped` | two tabs, two sessions, two OIDC flows, one lost answer |
| `project_page` | `TypeOK`, `AckedIsShown`, `NoDuplicateRequest`, `OfferFitsStatus`, `NoStrayInterval`, `SwitchIsTruthful`, `ShowsFreshView` (refinement) | two deploys, two builds, a limit of one, three states of the server, 14 operations, two events |
| `project_poll` | `PollingFollows` violated | the effect clears the interval and returns early |
| `deploy_view` | `StreamHasReader`, `SettlesOnTruth`, `LogCatchesUp` | a deploy about to become active, three changes of it, a log of one, one fault |
| `pages` | `ListMatchesQuery`, `WritesAreMeant`, `ButtonsComeBack` | every page record, two rows on two pages, two uses, one other user |
| `shell` | `OnlyHomeIsShared`, `CommandsKeepFiles` | the file commands over seven paths, alone and two in a line, three lines |

The runs that end in a violation state what a comment, docstring or document of
the repository says; the quotation is in `PROJECT.json`. The models show more
disagreements of that kind, which no run is devoted to: a deploy that waits for a
slot the reconciler frees is not picked up (`ReconcileStuck` calls nobody); executors
start deploys that are still queued, past the limit; two executors claim one address
(`AllocateFlatIp` and `ClaimIp` are two steps); an executor overwrites the terminal
state DELETE committed (`run[d].seen`); an older deploy takes the production URL back
after the race guard; two starts pass the container limit together; an `OSError` of
`register_deploy_routing` after the promotion destroys the container of a deploy that
stays active (`RoutingWriteFails`, then the generic handler, whose transition to failed is
refused); a start at the container limit is refused, although the docstring of
`start_deploy` promises to stop the oldest. In the client
two tabs that start single sign-on lose the flow of the first (`StartSso`, `Fail`), and
two builds, or one build twice, can be deployed at once (`NotBusy`); a tab signed out on
a staff or faculty page stays blank (`Redirect`, `RoleLayouts`); what a successful deploy
logs after the commit of `active` is not shown (`lost`); deleting an environment's secret
removes the project-wide one of the same key (`Addressed`); `cp a ~` in the demo shell
links the home directory into itself, and `tree ~` then throws (`Endless`);
`FetchFails` shows that one failed poll replaces the project page for good, and
the third outcome of `Serve` in `ListPages` that an import can leave a project
without repository whose slug then refuses every retry.

**Bounds.** Two deploys are needed for every race between deploys, three for a
queue with an active deploy in front and one waiting behind, and four
to overfill a queue of two. Two sessions suffice for a race and a circle of
two locks. One restart at any step loses every task; a second one would find
what the first one left. `Faulty` and `Deletable` limit errors and DELETE to one
deploy, so that the other shows what it does to an innocent neighbour. In
`executor` one address lets both executors claim it between `AllocateFlatIp` and
`ClaimIp`, or the second find none, and two VMIDs can be exhausted and reused; the
invariants are proved for any number. `executor_superseded_url` has two addresses.
`control` has three
deploys of which two may run (one stopped, one superseded, one active) and three
requests, two of them at a time: a race of any two operations, and a third that
prepares it or finds what it left. Deadlock is checked in
the runs of the service.

In the client two tabs suffice for what tabs do to each other, and two flows and
two tokens for one overtaking another. `project_page` has two refreshes in flight
and two events (operations, tabs left, failures) between three states of the
server: a refresh overtaken by a refresh, an operation answered while another is
pending. `deploy_view` has two slots for each kind of request, so that an old answer can
replace a new one; its three changes take a deploy to an end, through a rollback or
a retry, and its log on behind the end. `project_page` has a limit of one container,
so that a start meets it, and one older build beside the newest.
`shell` starts from a directory with a file and a directory in it, has two nodes to
spare for copies, and two names, so that every place is taken by something some
time; `Below` is recursive, which is why the module has no theorems. `pages` has one row per page, so that a second row makes a second page, and two
uses: a query or a write overtaken by another. In the runs of the client users stop when
their bounds are used up, which is no deadlock.

**Fairness.** `DeployQueue`: strong fairness of a session's own steps - the
event loop resumes a task whose statement returned, and PostgreSQL serves the
waiters of a lock in order, so a lock that is free again and again is obtained
in the end. No fairness for calls, rollbacks or clients. `DeployExecutor`: weak fairness of each executor, of a
DELETE in progress and of a reconciler cycle that looks at all deploys - the
loop comes round every 5 minutes (with `TBD_BACKGROUND_JOBS_ENABLED`, the
default) and every deploy is older than 30 minutes in the end. `DeployControl`:
weak fairness of each request's steps; requests are bounded, so a lock that is
waited for stays free in the end. `ProjectPage` (`FairSpec`, for `project_poll`): the
browser fires an interval that is set, and the API answers. `DeployView`: the same,
and the stream's loop turns and its events arrive. `ListPages`: every request is
answered or fails. Nothing is assumed of crashes, triggers, errors or users.

## 4. Proofs

Every invariant, every action property and the refinement that a passing run
checks, those of `shell` excepted, is also a theorem, for every value of the constants that satisfies the
assumption of its module; only liveness is left to TLC. Each inductive invariant
was checked by TLC on the instance of its run before it was proved. Theorems whose
property is described in the table go beyond the runs: consequences of an inductive
invariant, and the safety half of a liveness property.

| Module | Theorem | Property |
|---|---|---|
| `DeployQueueProofs` | `TypeCorrect` | `TypeOK` |
| | `Discipline` | `LockDiscipline` |
| | `NoDoublePromotion` | `PickedStaysQueued`: what a session is about to promote is still queued |
| | `OnlyLegalTransitions` | `LegalTransitions` |
| | `ActivesArePromoted` | `ActiveHasPromotedAt`: the newest-deploy guard overlooks no active deploy |
| | `SlotsAreHandedOn` | `SlotIsHandedOn`: a request that frees a slot commits through `_try_promote_next` only |
| | `LocksEndWithTheTransaction` | `NothingIsLeftBehind`: no lock or status outlives its transaction |
| | `OneActive`, `NewerStays`, `SlotsAreFree`, `OldestFirst` (one session) | `AtMostOneActive`, `NewerIsNotDisplaced`, `PromotesIntoFreeSlot`, `PromotesInOrder` |
| | `FreedSlotsAreFilled` (one session) | `FreedSlotIsFilled` |
| `MCDeployQueueProofs` | `BusySafe` | `TypeOK`, `LockDiscipline`, `ActiveHasPromotedAt`, `PickedStaysQueued` of `BusySpec` |
| | `BusyLegal` | `LegalTransitions`, `SlotIsHandedOn` of `BusySpec` |
| `DeployExecutorProofs` | `TypeCorrect` | `TypeOK` |
| | `RoutedWasHealthy` | `HealthGate` |
| | `OrphansAreExplained` | `OrphanHasCause` |
| | `RoutesAreReleased` | `RoutedIsReleased` |
| `DeployControlProofs` | `TypeCorrect` | `TypeOK` |
| | `ValidationsHold` | `Validated` |
| | `RoutesLead` | `RoutedIsRunning` |
| | `LimitIsKept` | `SerialLimit` |
| | `LocksEndWithTheRequest` | `LocksAreLive`: only a request under way holds row locks |
| `WebSessionProofs` | `TypeCorrect` | `TypeOK` |
| | `LiveSessionsAreKept` | `SessionNotDropped` |
| | `NoTabLoadsForGood`, `TokenlessTabsAreExplained` | `LoadingIsAwaited`, `TokenlessTabIsExplained` |
| `ProjectPageProofs` | `TypeCorrect` | `TypeOK` |
| | `PageIsFresh` | `ShowsFreshView` (implements `FreshView`) |
| | `OperationsAreShown` | `AckedIsShown` |
| | `OneRequestOfAKind` | `NoDuplicateRequest` (all kinds but deploying a build) |
| | `IntervalIsCleared` | `NoStrayInterval` |
| | `ButtonsMatchEndpoints` | `OfferFitsStatus` |
| | `SwitchFollowsSetting` | `SwitchIsTruthful` |
| `DeployViewProofs` | `StreamsAreRead` | `StreamHasReader` |
| | `StaleStatusIsRefetched` | `StaleIsRefetched`: a page that shows an old status will look again |
| | `EndedLogArrives` | `EndedLogIsFetched`: the log of an ended deploy is shown or requested, unless `lost` |
| `ListPagesProofs` | `ListsAnswerQueries` | `ListMatchesQuery` |
| | `SavesAreMeant` | `WritesAreMeant` |
| | `DisabledIsAwaited` | `BusyIsAwaited`: a disabled button has a write that releases it |

**DeployQueue.** `LegalTransitions` is not inductive: a commit is legal because
of what its session locked and read many statements earlier. The inductive
invariant is `TypeOK /\ LockDiscipline`, which says for every `pc` which rows the
session holds and what it knows of them. A step of `t` changes neither the
locals of another session nor a row that another session has locked (`Frame`),
so the discipline of the others is preserved (`OthersDisciplined`); that of `t`
itself is one case per action (`OwnDisciplined`). A commit then writes only rows
that `t` holds, with statuses `PendingIsLegal` allows.

`OpenInv` says what a session holds at the two ends of its transaction: no lock before
its row is its own, no status before that row is validated, and of an insert its
own row only. `SlotsAreHandedOn` rests on it: the session's first write is then the only
one, and the transition table has no way out of the states in progress that
`on_deploy_completed` is not called for (`LeavingFreesASlot`). None of these invariants
depends on where a behaviour starts, so `MCDeployQueueProofs` has only to show that
`BusyInit` satisfies them.

The five properties of `queue_serial` hold for one session (`OneSession`, a
hypothesis of the theorems: `Tx` has one member); `queue_two_active` shows the first
to fail with two. `SerialInv` adds what the session knows while its writes are not
committed: the other active rows are wanted or matched until `WriteSuperseded`
writes them (`ActiveInv`), no newer row is active than the one written active
(`NewestInv`, which needs `ActiveHasPromotedAt`), nothing older than the picked row is
queued (`OrderInv`), the rows in progress are wanted or matched in the second
count (`SlotInv`). `FillInv`, for `FreedSlotIsFilled`, is the converse: what the second
count has matched is in progress, so the promotion is given up only when the slots are
really taken; the first count reads the session's own writes, and with one session
SKIP LOCKED passes over nothing.

**DeployExecutor.** `Typed` adds to `TypeOK` that an executor's row exists and that
promotions are bounded; `Smallest` and `Largest`, which choose an address, a VMID
and the next deploy, are members of their sets by well-foundedness of the naturals.
`GateInv`: between its health check and the production file an executor has
passed. `OrphanInv` follows the container through the stages of its executor
(`TaskKnows`): before it is created nobody names it, from the commit of the VMID on the row
or the executor does, after the cleanup there is none, or the deploy is in `lost`.
`ReleaseInv`: an executor that writes routes is past its last write of the status, and the
deploy of a file has no executor that could write it again. A failure is recorded only
from a status the state machine lets fail, and the reconciler's sweep looks at rows in
progress, so neither takes a promotion back.

**DeployControl.** The times for `promoted_at` stay in range because every request
draws at most one: `clock` plus the number of requests that have yet to draw
never exceeds the deploys plus the requests (`ClockInv`). `ValidInv` is the argument
of `LockDiscipline` for promote and rollback: a row that a request has locked is
written by no other, since stop, start and DELETE wait for the lock before they
write and promote and rollback write rows they hold (`LockedRowsAreKept`).
`RouteInv` and `LimitInv` hold while nothing has been disturbed; then the handler that
acts is alone (`ActsAlone`). `LimitInv`: every running container has a running row or
is the one being started, so the rows that `start` locked and counted include
all of them; the first states have `MaxRunning` of them. `LocksAreLive` needs no more
than the types: a step that ends a request releases its locks, every other one leaves
it under way (`GoesOn`).

**WebSession.** `TabInv` adds to `LoadingIsAwaited` and `TokenlessTabIsExplained` that only
a tab in the application has requests in flight and shows a user, so that a
tab that leaves takes them along. `AnswersInv`: a 401, and a confirmed sign-out, is about a
session that is over.

**ProjectPage.** `FreshInv`: at most one refresh is in flight that was not aborted, and
what it has fetched so far is no older than anything shown or told by an
operation's answer. From it and the types (nothing is newer than the server)
follow both `AckedIsShown` and the step simulation of `FreshView`, whose `shown` is the age of
each part. `BusyInv`: every request of an open tab holds its busy flag, those for builds
excepted. `PollInv`: an
interval belongs to the run of the effect that will clear it. `OfferInv`: a request
carries what the user saw when its button was there; of what the endpoint asks, the
container limit is then all that can be missing. `SwitchInv`: what switch and
setting are while a toggle is in flight, before and after it is answered.

**DeployView.** `StreamHasReader` is inductive as it stands. `FetchInv` adds to
`StaleIsRefetched` that a page without a status waits for its first answer (`FirstCall`).
What keeps it when an old answer comes last is that every answer that changes the
status shown makes the page fetch again (`Refetch`); a change behind a page that shows an
end is its own rollback, which fetches, or makes it `unwatched`.
`LogInv`, for `EndedLogIsFetched`: no answer carries more of the log than there is, and
the page asks for the log with every answer that shows an end. A log that grows behind
a page that shows the end, a failed request and an older answer that comes last set
`lost`; the first happens to successful deploys, whose executor logs on after it has
committed `active`.

**ListPages.** `Shape` types the page, the lists, the requests and the edit in
progress, and says that a write carries what the user chose; `QueryInv` that the
newest request is for the query shown or a write's, and is on its way, answered or
failed. `AwaitInv`, for `BusyIsAwaited`: a write that waits for its refetch waits for one
that is on its way and that no other write waits for, so that the answer releases
exactly one button; and the dashboard, whose router drops whatever is awaited, has no
rows to toggle or delete. Each action is one of four ways in which flags and writes
change together (`HeldOn`, `HeldReleased`, `HeldClosed`, `HeldSent`).

**Assumptions.** Beside bounds in `Nat`: `Nobody`, `NoTx`, `NoDeploy`, `None`, `NoUser`,
`NoStatus`, `Gone` (null in the code) and `Sent` are none of the values they stand beside;
`1 <= MaxRunning <= MaxDeploys` (the environment of `DeployControl` starts with that
many running); at least one state of the server in `ProjectPage`, and one slot for a
call in `DeployView`.

**What the proofs corrected.** `Seen` of `ProjectPage` had two `CASE` arms that both applied
to a destroy; TLC takes the first, but the language leaves the choice open. The
arms now exclude each other. `ListPages` relied on `None` and `Gone` being no row and
no value without saying so.

**Only model-checked.** `TransactionsEnd`, `InProgressEnds`, `RequestsEnd`,
`SettlesOnTruth`, `LogCatchesUp`, `ButtonsComeBack`: temporal reasoning under fairness, and `ENABLED`, are beyond the prover. Of five of them the safety half is
proved, that what is waited for is still under way: `LocksEndWithTheTransaction`,
`LocksEndWithTheRequest`, `StaleStatusIsRefetched`, `EndedLogArrives` and `DisabledIsAwaited`.
What TLC adds is that it arrives. The invariants of `DemoShell`, whose operators are
recursive, are checked by TLC only, too.

## 5. Plan

1. Done: `DeployStates`, `DeployQueue`, `DeployExecutor`, `DeployControl`.
2. Done: `WebSession`, `FreshView`, `ProjectPage`, `DeployView`, `ListPages`, `DemoShell`.
3. Done: the proofs of section 4.
4. Done: the theorems for `BusySpec`, and the safety halves of the liveness properties.
   Left: that an executor or the reconciler is always able to end a deploy in
   progress (the safety half of `InProgressEnds` needs `ENABLED`).
5. `BuildPipeline`: webhook deliveries (duplicated, reordered), build records, the
   build semaphore, restart during a build, artifact intake, trigger.
6. `NetworkAllocator`, quota checks, lifecycle expiry and project deletion.

**Not modelled.** In the client: of the demo shell (`app/page.tsx`) the text, aliases, variables,
history, completion and the animation before it; icons, charts, badges and formatting,
which keep nothing; the type declarations of `lib/types.ts`; the statistics of the
project's overview; the log viewer of a build; the debounced search for members; the second request of the dashboard for the latest deploys; the link
to a GitHub account. In the service: the build pipeline, GitHub, the network
allocator, scheduler, quotas and lifecycle (planned above); rendering of files and
scripts (`systemd_generator`, `oci_converter`, `firewall`); append-only output (audit,
notifications); single-statement endpoints (admin, projects, users). Outside:
infrastructure scripts and the starter templates, which are sample applications.
