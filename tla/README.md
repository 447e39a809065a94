# A TLA+ model of the VPN panel

The panel (FastAPI, SQLAlchemy, APScheduler, a pool of threads) manages the users
of Xray cores: one core on the panel's own host and one on each remote *node*.
Clients fetch *subscriptions* from it; admins work through the web API and a
Telegram bot. This directory models the parts of it in which several actors work on
the same state, and the pure rules by which configurations and subscriptions are
made; it checks them with TLC on small instances, and proves the central invariants
for every instance with TLAPS.

    tlc -config MCNodeConnect_crossing.cfg MCNodeConnect     # any run of PROJECT.json
    tlapm SharedStateProofs.tla                            # any *Proofs module

`PROJECT.json` lists the components, runs, mutants, findings, hazards and theorems,
and maps every definition to the source lines it models.

## 1. Inventory

| component | state it keeps | operations | what is hard about it |
|---|---|---|---|
| connect slot (`app/xray/operations.py`) | the set of nodes being connected, when each connect began, a generation per node | acquire, release, invalidate, stale reclaim | the loser of a slot runs on, and its `finally` must not free the slot of its successor |
| node life cycle (`operations.py`, `node.py`, `jobs/0_xray_core.py`, `routers/node.py`, `routers/core.py`) | table `nodes`, `xray.nodes`, REST session ids, a semaphore; the remote service's session and core | connect (soft, HARD), restart, add, remove, health check, startup and shutdown, admin requests | three kinds of actors, remote calls that fail with or without effect, timeouts, panel restarts |
| BS accounting (`xray/bs_limit.py`, `db/crud.py`, `jobs/record_usages.py`, `jobs/review_bs_nodes.py`) | counters per node and user, purchased pool and its month, blocks | usage tick, pool requests, usage reset, review | lazy rollover at the end of a month by whoever comes first |
| user life cycle (`db/crud.py`, `routers/user.py`, `routers/admin.py`, `jobs/review_users.py`, `jobs/reset_user_data_usage.py`, `jobs/remove_expired_users.py`) | tables `users`, `next_plans` | create, modify, delete, resets, next plan, mass changes, review, auto-delete | read-modify-write through ORM objects by requests and jobs at once |
| users on the cores (`operations.py`, `xray/config.py`, `xray/node_config.py`) | what each core accepts; tasks, pool calls and configurations on their way | every change of a user's status or keys, blocks, pushes | a commit and its effect are apart; calls are unordered and never repeated |
| thread pool (`utils/concurrency.py`) | queue | fire and forget | no order, errors dropped |
| usage recording (`jobs/record_usages.py`) | `used_traffic`, `online_at`, hourly rows | ticks | counters on the cores are reset by reading them |
| devices and tokens (`db/crud.py`, `routers/subscription.py`, `routers/user.py`, `subscription/user_info.py`, `dependencies.py`) | `user_devices`, the stored token, the moment of the last revocation | request, register, rank, revoke, limit | check, then insert; a revocation inside a request |
| notifications (`utils/notification.py`, `jobs/send_notifications.py`, `utils/report.py`) | a deque in memory | append, send, put back, give up, final run | a queue fed while it is drained, by two instances of a job |
| reminders (`jobs/review_users.py`, `db/crud.py`) | `notification_reminders` | remind, forget | rows decide what is sent again |
| addresses (`xray/address_policy.py`, `subscription/address_context*.py`, `services/address_history.py`) | pins, offsets, daily snapshots, a cache of exhausted nodes | choose, rotate, pin, snapshot, reconstruct | a stable choice; a past that is recomputed and must not be invented |
| hosts (`routers/system.py`, `db/crud.py`, `xray/__init__.py`, `utils/store.py`) | table `hosts` with references and rentals; a cache in the process | PUT /hosts, deletion of nodes and bots, refresh, read | one transaction over all inbounds; a cache without a lock |
| panel's own Xray (`xray/core.py`, `routers/core.py`, `jobs/0_xray_core.py`) | a process, a flag | start, stop, restart, health check, shutdown | threads that cross without a lock |
| core configuration (`xray/config.py`, `xray/node_config.py`, `xray/cascade_config.py`) | none | validate a catalog, put users in, adapt it to a node | the same decision in several places; matching by prefix |
| cascades (`routers/node.py`, `operations.py`, `db/crud.py`) | roles, routes, uuids; what each node runs | change roles and routes, push | the two ends of a route are pushed at other moments |
| managed settings (`services/managed_settings.py`, `routers/managed.py`, `routers/bot.py`, `routers/settings.py`) | bots, their settings, `managed_settings` | push, unlink, edit, switch sync | two owners of one row, whole-JSON writes |
| client documents (`services/xray_templates.py`, `routers/xray_templates.py`) | documents, versions, a process cache | save, revert, create, delete, load | a cache cleared while it is loaded |
| subscriptions (`subscription/*.py`, `xray/host_injection.py`, `xray/host_balancer.py`) | none | which servers, in which format | six formats translate by themselves |
| Telegram bot (`telegram/handlers/admin.py`) and reports (`telegram/`, `discord/`) | memory per chat, pending steps, keyboards | dialogues, buttons, reports | old keyboards stay usable; nothing keeps the three together |
| admins, billing, system statistics, CLI, dashboard, migrations, generated stubs | none of their own | – | see section 5 |

How they interact: handlers and jobs commit rows and then leave the cores to
background tasks; tasks look at the cached flags in `xray.nodes` and put calls
into the pool; connects and restarts read users and blocks from the database and
push whole configurations; the health check looks at the rows and the objects and
schedules connects; review jobs change rows, tell the cores directly, remind users
and feed the webhook queue; the endpoints that change hosts, nodes, bots or
documents refresh or clear what the process caches for subscriptions.

What makes each of them correct: a slot has one owner; a node row says what is
true of the node, and an enabled node is never given up; lazy accounting equals
eager accounting, and blocks follow it; a status is backed by the data it stands
for, and an overdue user is settled; the cores accept exactly the entitled users
with their current keys; no more devices are served than allowed, and a revoked
link stays dead; every notification is settled and none delivered twice; a host
always gives addresses, and the journal never invents one; a saved table of hosts,
a cascade, a managed bot or a document is what its owner saved; every format dials
the same server, and a blocked or dead user learns nothing.

## 2. Modules

| module | what it is |
|---|---|
| `SlotLock` | abstract: a revocable lock per node |
| `ConnectSlot` | the slot with generation tokens; refines `SlotLock` |
| `NodeConnect` | the life of nodes; EXTENDS `SlotLock`, so what it checks rests on the lock and not on tokens |
| `BsLimit` | the pure functions of `bs_limit.py` |
| `BsPool` | abstract: the pool with the books closed at midnight of every month |
| `BsAccounting` | the lazy implementation; refines `BsPool` |
| `UserLifecycle` | the rows of users under requests, jobs, traffic and time |
| `UserAccess` | one user between the database and the cores |
| `SubscriptionAccess` | requests to `/sub/<token>`: tokens, devices, revocations |
| `AddressPolicy`, `AddressJournal` | the pure choice of nodes; its history day by day and the journal that recomputes it |
| `WebhookQueue` | the queue of notifications and the job that empties it |
| `Reminders` | the reminder rows of one user |
| `MasterCore` | the panel's own Xray process |
| `HostCatalog`, `HostCache` | PUT /hosts and what hosts refer to; the cache that subscriptions read |
| `XrayConfig` | the pure rules of core configurations |
| `CascadeNodes` | entries, exits, routes and the moments at which nodes get them |
| `ManagedBots` | bots that another panel pushes and this one edits |
| `ClientConfigs` | client documents, their versions and caches |
| `ServerFormats`, `HostInjection`, `SubscriptionRender` | the pure rules of subscriptions: one server in each format; documents composed from several hosts; the whole answer |
| `Reports` | who is told of an event |
| `TelegramAdmin` | the admin's dialogues with the bot |
| `SharedStateProofs`, `NodeConnectProofs`, `BsAccountingProofs`, `UserLifecycleProofs`, `UserAccessProofs`, `PanelProofs`, `WebhookQueueProofs`, `MasterCoreProofs` | theorems, see section 4 |
| `MCSubscriptionRules`, `MCConfigRules` | inputs for the pure rules, and what is asked of them |
| `MCSharedState`, `MCAccess`, `MCServices`, `MCPanel` | compositions, see below |
| other `MC*` | instances for TLC |

**Composed runs.** Four modules choose in the initial state which of their parts
moves; the others stand still where they begin: `MCSharedState` (`ConnectSlot`,
`HostCatalog`, `HostCache`, `ClientConfigs`, `AddressJournal`), `MCAccess`
(`UserAccess` twice, `UserLifecycle`), `MCServices` (`WebhookQueue`, `BsAccounting`,
`MasterCore`) and `MCPanel` (the pure rules of subscriptions and of configurations,
`SubscriptionAccess`, `TelegramAdmin`, `Reminders`, `ManagedBots`, `CascadeNodes`).
The parts of such a module meet in no variable of the code, so nothing is lost by
not interleaving them, and each property speaks of its own part. Where parts do meet
in the code, one module has both sides: `NodeConnect` the slot, the jobs and the
health check, `UserAccess` the tasks, the calls and the pushes, `SubscriptionAccess`
requests and revocations, `CascadeNodes` rows and pushes.

**Plan.** Of the safety properties that are about states and steps, those of two
parts are left to TLC: PUT /hosts (`HostCatalog`) and the dialogues of
`TelegramAdmin`. Proofs about them would be next; the pure rules need induction over
sequences, and stay with TLC (section 4). No module here uses a RECURSIVE
operator.

### How state and actions correspond to the code

*NodeConnect.* `row`, `version`, `aged` are columns of `nodes`; `nodes` is
`xray.nodes`, `sid` the objects with a `_session_id`, `job` the jobs of the pool
with the point at which they are, `sem` the permits; `holder`, `core`, `up` are
the remote side (external: read off the REST client). A step is one transaction,
one REST call or one critical section; everything between two of them in the code
belongs to the step before. `_change_node_status` is two steps, because its read
and its write can be separated by another commit. A call to a node that is down
may still have taken effect.

*BsAccounting.* One user: users do not meet in this code. `TickReads`/`TickWrites`
and `ReviewReads`/`ReviewWrites` are the two halves of the jobs; `RequestStarts`
takes the month, `RequestEnds` locks the row and writes. `Straddle` says whether a
transaction may run over midnight of the month.

*UserLifecycle.* Each transaction reads (`...Read`) and writes (`...Write`);
`Flush` is SQLAlchemy's UPDATE of the columns that differ from the value read
(`SessionLocal` has autoflush off), `Stale` the error when the row is gone.
Timestamps are kept as what the code asks of them (absent, future, past).
`Overlap = FALSE` lets one transaction at a time run; traffic and time still move.

*UserAccess.* An operation commits and schedules a task; `RunTask` reads the ready
nodes and makes calls; `RunCall` is one gRPC call (`update` is two, remove and
add); `ConnectHard`, `ReadBlocks`, `ReadUsers`, `PushConfig` are a connect or a
restart of a node. `Overlap` says what an operation may overtake: nothing,
outstanding calls and tasks, or pushes under way.

*SubscriptionAccess.* A request is `Resolve`, `Ensure` (the stored token),
`Register` with `Touch` or `Insert`, `Decide` and `Background`; each ends where the
code commits, or where it has read what a later commit relies on. Two ticks are a
second, because a token is stamped with the next full second.

*AddressJournal.* Two ticks are a day. `issued` is what a request would get now,
`given` what requests of each day got, `Journal(d)` what support is told of day d.
The rendezvous hash and the user's shift are constants.

*WebhookQueue.* A run of the job takes items from the deque one at a time and sends
them to every webhook; `send_req` is the answer of one webhook; `Posted` is the end
of the post, `PutBack` one turn of the loop that puts a failed batch back. The
scheduler may run two instances, and the shutdown hook runs the job once more.

*Reminders.* The review job reads all active users when it begins (`get_users`), and a
user again when a commit for another one has expired the object (`ReadAgain`). On
what it has read it decides: the status (`update_user_status`) or, for each kind of
reminder, whether to report (`Remind`); the row that remembers the report is a commit
of its own (`create_notification_reminder`). Requests too read first (`BeginEdit`)
and later write the columns they have changed (`ColumnsWritten`) and delete the rows
of thresholds that they have moved out of reach (`CommitEdit`). Between a read and
its use others commit. A later query of the same session sees the tables as they were
at its first read, or as they are now: that is the isolation of the database, and both
are allowed. `kept` and `lost` remember which rows a reset, a value that is not
judged, or steps that crossed have left behind or taken away; `crossed` that a request
committed while the job held the user.

*MasterCore.* The statements of `restart`, `stop` and `start` are steps of each
thread, because `XRayCore` has no lock; a configuration is the number of the save
it was built from.

*HostCatalog, HostCache.* PUT /hosts is one action over a whole payload, as it is
one transaction; `update()` of the cache is one step for the clearing and one per
inbound.

*XrayConfig, ServerFormats, HostInjection, SubscriptionRender, Reports,
AddressPolicy.* Operators named after the functions; a property is a formula over
their inputs, and `MCSubscriptionRules` and `MCConfigRules` enumerate the inputs,
one state each.

*CascadeNodes.* `rows` are the roles and routes, `running` what each node was last
pushed, `tasks` connects that have read their rows (`Read`) and not pushed yet.

*ManagedBots, ClientConfigs.* A handler reads and checks in one step and commits in
another; `crossed` (in `ManagedBots`) remembers that a call began while another was
under way, so that what holds without that can be stated. PUT /hosts checks the
document (`modify_hosts`), commits (`CommitBinding`), and then its refresh clears
`xray.hosts`, reads the row and stores it (`ClearHosts`, `LoadHosts`, `StoreHosts`),
without a lock; `hostCrossed` remembers that another PUT committed between the reading
and the storing.

*TelegramAdmin.* `mem` is `mem_store`, `steps` the pending step handlers, `menus`
the keyboards on the screen, each of which may be pressed at any time. One chat.

### Abstractions

- Payloads, names and messages are left out; all inbounds of a core are one.
- The review job's batches of 500 users are one batch.
- In `UserLifecycle` and `Reminders` `update_user` has one commit; those that it
  makes for single reminder rows are part of it.
- In `Reminders` a commit that fails and a stop in the middle of the job are left out.
- Only the REST client is modelled, not `RPyCXRayNode`.
- A job's return of its permit and of its slot is one step: both come at the end.
- One configuration at a time is on its way to a node.
- Soft reconnects push nothing; they are in the run `access_repair` and
  left out of the parts `sync` and `blocks` of `access`, whose properties would be false
  with them: a node that comes back softly misses what happened while it was away.
- Strings are opaque except where the code or Xray matches by prefix; there they
  are sequences of pieces.

## 3. Runs

Passing runs (the constants are in the `.cfg` files, those of composed parts in the
`MC` module):

| run | property | what it shows |
|---|---|---|
| `shared_state` | `TypeOK`, `SlotHasOneOwner`, `TokensDistinct`, `ImplementsLock` | part `slot`: generation tokens make a revocable lock: one owner, no leak, a dispossessed connect frees nothing |
| | `HostsSavedWhole` | part `hosts`: what PUT /hosts keeps, deletes, refers to and rents |
| | `CacheSound` | part `cache`: the hosts that subscriptions read |
| | `DocumentsSound` | part `documents`: the last version is read, a host is served with the document that the database names for it, history is kept |
| | `AddressesSound`, `StableWithinEpoch` | part `addresses`: never without addresses, an honest journal, no jumps |
| `node_crossing` | `ConnectedHasVersion`, `NothingLeaked`, `SoftKeepsSession` | jobs crossed by two failures or delays and a panel restart, or by an admin request of any kind: no fake "connected", no leaked slot or permit, soft connects keep a session that the node accepts |
| `node_live` | `NeverGivenUp` | an enabled node comes back again and again after a failure at any point |
| `bs_lazy` | `RowsBehindPool`, `ReviewAgreesWithApi`, `ImplementsEagerPool` | with settled limits (`SettledSpec`) lazy rollover equals eager rollover; job and API agree on who is over the limit |
| `life_serial` | `OnHoldHasDuration`, `StatusMatchesData` | all operations in sequence keep the status backed by the data |
| `access` | `CoresInSync` | operations that do not overlap bring every core in step, with a node lost or the panel crashed at any moment; blocks survive restarts and reconnects |
| | `SyncCutsOff` | a user that loses its entitlement is eventually off every core |
| | `OverdueIsSettled` | part `review`: requests that abort single runs of the review job do not keep an overdue user for ever |
| `access_repair` | `PushRepairs` | whatever was lost, a configuration pushed with no call outstanding puts the node right |
| `services` | `AcceptedOnce`, `GivenUpLast`, `EverySettles` | a webhook that accepted is not told again, nothing is given up before its tries are used, and every notification is delivered, given up or lost with the process |
| | `BlocksFollowLimit` | blocks come and go with the limit while settings and month change |
| | `CoreAsSaved`, `CoreComesBack` | the flag never stays up; without crossing calls the running core is the last one saved and the only one; a dead core runs again |
| `panel` | `ServedWithinLimit`, `TokensAlive`, `NoNewcomerDisplaces` | part `sub`: device limit, tokens and revocations under concurrent requests |
| | `DialoguesSound` | part `bot`: buttons act on the user they name, rows stay valid, stopped users are off the cores |
| | `RemindersSound` | part `reminders`: the job reports a threshold once, only while it is reached, and every one, while requests commit between its reads and its writes |
| | `ManagedSound` | part `managed`: pushes and forms leave each other's fields alone |
| | `CascadeSound` | part `cascade`: entries and exits agree once both run their rows |
| | `FormatsAgree`, `InjectionSound`, `AnswersSound` | part `rules`: the pure rules of subscriptions over enumerated inputs |
| | `CoresServeRight`, `ChannelsIndependent` | part `config`: the pure rules of configurations and reports |

The properties of `panel` and some of the other composed runs are conjunctions of
named parts; each part is defined and explained in the module of its component.

**Bounds and why they are enough.** Slot: three jobs are an owner, the job it lost
the slot to and a third that takes the slot while both run; five generations let
each of them lose it. Nodes: one node, because nodes meet only in the semaphore
and in the reconnect budget; two jobs at once, so that connect and restart, or an
old and a new connect, cross; three objects, the registered one and two held by
jobs; two faults, a failure and a failure in its recovery, or one fault and a restart of
the panel; `MaxTrouble` keeps an admin's request apart from these, because both at
once are out of TLC's reach in minutes (the proofs of section 4 have no such
bound). BS: three months, so
that a month without traffic lies between two with it; two nodes, one of which
has moved on to the new month; values up to 2 against a limit of 1, below, at and
above it. Users: two where one user's failure hurts another, else one, because
rows of different users do not meet; four operations, since the longest way to a
bad status that a mutant opens takes three. Access: the panel's core and two
nodes, one lost and one ready; two keys, the old and the new. Subscriptions: two
requests at once, a client with a hardware id and one without; two devices against
limits of one and two; a second and a half, so that a revocation falls before,
into and after the second a token is stamped with. Addresses: two nodes, three
days, epochs of two days that begin on an odd one; two changes. Queue: two
instances of the job and the final one, two webhooks, one stop. Master core: two
requests and the health check, two calls, one death. Hosts: two inbounds, two
hosts at first and two more; two saves. Cache: two threads, two catalogs. Cascade:
an entry and an exit, three edits, two tasks. Managed bots: two names, two sources,
three calls. Documents: two, with three calls that write and two threads. Reminders: one
percentage and two numbers of days, two requests, one after the other, each of which may
cross the job; requests that cross one another are only in the proof. Dialogues: two
users, three keyboards, six turns (four for an admin in a hurry). The pure rules: every
combination of the fields a rule looks at, up to three endpoints or routes.

Some passing runs stop short, on purpose, of a case in which their property is
known to fail, and the table of counterexamples below has that case. `services`
allows one change of settings, so that a BS node is left (`BlockIsLifted`);
part `review` of `access` has users with a data limit only; `life_serial` and the parts
`sync` and `blocks` of `access` do not let operations overlap, and leave out the
operations that forget the cores or the blocks. Where the code has no lock and two
calls crossing break a promise, the property excuses the runs in which calls
crossed, and a second property without the excuse (`...Always`, `...Ever`) is in
the table.

**Fairness.** `NodeConnect`: pool threads run (WF on the steps of a job: every
call has a timeout), the health check is an interval job (`coalesce`,
`max_instances=1`), a request that was begun is ended, and outages end.
`BsAccounting`, `UserLifecycle`: the review jobs are interval jobs; open
transactions end. `UserAccess`: the pool works off its queue, and the health check
reconnects a lost node. `WebhookQueue`: time passes, the job is an interval job
whose instances run, and a webhook that was asked answers (`session.post` has no
timeout, so this is an assumption on the webhooks; without it `EverySettles`
fails). `MasterCore`: threads run and the health check is an interval job. No
strong fairness is assumed; nothing is assumed of admins, traffic or the calendar.

`CHECK_DEADLOCK FALSE` stands where the bounds (operations, generations, months)
let the model stop; in `NodeConnect` and `UserLifecycle` a deadlock would be an
error and is checked.

### Where the code does not do what it says

Each line is a property taken from a comment, a docstring, a message or a guide,
or the unexcused form of a property above, for which TLC finds a counterexample.
The first three are runs of `PROJECT.json`, with findings. Those marked with a
`.cfg` are kept as configurations; the others are obtained from the named
configuration by the changes given, or by giving the module's constants the values
that they have in `MCPanel`, `MCServices` or `MCSharedState`, with the module's own
specification (`Spec`, or the one named after the component: `CoreSpec`,
`CacheSpec`, `CascadeSpec`, `DocSpec`, `AddrSpec`,
`ReminderSpec`, `ManagedSpec`). When the
code is changed, their properties are to be added to the passing runs.

| property | how | what happens | where |
|---|---|---|---|
| `OverdueIsSettled` | run `life_poison` | an expired user with a next plan and no data limit makes the review job raise on every run, for everybody | `crud.py:1336` |
| `BlockedIsOff` | run `access_readd` | `update_user` puts a blocked user back on the BS node | `operations.py:304` |
| `ReconnectSuffices` | run `cascade_doc` | the steps of `docs/cascade-node-roles.md` reconnect the exit before its route exists: it never gets the client | `operations.py:449` |
| `RevokedKeyIsDead` | `MCUserAccess_readd.cfg` with `BsNodes = {}`, `Ops = {"create", "revoke"}`, `Overlap = {"calls"}`, `MaxKey = 3` | calls of the pool are not ordered: a core keeps a revoked key | `operations.py:135` |
| `BlockedIsOff` | `MCUserAccess_readd.cfg` with `Ops = {"create", "block"}`, `Overlap = {"pushes"}`, `MaxOps = 2`, `MaxDrops = 1` | a configuration under way, whose blocks were read before, brings a blocked user back | `operations.py:688` |
| `CoresInSync` | the same with `BsNodes = {}`, `Ops = {"create", "review", "job_reset"}` | the reset job activates a user and does not tell the cores | `reset_user_data_usage.py:36` |
| `DisabledIsStopped` | `MCNodeConnect_disabled.cfg` | a connect past its status check starts Xray on a node disabled meanwhile | `routers/node.py:157` |
| `DeletedIsForgotten` | the same | a connect under way registers a deleted node again | `routers/node.py:187` |
| `DisabledStaysDisabled` | the same, as PROPERTY | `_change_node_status` overwrites a disable made after its read | `operations.py:550` |
| `BlipKeepsCore` | `MCNodeConnect_crossing.cfg` with `Retries = 1`, `MaxAdmin = MaxBoots = 0`, `BlipSpec` | one lost ping in `restart_node` ends in a new session, which stops Xray | `operations.py:863` |
| `PeriodNeverGoesBack` | `MCBsAccounting.cfg` with `Straddle = TRUE`, `Spec` | a request over midnight moves the pool's month back | `crud.py:2390` |
| `BlockIsLifted` | `MCBsAccounting.cfg` with `MaxMonth = MaxUsed = MaxPool = 1`, `MaxSettings = 2`, `Straddle = TRUE`, `FairSpec`, without `SYMMETRY` | when the last BS node loses `is_bs`, the review job returns early and blocks stay for ever | `review_bs_nodes.py:59` |
| `OnHoldHasDuration` | `MCUserLifecycle_hold.cfg` | a modification overlapping the review leaves a user on hold without a duration | `crud.py:962` |
| `NotFoundChangesNothing` | `MCUserLifecycle_poison.cfg` with one user, `Spec`, `Newcomers <- PlanNewcomers`, `Ops = {"create", "active_next"}` | active-next applies the plan and answers 404 | `routers/user.py:937` |
| `ResetKeepsDisabled` | the same with `Modifications <- DisableBodies`, `Ops = {"create", "modify", "reset"}`, `MaxOps = 3` | a usage reset activates a disabled user | `crud.py:1294` |
| `PlanGivesItsLimit` | the same with `Ops = {"create"}`, `MaxOps = 1`, `MaxUsed` as in `serial` | `add_remaining_traffic` works the wrong way round | `crud.py:1336` |
| `AutodeleteWaits` | the same with `Modifications <- PastBodies`, `Ops = {"create", "modify", "autodelete"}`, `MaxOps = 3` | `update_user` does not set `last_status_change`, from which the auto-delete job counts | `crud.py:998` |
| `RevokedTokenGetsOldKeys` | `SubscriptionAccess`, `RevokeCrossesToken <- TRUE` | a revocation inside a request: a token made before it is stored after it | `crud.py:1416` |
| `JournalHonestAlways` | `AddressJournal`, `size` 2 | a host with no more nodes than its size: the comment says that weights do not matter then, but a request leaves out the node that is used up, and the journal names it | `address_history.py:459` |
| `JournalHonestAlways` | `AddressJournal`, nodes 1 to 3, `days` 1, `Cutoff = 60`, `PinChoices <- {{1}, {2}}`, `Ttls = {1, 2}`, `MaxChanges = 3` | a newer pin whose nodes have left the host does nothing, but hides from the journal the older pin that a request got | `address_history.py:211` |
| `JournalHonestAlways` without `steady` | `AddressJournal`, no shift, `Busy = {2}`, `MaxUsed = 2` | a node used up after the first day of an epoch: requests avoid it, the journal, which takes exhaustion from the weights of that day, names it | `address_history.py:386` |
| `WaitsForNextCheck` | `WebhookQueue` | a notification put back "for the next check" is taken out again by the same loop | `send_notifications.py:63` |
| `EverySettles` | `WebhookQueue`, `MayHang = TRUE` | a webhook that never answers holds the job for ever | `send_notifications.py:48` |
| `ReviewAlwaysReminds` | `Reminders` | a row silences a threshold reached anew: it outlived a reset, or the job made it for what it had read before a request took the user below the threshold | `review_users.py:40`, `:99` |
| `ReportsAreTrue` | `Reminders` | the job reports what it read at its start, though a request has changed the user since | `review_users.py:99` |
| `RemindedOnce` | `Reminders` | a request deletes a row, by what it has read, that others need by now: the report goes out again; with `NotifyDays = FALSE` no row is made, and the report goes out on every run | `crud.py:977`, `review_users.py:40` |
| `LatestRunsAlways`, `NoOrphanEver` | `MasterCore` | crossing restarts: one returns without a word; two processes, of which the object knows one | `core.py:149`, `core.py:107` |
| `ReadersSeeAllAlways`, `CacheIsFreshAlways` | `HostCache` | crossing refreshes: a reader sees half of the inbounds; the older read is written last | `xray/__init__.py:58` |
| `AppendedIsLast` | `HostCatalog` | a host "appended after the current global max" is placed by the largest order outside its inbound | `crud.py:144` |
| `DeletedStayDeleted` | `HostCatalog`, `ReuseIds <- TRUE` | on a database that gives ids again, a reference to a deleted host finds a new one | `crud.py:368` |
| `CatalogReaches`, `ExitsStayExits` | `MCCascadeNodes_guide.cfg` with `MaxPushes = 1` (`MaxEdits = 4` for the second) | a node that is connecting misses a wave; an exit changes its role under its routes | `routers/core.py:120`, `crud.py:2107` |
| `SyncOffIsFree`, `PushedValuesShown`, `[][BindingStep]_managedVars`, `[][TitleStep]_managedVars` | `ManagedBots`, two threads | a push that crosses a form: a bot nobody may edit, a replaced value, a second source, a lost title | `managed_settings.py:190`, `:208`, `:145` |
| `BodiesAreActive` | `ClientConfigs` | a load that began before a commit is stored after `cache_clear` | `xray_templates.py:76` |
| `ServedAsBoundOnceRefreshed` | `ClientConfigs` | two PUT /hosts cross, and the older read is stored last: `xray.hosts` names the document of the first one until the next refresh | `xray/__init__.py:58` |
| `ServedAsBound` | `ClientConfigs`, `ReuseIds <- TRUE`, `MaxDocs <- 3`, `MaxSaves <- 5` | `xray.hosts` names a deleted document whose id is given again | `xray_templates.py:269` |
| `EveryDocWritten` | `ClientConfigs` | a stop between the two commits of `create_config` leaves a document without a body | `xray_templates.py:245` |
| `EditHitsShownAlways`, `OneStepPending` | `TelegramAdmin` | an older "Done" edits the user in `mem_store`; one text goes to two pending steps | `admin.py:1698`, `:263` |
| `HoldHasNoDate`, `DepletedIsOffCores`, `DecreaseGivesNoMore` | `TelegramAdmin` | a date for a user on hold; a user made expired stays on the cores; a decrease by the whole limit stores 0, unlimited | `admin.py:522`, `:1755`, `:1985` |
| `AccountsAgreeAlways`, `ServedWhereAllowedAlways`, `OnlyValueErrors`, `HostsAreLists` | `MCConfigRules` | the transport `raw`; two inbounds of one tag; a TypeError for a catalog with its own API inbound; a host given as a string | `config.py:395`, `:114`, `:66` |
| `SecurityIsServedAlways` | `MCConfigRules` | an inbound without a port and without `streamSettings`, reached through the fallbacks of one with TLS, is told to clients without it | `config.py:159` |
| `OutboundsAsRouted` | `MCConfigRules` | a selector takes an outbound whose tag only begins like its own | `cascade_config.py:172` |
| `OwnerIsTold`, `StatusIsTold` | `MCConfigRules` | an admin who blocked the bot costs the owner the news; a change to `on_hold` raises KeyError | `telegram/handlers/report.py:23`, `:124` |
| `SecurityIsKept`, `FlowWhereAllowedEverywhere`, `NothingRaises` | `MCSubscriptionRules` | Clash shows REALITY without security; sing-box asks for a flow everywhere; some inbounds end a Clash or gRPC answer in an exception | `clash.py`, `singbox.py` |
| `ServersKeepTheirOwn` | `MCSubscriptionRules` | servers with the network http share one settings object | `v2ray.py:706` |
| `ChatIsThereAlways` | `MCSubscriptionRules` | a user without a bot is sent to a page that has no chat | `support.py:71` |

Every property of a passing run has a mutant, and where the property is a
conjunction, its parts have: a variant of one definition, changed as a plausible
bug would change it, under which TLC finds the property violated. The variants
stand before the definition.

## 4. Proofs

| theorem | for every | says |
|---|---|---|
| `SlotTyped`, `OneOwner`, `DistinctTokens` | nodes, threads, generations | the invariants of the slot |
| `SlotImplementsLock` | the same | `ConnectSlot` refines `SlotLock` |
| `NoLeak` | nodes, jobs, objects, permits, failures, requests, panel restarts | `NothingLeaked`: no way out of a connect leaks its slot or its permit |
| `ConnectedReported` | the same | `ConnectedHasVersion`: no "connected" without a reported version |
| `SoftConnectIsGentle` | the same | `SoftKeepsSession`, an action property |
| `CountersBehindPool` | nodes, months, limits, bytes | without a transaction over midnight no counter is ahead of the pool |
| `HoldNeverPoisonsReview`, `StatusIsJustified` | users, sessions, valid newcomers and bodies | without overlapping transactions the two invariants of `life_serial` hold |
| `CoresFollowDatabase` | nodes, keys, operations, lost nodes, panel crashes | under `Orderly`, `CoresInSync` |
| `PushPutsRight` | the same, and lost calls | if no operation commits during a push, `PushRepairs` |
| `LimitHolds` | requests, hardware ids, rows, limits, ticks | `ServedWithinLimit`, in hard mode and without it |
| `FirstComeFirstServed` | the same | `NoNewcomerDisplaces`, an action property |
| `RevocationIsClean` | the same | if no revocation falls between the making and the storing of a token, `TokensAlive` |
| `NoDoubleDelivery`, `NothingDroppedEarly` | notifications, webhooks, instances of the job, tries | `AcceptedOnce`, `GivenUpLast` |
| `CoreKeepsWhatWasSaved` | threads, saves, calls, deaths | `CoreAsSaved` |
| `ReviewAgrees` | nodes, months, limits, bytes, transactions over midnight | `ReviewAgreesWithApi` |
| `LazyIsEager` | nodes, months, limits, bytes | while limit and BS nodes stay and no transaction runs over midnight, `BsAccounting` refines `BsPool` |
| `HostsSound` | threads, catalogs, commits | `CacheSound` |
| `CascadesSound` | nodes, inbounds, routes, edits, pushes, failures | `CascadeSound` |
| `DocumentsServed` | threads, documents, saves | if the database does not give ids again, `DocumentsSound`, an action property in part, with the refresh of `xray.hosts` apart from the commit |
| `AddressesStable` | hashes, shifts, weights, settings of the host | `StableWithinEpoch`, an action property |
| `AddressesAreSound` | the same, pins, rotations, limits | `AddressesSound` |
| `NeitherRepeatedNorForgotten` | thresholds, limits, traffic, days, threads, requests | if the switch for days is on and no number of days is negative, `RemindersSound`, an action property, with requests that cross the job and one another |
| `PushesAndFormsApart` | bots, sources, names, threads | `ManagedSound`, an action property in part |

*Slot.* `SlotHasOneOwner` is not inductive: a release is harmless only because no
other job carries the current generation, and a new token is new only because no
job's token is above the generation. `IInv` is the conjunction of `TypeOK`,
`SlotHasOneOwner`, `TokensDistinct` and `StaleIsHeld`. The refinement maps the
owner to the job whose token is the current generation of a held node
(`OwnerOfDenotes`: there is exactly one); each action then maps to one action of
the lock or to a stutter.

*Nodes.* `NothingLeaked` is not inductive: that a job frees what it holds depends
on where it is. `JobOK` says that only a connect past its start works on a slot and
that only a restart is at the points of a restart; `PermitOK` that a permit belongs
to an attempt, and that a row is set to connecting before there is one, so the way
back from that write cannot leave with a permit. A lemma per way of moving a job
(`Goto`, `Finish`, a failed attempt) carries both over, and each action is one of
these ways. `ConnectedHasVersion` needs no more than the types of the rows, because
the version is written in the transaction that writes "connected".
`SoftKeepsSession` needs that the points at which sessions end are a restart's or
a HARD attempt's (`JobOK`), and that registered objects are objects (`MemInv`). The
proofs use the lock of `SlotLock`, which the slot with tokens implements
(`SlotImplementsLock`); the assumptions are `NoneAssumption` and `NodeAssumption`.

*BS.* A tick or a request writes the month that it took when it began. `IInv` adds
that nothing is dated in the future (`Dated`) and that whoever is at work took the
current month (`Current`); the last is what `~Straddle` gives, and
`PeriodNeverGoesBack` in the table above shows what happens without it.

*Users.* A transaction writes what it derived from a row read earlier. `IInv` =
`RowsOK` (the rows are sound) /\ `TxnsOK` (at most one transaction is open, and the
row it read agrees with the stored one but for traffic and time) /\ `ReviewOK` (the
same of the review job). `Agrees` says what may have moved in between: traffic
grows and expire passes, and both can only make limited or expired truer. One
lemma per operation shows that it maps sound rows to sound rows (`UpdateSafe`,
`ResetSafe`, `VerdictSafe`, ...); `FlushFields` and `CommitKeepsRows` carry that
over to the column-wise UPDATE. The assumption `~Overlap` is needed:
`MCUserLifecycle_hold.cfg` is the counterexample without it.

*Cores.* `CoresInSync` speaks of settled states only; the invariant has to say of
every other state why it will end well. `TasksOK` and `CallsOK`: what is queued is
in line with the row as it is now, and what only adds meets no other key (an add
does not replace one). `PushesOK`: what a push has read is still so. `CoresOK`: a
core that can be reached either has something on its way or is right already. A
lost node needs no clause: it becomes ready again only through a push. `Orderly`
is what makes `TasksOK` and `CallsOK` true, and each part of it is needed: overlapping
operations (`RevokedKeyIsDead`), operations that tell nobody (`CoresInSync`
with `job_reset`) and operations that add a blocked user (`BlockedIsOff`) are in
the table of counterexamples; a soft reconnect and a lost call leave a core without
what it missed. `PushPutsRight` drops all of that and keeps only that no operation
overtakes a push; it rests on `PushesOK` alone. `MCAccess` asserts `AccessAssumption`
and `Orderly` of the constants of its parts, so that TLC evaluates them.

*Devices and tokens.* `RowsOK`: rows get their ids in order, so a new row is behind
every living one, and a hardware id has one row. That is what the checks of
`Insert`, `AddDevice` and `UpdateDevice` add up to although registering is a check
and an insert in separate steps. `ToldOK`: who was given the servers is inside the
limit by the rows as they are; together with `RankedFew` (of a finite set of
numbers, those with fewer than L smaller ones are at most L) it gives
`ServedWithinLimit`. `NoNewcomerDisplaces` is a property of one step, but not by
itself: it needs `RowsOK` of the state before, from which a row that comes to life
below a living one must have been there, revoked. `TokensOK`: the stored token, and
one that a request has made and not stored, are not older than the last revocation,
and a request holds keys that its token may have; `TimesOK`: nothing is dated in
the future, and keys made by a revocation are as old as `sub_revoked_at`. The
hypothesis `~RevokeCrossesToken` is needed (`RevokedTokenGetsOldKeys` in the table);
`SubAssumption` says only that bounds and limits are numbers.

*Queue.* Both properties are about history, so the invariant ties what is in memory
to it. `OnePlace`: a notification is in the deque or in the batch of one instance,
once. `QueueOK`, `BatchOK`: its `tries` are its posts so far, and no webhook that
is still to be asked has accepted it. `RunsOK` says where an instance can be, and
`Unused` that numbers not yet given away have no history. Sequences are seen as
sets of their elements (`Notes`), with lemmas for Append, Tail and the passing of time.

*The panel's own core.* `FlagHeld` is not inductive: a thread at `enter` is inside
`restart` and does not hold the flag; `FlagOwned` names those that do. `Uncrossed`:
as long as no two calls crossed there is one call (`Serial`), its configuration is
the last saved one, and once it has killed the process nothing runs (`Progress`).
No assumption is made on the constants.

The assumptions on the constants (the named `ASSUME`s of the modules, and
`AccessAssumption`, `Orderly` and `SubAssumption`, which the composed modules assert
of the constants they give) are the ranges of settings and bounds, names that are
told apart, and the validation of request bodies by `UserCreate`/`UserModify`; TLC
evaluates them in every run.

*Sums of counters.* `ReviewAgreesWithApi` and the refinement compare sums over sets
of nodes. What a fold over a finite set computes is proved by hand: a function on
the subsets of `S` that adds one node at a time exists and is unique (`SumsExist`,
`SumsAgree`, each by a smallest set for which it would fail, which
`FiniteSetTheorems` gives by the well-foundedness of strict inclusion), so a sum
does not depend on the order in which the fold takes the nodes (`SumAny`). The
agreement of job and API then needs only the types (`Typed`), and holds over
midnight too. For `LazyIsEager` the pool at midnight is mapped to what the API would
read (`Books`); `RInv` adds to `IInv` that what a tick has read still stands, unless
the counter was deleted (`LazyOK`). A tick maps to a use of the abstract pool, a
request to a request, the turn of the month to the closing of the books, and a
rollover, whoever makes it, to a stutter. `~Straddle` is needed
(`PeriodNeverGoesBack`), and `SettledSpec` because a limit changed in mid-month is
applied to the months not yet closed.

*Caches.* Of the cache of hosts something can be said only while calls do not
cross: `CacheInv` is `~crossed => CacheBody`, where `CacheBody` says of the one call
(`OneCall`) how far it has filled (`Filling`) or read (`Reading`), and that in between
the cache is full or empty (`FullOrEmpty`). `DocInv` says when the bodies in the
process may be behind the documents: only while somebody is still to clear them, or
a load was crossed (`BodiesFresh`); and that `xray.hosts`, and what a refresh has read
and not stored, name the document of the row or one that is gone for good, unless the
refresh after a commit is still to come or a commit fell between a read and its store
(`HostBound`). This is where `~ReuseIds` comes in (`ServedAsBound` in the table), and
why `hostCrossed` excuses what it does (`ServedAsBoundOnceRefreshed`).

*Cascades.* `UuidsKept`: whatever was read or is running names an exit by the uuid
in its row, whatever has become of its role. `Heals`: after a restart of everything a
thread that has read holds what is true now, and a node that still runs something
older has a thread under way that has taken the catalog. Every edit ends that
period, so it needs only the reads and pushes.

*Addresses.* That addresses do not jump follows from the choice being a function of
the epoch, once days with the same first day are shown to be in one epoch
(`SameStartSameEpoch`). `NeverWithoutAddresses` is about `pick_keys`: in a finite set
that is ordered strictly someone is the best, and those with fewer than L better ones
are at most L (`BestExists`, `BestFew`). The journal is about history: `JournalInv`
says what today's requests have got so far (`Today`), that on steady days the weights
that will be read know who is used up (`Weighed`), and that past days were honest
(`PastHonest`), which each step has to leave alone: what it changes of a past day
makes the journal silent, not wrong (`DayKept`). The proof would not go through for
the property as first written; the three cases it stopped at are the rows of
`JournalHonestAlways` in the table, and `JournalHonest` names the last two
(`NamesAll`, `PinHidden`).

*Reminders.* `ReminderInv` has three parts. `HistoryOK`: what was told is remembered by
a row until the expiry it was made with, or by the row that the job is about to write
(`Remembered`), unless the row is `lost`; and a row of a threshold that was not told
since it was last out of reach is `kept`. The second is so for ordinary thresholds only
(`Ordinary`: at most 100 percent, no negative number of days): an edit that leaves the
user past the limit or the expiry keeps the rows, and then an ordinary threshold is
still reached. The others do not matter: a job that reports has found the user within
both, where only ordinary thresholds can be reached (`InReachIsOrdinary`, which is why
no number of days may be negative). `LookingOK`: until a request commits, what the job
holds of the user is what the row still says, up to traffic, and the reminder rows it
holds and the table lacks are dead; so a decision on the old values is a right one.
`WritingOK`: until a request commits, the row about to be written is of a report that
stands. `QuietKeeps` is the step that makes no report, `WorldKeeps` one that leaves the
job and the requests where they are, `JudgedKeeps` the commit of a request that nothing
has crossed; whatever a crossed one does is in `kept` or `lost`. The switch for days has
to be on: with it off no row is made, and every run reports again (`RemindedOnce`).

*Managed bots.* While calls have not crossed there is at most one of them, and what
it has read and checked still holds when it commits: `ManagedInv` is
`~crossed => BotsOK /\ BotCallsOK`, where `CallFits` says it for each kind of call. A
commit is then the whole handler in one step, and what it writes is what its guard
allowed: the values that the push left, or nothing that a push owns.

*Only model-checked:*

- the liveness properties (`NeverGivenUp`, `OverdueIsSettled`, `SyncCutsOff`,
  `BlocksFollowLimit`, `EverySettles`, `CoreComesBack`): fairness and ENABLED are
  out of the prover's reach;
- the rules over enumerated inputs (`FormatsAgree`, `InjectionSound`,
  `AnswersSound`, `CoresServeRight`, `ChannelsIndependent`): what they compute is
  folded over sequences of hosts, routes and outbounds. The library's induction
  theorems take an operator as a parameter and cannot be instantiated; the way
  taken for sums of finite sets would need the same for every fold;
- `HostsSavedWhole` and `DialoguesSound`: not proved yet.

## 5. Not modelled

- Dashboard: browser code, it holds no state of the system. CLI: the same functions
  of `crud.py` from a terminal. Migrations: schema history. gRPC stubs: generated.
- Authentication of admins (cryptography, one row), billing and system statistics
  (reports over rows, without state of their own).
- `RPyCXRayNode`, the older client of nodes, with the same interface as the REST
  client; node metrics and the live probe of a node.
- Usage of nodes and admins, hourly rows and their clean-up: sums that nothing in
  the panel decides by.
- The pruning of snapshots older than the retention, and the preview of addresses.
- Texts, HTML pages, remarks, and transport settings that no format decides by.
- Cryptography: keys and tokens are numbers that are new when they are made.
