# tg-auto: TLA+ models of the platform and its worker

tg-auto runs a fleet of Telegram accounts: it logs them in, warms them up, lets them
comment, reply and react for campaigns, and sells a Pro plan to the people who own
them. This directory holds TLA+ modules for the parts of it where state is shared
between processes, the TLC configurations that check them, and proofs that TLAPS checks.
The code is the reference: `PROJECT.json` maps every definition to the lines it stands for.

## The system and its parts

Three kinds of process share one Postgres and one Redis:

* the **API** (FastAPI, `api/`): every request has a database session of its own
  (`api/deps/db.py`), which nobody commits for it;
* the **worker** (arq on asyncio, `worker/`): one event loop, tasks from Redis, cron jobs;
  at-least-once with a `max_tries` per task (`worker/tasks/handlers.py`);
* the **bot** (aiogram polling, `bot/`).

Postgres runs READ COMMITTED, and both session factories have `expire_on_commit=False`:
what a session has read it goes on using until it is rolled back, and its UPDATEs carry
only the columns whose value differs from what it read. Most of what is hard here comes
from those two facts.

| component | state | operations | talks to | what makes it correct | hard behaviour |
|---|---|---|---|---|---|
| account state machine (`core/state_machine/account.py`) | `accounts.status`, `previous_status`, `assigned_container_*`, `cooldown_until`, history | 11 events with guards and effects | called by API, worker, commenting | columns agree with the status, history tells the status, a ban is final, a cooldown ends | read and commit of two sessions interleave; a loop over accounts stops in the middle |
| commenting campaigns (`modules/commenting/api`) | campaigns, `campaign_accounts` | attach, detach, delete campaign | state machine, Redis events | an account points at a campaign it is linked to | several links per account, commits inside a loop, flushes without a commit |
| payments (`core/billing`, `api/routers/billing.py`, `bot/payments.py`, `worker/tasks/billing.py`) | `payments`, subscription | invoice, check, reconcile, pre-checkout, successful payment | Crypto Pay, Telegram Stars | one period per payment, none without money | API, cron and bot confirm the same payment; expiry races a late payment |
| bulk jobs (`worker/tasks/bulk.py`, `api/routers/bulk_jobs.py`) | `bulk_jobs`, `bulk_job_items`, queued tasks | create, dispatch, run an item, reschedule, cancel, retry | governor, client pool, task queue | each action once per reset, nothing forgotten, closed means closed | duplicated tasks, cancellation in the middle, deaths between two commits |
| client pool (`worker/client_pool/pool.py`) | clients with reference counts | get, release, close_all | Telegram | a client is open as long as somebody holds it | awaits under the lock, failed and cancelled connects, callers that release twice |
| governor (`worker/health/governor.py`) | Redis counters | check_and_reserve | all senders | limits per hour and day | check and increment are several awaits |
| comment delivery (`modules/commenting/worker/runner.py`) | dedup keys, queued tasks, comment log | on_channel_post, post_channel_comment | pool, governor, queue | one comment per message, limits, nothing dropped | repeated announcements, a retry after sending |
| monitored channels (`modules/commenting/worker/channels.py`, `registry.py`) | `monitored_channels`, handlers | sync, resolve, scan, refusal; attach, detach, load_all | queue, pub/sub | rows follow the settings, handlers follow the rows | syncs overtaken by edits, a status that changes untold, a deletion and a resolve inside each other, events nobody hears |
| priming (`modules/priming`) | campaign, accounts, targets | start, pause, resume, stop; tick, execute_prime | queue, client pool | a person is contacted once, nothing is left taken | several ticks at once, quarantine, detach in the middle |
| shilling (`modules/shilling`) | campaign, cast, dialogs, cursor of channels, reply counters | start, stop, process_target, execute_step, failover, polls, live replies | pool, governor, queue, pub/sub | a dialog as planned, a post answered once, silence after a stop | retries, failover, overlapping polls, events out of order |
| parsing (`modules/parsing`) | jobs, lists | start, pause, stop, parser_run, thin out, combine | queue | an active job goes on, counts are right | commands that commit late |
| autopilot (`core/autopilot`, `worker/tasks/autopilot.py`) | goals, journal | tick | state machine | no more starts than needed, every step in the journal | transitions that commit by themselves, rows changed meanwhile |
| login (`worker/login/flow.py`) | `session_enc`, `phone_code_hash`, published state | start, confirm, password, sweep | pool, Telegram, pub/sub | the session fits the code, the published state is true | requests that overlap, reruns after a death |
| comments in threads (`modules/commenting/worker/listener.py`, `runner.py`, `delivery.py`, `verify.py`) | queued tasks, comment log, Redis keys | on_new_post, post_comment, verify_comment | governor, queue, Telegram | a comment planned is sent once or given up, and flagged as deleted only if it was | posts announced again after their claim has ended, answers to answers, a group changed meanwhile, late checks |
| listener of a campaign's group (`modules/commenting/worker/registry.py`) | handlers, references on clients | attach, detach, load_all | pool, pub/sub | a campaign that is on has one handler, one that is off none | events sent before the commit or not at all, accounts that leave and return |
| warming and maintenance (`worker/tasks/warming.py`, `worker/warming`) | `warming_activities`, status | initial_start, warming_tick, maintenance_scheduler | queue, state machine | nobody forgotten, nobody hurried, nobody in the pool before its time | ticks enqueued by several, reruns |
| intake and proxies (`api/services`, `core/repositories/proxy_pool.py`, `worker/tasks/health.py`) | `accounts`, `proxies` | create, import, assign, sweep, delete | state machine, bulk jobs | limits of the plan, a proxy for one account, news of a dead one for those of its accounts that are at work | checks made long before the write, states changed meanwhile |
| profiles and passwords (`worker/profiles`, `modules/bulk/actions`, `worker/security`) | columns and `meta` of the account | apply, sync, set_2fa, email in two steps | Telegram | the row says what Telegram has | Telegram changes first, the row at the end, two errands at once |
| own channels and dialogs (`modules/bulk/actions/create_channel.py`, `manage_channel_post.py`, `worker/profiles/dialogs.py`) | `project_channels`, dialogs in Redis | create, pin, delete, compare, leave, join | Telegram, bulk jobs | rows and lists say what Telegram has | items cut off after the call, retries, stale lists |
| health and risk (`worker/tasks/health.py`, `worker/health`, `core/health_score.py`, `core/predictor.py`) | `account_health`, `health_events`, risk snapshots | check, incident, predict | state machine, queue | checks come, and tell what they found; worse facts, worse score | overlapping checks, a transition refused after the event |
| scenarios (`modules/shilling/api`) | scenarios, roles, steps, cast | edit, activate, assign, pin; readiness | worker | one active scenario, ready means playable, a role speaks in one voice | requests that decide on what they read, a PATCH that checks nothing, edits under a running dialog |
| dry run (`modules/shilling/worker/dry_run.py`, `DryRunSimulator.tsx`) | a key, a pub/sub channel, the window | launch, stream, run | queue, browser | one run per launch, its events complete and its own | events nobody keeps, windows closed and opened meanwhile |
| prices and subscriptions (`core/billing/promotions.py`, `pricing.py`, `core/repositories/subscription.py`) | `pricing_config`, `promotions`, `subscriptions`, pending links | set the base, create, edit, delete; fix a price; pay, give, take away | payments, admins | one promotion at a time, no paid day lost, no Pro for nothing | admins at once, two writers with different columns |
| bulk actions of several calls (`modules/bulk/actions`) | results of items, what Telegram did | reactions, views, leaving, privacy, sessions, stories | Telegram, governor, bulk jobs | a result says what was done | errors, bans and timeouts in the middle, retries, deferral |
| triggers of priming (`modules/priming/worker/executor.py`, `trigger.py`, `humanizer.py`) | state and counters of the account, log, targets | resolve, call, finalize, rest; beats | Telegram, priming | the log tells what was done, triggers take turns | floods, switches of dry run, lost runs, beats meanwhile |
| event streams of the panel (`api/services/login.py`, `events.py`) | listener, queues, cache | start, join, fan out, leave | Redis, HTTP clients | each stream gets each event once | streams that start the hub together, loss of Redis, clients gone early |
| support chat (`bot/notifier.py`, `bot/main.py`, `api/routers/app_content.py`) | messages, relays | write, forward, answer | pub/sub, Telegram | an answer finds its user | sends that fail, stops of the bot |
| backfill (`modules/commenting/worker/backfill.py`) | queued tasks | go through a channel's history | queue, Telegram | each post planned once, spread, within the quota | channels at once, posts that appear meanwhile |
| other bulk actions, LLM, captcha, fingerprint | - | calls to others | Telegram, providers | no state that the program reads again | - |
| frontend, migrations, deployment | - | - | - | - | - |

Which module models which row, and what of it, is under `components` in `PROJECT.json`;
`hazards` there lists, at its line, what is hard to test, with the properties about it.

## Modules

    AccountLifecycle   <- MCAccountLifecycle     (TLC)
                       <- AccountLifecycleProofs (TLAPS)
    Payments           <- MCPayments             (TLC)
                       <- OrdersProofs           (TLAPS)
    BulkJobs           <- OrdersProofs           (TLAPS; TLC runs it as it is)
    SharedClient <- ClientPool, ChannelSync, ChannelListeners, PostMonitor,
    Governor, CommentDelivery, Priming, Shilling <- TrafficProofs    (TLAPS)
    Parsing, Collectors, Discovery, Autopilot    <- BackgroundProofs (TLAPS)
    Login, LiveReplies                           <- SessionProofs    (TLAPS)
    TrafficProofs, BackgroundProofs, SessionProofs
                       <- MCWorker               (TLC)
                       <- WorkerProofs           (TLAPS)
    ProfileMirror, EventHub, PostListener, SupportDesk, Intake, Sales, Warming,
    Triggers                                     <- ServiceProofs    (TLAPS)
    ServiceProofs, CommentThread, OwnChannels, HealthScore <- HealthChecks,
    Scenarios, DryRun, Backfill, BulkSweeps
                       <- MCPanel                (TLC)
                       <- PanelProofs            (TLAPS)

The models share no variable; where one component needs another its answer is a choice. An
account deleted in AccountLifecycle is `DeleteAccount` in BulkJobs and Login; an account whose
status makes a bulk item `skipped`, a governor that says no and a client that does not
connect are choices where they occur.

Operators introduced by a comment `Mutant:` are variants of the definition below them, with a
plausible bug. No specification uses them; they are there to show that each property can fail.

### AccountLifecycle

`acct` is the table (status, previous_status, container, and `cooldown_until` against the
clock: none, running, elapsed), `links` and `campaigns` the tables of the commenting
module, `lastTo` the newest history row, `attached` what the API has told its callers,
and `tx[s]` what a database session has read and still has to do.

Every operation is a session: an action that reads (`RequestTransition`, `RequestAttach`,
`RequestDetach`, `RequestDelete`, `StartCooldownReturn`, `StartSweep`) and one that writes
and commits (`CommitTransition`, `CommitAttach`, ...). `Transitions` is the table
`_TRANSITIONS`; `Resolve`, `Guard` and `ApplyEffects` are the methods around it; `Merge`
is the UPDATE, which writes the changed columns over whatever the row holds by then.
`Sessions` decides what interleaves: with one session an operation may still be cut short
by `Crash`, and the clock, account creation and deletion happen in the middle of it; with
two, another operation does. Where a session holds a row lock over several steps
(the DELETE of a link flushed by a detach, the flushed writes of a campaign deletion), others wait
(`LinkLocked`, `RowLocked`).

An account in several campaigns is where the detail is: only the last link's detach is a
transition and commits; the others are flushed, and committed or rolled back with
whatever the session does next (`DeleteDetach`, `DeleteFlush`, `DeleteSkip`,
`DeleteFails`, `FinishDelete`). The single-link endpoints in that case commit nothing
(`FlushAttach`, `FlushDetach`).

Left out: `account.created`, an event of the table that no code raises; timestamps but
`cooldown_until`, the published events, the container type (priming and shilling keep their
links without the state machine), who may raise which event (each caller passes the right
initiator), the login steps before `warming.start`.

### Payments

`payments` is the table, `invoices` the orders at Crypto Pay, `star` the state of a Stars
payment at Telegram, `granted` how many periods were added for each payment, `tx[s]` a
session with its identity map `seen`. `Settled` is the point of the module: the check
"already paid" of `confirm_payment` reads the object the session loaded earlier (cron and
endpoint) or the locked row (bot), because `SELECT ... FOR UPDATE` does not refresh an
object already loaded. `AskFirst`/`InsertPayment`/`IssueInvoice`/`IssueLink` are
`create_invoice` around its commit and its call to the provider, `Reconcile`/`Poll` and
`Check`/`Poll` the two ways to ask the provider, `Deliver` the bot, `Apply` and
`AlreadyApplied` the two ends of `confirm_payment`, `Stop` an error or a death at any
point. `late` is `expires_at` in the past. Amounts, plans and promotions are left out; a
Stars `charge_id` too, since nothing looks a payment up by it.

### BulkJobs

One job. `item` is the status of each item ("gone" once its account is deleted), `disp`
the dispatch requests (asked, queued in Redis, sending, over, with their tries), `msgs` the
item tasks in the queue, `execs` the tasks suspended at an await, by place. The worker is one event
loop: code between two awaits is one stretch, held in `loop` with what it has read, and
excludes every other step of the worker; the API commits in the middle of it. `Store` is
`apply_item_result` + `recompute_counters` + commit: the job was read first and is
written only if its status changes, the items may be listed before or after the API's
commit. `runs` and `resets` count action starts and retry-failed resets for the properties.

Choices: the API handles one request about the job at a time, and each of its commits is
one step; counters are reduced to the status they decide; what the action does, and
whether the governor lets it, is a choice (`Results`).

### The modules of the worker and their composition

`MCWorker` puts fourteen modules into one specification. `part` says which of them a behaviour
is about, and stays as it is; `v1`...`v18` are that module's variables, and a module that is
checked with two sets of constants has two parts; parts about one subject are grouped
(`ClientParts`, `CommentingParts`, ...), which only saves TLC work. Each invariant of `MCWorker`
says of a part that the invariants it names hold of that module. As the modules share no state,
the reachable states of the composition are the disjoint union of theirs, and nothing is checked
less than in as many runs. It instances the modules through those that hold their proofs and
extend them, so that `WorkerProofs` can cite their lemmas. A module describes one event loop (a
step is what runs between two awaits) with the tasks that may be under way at once, and the API
as transactions of its own. `MCPanel` is built the same way.

All are safety specifications: what the worker owes the user "some time" depends on Redis
and Telegram. What would be liveness is stated as "what is not done has a task that will do
it" (`NothingDropped`, `PendingHasTask`, `NothingStranded`, `ActiveJobHasTask`), which a
test sees even less.

**ClientPool, SharedClient.** `managed` is the pool's table, `conn` the instances, `lock`
the asyncio lock, `user` where each caller is. `get` counts first and connects with the
lock held, `release` disconnects with it held. Callers forget a release (`lost`) or release
twice (`twice`, then `overdrawn`), as those of this repository do. `SharedClient` is the
abstract specification: who holds the client of an account, and whether it is open.
`PoolIsShared` is the refinement, checked step by step; a step that only counts, waits or
moves the lock is a stutter.

**Governor.** `check_and_reserve`: all windows are read, then INCR and EXPIRE of each, an
await each. `LimitsHold`: a window is overdrawn by at most the other senders, and a counter
without TTL has somebody about to set it (no death between).

**CommentDelivery.** Posts of a channel. `asked` and `due` are the two kinds of queued
tasks, `slot` the tasks that run, `claim` the SETNX key, `mark` the account's last comment.
`TakeAsked` and `TakeDue` are what a task does up to its first await: checks of campaign,
limits and pause; `ClaimSlot` takes the pause in one stretch; `Defer` is the task put off by
the governor. A death runs the task again. `DeliveryKept`: one comment per message but for a
death between sending and logging, nothing announced is dropped silently, limits and pauses
are kept but for what runs at the same time.

**ChannelSync.** The rows of one account and campaign (`rows`), with syncs, resolves and scans
as counts of tasks. `SyncReads` is what `sync_campaign_channels` settles on, `SyncCommits` its
commit: in between nothing else runs in the worker, but requests commit, and what they do to
the same rows can break the sync off (`SyncBreaks`, run again). `standing` is the account's link
and status; `StatusMoves` is an incident, a ban or a return, of which no sync is told: `drift`
says that one has come since the last sync read. `RowsSettle`: a pending row has a task, and
after the last sync the rows are those the settings want, without `drift`; `strays` are rows
that a removed folder, a link removed inside a sync, or an outlived folder or scan leaves over.

**ChannelListeners.** Apart from it, the handlers the worker holds for the rows, the pub/sub
queue between them, and restarts. The API deletes in two orders: `remove_channel` reads
(`ReadRow`), commits (`CommitsFirst`) and publishes (`PublishesDetach`);
`_drop_campaign_monitoring` reads, deletes and publishes (`PublishesFirst`), and its caller
commits (`CommitsDelete`), until when the row is locked for the worker (`RowHeld`). A resolve
commits (`ResolveWorks`), publishes (`PublishesAttach`), and may fail afterwards
(`BackfillRefused`). `HandlersFollowRows`: when no event is on its way, the working rows have
handlers and no others. `astray` are the rows for which the code is known to lose track, one
reason each in the actions that add to them: among them a resolve that commits between the read
and the delete, or publishes between the delete and its commit. No two requests delete one row
at the same time.

**Priming.** A campaign with its tick chain (`ticks`, `loop`: `TickStarts`, `Pair`,
`EnqueuePrime`, `NextTick`), executors (`primes`, `running`: `PrimeStarts`, `Flooded`,
`Store`) and the API (`Call`, then `CommitCall`, then for a start `FirstTick`: the commit is
done and the enqueue is not). `hung` is the loop without an await in which a tick hangs the
worker when the ramp limit is below the daily limit. `left` and `jammed` name the targets
and attachments nothing frees again. `PrimingKept`: a target is contacted once, a running
campaign has a tick, what is taken has a task.

**Shilling, PostMonitor, LiveReplies.** A campaign's cast and its dialogs: `openings`,
`visits`, `cues` and `subs` are the four kinds of queued tasks (sets: two identical tasks
are one, so a duplicate shows only once it has run), `stage` those that run; the parts
`shilling` and `mishaps` are the module without and with failing sends. PostMonitor is the
poll of one monitored channel with its cursor, two polls at a time. LiveReplies are the
handlers that answer people, with their events and the counter of replies per person. A PATCH
writes the status and publishes nothing (`EditRunning`, `EditStopped`), and `start_campaign` sets
`error` if the campaign is not ready by then (`StartTask`); a handler left over that way is named
(`astray`) until the next start or stop, and one that is lacking (`missing`) likewise. Part `live`
has two replies and two turns, `restarts` one reply and three. In Shilling
`reserve_enabled` may be off at any time, and a failover then only blacklists the target
(`Promotes`).

**Parsing.** `request[r]` is what a request of the API has read; it commits later
(`Command`/`CommitCommand`, `Thin`/`CommitThin`). `at` is where `parser_run` is between its
heartbeats (`BeginRun`, `OpenList`, `ReadChunk`, `Heartbeat`, `StoreTargets`). The parser
itself is one reader that finds any set of people; filters keep any part of it.

**Collectors.** The four readers of people behind `parser_run`: authors of messages
(`ReadMessage`), commenters, reactors (`ReadPost`) and members, one per behaviour (`kind_`),
with the limit, the demand for a username and what the filters would say of everybody chosen
at the start. Filters are collapsed to four verdicts (fit, barred, without a username,
unfit), the heartbeats to "the user stopped it or deleted the list" (`Dropped`).
`EverybodyAccounted`: everybody read is in the list or counted under a reason, once;
`NoMoreThanAsked`: the list has no more people than asked for, except reactors, which
are taken by the post; `AsManyAsAsked`: the reader of messages goes on until it has enough or
there are no more, except for the blacklisted and those counted before they were seen.

**Discovery.** `discover_communities` (seeds, search, recommendations level by level, mentions)
and `enrich_communities` (`Link`), chosen by `task`. Telegram's answers are sequences of at most
two different places. `passed` and `behind` are what an answer named and the loop never came to,
and which of it came after a place known already: `_add` answers no both to a known place and to
a full list, and the loops stop at either. `ResultsBounded`, `AskedOnce` (a channel is asked for
recommendations once), `NothingPassedOver` (but `behind`), `LinksAccounted` (each link is in the
list or counted). The list tells its rows apart by `input_ref`, the link itself; a place stands
for its link here, and two links to one channel are two places.

**Autopilot.** `TickStarts` makes a tick's whole plan from the snapshot it reads; `Look`
opens an action, `Make` is the transition, which commits by itself and takes with it what
the session holds, `Log` the journal row after it. The risk of an account is in tenths and
takes the values that the planner tells apart. The plan is a set taken in any order.
`StartsBounded`: no more accounts start warming than the neediest goal lacks;
`JournalComplete`: a tick that breaks owes the journal one entry at most.

**Login.** `task` are the login coroutines (`Begin`, `Get`, `SendCode`, `SignIn`,
`Password`, `Pend`, `NeedPassword`, `Finish`, `Succeed`), which share the pool's one
`client`; `key` is what Telegram knows of an auth key, `codes` the codes sent and the key of
each; `SweepLists` and `SweepDeletes` are the cron of abandoned accounts. Publishing and the
release after it are one step. DEV_MODE, flood waits and QR login are left out.
`LoginHonest`: the stored session is the one the pending code or the row's status needs, and
the word published last is true.

Some properties except what the code is known to get wrong (`lost`, `astray`, `late`,
`blurred`, `overlap`, ...). The ghost variable that holds the exception is set by the one
action that causes it, so the property still says that nothing else does; each exception is
named in the comment of its property.

### The modules of the panel

`MCPanel` puts together fifteen modules about what people do in the panel and what follows from
it. A property of it joins those of modules about one theme: `CommentsKept` is `ThreadKept` and
`BackfillKept`, `ListenersKept` is `ListenerFollows`, `StreamsKept` and `DeskKept`,
`ActivityKept` is `WarmingKept` and `TriggersKept`, `EntitlementsKept` is `IntakeKept` and
`SalesKept`, and `ChannelsKept` takes in `SweepsKept`. Several are checked in two or three
parts: the same module with other constants, which offers other operations (`Tasks`, `Errands`,
`Offers`) with bounds of their own.

**CommentThread.** Campaigns that comment in a discussion group. A comment's key is the
path of authors that leads to it, so an answer to an answer is a longer path; `due`,
`checks` and `hand` are the tasks of sending and verifying, `chat` what the group shows,
`rows` the log. `ThreadKept`: a message is answered once by an account (but for a death
between sending and logging), a row says "deleted" only of a comment that a moderator took
away (unless the group was changed or the channel is not the account's first), and what was
planned is on its way, logged or given up (`over`). `claimed` is the key that `Announce` sets and
asks for; it lives a quarter of an hour (`ClaimEnds`) and is not asked for when Redis fails
(`AnnounceUnasked`), and nothing after it looks for an earlier comment: `lapses` counts both for each
post, and as many further answers are what `OneAnswer` allows. Parts `thread` (answers,
failures), `crowd` (several accounts) and `repeat` (posts announced again).

**PostListener.** The one handler of a campaign's group: requests that change the campaign
publish before or after their commit (`TellWorker`), or not at all, the worker loads and then
subscribes. `ListenerFollows`: when nothing is under way, a campaign that is on has a handler,
and one that is off or gone has none and holds no client. `links` are all rows of
`campaign_accounts`, which the API counts, `able` those whose account is `assigned`, which alone
can carry the handler: an incident or a ban takes one (`Lapse`), and `cooldown.expired` gives it
back (`Return`) without an event. `astray` is why it need not be so - `untold` when an account
came back, or joined as a second one, and nobody asks for the handler - and only a restart of
the worker or another switch repairs it.

**Warming.** One account: the first batch, the ticks, the cron, two workers. Scenarios are what
the sign of their weights allows; whether `WARMING_AUTO_SUBSCRIBE` lets joins in that no
scenario asks for is a choice at each tick. A tick that fails is queued again or, at its third
try, given up (`GivesUp`); tries are not counted, so each may be the last. `WarmingKept`:
`Graduated` (into the pool with the actions done or the days passed, and no incident open),
`NobodyStuck` (an account whose last row is old has a tick once the cron has been by, unless a
tick was given up or lost since, `shaken`), `Rested` (an account of the pool rests between two
actions unless its ticks were `crowded`), `AskedOnly` (no profile change or join that neither a
scenario nor the setting asks for).

**Intake.** Creation, import, bulk import (a row and its fields are two transactions),
assignment, deletion of proxies, the sweep, and PATCH of a proxy, which writes its country or
its status. `LimitKept`, `OneProxyEach`, `DeadIsTold`: the accounts of a proxy that a sweep found dead
are told, if they had it then and were `assigned` or in the pool (`AtWork`; `Moves` is the state
machine that takes them there and away). Accounts in warming or cooldown, those that came later
(`since`) and those whose proxy a PATCH declared dead are not told. Exceptions: requests that overlap
(`raced`, `unlimited`) and a sweep cut short.

**ProfileMirror.** One account's name, username, picture, password and recovery email at
Telegram and in its row; each errand calls first and writes last. An imported account starts
with what it had, which the row lacks (`MirrorInit`); `PatchRow` is PATCH of the account, which
writes the row alone; `PassMail` is the email that `set_2fa` hands on with a new password and
keeps no note of (the model lets Telegram take it, though `edit_2fa` wants a callback for the code
and gets none). `MirrorKept`: with nothing under way, a field agrees unless one of these, or an
errand that broke off or overlapped, left it `stray` (for each field, the actions that can are
few and named). Parts `looks` and `secret`.

**OwnChannels.** The channels an account creates: the row, the pinned post, the place among
the dialogs, and the list of dialogs in Redis. Parts `births`, `pins`, `dialogs`.
`ChannelsListed`, `PinsTrue`, `LeftUnlisted`, each but for what is `astray` for a reason its
action names; a list that Redis takes half of, the new ids and not their pruning, is one
(`WritesAmiss`). Folders and texts are left out.

**HealthChecks, HealthScore.** One account; time is counted in periods of the cron (three
hours), and a check is due after two of them for an account at risk, after five for another.
Checks of cron, API and reruns, incidents and transitions; `DeadIsBanned`, `EventsTell`,
`ChecksCome`, with `missed`, `torn` and `back` as exceptions. `Formula` is HealthScore, where
risk is counted in ten-thousandths and the behaviours walk through the inputs: `WorseIsWorse`
says that no fact getting worse and nothing bad that happens improves a score or lowers a risk,
but for the bonus for variety. Parts `health` (incidents), `checks` (overlapping checks),
`score`.

**Scenarios.** One campaign that somebody prepared: two roles, a line each, the second an answer
to the first, two accounts. Requests whose decision and write are apart are pairs
(`AskPut`/`Put`, `AskDelete`/`Delete`, `AskPin`/`Pin`, ...); those a foreign key refuses when
what they read is gone are one step. PATCH of the campaign writes any scenario, a foreign one
too (`Repoint`), and any status (`SetRunning`), and checks neither; `adrift` names what comes of
it. `Start`, `Opens`, `Stop`, `Plan` and `Say` are the worker's part. `OneIsActive`,
`RowsRefer`, `NoStepLost`, `ReadyIsReady` (the worker does not refuse what the API calls ready),
`EveryRolePlayed`, `OneVoiceEach`. Parts `plot`, `casting`, `lines`. The order of lines is that
of their numbers; quotes, reordering, reactions, targets, products and the blacklist are not
edited here.

**DryRun.** The window (`Launch`, `Answered`, `Reset`, `Close`, `GivesUp`), the stream
(`Subscribe`, `Take`, `Relay`, `Disconnected`) and the task (`Starts`, `Publish`, `Breaks`).
Redis keeps no event for a later subscriber, so a stream is a position in what was
published. `LaunchRunOnce`; `TimelineWhole`: the window shows the last launch, from its
first step and without a gap, and all of it when it says done; `WaitsForOne`: it never waits
without a timer, and reads one stream at most. Part `again` has two launches.

**Sales.** A base price, a table of promotions (`promo`, `life`), requests of the panel
(`desk`: what was checked and what is wanted) and the payment a buyer is offered (`bill`):
`AskCreate`/`AskUpdate` check for an overlap, `CommitCreate`/`CommitUpdate` write, `ReadBase`
and `FixPrice` make the price. The ghost `clean` says that no commit came after its check was
overtaken. The row of the subscription: `Pay` is the one statement of `extend_pro`, `AskPlan`
and `CommitPlan` are the read and the write of `upsert`; `owed` counts the paid days to come,
`favour` who was given Pro. `ClashNeedsRace`, `BillWithinBase`, `PaidDaysKept`, `ProIsEarned`.
Parts `windows` (two admins), `prices` (an admin and a buyer), `members` (plans). Amounts are
cents of one currency.

**EventHub.** `LoginEventHub` and `MonitoringEventHub` have the same protocol: `Enter`,
`PassGate`, `Start` and `StartFails` are `ensure_started` with its lock, `Handle` the
listener, `Fall` its end, `BeginStream`, `Serve`, `CutOff` and `Leave` a stream. A message published
without a listener is gone. `StreamsInStep`: a stream was given what was handled since it
joined and what it wants of it, each once; `CacheIsLastLogin`; `QueuesAreRead`.

**SupportDesk.** `Write`, `PublishMessage`, `Ticket` are the user's side; `TakeUp`, `Forward`,
`StoreRelay`, `NextEvent` the notifier, one event at a time; `Reply` and `Send` a manager's
answer. A forward is known by its chat and its number in it. `StopBot` loses what the bot held
in memory and on the wire. `AnswerFindsItsUser`, `InboxIsThread`, `ForwardedOnce`.

**Backfill.** One `walk` per channel and account: `Begin` reads quota and settings, `NextBatch`
and `Read` the posts, `PassOver`, `LeaveOut`, `FilterOut`, `Schedule` one post each. Posts
`Appear` and are commented (`Comment`) in between. `PlannedOnce`, `SpreadInRun`, `WithinQuota`
speak of one run of a channel; of two together the last two do not hold (`findings`).

**BulkSweeps.** An item of `BulkJobs` seen from inside: its refs one call at a time, `Fault`
for what `around_telethon_call` makes of an error, `Timeout` and `Die` for the item's end
from outside. `served` and `stories` are Telegram's side; `lost` counts the stories no result
tells of. `ResultsAreTrue`, `DoneIsDone`, `StoriesAccounted`. Leaving channels has the steps
of reactions, and is not run apart.

**Triggers.** `execute_prime` of one account: `Pair`, `Read`, `Draw` or `Admitted`, `Resolve`,
`Call`, `Store`; `Lost` and `Raises` leave account and target taken. `applied` is Telegram's
side. `LookAt`, `Reads`, `BeatEnds` are a beat of the humanizer. `PrimedIsApplied`,
`TriggersTakeTurns`. The ramp of new accounts and the daily reset are not in it: the day does
not end within the bounds.

## Runs

Bounds are the constants in each `.cfg`. Symmetry is used for identifiers that nothing
orders, in runs without liveness properties: in `worker_modules` the tasks, channels and sessions of
a part share the values `t1`...`t3`, and accounts, stages and requests, which some initial states
tell apart, have their own; in `panel_modules` accounts, proxies, and the
requests or tasks at once are interchangeable.

| run | bounds | shows |
|---|---|---|
| `account_serial` | 2 accounts, 2 campaigns, 1 session | with one session at a time, crashes included, columns and links agree, a cooldown has a way back and a ban is final. Two campaigns are what makes a leading one and a second; two accounts make a loop that fails half-way |
| `account_concurrent` | 1 account, 2 campaigns, 2 sessions | what survives the interleaving of API and worker: the history row and the status agree, a cooldown has a date |
| `account_cooldown` | 2 accounts, 1 campaign, 1 session, fairness | every cooldown ends, although one account's refusal abandons the rest of the cron's list |
| `account_dangling` | 1 account, 1 campaign, 1 session | *violation*: an account comes back from cooldown to a campaign deleted meanwhile |
| `account_ban_race` | 1 account, 1 campaign, 2 sessions | *violation*: a transition read before the ban is written over it |
| `payments` | 2 users, 2 payments, 3 invoices, 2 sessions | nothing free, `paid` iff granted, Stars once, links to the right person. Two payments let one user have two, or two users one each; the third invoice is the one that overwrites another |
| `payments_twice` | 1 user, 1 payment, 1 invoice, 2 sessions | *violation*: cron and check both apply the payment |
| `payments_lost` | 1 user, 1 payment, 1 invoice, 1 session, fairness | *violation*: an invoice paid at the end of its TTL is expired unpolled |
| `bulk_jobs` | 2 items, 2 dispatches, 1 death or deletion | one runner per item, one run per reset, nothing forgotten, closed is closed. The second dispatch is the one of a retry; two items let one be open while the other closes |
| `bulk_stuck` | 1 item, 1 dispatch, 1 death, fairness | *violation*: a death in the middle of an item leaves it running for ever |
| `worker_modules` | two or three tasks of each kind at once, two channels, two or three rows, two to four requests, one or two deaths, failures or lost tasks, per part | the properties of the worker's modules, and that ClientPool implements SharedClient |
| `panel_modules` | two requests or errands at once, three to six of them, one or two mishaps, per part | the properties of the panel's modules |

Two of each actor is what an overlap needs; the third to sixth operation is what a property that
excepts overlaps and deaths needs to be broken some other way. Every property of a passing run
has a mutant of the code (`mutants` in `PROJECT.json`) under which the same bounds find it
broken, so no bound hides the case a property is about.

`CHECK_DEADLOCK FALSE` everywhere: ids, operations and mishaps are bounded, so a behaviour
does end (all accounts deleted, all payments paid, the job over).

The five violations are disagreements between the code and what its documents and
comments say: assigned to a deleted campaign (`modules/commenting/api/router.py:236`); ban
overwritten (`core/state_machine/account.py:241`); payment applied twice
(`core/billing/payments.py:131`); paid invoice lost (`worker/tasks/billing.py:29`); running
item stuck (`worker/tasks/bulk.py:145`). `findings` in `PROJECT.json` quotes both sides of
these and of further ones met while modelling. Those hang on a passing run: its property
excepts them by a ghost variable or a condition, and does not hold without it. Among them: the
link to a second campaign is answered 201 and rolled back
(`modules/commenting/api/service.py:94`; `AttachIsDurable` of AccountLifecycle states it and
does not hold), a client released twice, a cron that hurries the first warming, a
FloodWait that leaves a target taken, a scenario deleted while it is made active.

Why some properties are stated with a condition:

* `ContainerIffWorking`, `CooldownHasWayBack` and `BannedIsFinal` are for one session. With two
  they fail, by the same race: a transition reads, another one commits, the first
  commits only the columns it changed. `account_ban_race` is that race.
* `NothingForgotten` is for behaviours without a death or a deletion (`hurt = 0`): a death between
  the PENDING commit and the reschedule, or between the commit of the job and its
  enqueue, does lose an item. `MaxHurt = 1` in the same run lets TLC check the other
  properties through such deaths.
* `ClosedJobIsClosed` is for jobs never retried: `retry-failed` between the read and the
  write of `recompute_counters` can be overwritten with `failed`.

## Fairness

* Accounts: time passes; the cron that ends cooldowns runs again and again; an open
  session goes on unless its process dies, and it does not die every time (strong
  fairness, since a crash or another session can keep disabling it). arq's cron and the
  restart policy of the containers are the reason.
* Payments: the cron runs every two minutes (`worker/tasks/handlers.py:417-423`), and
  neither the provider nor the process fails every time.
* Bulk jobs: queued tasks are taken and go on; the governor's windows expire, so an item
  is not turned away for ever; every action ends, by `asyncio.wait_for`.

Nothing is assumed of users, of buyers, of incidents or of deletions.

## Proofs

TLAPS checks, for every value of the constants, what follows. The assumptions (`NullAssumption`,
`PaymentsAssumption`, `BulkAssumption`, those of the modules of the worker and the panel, and
`WorkerAssumption` and `PanelAssumption`, which join the latter) only say that ids and NULL
differ, that ids of payments, targets and posts, limits and bounds are numbers, that the tasks,
users, channels and rows at once are finitely many, that a login task has a try, a person may
have a reply (`_MAX_REPLIES` is 3) and a discovery a level (`depth` is at least 1 in its
schema), which dispatch is the first, that the rotation has a trigger, the hours of warming are
hours of the day and its thresholds are not 0, and that a cut in percent is between 1 and 95, as
`promotions.py` demands; TLC evaluates them in the runs.

Each proof has the shape Init => Inv, Inv /\ [Next]_vars => Inv', Inv => property, with one
lemma or step per action and one step per conjunct below it. Every inductive invariant was
first an INVARIANT of a run of TLC. What makes each inductive:

Accounts (`AccountLifecycleProofs`)

* `TypeHistoryInvariant`: types, and history tells the status, for any number of
  overlapping sessions. The pair is inductive by itself: a transition always writes the
  status column (its target differs from what it read, `ApplyType`), whatever is in the row.
* `CooldownDateInvariant`: `CooldownHasDate`, for any number of overlapping sessions. The
  only rule into `cooldown` is the one that writes a date (`DatedRule`), a transition
  always writes the status column, and a new date always differs from the one read; so
  whatever row the UPDATE falls on, status and date arrive together.
* `SerialInvariant`: with one session, `ContainerIffWorking` and `CooldownHasWayBack`.
  `SerialInv` adds that the snapshot of an open call still is the row but for the clock
  (`SameButClock`), and that a container waiting to be moved belongs to an account that has
  one. That freshness is exactly what a second session takes away.
* `SerialLinked`: with one session, `ContainerIsLinked`. `MovesOK` adds what a campaign's
  deletion has in its hands between its flush and its commit: who leads with the campaign that
  goes is sent to another one it is linked to, and who is not sent anywhere leads with
  another; `LinksStay` says which changes of links and containers keep the property.
* `SerialBannedIsFinal`: the action property, from the same invariant.

Payments and bulk jobs (`OrdersProofs`)

* `PaymentsSafety`: types, `NoFreePro`, `PaidIffGranted`, `StarsGrantedOnce`,
  `InvoiceOfItsBuyer` for any number of sessions. The invariant `IInv` adds what a session
  knows (`SessionOK`: the invoice id it remembers leads back to the payment it checks and is
  paid once the provider has said so; the bot handles what Telegram charged). Tables only grow
  (`Grows`), so what a session knows stays true; each action is shown to respect that.
* `SerialGrantedOnce`: with one session no payment at all is granted twice. Together with
  `payments_twice` it says precisely what is missing: the overlap.
* `BulkSafety`: the five invariants of `bulk_jobs` for any items, dispatches and bound on
  deaths. The invariant `BulkInv` adds what a stretch of worker code rests on (`LoopInv`,
  `ReadInv`: an item read pending has nobody at work and was at most cancelled or deleted
  since), that a claimed item has a run left (`RunLeft`), that an item the dispatch did
  not see has another task coming (`DispatchInv`), and that before a retry what was read
  closed stays closed (`UnretriedInv`).

Client pool (`TrafficProofs`)

* `PoolImplementsSharedClient` and `CountIsExact`: the pool, with its counts, its lock and its
  awaits, implements SharedClient for any accounts, users and instances. The invariant is the
  exact count (`RefsExact`) for accounts nobody gave back twice, and that whoever is under
  way has an account. Every action is one of four things to an account the abstract pool
  knows - it takes a reference (`Takes`), gives it back (`Gives`), leaves it behind (`Leaves`)
  or does nothing (`Quiet`) - and each of the four keeps the count and is an abstract step or a
  stutter; that the last reference closes the client is where the cardinality is needed.

What the worker sends (`TrafficProofs`)

* `GovernorLimits`: `LimitsHold` for any tasks, windows and limits. The bound counts, with a
  window's counter, the tasks that were let through and have yet to increment it (`Pending`);
  with that it is inductive.
* `CommentsInPace`: `OneCommentPerMessage`, `NothingDropped` and `PaceKept` for any accounts,
  messages and tasks at once. `DeliveryInv` adds, as long as no task is rerun and no claim lost,
  that a message has one claim and after it one task at most, queued or in a slot (`OneTask`),
  that a claimed message has its task or its end and an announced one may also wait for its
  claim (`Traced`), that what is being logged is over already (`LoggedIsOver`), and, whatever
  happens, that the mark of an account is not older than the moment a task was let through at
  (`MarkIsLatest`): the pause follows from the mark, never from the order of the tasks.
* `PrimedAndReleased`: `ContactedOnce` and `NothingStranded` for any attachments, targets, ticks
  and loops. `PrimeInv` follows the pairs of an account and a target: an attachment and a target
  have one pair at most, and nobody has started on a target before its pair starts (`LinksOK`,
  `GoalsOK`), no pair is in two places (`LoopsOK`), and without a fault a working attachment
  and an assigned target have a pair somewhere or are accounted for (`Accounted`). That a new
  attachment of the same account is told apart by its id is what keeps an old task harmless.
* `DialogsAreKept`: `DialogKept` of Shilling for any cast, scenario and tasks at once.
  `ShillInv` adds how far a task is at each place (`StagesFit`), what the queues hold
  (`QueuesFit`), that without a mishap a line has one copy anywhere and none once it was said
  (`CopiesFit`), and that whoever has a line plays one part, a reserve none before he is
  promoted (`PartsFit`).

What the worker listens to (`TrafficProofs`)

* `RowsFollowSettings`: `PendingHasTask` and `SyncSettles` for any links, folders, edits and
  changes of the account's status. `RowsInv` says `SyncSettles` of a sync between its reading
  and its commit too (`Settling`: what is unwanted is among what it will drop, what is missing
  among what it will create, as long as no other sync was asked for), and adds that what it
  decided on is kept (`ReadingOK`) and that rows are numbered as they come (`RowsInOrder`); that
  a sync numbers a new row for every link it lacks is `ListsAll`, about SetToSeq of a finite
  set.
* `HandlersAgree`: `HandlersFollowRows` for any channels, removals in either order and
  incidents. `ListenersInv` says it channel by channel (`Agrees`: handler and row agree, or an
  event that makes them agree is on its way), from load_all on, and that only a worker that is
  subscribed has events.
* `CursorKeepsPosts`: `EachPostOnce` for any number of polls, posts, deaths and any batch. The
  invariant adds what a poll knows (`PollKnows`: what is below the cursor it read is covered;
  what is below the one it will write is covered or in its hands) and, for polls one after the
  other, that what has its dialog is below the cursor or was enqueued by the poll under way
  (`OneAtATime`). That the oldest of some posts leave no gap (`OldestClosed`) is what the mutant
  `FetchNewest` breaks.

What runs in the background (`BackgroundProofs`)

* `ParsingSafety`: `ActiveJobHasTask` and `CountIsRows` for any jobs, lists, people and requests.
  `ParInv` adds what a request has in hand (`RequestsFit`), that deletions under way share no
  row and count no less than what they leave, exactly that unless two overlap (`ThinsFit`), and
  that a job has no targets before it stores them (`StoredOnce`).
* `ListsAreComplete`: the three properties of Collectors for any people and limits. `CollectInv`
  adds what a collector has counted at each point of its reading (`CountsFit`); the argument
  is about cardinalities of those read, counted and kept.
* `ResultsAreHonest`: the four properties of Discovery for any places, limits, depths and answers.
  `DiscInv` adds how far the walk has come (`WalkFits`: on the first level a seed was asked as
  often as it occurs among those done; after it, what waits in this level and the next is found,
  of the kind that is asked, never asked, and nowhere twice), and counts the links (`LinksFit`).
* `TicksAreHonest`: `StartsBounded` and `JournalComplete` for any fleet, goals and owners.
  `AutopilotInv` adds that the accounts sent and still to be sent into warming fit into what the
  neediest goal lacked (`StartsFit`) and that one transition at most waits for the next commit.

What is between a person and the worker (`SessionProofs`)

* `LoginsAreHonest`: `SessionFits` and `WordTrue` for any overlapping logins, codes, keys,
  retries and deaths. `LoginInv` adds what each place of a task says of the request it serves
  and of the client's key (`PlacesFit`), that while there is a client the row has its session or
  none yet (`SessionKept`), that without trouble a key signed in is stored or about to be
  (`SweepSpares`), and, unless requests crossed, that tasks at once serve the same code (`InTurn`).
* `RepliesInStep`: `StoppedIsSilent` and `RepliesBounded` for any bots, replies, requests and
  deaths, and whoever writes the status. `LiveInv` orders what is on its way: events, then what
  requests have yet to publish; the newest says what the campaign is but for a status nobody
  was told of (`NewestIsStatus`), and handlers are those that the rest of the queue will correct
  (`HandlersFit`). The limit follows from one run per reply (`OneRunEach`)
  and from who has counted and not yet passed (`GateCounts`).

The run of the worker (`WorkerProofs`)

* MCWorker runs its modules one at a time over the same variables `v1`, `v2`, ... chosen by
  `part`. For each module there is a lemma `...Stays`: its inductive invariant, under the
  condition that `part` is that module, is one of `WorkerSpec`, from the module's own lemmas.
  The theorems carry every invariant of `worker_modules` over to `WorkerSpec`
  (`WorkerTypes`, `WorkerLimits`, `WorkerDelivery`, ...), and `WorkerPoolIsShared` the
  refinement, so that what TLC checks on the instance is what is proved for all constants.

What the panel and its services keep (`ServiceProofs`)

* `MirrorIsKept`: `MirrorKept` for any errands at once. `MirrorInv` follows each errand: what it
  has found so far is what Telegram has, unless another errand handles the field too
  (`FoundIsSo`), both of two that meet know it (`ErrandsApart`), a field that differs is one an
  errand has told Telegram and will write (`FieldKept`), and the code waited for is that of the
  address the row is to take (`CodeAwaited`).
* `StreamsAreKept`: `StreamsInStep`, `CacheIsLastLogin` and `QueuesAreRead` for any streams.
  `HubInv` adds that the listener has before it exactly what was published and not yet handled,
  and that there is one at most (`TapFits`), because only who holds the lock starts it
  (`StartsAlone`).
* `HandlersFollow`: `ListenerFollows` for any accounts and requests. `PostInv` says, while
  nothing went astray, that a handler that has to go is told so by an event or a request
  (`OffIsTold`), that one that is wanted is there, asked for by the last event, or about to be
  (`OnIsTold`), and that the event of a deletion comes last (`DeleteIsTold`).
* `DeskIsKept`: `AnswerFindsItsUser`, `InboxIsThread` and `ForwardedOnce` for any users and
  managers. `DeskInv` adds that a message is in one place on its way (`OnTheWay`), that a relay
  names the user of the message it stands for (`RelaysFit`), and an answer that of the message
  it answers (`AnswersFit`).
* `IntakeIsKept`: `LimitKept`, `OneProxyEach` and `DeadIsTold` for any phones, proxies and
  requests. `IntakeInv` adds that the count read still leaves room when the row is inserted
  (`RoomIsThere`) and that a proxy picked is nobody's until it is given (`PickIsFree`), unless
  requests raced.
* `SalesAreKept`: `ClashNeedsRace`, `BillWithinBase`, `PaidDaysKept` and `ProIsEarned` for any
  admins, buyers and prices. `SalesInv` adds that a check under which no row changed still holds
  (`DesksHold`), so that the table stays free of overlaps until a check was stale
  (`TableApart`), and how a row of a subscription tells its days (`TermsFit`).
* `WarmingIsKept`: the four properties of Warming. `WarmInv` adds that the rows kept tell of no
  more actions than were done (`Counted`) and, while ticks were not enqueued over each other,
  that the tick is alone and still due (`Lone`).
* `TriggersAreKept`: `PrimedIsApplied` and `TriggersTakeTurns`. `TriggerInv` adds what a run has
  in its hands (`RunFits`: the trigger whose turn it is, and an outcome that says primed only of
  what was applied) and that the counters of the account are those of the log (`RowIsTold`).

The run of the panel (`PanelProofs`)

* As for the worker: each `...Stays` says of one part of `MCPanel`, and there are eleven, that its
  inductive invariant is one of `PanelSpec`. `PanelMirror`, `PanelListeners`, `PanelEntitlements` and
  `PanelActivity` carry `MirrorKept`, `ListenersKept`, `EntitlementsKept` and `ActivityKept` over.

Only model-checked

* Of the invariants of `panel_modules`: `CommentsKept`, `ChannelsKept`, `HealthKept` and
  `ScenariosKept`, and `PanelTypeOK` as far as it speaks of their modules (CommentThread,
  Backfill, OwnChannels, BulkSweeps, HealthChecks, HealthScore, Scenarios, DryRun); the types of
  the other modules are in their theorems.
* `CooldownEnds`: liveness, which rests on ENABLED through its fairness.
* The violations: a counterexample is what they are about. What is proved next to them says
  what they need (`SerialGrantedOnce`, the theorems for one session).
* What the ghosts of exceptions except is reachable (the mutants and `findings` show it); the
  proofs say that nothing else breaks the properties.

## Not modelled

* Telegram, Crypto Pay and the language models are choices of answers; nothing is said of what
  they do with what they are told.
* The text of messages, prompts, folders, pictures; the second currency; geography beyond a
  country per proxy and phone; random delays, which are the shortest or a choice.
* Personas and proxies set in bulk, the bot's notifications and statistics, captcha,
  fingerprints, file formats of imports, QR login.
* The frontend but for the window of the dry run: it reloads what the API says and keeps no
  state across requests. Migrations, deployment and documents.
* Composition through the database between components is a choice of the other's effect (see
  above), not one large model: a campaign's row deleted in the middle of a delivery is `Delete`
  in CommentThread, an account banned in the middle of a warming is `Elsewhere`.
* A line's quote: `find_posted_message` takes the newest message of the replied step in the
  target, which may be of another dialog; Scenarios and Shilling do not say which message is
  quoted.

## Plan

What is left, in this order:

1. Proofs for the rest of the panel's modules: DryRun and Scenarios, whose argument is about
   overlaps, then CommentThread, OwnChannels and BulkSweeps, with Backfill and HealthChecks last.
2. Abstract specifications: a ledger (each paid order ends in at most one period) that
   `Payments` with one session implements; a job item run at most once per reset, for
   `BulkJobs`.
3. Liveness of one part at a time (a due comment is posted, a priming campaign ends) in
   a run of its own with the fairness of the queue.
4. QR login, the notifications of the bot, the ramp and daily reset of priming.
