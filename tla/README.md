# Firebat in TLA+

TLA+ models of [Firebat](../src/README.md), a self-hosted assistant: a Rust core
(tokio, hexagonal: `core/` holds managers and ports, `infra/` the adapters) and a
Next.js process (`app/`) that talks to it over gRPC. The modules below model the
parts whose correctness depends on interleaving, on crashes or on stale reads, and
leave alone what is formatting, SQL, rendering or a call to somebody else's server.

Contents: 1 inventory, 2 plan, 3 modules and how they correspond to the code,
4 runs, 5 bounds, 6 fairness, 7 proofs, 8 what the runs found, 9 not modelled.

## 1. Inventory

### Parts, their state, how they interact

| Part | Code | State it keeps | Operations |
|---|---|---|---|
| Approval-card store | `core/src/utils/pending_tools.rs` | map of cards behind a mutex, `pending-tools.json` | create, attach to a conversation, list, get (with a file fallback), consume, reject |
| Approval routes | `app/api/plan/{commit,reject}`, `app/api/hub/[slug]/plan` | none; each request holds a record across awaits | approve, reject; by the admin or by a hub visitor |
| Cron adapter | `infra/src/adapters/cron.rs` | job registry and `cron-jobs.json` (one mutex), task handles (another), logs, notifications | schedule, cancel, trigger_now, restore, the loop of each job |
| ScheduleManager | `core/src/managers/schedule.rs` | none of its own; runs in flight | schedule, cancel, update and their owner-checked forms, handle_trigger |
| Module schedules | `core/src/core_facade.rs`, the settings in `core/src/managers/module.rs` | which declared files have been registered, per module, inside the settings object that the enable switch and the settings screen write too | sync of one module, of all at start-up |
| Market-data streams | `infra/src/adapters/ws_stream.rs`, `core/src/managers/module.rs` | instances of watches, connection tasks with a command queue, the manager's list and its copy in the vault | start, stop, restore, relaunch; connect, subscribe, redeclare, ack, reconnect, give up |
| Token provider | `infra/src/adapters/{token_provider,sandbox,ws_api}.rs`, the login route | tokens in the vault, a lock per slot | ensure_fresh, a call with one forced retry, a login |
| Build session | `core/src/utils/build_session.rs`, three tools of `core/src/tool_registry.rs` | map of builds behind a mutex, `build-sessions.json` | create, advance one step a turn, finish, adopt, read back |
| AI tool loop | `core/src/managers/ai.rs`, `core/src/utils/tool_cache.rs` | one turn: its counters, closed tools, verdict, cards | ask the model, correct it, run or refuse its calls, judge the round, end |
| Plan store | `core/src/utils/plan_store.rs` | map behind a mutex and a file | store, get |
| StatusManager, EventManager | `core/src/managers/{status,event}.rs` | badges of jobs; subscribers | start, update, complete, fail, gc; publish |
| Pipelines | `core/src/managers/task.rs` | values of a run's steps | execute steps, conditions, error policy |
| Result cache | `core/src/utils/{sysmod_cache,cache_owner,auto_cache}.rs` | file pairs per key | put, read, drop by owner, sweep |
| Modules, sandbox | `core/src/managers/module.rs`, `infra/src/adapters/sandbox.rs` | enable switches, processes | run, configure |
| Conversations, pages, memory, media, library, hub, auth, vault | the managers of those names | SQL tables and files | CRUD with their own rules |
| Admin client | `app/admin` | chat stream state, card buttons | see `hooks/chat-manager.ts`, `hooks/useChat.ts` |

How they interact: the AI loop mints a card when the model asks for something
destructive; a person's click reaches a route, which calls the store, then the part
that acts (modules, storage, pages, schedule), then the store again. The scheduler's
loop calls `handle_trigger` through a callback; a run calls the AI loop, a pipeline or
a module, and may cancel its own job. A module run and a stream's login ask the token
provider first. A turn of the AI loop opens the gate of a build at its start, calls the
build tools, and shows or adopts the build at its end. At start-up `main.rs` spawns the
module reconciliation, which registers jobs, and only afterwards restores the jobs of the
file; the watches of the vault are restored beside it.

### What is hard

- *Reads used after the lock is gone.* The fallbacks of the card store and of the build
  store read the file with the mutex released and then merge over the map. The adapter
  checks for a duplicate under one lock, aborts under a second, inserts under the first
  again. `persist_watches` reads a list under its lock and writes the vault without.
- *Acting before recording.* A commit sends the order, then consumes the card. A token is
  stored before the refresh token that came with it.
- *Aborts at an await.* Cancelling a job aborts a task that may be asleep, inside its
  run, or past it; a one-shot run cancels the very task it runs in. A request whose client
  goes away is dropped at an await, perhaps with a token slot's lock in hand.
- *Crashes.* The files are truncated, then written; maps, handles, sleeps and sockets are
  lost; start-up throws some jobs away on purpose and keeps watches it could not restore.
- *One object, many writers.* A module's settings are read, changed and written back whole
  by the enable switch, by the reconciliation and by a browser that read them long ago.
- *Queues that die with their reader.* A connection task ends with registrations unread.
- *A gate in sections.* Advancing a build is four or five critical sections with other
  turns in between.
- *A loop whose other side does as it likes.* A model repeats calls, searches for ever,
  calls tools that were taken away, or says it did what it did not.
- *Two processes.* The web process may die with an order sent and the card still armed;
  the core may die while the web process waits.
- *One conversion, two readers.* A time without an offset is read in the zone of its job by
  the code that schedules it and in the zone that is set by the code that restores it; a
  refresh token is read under one name of the vault and written under another.
- *Numbers.* Size limits that evict, deadlines, milliseconds used as identities.

`PROJECT.json` lists every hazard at its line with the properties that watch it.

### What makes each part correct

- Cards: what is approved is what was asked for; nothing is sent after its deadline;
  a settled card stays settled; another visitor's card is out of reach; the file keeps
  up with the map; every request is answered.
- Scheduler: one task a job; only what is registered is run; a one-time job runs at
  most once and, if it is in the future, at least once; a one-shot that succeeded is
  gone; the file is the registry.
- Module schedules: a declared schedule of an enabled module is on the clock unless
  its owner deleted it; a withdrawn declaration leaves; what the owner deleted stays away.
- Streams: one socket per shared connection; what is served is what is registered; a live
  socket was asked for all it serves; every start is answered; the vault has the list.
- Token provider: the newest token is kept, an expiry costs one fetch, a retry has a newer
  token, the newest refresh token is kept, every call ends.
- Build session: no step without its user's answer; what was seen of a build is kept; the
  file keeps up; a visitor's build stays in its scope.
- AI loop: a turn ends with an answer; a person decides what needs approval, once; limits
  hold; an answer with nothing behind it says so.
- Status: every badge that was opened is closed once; the cap holds.
- Cache: an entry lives as long as its owner and no longer; no reader sees a half entry.

## 2. Plan

Order: the parts that move money or run unattended first. Done:

1. **Approval cards**: `PendingTools` (store), `PlanCommit` (routes over it),
   `ApprovalCards` (abstract card, implemented by the routes one request at a time),
   `PlanCommitProofs`.
2. **Scheduler**: `CronAdapter`, `ScheduleManager` (extends it), `JobTable` (abstract
   scheduler, implemented by `ScheduleManager`), `ScheduleProofs`.
3. **Module schedules**: `ModuleSchedules` over an abstract scheduler (a table that
   refuses), `ModuleSchedulesProofs`.
4. **Streams**: `StreamConnection`, `StreamWatches` (extends it), `StreamProofs`,
   `StreamServedProofs` (extends that).
5. **Token provider**: `TokenProvider`, `ModuleCalls` (extends it), `ModuleCallsProofs`.
6. **Build session**: `BuildSession`, `BuildTurns` (extends it), `BuildProofs`.
7. **AI tool loop**: `ToolLoop`, `ToolLoopProofs`.

Left, in this order:

8. **Status and events**: cap and life cycle of badges, composed with `ScheduleManager`'s
   runs; `CronAdapter` in place of the table under `ModuleSchedules`.
9. **Result cache** (owners, sweeper, boot sweep, crashes) and **plan store** (the card
   store without consume).
10. **Pipelines, conversations' merge, admin chat stream** as operators or small machines
    checked against a reference definition.

Theorems still wanted: the measure of a build's turn and of a stream's connection, and that
`ModuleSchedules` still holds when the scheduler under it is `JobTable`, where an edit is a cancel
and a registration.

## 3. Modules and the code

Definitions named `Bug_...` are seeded faults that no specification uses: each property is
checked to fail when one of them takes the place of the operation it is a fault of. The `MC`
modules hold only instances, symmetry and views.

### PendingTools, PlanCommit, ApprovalCards

`PendingTools` is the store. `mem` and `loaded` are the `OnceLock` map (the file is
read at first use), `file` is `pending-tools.json`, `lock` says who holds the mutex
across a flush. A critical section that does no I/O is one action; `flush` is two
(`BeginFlush`: truncated, `EndFlush`: written), because a reader without the mutex or a
restart can come between. A file that does not parse counts as empty, as every reader
has it. `create_pending_in` is whole: drop the expired, evict the oldest at `MAX_SIZE`,
insert, flush. `minted` is history: the record each planId was created with.

`PlanCommit` gives each request a program counter: `get_pending` is up to three steps
(`Get` under the mutex, `Read` of the file without it, `Merge` under it again), then the
route decides (`Send`, `Refuse`, `HubReject`), waits (`Answer`) and settles: again a
`get_pending`, then `Remove`. `CoreCrash` and `WebCrash` are separate: what the web
process had asked of the core completes there without it (stage "orphan").

`ApprovalCards` has no store: a card is minted, sent while open, settled. `CardsSpec` is
`PlanCommit` under the mapping status = unborn, open or settled by what has been
answered.

### CronAdapter, ScheduleManager, JobTable

`jobs`, `file`, `writing` are the registry, its file and its mutex while it flushes;
`tasks` the handles; `loops` the tokio tasks with their place in `spawn_task`. What a
task does between two awaits is one step: look at the registry and take a copy (`Arm`),
wake and call back (`Fire`), come back and clean up (`Return`). `Aborted` is
`JoinHandle::abort`: at once for a task at an await, and for one that has no await left
before its clean-up, after it (`doomed`). `schedule` is four steps of the caller
(`Check`, `Abort`, `Insert`, `Spawn`), as the two locks are taken and released four times;
`cancel` is one, since it holds the handles while it takes the registry.
`Load`, `RestoreFilter`, `RestoreRemove`, `RestoreSpawn` are `new` and `restore`.

`runAt` and `endAt` are times without an offset. `Instant` reads one in a zone (`Late` is how much
later it comes there), and the code reads them in two ways. `schedule` and the task read them in
the zone of the job (`ZoneOf`): the one it is pinned to, which is the one that was set when it was
registered unless it asked for another (`Pinned`), or, of a job that `Follows` the setting, the one
that is set at that moment. `restore` reads them in the one that is set, whatever the job says
(`NotRestored`, for an `endAt` of any mode and for the `runAt` of a once job). `SetZone` moves the
setting; tasks asleep keep the time they have read.

`ScheduleManager` adds the requests and the runs. A run belongs to the future it is
executed in: a task, or the request of `trigger_now`. A request can be dropped at each of its
awaits (`Disconnect`): an immediate run, and the three places where it waits for the lock of the
handles (before the abort of a cancel, of a registration, and before the spawn).
`Begin`, `GateMet`/`GateSkip`, `Retry`, `GiveUp`, `Succeed`, `Retire` are
`handle_trigger`. `Call` lets the admin's registrations and cancels begin before
start-up is over, since the module reconciliation does. Histories: `fired`, `again`,
`done` (registrations run, run twice, succeeded as one-shots), `stranded` (registrations whose
request was dropped before the spawn; a restart gives them their task), `raced`: names in whose
registration two operations have been at once, or whose one-time job took another of its name out
with it; and `retimed`: registrations whose time was read in two zones, by a restore in another
zone than their own (`Misread`) or by a change of the zone they follow (`Move`). The safety
properties of tasks hold outside `raced`, and what is said of a time outside `retimed`; inside them
a name may have two tasks, and a once job may run twice or be dropped before its time (section 8).

`JobTable` has no tasks, handles, flushes or start-up: a table of jobs that outlives the
process, and the runs under way. A job is registered where nothing is, cancelled together with
its runs, run on time (a one-time job once, and not early) or by hand, and leaves for good with
its success, its end or a restart that finds it over. `JobTableSpec` is `ScheduleManager` under
the mapping `table` = the registry, or what a start-up would load while the process is down;
`running` = the registration each task or request runs; `ran`, `retired`, `disputed`, `next`,
`setting` = `fired`, `done`, `raced`, `gens`, `timezone`. The whole table is lost only to a crash in
a flush (`Lose`). The table has its own, single reading of a time (`Shift`: the zone a job is pinned
to, or the setting). Of a name whose registrations have overlapped (`disputed`) it promises less,
and so of a registration in `retimed`, which `Judge` (a restart finds a job of another zone) and
`Move` enlarge: only such a one may run a second time, or leave at a restart without being over by
its own reading. Section 8 says what the code then does.

### ModuleSchedules

`settings` is the module's object in the vault (`enabled`, the schedule files its rows switch
`on`, the `record` of files registered once); `screen` is the copy in the browser, which a save
writes back whole (`Open`, `Save`); `disk` are the declared files, `live` the jobs on the clock
under the module's names. `at` and `work` hold each reconciliation: `Toggle`/`Enable` and `Save`
begin one, start-up's is the task `Boot`. Every await of `sync_module_schedules` ends a step:
`Declare` reads the files, `Branch` the settings, `Look` the clock and chooses what is stale or
fresh, `Repair` and `Register` are the cancel and the schedule of one file, `Registered` and
`Withdraw` the orphans (or all, when the module is off), `Withdrawn` decides whether the record
changes, `Fetch` and `Record` are the read and the write of `set_registered_schedules`. `Drop` is
a request whose client goes away at an await, `Crash` a restart, which reconciles anew. `Leave`,
`Edit` and `Change` are the owner (or a one-time job that ran) and a new version of the module.

`gone`, `calm` and `lost` are history: how a job left the clock (with nothing under way and its
file on record: "kept"), whether the last reconciliation ran alone to its end on what is still
declared, and the files whose live job the record has not had, or has had no more: found at the
first start, registered by a reconciliation that a crash or a dropped client ended before its
record was written, or taken out of the record by settings written from an older copy.
`declaration_is_live` is that of the code: what the file says is among what the job says, which may
say more. Hence a file's content is the set of the options it sets, one of a few, some of which the
scheduler refuses. Abstracted: the order of the declarations is any fixed one; reads of the settings that no await
separates are one step; one module, as two share nothing; the scheduler is a table that refuses
a duplicate, which is what `CronAdapter` gives callers whose registrations do not overlap.

### StreamConnection, StreamWatches

Every `start()` makes an instance of a watch (`inst`: its status and the channel that tells
`start()` how the first subscription went). `conn` holds the connection tasks, named by the
instance whose `start()` spawned them; each is at the top of `conn_loop` (`Idle`, `Connect`,
`Retry`), in a handshake (`LoginRejected`, `Lost`, `Subscribe`, `CutOff`), in a live session
(`TakeAdd`, `TakeRemove`, `Redeclare`, `ReadAck`, `Dropped`), waiting to reconnect, or over
(`Cancelled`, `LoginGivenUp`, `End`). `cmds` is its queue, `asked`, `refused` and `wire` the
other end of the socket, `handle` the entry `conns` of a shared connection. `mode` is what the
module declares: `share`, `replaces`, `acks`, `names`. `End` drops the channels of what the
task held and of what it had not read, which `start()` takes for success.

`StreamWatches` adds `tasks` and `watch_conn` of the adapter, `watches` of the manager, `vault`,
and the callers with their places in `start_stream`, `stop_stream`, `restore_streams` and
`relaunch_missing_streams`: `Cancel` or `Detach` an old instance, `Launch`, `Start` (join or
spawn), `Bind`, wait for the verdict (`Registered`, `Rejected`), `Forget`, and the two halves
of `persist_watches`, `Collect` and `Save`. `Crash` restarts with what the vault has. Histories:
`marred` (a watch restarted, called for twice at once, or whose refusal a lost socket cut off),
`raced` (two calls at once on the list), `unrestored`.

### TokenProvider, ModuleCalls

One slot: that of an account (`Policy.account`), or the one without. `slot`, `secret` and `lock`
are the token in the vault, the refresh token where this slot reads it, and the slot's async lock; `issued`, `good` and `renewals` the issuer, which is external: on a venue of
`Policy.single` a new token ends the older ones, on one of `Policy.refresh` the request carries
the refresh token, and the answer may replace it. `ensure_fresh` is `Cached` or
`Fetch`, `Issue`, `Store`, `StoreRenewal`, with `FetchFails` and `AnswerLost`. Slots share the
refresh token: each reads its own account's, and all store a replacement under the name without an
account. `StoreRenewal` of an account's slot therefore leaves what it reads as it was, and the slot
without an account may find the token of another account there (`AccountRenews`, `Foreign`), which
the issuer takes, as it knows it. `ModuleCalls` is
what calls it: `Begin`, `Run` (the sandbox reads the token from the vault again when it starts
the module, the socket call uses the one it was handed), `Answered`, `Invalid` with one forced
retry, `LoginRefused` (a socket call whose login is refused is an error, with no retry); `Cross`
is `AccountRenews` by a call of another account; `Exchange`, `SetAccess`, `SetRefresh` are the login route, which takes no lock; `Expire`
and `Revoke` age a token, `Drop` ends a request at an await, `Crash` the process. Histories:
`lost` (tokens that never reached the vault), `unrenewed`, `raced` (a login met a fetch).

### BuildSession, BuildTurns

`mem`, `loaded`, `file`, `flushing` are the store, as in `PendingTools`. Sessions are numbered by
creation; `now` stamps every change, `old` and `spent` say which sessions are past
`SESSION_EXPIRE` and which stamps past the hour in which an orphan may be adopted. `home` is
the scope a session was started in. Histories: `replies` (turns of the user in its
conversation), `shown` (the furthest it was seen to be), `merged` (what a fallback overwrote).

`BuildTurns`: a turn begins with `reset_awaiting_for_conv` (`Begin`), looks its build up
(`Look`), calls the tools, each critical section a step (`StartBuild`; `SetTier`, `SetAuto`,
`SetOutput`, `AdvanceOk` or `AdvanceErr`; `Read`, `Emit` and the three sections of
`get_session`: `GetSession`, `ReadFile`, `MergeFile`; `CancelBuild`), and ends with the lookup
or the adoption of an orphan (`Respond`, `Adopt`) or by being dropped (`Leave`). `open` in a
turn is the build whose gate its own start has opened.

### ToolLoop

One turn of `process_with_tools_opts_with_emit` for a model that calls functions. `at`, `round`,
`queue` are the place in the loop; a round is `Replay` (an approved plan's compiled calls) or
`Ask`, unless the budget is used up before either (`OverBudget`) or the model fails (`Fail`), then one dispatch action per call, then `GoOn` or `EndForReader`. A round without calls is
`Correct` (three corrections, each once) or `Finish`. Dispatch is the order of the code's
branches: the dispatcher's approval gate (`RefuseGuarded`, `MintGuarded`), then for what it let
through the charge (`Pass`) and `Unparseable`, `Capped`, `Duplicate`, `Refuse`, `MintOrder`,
`Serve` (the idempotency cache), or a run that is done, hollow (it answered that it did not
succeed) or failed. `Judged` is the end of a round: `Narrowed`, `Burnt`, `ForceFinal`, `Orbit`,
`Stall`. `Evidence` is a success of a tool that is neither discovery nor reading; it reopens
what a stall has closed. `Lapse` is the cache's 60 seconds or its eviction by other turns.
`cards` and `ran` are history. What the model says and what tools answer is any choice of what
the control reads of it: text that is empty, plain or has a fence; calls of any tool. Who
waits for the turn is `mode`: a person, a visitor, a schedule, a parent turn.

## 4. Runs

Sizes are distinct states and the seconds of two TLC workers on a small machine.

| Run | Checks | Shows | Size |
|---|---|---|---|
| plan_commit | NoStaleOrder, ApprovedAsMinted, SettledNotResent, MemoryOnDisk | two racing requests, eviction, expiry, fallback, a crash of either process | 993k, 71 s |
| plan_one_request | HubOwnCards, CardsSpec, ClickAnswered | one request at a time, by the admin or visitors of two scopes, over one card of any kind that a conversation may claim: the routes implement the abstract card, a visitor reaches no other card, every request is answered, crashes included | 275k, 55 s |
| plan_two_clicks | OneOrderPerCard, violated | section 8 | |
| schedule | OneTaskPerJob, FiresRegistered, JobsHaveTasks | schedule, cancel, edit, run-now on one name by two callers, three tasks, requests dropped at their awaits | 368k, 28 s |
| schedule_restart | OnceFiresOnce, OneShotRetired, JobTableSpec, OnceJobRuns | every kind of job through a crash, a restart and a change of the time zone, pinned to either zone or following the setting: the scheduler is a table that outlives its process; a once job is run once and not forgotten | 549k, 169 s |
| module_schedules | ClockFollowsDeclarations, NewSchedulesArePickedUp, OffMeansOff, RecordedStaysDeleted | start-up and a request reconcile a module of two files while files change, jobs are edited and deleted, the screen saves, and a crash or a dropped request leaves a reconciliation half done; an owner's edit or a new version of a file may say more or less than what is on the clock | 3.27M, 91 s |
| module_deleted | DeletedStaysDeleted, violated | section 8 | |
| streams | OneSocket, ServedIsRegistered, LiveIsAsked, ListIsSaved, StartsAreAnswered | two requests and start-up start, stop, restore and relaunch two watches on venues of four kinds that drop sockets and refuse logins and subscriptions, through a crash | 400k, 51 s |
| streams_lost | RegisteredIsServed, violated | section 8 | |
| tokens | SlotIsNewest, OneFetchPerExpiry, RetryIsNewer, RefreshTokenKept, CallsEnd | two callers and a login use one slot while tokens expire and are revoked, answers are lost, logins refused, requests dropped, another account's refresh token is stored and the process crashes; the slot is one of an account or one without | 641k, 133 s |
| build_session | UserDecidesEachStep, SessionsOnDisk, SeenIsKept, AnswerIsTaken, HubApart | two turns at once of the admin or a visitor, with expiry, eviction, adoption, the fallback and a crash | 891k, 153 s |
| tool_loop | LastRoundIsFinal, PersonDecides, OneCardPerOrder, CapHolds, StallHolds, UngroundedIsStamped, TurnEnds | one turn of a model that says and calls anything, with a person, a schedule or a parent turn waiting for it | 417k, 84 s |

Deadlock is checked in the plan runs (the abstract clock and listing never stop the
system). The others say CHECK_DEADLOCK FALSE: once the calls, turns, clock and crashes that the
bounds allow are used up, a system whose tasks wait for the next request really has nothing to
do, and a turn of the tool loop is over when it has ended.

The type invariant of each module is a theorem (section 7) and was checked with TLC on these
instances before it was proved.

## 5. Bounds

`MaxClicks`, `MaxCalls`, `MaxCrashes` bound requests and crashes, `MaxTime` the clock, the sets
`Card`, `Client`, `Hub`, `Conv`, `JobId`, `Loop`, `Caller`, `Watch`, `Turn` the actors and what
they act on; `Kinds`, `Origins`, `Offer`, `Founding`, `Modes` and `Policies` choose the inputs of
a run. The proofs of section 7 have none of these bounds.

- *Cards.* Two requests are enough for every race between a read and a settlement, and three
  clicks let one come after two have been answered; two cards with `MAX_SIZE` 1 make eviction
  happen. An order expires within one tick and an edit after one, so that with `MaxTime` 1 a
  request can stand on either side of both deadlines. `plan_one_request` has one card, two
  visitors' scopes, a conversation and two crashes, so that a torn file is loaded, written and
  torn again; a larger instance (two cards, four clicks, no visitors; 1.8 million states) was
  run once and passed.
- *Scheduler.* Its races are within one name, hence one `JobId`. Three tasks are one under the
  handle, one that outlives its handle and one new; two callers overlap two registrations.
  `MaxTime` 2 lets a once job be armed, missed during a crash, and seen by a restart on both
  sides of its time; `schedule_restart` has one caller and two tasks, an old one and a new one,
  since its questions are about time and not about two callers. It has two zones, one tick
  apart, and one move of the setting: a job pinned to either meets a restore in the other, before and
  after its time, and one that follows the setting is read in both. If no task of the pool is free,
  a spawn waits: with three tasks this does not hide a state that two overlapping callers reach.
- *Module schedules.* Two files, one listed by the config and one by a row; two usable contents, of
  which one says all that the other says and one thing more (`{daily}`, `{daily, until}`), so that a
  version may drop an option and an owner may add one, and one that is refused. `MaxRequests`,
  `MaxChanges` and `MaxFailures` (crashes and dropped requests) are 1: start-up's reconciliation
  is the second actor, and one request, one change and one failure are enough to leave the clock
  wrong in every way that one more reconciliation has to repair. `module_deleted` needs one file
  and two requests.
- *Streams.* Two watches are what can share a socket; three instances are both of them and one
  replaced; two callers and start-up overlap. Two sockets lost let one go while the replacement
  subscribes; two refusals refuse both watches; `MaxRejects` 2 reaches both the retry and the
  end.
- *Tokens.* Two calls and a login are the three writers of a slot; three tokens are an old one,
  a reissue, and one issued in between. Both kinds of issuer, both kinds of caller and, where there
  is a refresh token, both kinds of slot occur. One loss (answer, request or process) and one expiry or revocation suffice to put the calls into
  every order.
- *Builds.* One conversation and one visitor, builds of the short mode (two steps), three
  sessions of which two fit, two turns at once and three in all, three tool calls, one crash.
  Larger instances were run once and passed: no visitor, four calls, no crash (2.8 million
  states); both modes, two sessions, `MAX_SIZE` 1, a crash (3 million).
- *Tool loop.* One tool of each class, each class with the limit 1, so that a stall meets search
  tools that are at their limit and others below it, and for the schema tools a second call with
  other arguments; an order and a destructive call; `FailCap` 1 and
  `StallRounds` 2 instead of 4 and 5, and four rounds instead of 25, so that a stall, a narrowing,
  a correction and the last round all meet in one turn. One call an answer, and two by way of a
  compiled plan. Three of the four who may wait: a visitor's turn treats a destructive call as a
  person's does and an order as a parent turn's does. The instance with visitors and a name that
  does not exist (554 thousand states) and instances of its safety properties with a second search call and another action
  tool (0.95 and 1.5 million states) were run once and passed.

One crash reaches each of its points. Views leave out state that is never read again (what an
idle request asked for last, what a reconciliation holds and has used, the screen once no request is left to send it) and rank stamps that are
only compared; symmetry permutes requests, tasks, watches and turns in runs of safety properties
only: the runs that check liveness use none.

## 6. Fairness

Weak fairness, only of what the code's scheduling makes go on:

- `PlanCommit!Fairness`: each request's next step and the end of a flush. A request's future is
  polled by tokio or by Node's event loop as long as it can go on, the mutex is `std::sync::Mutex`
  and no critical section waits for another, a write to a local file ends, and the RPC of an
  action returns or fails.
- `ScheduleManager!Fairness`: the same for callers, tasks and runs (modules, model calls and
  retries are under time limits), the end of start-up, and the clock.
- `ModuleCalls!LiveSpec`: each call's next step. The lock is tokio's, which is fair and is
  released when its holder is dropped; the issuer answers or the request times out.
- `ToolLoop!LiveSpec`: the turn's next step. Model calls and tools are under time limits.

Clicks, calls, logins, crashes, lapses and losses are never fair. `ModuleSchedules`, the streams
and the builds have safety properties only: a stream's reconnecting goes on for ever by design,
and a build waits for its user.

## 7. Proofs

TLAPS proves, for any sets and limits under the named assumptions (`StoreAssumption`,
`RouteAssumption`, `AdapterAssumption`, `NoJobAssumption`, `ManagerAssumption`,
`ScheduleAssumption`, `ScreenAssumption`, `ConnectionAssumption`, `WatchesAssumption`,
`ProviderAssumption`, `CallsAssumption`, `SessionAssumption`, `TurnAssumption`,
`LoopAssumption`: model values differ from data, limits are naturals, the classes of tools are
apart):

`PlanCommitProofs`
- `TypeCorrect`: the type invariant.
- `ApprovedAsMintedAlways`, by `CopiesAsMinted`: every copy of a record (map, file, snapshot,
  view) is the minted one but for its claim. The property alone is not inductive: a request
  may take the record from the file, and the file gets it from the map.
- `NoStaleOrderAlways`, by `Fresh`: a record in a request's hand was unexpired at a clock
  value not before the request began.
- `SettledNotResentAlways`, by `SettledInv`: a settled card that no merge revived is in
  neither the map nor, once the mutex is free, the file; so no later `Get` finds it.
- `MemoryOnDiskAlways`; `HubOwnCardsAlways`, by `HubInv` (a record's scope and kind are those
  minted, so a guard taken earlier still holds).
- `OneRequestImplementsCards`: with at most one request, `Spec => CardsSpec`. By `OneInv`:
  nothing settles between a request's own read and merge, so nothing is revived; then
  every step is a step or a stutter of the abstract card.
- `EveryStepIsNearer`: `StepsLeft` of a request (its place, and whether the route's own look at
  the card is still ahead) is at most 10 and goes down with each of its steps.

`ScheduleProofs`
- `SchedulerTypes`: the type invariant with `Linked` (a run belongs to a task in its callback).
- `RegistryInvariant`: `Named` (registrations are filed under their names and numbered),
  `Stored` (what is in the file), `Retired` (a one-shot that succeeded is in neither map nor
  file). From it `JobsOnDiskAlways` and `OneShotRetiredAlways`.
- `TaskInvariant`: `Handles`, `Windows` (a registration that overlaps no other is alone with
  its name), `Tasks` (a task that can still be stopped is the one under the handle, and what
  it holds is registered). From it `OneTaskPerJobAlways` and the action property
  `FiresRegisteredAlways`.
- `OnceFiresOnceAlways`, by `FiredInv`: a one-time registration that has been run, neither `raced`
  nor `retimed`, is, if it is registered still, in the hands of a task past its sleep or about to be
  dropped by restore. For that the due time of every sleeping task is carried along: it is the job's
  own reading, or the job follows a setting that was moved since. A registration leaves the
  statement by entering `retimed` at the very step at which a second zone is read.
- `SchedulerInvariant`: all of these with `RefInv`, what the mapping to the table needs besides.
  `HalfWritten` (a torn file is being written, or nothing is registered: what a crash leaves is the
  registry or nothing at all), `Dropped` (what restore is about to throw away is disputed, retimed or over
  already, so that it may leave the table at any time), `RunsCounted` (the job in a task's callback
  is among those run), `HandIdle` (a caller runs by hand only inside trigger_now).
- `JobsHaveTasksAlways`, by `Tended` (the handle of a registered name is that of a task not
  doomed, or a request stands before the spawn, or the job is over) and `Restoring` (between its
  steps restore has every job in hand). Not inductive without `Handles`, which keeps an abort
  through one name's handle away from the tasks of the others, `Windows` (what a registration
  aborts is not registered) and `HandIdle`.
- `SchedulerImplementsTable`: `Spec => JobTableSpec`. One lemma for each action (`...Shows`) gives
  the step of the table it is, or the stutter; most are stutters. Where an abort ends the very run
  that asked for it (a one-shot job that retires itself), the table sees one step for both.

`ModuleSchedulesProofs`
- `TypeCorrect`: the type invariant.
- `RecordedStaysDeletedAlways`, by `Kept`: every reconciliation that has read the record has the
  file of a kept deletion in it, or has decided not to register it. Needed because the record
  alone says nothing of what a reconciliation already under way is about to do.
- `ReconciliationIsRight` and from it `NewSchedulesArePickedUpAlways`, `OffMeansOffAlways`: by
  `Alone` (an undisturbed reconciliation is the only one) and `Steps`: at each of its places every
  file is right already or is among those still to be dealt with, with what it read still true.
  Right, on the clock, means that the job says all that the file says. That the only job left by a
  module that is off is one the record has lost needs two parts more: `Withdrawal` (nothing that is
  declared or recorded is left) and `Known` (a job on the clock is on record, or `lost` to it, or
  `InHand`: registered by a reconciliation that has not recorded it yet).
- `EveryStepIsNearer`, for finitely many files: each step of a reconciliation takes it to a later
  place, deals with one of its files, or withdraws the stale job in front of one; it begins anew
  only for a request or after a restart.

`StreamProofs`
- `Invariance`, of `ConnInv` (types; `Born`: what a task holds was handed over; `Fresh`: an
  instance not yet handed over is untouched; `Single`: a running task of a shared connection is
  the one under the handle; `Answers`: on a venue that acks, an instance without a verdict is held by a
  running task that is not at rest), `NoHandle` (no handle where nothing is shared), `CallInv` (each caller's
  place fits what it does) and `Listed` (the vault has the list, or a caller is about to save it).
  From it `StreamTypes`, `OneSocketAlways`, `StartsAreAnsweredAlways`, `ListIsSavedAlways`.

`StreamServedProofs`, on top of that invariant
- `ServedInvariance`, of `ServedInv`: `Holdings` and `RefusedLeave` (what tasks hold), `Queues`,
  `LiveIsAsked`, and for each unspoiled watch `OneCall` and `ServesOne`. From it
  `ServedIsRegisteredAlways` and `LiveIsAskedAlways`.
- The property alone is not inductive: a task serves what it has read from its queue, so that
  what it will serve depends on the order of commands sent long ago. `Queues` has `Spaced`: of a
  watch, a Remove stands between any two instances in the members and the queue of a task. What
  counts as served (`Stays`) is then at most one instance. A turn of a task never adds to it
  (`Stride`, one lemma for each command or turn), and the calls change it only at its end: `Bind`
  adds an instance where nothing stays, the second half of stop() appends the Remove behind all
  there is. `OneCall` says which half of its work the only call about a watch has done.
- `LiveIsAsked` is in the induction because a lost socket, a refused login and a refused
  subscription each take members and questions away in one step: `RefusedLeave` ties the two.

`ModuleCallsProofs`
- An invariant of the type invariant, `OneFetchPerExpiry`, `Bounded` (no token anywhere that was
  not issued), `InHand` (a replaced refresh token is carried until it is stored and no longer),
  `Apart` (unless they raced, no login is open beside a fetch), `Newest` (a token newer than the
  slot's is lost or carried by the fetch or the login), `Renewed` (likewise for the refresh token of
  the slot without an account, as long as no other account's has been written over it: `CrossSafe`),
  `Newer` (the token a retry will use is newer than the refused one at each of its places). From
  it the theorems of the four safety properties and the action property of `VaultGoesForward`:
  while no login has met a fetch, what is put into the slot is the token issued last and newer
  than the one before.
- `EveryStepIsNearer`: `StepsLeft` of a call is at most 12 (six places, and one more attempt unless
  this one is it) and goes down with each step; nobody else's step moves it back.

`BuildProofs`
- `InvAlways`: `StoreInv` (every copy of a session, in the map and the file, is not ahead of its
  user's answers and not behind what was seen of it, unless merged; and what is in memory is in
  the file unless a flush is under way), `TurnsOK` (the same of the copies turns have read),
  `Counts`. An operation either forgets sessions (`Thins`) or puts one record in another's place
  (`Rewrites`) that may come after it (`Follows`); each preserves it. From it all but one theorem.
- `HeldAlways`: `Held` (the build whose gate a turn holds open has it open wherever the turn's next
  step may take its record from: map, file or its own copy). From it `AnswerIsTakenAlways`.

`ToolLoopProofs`
- `TypeCorrect`, with a round below the budget as long as the turn goes on.
- `LastRoundIsFinalAlways`, by `Budget`: a turn with results is closed in its last round, calls
  run only before it, and a plan is still to be replayed only at the top of the first. The case left is a model that never calls anything: `Early` says that it has
  been corrected at most once, long before its rounds are used up.
- `PersonDecidesAlways`, inductive by itself. `OneCardPerOrderAlways`, by `Orders`: a card ends the
  turn at the end of its round, and until then the order is among the calls tried in it.
- `CapHoldsAlways`, by `Caps`: the count of a tool is the number of its different calls seen, and
  what ran was seen. `StallHoldsAlways`, by `Stalls`. `UngroundedIsStampedAlways`, by `Stamps`.
- `EveryStepUsesUp`: each step of a turn, lapses of results included, takes away a round, the
  round's question, a call of its answer, or a cached result, the first of these to change. A turn
  is finitely many steps long.

Every part of an inductive invariant was checked with TLC on the instances first.

Every safety property and action property of the passing runs is a theorem. Only model-checked:
`ClickAnswered`, `OnceJobRuns`, `CallsEnd`, `TurnEnds` (liveness under fairness is out of this
prover's reach); and the violations of section 8. Of liveness the safe half is proved: the
measures above (a request, a call, a reconciliation or a turn cannot go round in circles), and
`JobsHaveTasks` (a registered job always has somebody to run it). What TLC adds is that nothing
stands still: that with the fairness of section 6 a step is taken as long as one is left.

## 8. What the runs found

Each is a disagreement between the code and what the repository says of it; the lines
are quoted in `PROJECT.json`.

1. *Two clicks, two orders* (`plan_two_clicks`). The card is consumed after the action; a
   second approval while the first awaits sends the order again.
2. *A deleted schedule comes back* (`module_deleted`). The record of registered schedules is a key
   of the settings; a screen opened before it was written drops it on save, and that save's
   reconciliation registers the deleted job anew.
3. *A registered watch nobody serves* (`streams_lost`). The last member of a shared connection
   leaves or is refused while another waits in its queue; the task ends with it.

Four more are disagreements as well, and are in the models without a run of their own: the
properties beside them state what does hold and name the exception.

- *A time read in two zones* (`NotRestored`, `retimed`; `OnceFiresOnce`, `JobTableSpec`).
  `restore()` reads `runAt` and `endAt` in the zone that is set (`cron.rs:821-846`), `schedule` and
  the task in the zone the job is pinned to. After the zone has been changed, a once job that ran
  just before a crash may be kept and run again, and one that is still to come may be dropped; the
  same of a job that has not reached its `endAt`. `ports.rs:2894-2896` says of the pinned zone
  "Stamped at registration [...] and never reinterpreted", `cron.rs:503-504` that "From here on the
  global setting only decides how times are *displayed*", `timezone.rs:33-35` that the setting
  "changes what is drawn, never when anything happens". A job that follows the setting asks to be
  read anew; that it may run a second time for it is said nowhere.
- *A declaration that drops an option* (`declaration_is_live`; `ClockFollowsDeclarations`). Only the
  keys that the file sets are compared (`core_facade.rs:413-428`): an `endAt`, a `runWhen`, a `retry`
  that a new version of the file no longer has, or that the owner has added, stays on the job,
  although `core_facade.rs:118-122` says that the repair "covers a declaration that has since
  changed".
- *Off but still firing* (`Branch`, `lost`; `OffMeansOff`). The branch for a module that is off goes
  by the declarations and the record and never looks at the clock (`core_facade.rs:78-97`), and the
  record may lose a live job. If nothing declares it any more it goes on firing with the module off,
  although `grpc/module.rs:395` says that "off" then "means off rather than off-but-still-firing".
- *A refresh token that nobody reads* (`StoreRenewal`, `Foreign`; `RefreshTokenKept`). A replacement
  is stored under the name without an account (`token_provider.rs:112`) and read under the account's
  (line 247): an account's slot goes on with the one that was replaced, and the slot without an
  account finds that of another. Lines 102-103 say that without the write "the old refresh_token
  expires and authentication is broken for good" (translated).

The models also hold behaviours that comments of the code do not expect, or that a reviewer may
want to know of, and that have no run of their own.

Cards and schedules
- A crash inside a flush loses every card (`BeginFlush`, `CrashStore`: the file is truncated
  before it is written). A rejected card is put back by another request whose fallback read the
  file before the reject; the same merge overwrites a claim made in between.
- A visitor's edit of a job that is cancelled meanwhile registers it as the admin's (`CheckOwned`,
  `ReadForUpdate`). Registrations of one name that overlap leave it two tasks (`Check`, `Insert`,
  `RestoreSpawn`). An edit of a system job whose expression does not parse deletes it, although
  `schedule.rs:112` says that system schedules cannot be deleted. An unmet runWhen leaves the
  run's badge open (`GateSkip`).
- A request dropped while it waits for the handles leaves a half-done registration: a job in the
  registry and its file that no task runs until the next restart (`Disconnect` at the spawn,
  `stranded`; cron.rs:804), or, in an edit, no job at all (cancelled, not yet registered again).
- A changed declaration that the scheduler refuses takes its job away and is never tried again,
  since its file is on record (`Repair`, `Register`). With nothing declared and nothing recorded
  the reconciliation returns before it looks at the clock (`Branch`).

Streams and tokens
- After a first subscription was refused and the socket was lost before `start()` looked, the
  watch stays a member although its caller was told that it failed (`CutOff`, `marred`). A
  restart of a watch is not one step: in between another call finds nothing to cancel
  (`ports.rs:928` "restarting an existing id replaces the task").
- A watch that could not be restored survives in the vault only until the next save of the list
  (`tool_registry.rs:770` "Survives restarts until stream_watch_stop.").
- Two refused calls both reissue: the second does not look at the slot the first has just
  filled, although `token_provider.rs:28-29` says that a following call sees the refreshed cache.

Builds
- An orphan may be adopted by another conversation of the admin that ends its turn first
  (`build_session.rs:243-265`). The build that a turn's prompt names may be another than the one
  whose gate its start opened, when it expires or a second turn comes in between. The fallback
  may put a build back a step or make it active again; `finish_session` turns a completed build
  into an abandoned one.

Tool loop
- The synthesis lap behind an exhausted budget (`ai.rs:5123`) is not reached:
  `LastRoundIsFinal` says that no turn runs out of rounds, since a closed round's calls are
  dropped and its answer, even an empty one, ends the loop. The comment there wants the lap for
  an empty forced final.
- A turn that found something, did nothing and ends with no text after its corrections is not
  flagged as failed (`ai.rs:3616-3631` sets the flag only with a text); a schedule records
  success.
- Two identical calls of a builtin tool that needs approval mint two cards, for the dispatcher's
  gate stands before the duplicate guard. An order does not: `OneCardPerOrder`.
- `ai.rs:2874` says that approval-gated steps of a compiled plan, orders among them, are not
  run ahead; `check_needs_approval` knows builtin tools only, so an order mints its card in the
  plan's round and ends the turn before the model has written anything. A call that is for the
  screen only and needs approval mints a card, although the comment at `ai.rs:4037` puts the
  first check before the second.
- `tool_cache.rs` says that a retry after a timeout runs the backend once; only successes are
  kept, so a call that timed out runs again.

## 9. Not modelled

`PROJECT.json` gives each part with its reason. Within the modelled parts:

- cards and schedules: texts, summaries and scope filters of listings; what an action or a run
  mode does inside; the run log and notifications of the adapter; cron expressions (a
  repeating job is due every tick, which is the densest case, whatever zone it is read in; whether
  an expression parses is an input); times written with an offset of their own, the hours a zone
  skips, `startAt`, and jobs of a file older than the zone field; system-job registration and the
  overdue catch-up at boot; an `fs::write` that fails while the process goes on;
- streams: routing and decoding of frames, keepalive, the event sink and its coalescing, the tick
  aggregator;
- tokens: the text of a request; a second slot in full (its access token, lock and callers have
  nothing in common with the first's, and what its refresh token does to the first is `Cross`); the
  slot of mock calls, of which no module with a refresh token has any;
- builds: tiers, request texts, slugs, the contents of outputs; turns without a conversation;
  stamps tied within one millisecond; the refusal of `start_build` for what a module already
  makes, which changes no state;
- tool loop: prompts and briefs; the loop that CLI models run inside themselves; the schema and
  needs windows of a conversation (a refusal that may meet any action call); the assembly of the
  final answer, costs and the archive; whether the target of a destructive builtin call exists
  is fixed for the turn;
- a second core process sharing the files, which the deployment does not have.

The parts that are left out altogether are either statements over SQL tables (conversations,
memory, library, hub, authentication), layout and rendering (pages, the web client's
components), calls to other people's services (media, speech, images), Python programs of
modules, or are in the plan of section 2.
