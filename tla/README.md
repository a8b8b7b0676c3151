# Chronos, the Gluesync scheduler module: a verification project

Chronos runs jobs against Gluesync CoreHub on cron schedules, fires chains of
events after a job, fires flows on HTTP calls and platform events, and keeps
webhooks in CoreHub for both. This directory holds TLA+ models of its core,
the TLC configurations that check them and the proofs TLAPS checks.

`tlc -config X.cfg M.tla` runs a configuration, `tlapm M.tla` checks proofs;
PROJECT.json lists the runs, their mutants, the source lines behind every
definition, the hazards and the theorems.

## 1. Inventory

Paths are relative to `src/gluesync_scheduler/`.

| Component | State it keeps | Operations | Interacts with |
|---|---|---|---|
| Scheduling core: `services/scheduler_service.py`, `services/job_service.py`, startup in `core/app.py`, routes in `api/router.py` | rows of `scheduled_jobs` (enabled, cron, next_run, last_run), APScheduler's in-memory jobs | create, update, toggle, delete, run now; fire; load at startup; replay of missed runs | chained events after a successful run, CoreHub commands, SQLite |
| Missed-run planner: `latest_missed_fire`, `plan_missed_runs` | none | from next_run, last_run and the trigger: which fire was missed | called at startup only |
| Day fields: `_to_apscheduler_day_of_week`, `_build_trigger`, `_build_cron_from_schedule_parts` | cron expression, day_or | picked days to cron, cron to APScheduler triggers, next runs by croniter | decides what the core fires and what it stores |
| Chained events: `services/chain_execution_service.py` | class-level `_active_listeners`, `_pending`, `_pre_arrival`; rows of `chained_job_events` | run of a chain in its own thread and loop; webhook route | CoreHub callbacks, `run_job` |
| Webhook registration: same file, `job_service`, `trigger_flow_service` | the list in CoreHub, one `asyncio.Lock` | register, delete, cleanup at startup | CoreHub GET and PUT, batches in threads |
| Trigger flows: `services/trigger_flow_service.py`, `services/origin_routing.py`, `api/trigger_router.py` | rows of flows, events, log of 20 | CRUD, fire (token, internal, platform event), wait | chain executor, webhook registration |
| SDK connection: `core/gluesync_sdk_client.py`, `core/health_check.py` | client, token, `_initializing` | connect with backoff, forced reconnect, callbacks, health probe | every CoreHub call takes its token |
| CoreHub commands: `core/play_pause.py` | none but tokens | start, stop, redo (stop, wait, start), resync, query, agent run, validation | `run_job`, pipeline API |
| Pipeline API: `api/pipeline_router.py` | none | HTTP front of the commands | chain executor posts to it |
| Authentication: `security/` | cache of introspected tokens, 30 s | introspect, role check | CoreHub |
| Groups, settings, persistence, migrations, shell, command line, packaging | rows, configuration | reads and single writes | |

What is hard, and what correctness means:

- **Scheduling core.** Event loop, thread pool, APScheduler and restarts touch
  the same row. Correct: no fire that was due is lost, none that ran is run
  again after a restart, APScheduler holds what the table says, a disabled job
  does not fire.
- **Planner.** Two scans with a limit, three bounds that meet. Correct: it finds
  the latest fire that was due and never ran.
- **Day fields.** Two libraries that count weekdays differently. Correct: a job
  fires on the days its schedule names, and on the days stored as next_run.
- **Chained events.** Callbacks from another thread, early, late, lost; several
  runs on shared registries. Correct: a SYNC event fires only after the step
  before it completed, every chain ends, nothing listens afterwards.
- **Webhook registration.** Read-modify-write of a list that others share, from
  several event loops. Correct: others' webhooks survive, CoreHub ends up with
  what the table asks for, calls return.
- **Trigger flows.** enabled and events are read before a background task uses
  them; fires overlap; a wait may give up midway. Correct: only events the
  origin routing chose are posted, every accepted fire is logged, truthfully,
  and the flow shows the outcome of its last fire.
- **SDK connection.** Two logins at once, callbacks of a discarded client, a
  client whose loop has ended. Correct: one live client, its token, and a
  session that comes back after every fault.
- **CoreHub commands.** Answers are lost, a 401 leads to a new login and a
  retry, callers stop waiting, CoreHub's work may never end. Correct: a redo
  never meets an entity that has not stopped; commands take effect in order and
  once; a recorded success happened; every execution ends.
- **Authentication.** A cached identity outlives a revocation by at most the TTL.

`PROJECT.json` lists the hazards at their lines. One doc is stale and is not a
finding of a run: `src/sandbox/README.md:107` describes an earlier state of the
catch-up.

## 2. Plan

| Module | Part | Composition | State |
|---|---|---|---|
| `MissedRuns`, `MissedRunsCheck` | planner | | checked, proved |
| `JobScheduler` | scheduling core | extends `MissedRuns` | checked; safety proved |
| `CronDays` | day fields | says when croniter and APScheduler agree, which `JobScheduler` supposes | checked, proved |
| `ChainExecution` | chained events | starts where `JobScheduler`'s `Commit` ends | checked; safety proved |
| `WebhookRegistry` | webhooks in CoreHub | yields the webhooks (`registered`) a chain has | checked; safety proved |
| `HubCommands` | start, stop, snapshot, redo, maintenance | what an event of `ChainExecution`, `TriggerFlows` or a run of `JobScheduler` sends; implements `CommandOutcome` | checked; safety and refinement proved |
| `CommandOutcome` | what any execution promises | the abstract specification | implemented by `HubCommands` |
| `HubRuns` | rebuilds, agent runs, validation, queries, refreshes, backups | as `HubCommands`, for work that CoreHub does by itself | checked; safety proved |
| `TriggerFlows` | fires of a flow | posts what `HubCommands` executes | checked; safety proved |
| `SdkConnection` | session, health check, login after a 401 | the "new login" of `HubCommands` | checked; safety proved |

What a next step would take up: several API callers on one job, with an abstract
job table that `JobScheduler` implements while callers exclude each other; ids
that SQLite hands out again in `ChainExecution` and `WebhookRegistry`; shutdown;
the filters of webhooks whose step is on another pipeline; a proof that
`SchedulerFollowsTable` holds for several callers that stay off each other's
jobs.

## 3. The modules

### MissedRuns and MissedRunsCheck

Time is a number of ticks and a trigger the set of its fire times;
`get_next_fire_time` steps through the set. `ScanFires`, `ScanMissed`,
`LatestMissedFire` and `Replayable` are `_scan_fires`, `latest_missed_fire` and
the age limit. `MissedRunsCheck` holds what a restart may find for one job and
compares the result with a definition: the latest member of the fire times that
were due and never ran.

### JobScheduler

One action per step that another actor can come in between: `CreateRow` and
`CreateSchedule` are the two halves of `create_job`, `ToggleRead`,
`ToggleSchedule` and `ToggleCommit` the three of a toggle, `Begin`, `Commit`,
`ReadNext`, `SaveNext`, `DisableOnce` and `RemoveOnce` an execution. `Fire` and
`Misfire` are APScheduler: coalescing, `max_instances = 1` and the grace time.
`StartUp`, `LoadJob` and `Ready` are the startup, `Crash` a stop at any moment,
`StartReplay` the coroutine that runs the plan oldest first.

- Create and update are async routes that never await, so `LoopBusy` keeps
  them, APScheduler's wake-ups and the replay apart. Toggle, delete and run-now
  run in the thread pool and interleave with everything.
- An action at tick t happens just after the instant t.
- `done`, `dropped`, `suppressed`, `starting` and `overlapped` are history: no
  action reads them. `dropped` holds fires that were refused by `max_instances`,
  were past the grace time or whose commit failed.
- Left out: commits that fail in other places than `run_job`, toggle and delete;
  the write that fills a NULL next_run when jobs are listed; the early return of
  a group task without groups; a job id used twice. `BadCrons` are refused
  wherever a trigger is built. A range of weekday names is refused by
  `create_job` and by `_recalculate_job_next_run` (which leaves next_run as it
  was) but not by the plan of missed runs; such a schedule is left out.

### CronDays

The state is a schedule and a day. `ToAPSchedulerDow` and `TriggerFires` are
the code; the operators named after croniter and APScheduler are external. A
weekday field is a list of `Parts`: numbers from 0 to 7, names, and ranges of
either. `RunDaysLogged` is what `create_job` refuses before it builds a trigger:
`_log_run_days` reads the ends of every range as numbers. Steps ("*/2") and
ranges that run backwards ("sat-mon") are left out.

### ChainExecution

A run is the thread `run_job` starts. `OpenWindow` and `CloseWindow` bracket it;
`CheckBuffer`, `RegisterWaiter`, `Wake` and `TimeOut` are `_wait_for_webhook`;
`Post` and `PostReturns` are `_execute_event`; `Receive` and `Deliver` are
`notify_webhook_received`, which may be cut in two by a thread. ASYNC events are
tasks that start when the loop of the run waits for something else, and are
cancelled when it ends. CoreHub completes operations in any order, and may
refuse commands; a lost callback is one that never comes. The chain is chosen
at the start from the constant `Chains` and stays.

A step has the kinds of announcement that may end it (`Event`, the lists of
`_task_type_to_webhook_events`, which overlap) and the entities or groups it
works on (`Target`; a pipeline-wide step works on all of its pipeline). The
filters of a webhook are containment: that of a pipeline-wide event is empty and
admits every entity of the pipeline (`Listens`). CoreHub ends and announces a
step once for each of its targets (`Work`, `Complete`, `Called`).

Left out: an update that replaces the events between runs, operations
that a person starts in CoreHub, the text of last_error_message. A failed
snapshot counts as the end of its step, and the first entity of a step
announces the whole step, as the webhooks are registered.

### WebhookRegistry

A caller's request is a plan of steps: commits and batches. A batch is a worker
with a loop of its own. `Acquire`, `Enqueue`, `WrongLoop`, `Release` and
`WakeUp` are `asyncio.Lock` from Python 3.10 on: the lock binds itself to the
loop of its first waiter, refuses waiters of other loops, and a release from
another thread does not wake the waiter's selector. `GetList`, `GetFails`,
`GetRaises`, `PutList`, `PutFails`, `PutRaises` are the HTTP calls.
`JoinTimesOut` is `t.join(timeout=30)`. `undone` is history: the keys for which
a change was refused, lost or abandoned.

Left out: events not in SYNC mode (they have no webhook), a platform event set
later or cleared, edits of the list by people, the race for the first creation
of the lock (the startup cleanup creates it).

### HubCommands and CommandOutcome

An execution is a list of units, one call of a `CoreHubClient` method each, and
a unit a list of steps: a command to post, a lookup, the wait before a redo.
`UnitsOf` is the way from a task to those calls, which is not the same for a
scheduled job, a chained event and the command line: `_execute_job_logic`,
`_execute_event`, `execute_job`, the routes (`PlayRoute` ...) and the methods
(`start_group` ...) bear the names of the code. A step that fails ends its unit
and not the execution. `Send`, `HubTakes`, `HubRefuses`, `HubDenies`,
`AnswerLost`, `RefreshAndRetry`, `Answered` and `GiveUpUnit` are one command,
with the answer lost after CoreHub acted and one retry after a 401;
`Ask`, `ResolveTargets`, `ProceedBlind`, `PollSettled` and `PollTimeout` are the
wait, whose deadline is looked at between two status reads and not within one.
None of these requests has a timeout, so `Hub(x)`, what CoreHub does about a
request, has no fairness. A group task without groups fails before CoreHub hears
of it (`Runs`), unless an event sends it to the routes play and pause;
`CallerTimeout` is the HTTP timeout after which the caller records a failure
while the route goes on. CoreHub is external: `HubTakes`, `HubSettles`,
`HubRaisesIssue`. `warned` and `disturbed` are history.

`CommandOutcome` is the promise behind it, for any task: the commands of a plan
are accepted in order and at most once each, and a success is recorded only when
all of them were. `Outcome` maps the posts of an execution's units to the plan.

Left out: the wording of results, the marks `_mark_job_started` and
`_mark_job_finished` of the pipeline routes (they need
`request.state.cron_job_identifier`, which nothing sets), a group of a job that
belongs to another pipeline.

### HubRuns

`wire[x]` is the request under way or the answer to it; what the client does
between two requests is one action named for the answer it takes
(`BrainPolled`, `ValidationStarted` ...). `brain_rebuild_settled` is the test of
that name: CoreHub keeps one status row for all rebuilds, whoever asked.
`NextEntity` goes on to the next entity of a validation whatever became of this
one; `Reconciled` adds up what was skipped and what is not repaired.
`Resubmit`, `retryable` and `LastAttempt` are urllib3's `Retry` around a
submission. `DisableSchedule` and `RemoveSchedule` are the two halves of
`disable_visualize_schedule` (row first, APScheduler later); `UserReads`,
`UserSchedules` and `UserCommits` are a toggle of the job (APScheduler first, row
later, and the row only if the value differs from the one it read). `HasTimeout`
says which requests have a timeout: all but the visualization refresh and the
reading of a saved query. `own`, `shared`, `took`, `checked` and `overtaken` are
history.

Left out: texts, payloads and tokens; an agent run that waits for an approval is
one that does not end; an answer 200 or 201 to a refresh (the code takes 202
alone for accepted and reports another 2xx as a failure, without a retry: the
refresh happened and a failure is recorded, of which no property speaks).

### TriggerFlows

All fires run on the server's event loop, so a fire keeps `Turn` until it
awaits; edits commit in the thread pool between any two steps. `Accept` is any
of the three routes, `Read` and `Trigger` the first part of `fire` with
`filter_events_for_routing`, `Load` the second reading of the events, by id,
after the commit has expired them, `CreateTask`, `StartTask`, `PostSync`,
`PostReturns` and `ChainDone` are `_run_executable_list`, `Record` and
`WriteLog` the record of the outcome, `WaitTimeout` the end of `wait=true`.
`ReplaceEvents` may give the new rows the ids of the old ones. Lists are sets of
events with their places.

Left out: creation of the flow (the fires start with one); tokens and passwords;
the identity map of the session of a waiting request, which may show it the row
as it was when the request came in; the order of log entries within one second
(they are taken in the order they come). A crash loses fires in the background,
which nothing persists.

### SdkConnection

`conn[k]` is a client of the SDK: connected or not, on which loop its callbacks
run, what it has yet to tell. `ForceReconnect`, `NewClient`, `Disconnected`,
`Connected`, `ConnectFails`, `ConnectAgain`, `TokenArrived` and `TokenTimesOut`
are `initialize`; `Callback` is `_on_connected` and its two siblings;
`CheckAnswered` is the health check and `RequestAnswered` the login after a 401.
A worker thread has no event loop and logs in within `asyncio.run`, so the loop
of its client ends with the login (`LoopEnds`), whatever the docstring of
`_reinitialize_sdk_client` says of the main loop. A client that is neither
current nor has anything to tell is used again (`Forgotten`), which keeps the
model finite. A disconnect that raises is logged, and the client is dropped while
it is connected; one that is reconnecting is dropped without a disconnect. `left`
holds these, as long as somebody listens to them. `left` and `entangled` are
history.

Left out: shutdown; finding the address; the length of the pauses (the docstring
of `initialize` has them double up to 30 s, the code waits 1, 2, 4, 8, 16 and
then 1 s again); the branch of `_try_reinit_and_reacquire_token` for the main
thread, which no caller runs in; a check that raises, after which the health loop
tries again without a pause. Startup waits for CoreHub for ever, and no job is
loaded meanwhile: `Started` is what waits for it.

## 4. The runs

`CHECK_DEADLOCK FALSE` everywhere but in `sdk_session` and `sdk_workers`: clocks, crashes, requests,
executions and chains are bounded, so these models stop where their bounds are
used up. `SdkConnection` never stops, and TLC checks that it does not.

| Run | What it shows | Bounds, and why they are enough |
|---|---|---|
| `fire_times` | the scan for a missed fire equals its definition; picked days fire; the trigger equals croniter without number ranges | 6 ticks, grace 2, limit 2: windows longer and shorter than the limit, outages longer and shorter than the grace. Two numbers or names per list, 3 day-of-month fields, a month of 5 days and 35 days: every pair of weekday and day of month occurs. The two share no state, so a behaviour does one or the other (`MCFireTimes`) |
| `js_restart` | no due fire lost, none that committed planned again, a job FIRE_ONCE disabled does not fire, every due fire settles | 2 jobs, one of the exit type, so that replays queue; fires at 1 and 3 of 3 ticks, grace 1, one crash: a fire before, during and after the outage, replayed within the grace and past it |
| `js_api` | APScheduler follows the table, disabled and deleted jobs do not fire | one caller, one job that it creates first, all operations, three schedules of which APScheduler refuses one, 2 ticks, one crash: every pair of an operation and a step of an execution meets |
| `ch_chain` | order, freshness and end of chains on shared registries | 2 runs that start at any moment; a chain with an ASYNC query and a SYNC event that has nothing to wait for, one that mixes steps of the pipeline and of one entity of it with two waits, and one of two steps whose announcements have a kind in common |
| `hk_list` | others' webhooks survive; CoreHub follows the table | one caller on the job, created or already there, one on two flows, failing PUTs, 2 attempts, one crash |
| `hk_return` | create and update return | 3 callers, so that a third finds the lock bound to another loop; GETs may fail |
| `hc_commands` | a redo only for what has stopped, jobs stay on their target, `CommandOutcome`, every execution ends or is stuck in one request | 2 entities, each in a group of its own; 20 requests, so that every route and every method is taken by a caller that uses it, next to a job that starts the same entity; one status read before the deadline, so that it passes or not |
| `hr_runs` | a success is real, a rebuild is one's own, no submission twice, the schedule and its row agree, every run ends or is stuck in a request without a timeout | each task alone, and two rebuilds or two refreshes together; 2 entities, so that one fails and the next does not; one poll, two retries (the code has three; a first, a middle and a last attempt differ), two generations; one user who toggles the job again and again |
| `tf_fires` | what is posted, logged and shown | a platform event that reports an agent run, a webhook whose caller waits and a fire by hand, all overlapping; chains of one and two events, SYNC, ASYNC and refusing; one edit at any moment; a log of 2, so that the third fire prunes it |
| `sdk_session` | who is listened to, the session comes back | startup, health check and one worker; 2 faults (lost connection, restart, outage, refused login, failing disconnect), so that a second one meets the repair of the first; 6 clients, so many that every login finds one that is forgotten |
| `sdk_workers` | the session comes back unless two workers cross for ever | two workers and 1 fault: enough for the two to discard each other's clients; 4 clients: a login that finds none forgotten waits until another has told its news, which cuts off a few interleavings (5 would be enough for all, in more time than a run should take) |

`js_restart`, `ch_chain`, `hk_return`, `hc_commands`, `hr_runs`, `tf_fires`,
`sdk_session` and `sdk_workers` check liveness under fairness as well.

One run shows what a comment says and the code does not do; the finding in
PROJECT.json quotes both. `cron_v_days`: `1-5` fires from Tuesday to Saturday.

Other disagreements of code and documentation have no run of their own. Each is
a property of a module, and TLC finds it violated as follows:

- Startup overwrites next_run, so a crash before the replay loses the missed
  run: `NoFireForgotten` under `Spec` with `js_api.cfg`, but `Jobs` and
  `InitialJobs` {j1}, `Crons <- SmallCrons`, `FireTimes <- SmallFireTimes`,
  `BadCrons` {}, `Operations` {}, `MaxTime` 6 and `MaxCrashes` 2.
- A fire that passed while the job was disabled is replayed after the job was
  enabled and Chronos restarted: `PlannedFirePassedWhileDown` with the same, but
  `Operations` {"enable", "disable"} and `MaxCrashes` 1.
- A callback that comes between the look into the buffer and the registration of
  the wait is accepted and never seen: `AcknowledgedNotTimedOut` with
  `ch_chain.cfg`, but `Runs` {r1}.
- A registration whose GET failed writes a list with nothing but the new
  webhook: `OthersKept` with `hk_list.cfg`, but `Flows` {11},
  `InitialTables <- JobTables`, `GetMayFail` TRUE, `PutMayFail` FALSE and
  `MaxCrashes` 0.
- A chained event "Start all entities within specific groups"
  (`models/schemas.py:322`) is mapped to the action "play", whose route does not
  read groups and starts the whole pipeline: `EventStaysOnTarget` with
  `hc_commands.cfg`.
- An entity task without entity_ids acts on the whole pipeline, although
  `models/schemas.py:236` has them "required for entity operations"; nothing
  enforces it. `JobStaysOnTarget` without `Named` fails with `hc_commands.cfg`.

What the passing properties exempt, because the code does not do it:

- `CommittedFireNotReplayed` and `CatchupInv` exempt jobs with overlapping
  executions. `max_instances` binds only what APScheduler starts, so a run-now or
  a replay may run next to a scheduled execution; the one that began first may
  commit last and move last_run back.
- `NoFireForgotten` and `FireSettles` exempt fires that pass while startup is
  between the plan and the scheduling of the job (`starting`): nobody plans or
  fires them.
- `EvidenceNotAhead` is checked without updates. `_execute_job` may store a
  next_run it read before an update changed the schedule.
- `SchedulerFollowsTable` is checked without FIRE_ONCE. An execution that
  disables its job between the commit of an update and its second half leaves
  the job scheduled and disabled. A failed execution never disables its job.
- `SchedulerFollowsTable` and `FiresOnlyEnabled` are checked with one caller at a
  time and without failing commits. A toggle changes APScheduler first, so when
  its commit fails the job is off in one and on in the other (`js_api.cfg` with
  `CommitMayFail` TRUE); and a second caller may toggle a job between the two
  halves of its creation (`Clients` with two members).
- `FiresAfterPreceding` speaks of a chain of which one run has started, and of
  events whose webhook admits no announcement of another step (`Unambiguous`).
  Two runs of a chain share keys, and the window is open for all events at once,
  so in stop, start, stop, snapshot the first stop may release the last event;
  likewise, the webhook of a pipeline-wide event admits the end of an earlier
  step on a single entity of the pipeline. The first callback is enough: an
  event after a step on several entities fires when one of them has ended.
- `NothingListensOutside` does not speak of the buffer: a callback accepted
  while a window was open may be put there after it was closed, and the next
  window clears it, which is what `FiresOnFreshCallback` needs.
- `AsyncEventsFired` leaves out ASYNC events at the end of a chain: their tasks
  may be cancelled with the loop before they post anything.
- `OthersKept` and `HubFollowsTable` assume that a GET does not answer with an
  error, and `HubFollowsTable` that callers stay off each other's flows: of two
  updates of one flow CoreHub may keep the earlier event.
- `ChainEnds` holds, but a chain may end by its timeout when all went well: the
  command of the job may complete before the thread of the chain opens its
  window, and the callback is then refused; and the webhook of an event is
  filtered by the pipeline of that event, so the end of a step on another
  pipeline reaches nobody (the chains of the model work on one pipeline).
- `RedoOnHold` exempts entities that CoreHub reported an issue for (the code
  takes them as settled), that another execution commanded after the wait, or
  that could not be looked up (the code then redoes without a wait). A caller
  that timed out has recorded a failure even when all commands succeed later;
  `CommandOutcome` promises nothing of a failure.
- `JobStaysOnTarget` exempts entity tasks that name no entity (`Named`, above).
- `ExecutionsEnd` and `RunsEnd` exempt an execution that waits for the answer to
  one request for ever: `fetch_core_hub` passes no timeout for commands, lookups,
  status reads, the reading of a saved query and the visualization refresh, and
  no deadline is looked at within a request. `ExecutionsEnd` adds that whoever
  called a route has given up on such an execution; only a group task of a job,
  which calls CoreHub itself, is left running.
- `BrainReportsOwnBuild` exempts executions that a rebuild of somebody else
  ended upon (`shared`): one status row for all cannot tell them apart.
- `SubmittedOnce` does not count a submission whose answer was lost, or to a
  backup came without a body, which `fetch_core_hub` hands over like no answer:
  CoreHub's API has no key that would make a retry harmless.
- `ScheduleFollowsRow` exempts a toggle that crossed a disabling (`overtaken`),
  for then the two do disagree: add the job to APScheduler, disable the row and
  remove the job, commit the row enabled. The next toggle or disabling that
  crosses none mends it, and from then on the property speaks again.
- `PostsItsChain` exempts fires that had chosen their events when the flow
  changed (`overtaken`): a new row may have the id of an old one.
- `FiresEnd` lets a fire whose flow is deleted end without an entry, which the
  cascade would remove, and a caller that waits give up on its own.
- `OneClientListens` exempts logins that met another one, or ended a client with
  something to tell (`entangled`): the flag `_initializing` is cleared by a
  forced login. It admits, next to the current client, those that a forced login
  dropped as they were (`left`): they were reconnecting, or their disconnect
  raised, and they go on to call back; so it speaks of the token only while there
  are none.
- `SessionRecovers` holds all the same, with one worker without an exception.
  Two may discard each other's clients for ever, each being rejected for the
  request it sent while the other logged in; the property says that only this
  can keep the session from coming back (`Crosses`).

Fairness. `JobScheduler`: the event loop turns, threads are scheduled and
commands end, a process that died is started again by the container runtime; the
clock, callers and crashes owe nothing. A command that is posted to a route ends
by the timeout of that call (120 s); a group task calls CoreHub without one, so
for it `FireSettles` supposes that CoreHub answers.
`ChainExecution`: threads and the main loop run, waits time out; CoreHub owes
nothing. `WebhookRegistry`: threads run and HTTP calls time out; nothing wakes
the loop of a waiter that another thread handed the lock to. `HubCommands`:
threads run and the callers of routes time out; CoreHub owes nothing, not even
an answer, for the requests have no timeout. `HubRuns`: threads run, and a
request that has a timeout is answered or times out; CoreHub owes no other
answer, and no rebuild, agent run or comparison need ever end.
`TriggerFlows`: the event loop takes every fire that is ready; its posts to
routes have timeouts. `SdkConnection`: loops and threads run, CoreHub comes back
after an outage and answers what it is sent, and requests go on to be sent,
since jobs go on to fire.

## 5. The proofs

All assume the named ASSUMEs on the constants. Six have a further hypothesis on
the constants, named below with the reason: `NextRunNotAhead`, `FollowsTable`,
`FiresEnabledOnly`, `NothingForgotten`, `OthersStay` and `HubFollows`. Without it
TLC finds the property violated.

- `JobSchedulerProofs!TypeCorrect`: `TypeOK` is inductive.
- `CatchupInvariant`: `TypeOK /\ CatchupInv` is inductive. `CatchupInv` is
  needed because the goal, that a committed fire is not planned again, speaks of
  the moment of a restart only: the invariant says all along that last_run is at
  or after every fire committed, that the one execution in flight began no
  earlier than last_run, and that its fire is not after its beginning. An
  execution that overlapped another is exempt: there the statement is false
  (section 4).
- `NoCommittedFireReplayed`: from that invariant and what `LatestMissedFire`
  returns (due, and after last_run), the action property
  `CommittedFireNotReplayed`.
- `NextRunNotAhead`: `EvidenceNotAhead` if no client updates (`NoUpdates`), which
  section 4 shows to be needed. The property compares next_run with the next
  fire; what endangers it is a value read earlier and stored later, so
  `EvidenceInv` (with `LoadsRows`) says it of every copy: the row, what an
  execution has read, APScheduler's job, and the schedule a call carries. None is
  later than a fire that is still to come.
- `FollowsTable` and `FiresEnabledOnly`: `SchedulerFollowsTable` and
  `FiresOnlyEnabled` if run-now is the only call (`OnlyRunNow`) or there is one
  caller and neither FIRE_ONCE nor a commit that fails (`OneCaller`). With any
  of the three, `SchedulerFollowsTable` is false (section 4). The properties
  speak of the rest between two calls; `SchedInv` says where the row and
  APScheduler stand after each half of a call, of a load at startup and of the
  disabling by FIRE_ONCE.
- `NothingForgotten`: `NoFireForgotten` if run-now is the only call (a user who
  disables, updates or deletes a job at the moment of its fire may mean to drop
  that fire, and the property does not exempt it; `js_api` is about such calls),
  the process dies at most once (`OneCrash`; a second crash before the replay
  does lose a fire, section 4) and no scan is cut short (`ScansReachNow`). In
  the code a scan steps through 5000 fire times and the age limit is an hour,
  which holds 61 at most, so that hypothesis only limits
  `pipeline_exit_maintenance` jobs, whose scan goes back to next_run: with more
  than 5000 fire times it answers with an older one (`MissedExitIsReplayed`).
  FIRE_ONCE and failing commits are allowed. `ForgottenInv` says at every moment
  what the property says, but demands that no execution that began before the
  fire can still move last_run back (`Accounted`); and that before the only
  crash nothing is replayed and next_run shows every fire in flight
  (`NeverDown`). It needs `CatchupInv`, `EvidenceInv` and `SchedInv`.
- `FireTimesProofs!MissedRunIsExact`: if the recent window fits in one scan,
  the scan finds its latest fire, so the answers agree under the age limit;
  outside of the window both answers are too old. `MissedExitIsReplayed`: fewer
  fires that ran than a scan reaches means that the scan passes them and ends at
  one that did not run. Both rest on lemmas about the latest member of a finite
  set of times, from the well-foundedness of the natural numbers.
- `FireTimesProofs!PickedDays` and `StoredDays`: part by part, the weekdays that
  APScheduler and croniter make of a field are the same set once numbers have
  become names. The invariant `Fields` keeps the schedule of the beginning.
  `FieldsAssumption` is what the model's fields are made of; `AnyAssumption` says
  that "*" is not itself a list of parts.

- `HubRunsProofs`: the inductive invariant relates where an execution is to what
  CoreHub did for it. `Honest`: an answer on its way, and what was learnt from
  it, is true of CoreHub's work. `FollowsBrain`: an execution that saw CREATING,
  or another generation, after its trigger has its own rebuild behind it, unless
  it is `shared`. `RowComesFirst`: whoever is about to remove the APScheduler job
  has disabled the row. `UserKnowsRow`: while a toggle that no disabling
  crossed is under way, nobody disables the job and its row is as the toggle read
  it, and before the row is committed APScheduler already holds what the user sets. From these `SuccessTold`, `OwnBuildReported`,
  `SubmittedAtMostOnce` and `ScheduleWithRow`.
- `HubCommandsProofs`: lemmas on the shape of the programs say that every unit
  posts a stop, and waits, before its redo, and that a job's units stay on its
  target. The invariant: an execution is at a step of its program (`Placed`),
  what it recorded follows from its units (`Recorded`), CoreHub accepted its
  commands in order (`InOrder`) and on target (`OnItsTarget`), and between the
  wait and the redo the entities are at rest unless disturbed (`AtRest`).
  `ImplementsOutcome` maps every step to one of `CommandOutcome` or a stutter.
- `TriggerFlowsProofs`: ids tell rows apart (`RowsDistinct`), one fire has the
  loop (`OneAwake`), chosen events are of the flow (`Prepared`), a chain is
  posted from its front (`InOrder`), was not refused (`Guarded`) and is about its
  source (`OnSource`), and log and error follow the fires that ended
  (`LogOfEnded`, `ErrorFollows`).
- `ChainExecutionProofs`: a signal, a buffered callback and a delivery under way
  are `fresh` for the run they reach (`OnFresh`); events are fired in sequence
  (`InSequence`); while a window is open somebody listens, and whoever waits is
  inside (`SomebodyListens`, `WaitersWait`); a callback was sent for a completed
  operation (`Announced`, `OfStarted`), and a run that is alone has its own
  (`FreshIsOwn`).
- `WebhookRegistryProofs`: a call has a thread for every batch it may still start
  (`Planned`), so that no batch is overwritten; between its GET and its PUT a
  batch holds the lock, and at most one waits for it (`OneInside`); so what was
  read is what CoreHub still has (`ReadIsCurrent`), provided no GET fails. A PUT
  then changes one webhook: the lowest of a set of numbers, which exists because
  the natural numbers are well-founded.
- `HubFollows`: `HubFollowsTable` if no GET fails and no two callers have a flow,
  or the job, in common (`Apart`, without which it is false, section 4). The
  property says nothing while a call is under way, so `Follows` says what is left
  to do: for every webhook, what the running batches and the steps still planned
  make of CoreHub's list is what the commits still planned make of the row
  (`Agrees`), unless a failed PUT or a stop has put the webhook into `undone`.
  `Sound` keeps a plan within its caller's webhooks; `Threads` says that a batch
  nobody waits for any more has given up on its webhooks.
- `SdkConnectionProofs`: nobody but startup does anything before the first login
  is over (`StartupFirst`). Unless `entangled`, one process logs in at a time
  (`Solo`), with the current client, whose callbacks run on the loop of that
  login (`Mine`); every other client but those in `left` is closed or has nobody
  to listen, and has nothing to tell but a disconnection (`Quiet`): a client
  whose disconnect raised goes to `left`. While nothing is there, a callback that
  brings a token comes from the current client (`TokenOfClient`).

Every safety property of the passing runs is stated by a theorem, for every value
of the constants; where a theorem has a hypothesis, the runs check the property
under it too. Only model-checked: liveness (`FireSettles`, `ChainEnds`,
`JobCallsReturn`, `ExecutionsEnd`, `RunsEnd`, `FiresEnd`, `SessionRecovers`), which
the prover does not reach. The types of `HubRuns`, `WebhookRegistry` and
`SdkConnection` are only proved: no run repeats them.

## 6. Not modelled

- Authentication: one map from a credential to an identity and an expiry; its
  only change is an assignment, and that an entry is used until it expires is
  its design.
- Settings: single values, written by one commit each.
- Persistence and migrations: commits are atomic in every module; migrations run
  once, one after the other, before anything else.
- Application shell, rendering of the API, packaging, sandbox and tests: no state
  that several steps or actors share.
- Of the groups only the lookup, of the command line only the run of a job.
