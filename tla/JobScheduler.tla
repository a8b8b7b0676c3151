---------------------------- MODULE JobScheduler ----------------------------
(***************************************************************************)
(* The scheduling core of Chronos: the scheduled_jobs table, the in-memory *)
(* APScheduler, the threads that execute jobs, the API calls that change   *)
(* jobs, restarts and the replay of the runs missed while the process was  *)
(* down.  Sources: services/scheduler_service.py, services/job_service.py  *)
(* and the startup part of core/app.py.                                    *)
(*                                                                         *)
(* Who takes steps:                                                        *)
(*   - the event loop: startup, APScheduler's wake-ups, create and update  *)
(*     (async routes that never await, so they exclude each other and the  *)
(*     wake-ups), and the coroutine that replays missed runs;              *)
(*   - the thread pool: toggle, delete and run-now calls, and every        *)
(*     execution of a job (_execute_job and run_job).                      *)
(* An action at tick t happens just after the instant t: a fire time t is  *)
(* due at tick t and a next fire computed then is later than t.            *)
(***************************************************************************)
EXTENDS MissedRuns

CONSTANTS
    Jobs,           \* job ids; an id is never used twice
    InitialJobs,    \* the enabled jobs stored and loaded at the start
    Crons,          \* schedules (cron expression, timezone and day_or)
    InitialCron,    \* the schedule the initial jobs have
    FireTimes,      \* FireTimes[cr]: the fire times of schedule cr
    BadCrons,       \* schedules croniter accepts and no APScheduler trigger takes
    NoCron,         \* absent: no trigger, or a field not in the request
    ExitJobs,       \* the jobs of type pipeline_exit_maintenance
    Clients,        \* concurrent API callers
    Operations,     \* the API operations the callers use
    FireOnce,       \* the FIRE_ONCE environment variable
    CommitMayFail,  \* whether a commit may raise
    MaxTime,        \* bound: last tick
    MaxCrashes      \* bound: how often the process dies

ASSUME JobsAssumption   == InitialJobs \subseteq Jobs
ASSUME CronsAssumption  == /\ InitialCron \in Crons \ BadCrons
                           /\ NoCron \notin Crons
                           /\ FireTimes \in [Crons -> SUBSET Nat]
ASSUME FlagsAssumption  == FireOnce \in BOOLEAN /\ CommitMayFail \in BOOLEAN
ASSUME BoundsAssumption == MaxTime \in Nat /\ MaxCrashes \in Nat

VARIABLES
    (* the scheduled_jobs table *)
    status,     \* status[j]: "new" before the row exists, "live", "deleted"
    enabled,    \* column enabled
    cron,       \* columns cron_expression, timezone_name and day_or
    nextRun,    \* column next_run
    lastRun,    \* column last_run
    (* the process *)
    proc,       \* "down", "loading" (startup_event) or "up"
    toLoad,     \* the enabled jobs startup has not scheduled yet
    catchup,    \* the missed runs planned and not started
    trigger,    \* trigger[j]: the schedule job_j has in APScheduler
    nextFire,   \* next_run_time of job_j in APScheduler
    stage,      \* stage[r]: where execution r is
    fireOf,     \* the fire time execution r serves (NoTime for a run-now)
    startOf,    \* run_job's local variable now
    seenNext,   \* the next_run_time execution r read and will store
    call,       \* call[c]: the API call caller c is in
    (* the environment *)
    now, crashes,
    (* history *)
    done,       \* done[j]: the fire times whose execution committed
    dropped,    \* dropped[j]: the fire times given up on purpose or by error
    suppressed, \* suppressed[j]: the fire times passed while j was disabled
    starting,   \* starting[j]: the fire times passed while startup was loading
    overlapped  \* overlapped[j]: two executions of j ran at the same time

table   == <<status, enabled, cron, nextRun, lastRun>>
memory  == <<trigger, nextFire>>
exec    == <<stage, fireOf, startOf, seenNext>>
boot    == <<proc, toLoad, catchup>>
env     == <<now, crashes>>
history == <<done, dropped, suppressed, starting, overlapped>>
vars    == <<table, memory, exec, boot, call, env, history>>

Kinds == {"scheduled", "replay", "manual"}
Runs  == Kinds \X Jobs
JobOf(r)  == r[2]
KindOf(r) == r[1]

Stages == {"idle", "submitted", "running", "returned", "refresh", "disable", "remove"}

IdleCall == [at |-> "idle", job |-> NoTime, cron |-> NoCron, on |-> FALSE, was |-> FALSE]
CallAt   == {"createSchedule", "updateSync", "toggleSchedule", "toggleCommit",
             "deleteUnschedule", "deleteCommit"}
Calls    == {IdleCall} \cup
            [at : CallAt, job : Jobs, cron : Crons, on : BOOLEAN, was : BOOLEAN]

MissedRun == [job : Jobs, fire : Time]

Live(j) == status[j] = "live"
Scheduled(j) == trigger[j] # NoCron

(* create and update run on the event loop and block it until they return  *)
LoopBusy == \E c \in Clients : call[c].at \in {"createSchedule", "updateSync"}

-----------------------------------------------------------------------------
Init ==
    /\ status   = [j \in Jobs |-> IF j \in InitialJobs THEN "live" ELSE "new"]
    /\ enabled  = [j \in Jobs |-> j \in InitialJobs]
    /\ cron     = [j \in Jobs |-> InitialCron]
    /\ nextRun  = [j \in Jobs |-> IF j \in InitialJobs
                                    THEN NextFire(FireTimes[InitialCron], 0)
                                    ELSE NoTime]
    /\ lastRun  = [j \in Jobs |-> NoTime]
    /\ proc = "up" /\ toLoad = {} /\ catchup = {}
    /\ trigger  = [j \in Jobs |-> IF j \in InitialJobs THEN InitialCron ELSE NoCron]
    /\ nextFire = [j \in Jobs |-> IF j \in InitialJobs
                                    THEN NextFire(FireTimes[InitialCron], 0)
                                    ELSE NoTime]
    /\ stage    = [r \in Runs |-> "idle"]
    /\ fireOf   = [r \in Runs |-> NoTime]
    /\ startOf  = [r \in Runs |-> NoTime]
    /\ seenNext = [r \in Runs |-> NoTime]
    /\ call     = [c \in Clients |-> IdleCall]
    /\ now = 0 /\ crashes = 0
    /\ done       = [j \in Jobs |-> {}]
    /\ dropped    = [j \in Jobs |-> {}]
    /\ suppressed = [j \in Jobs |-> {}]
    /\ starting   = [j \in Jobs |-> {}]
    /\ overlapped = [j \in Jobs |-> FALSE]

-----------------------------------------------------------------------------
(* APScheduler's job store *)

(* scheduler_service.create_job: build the trigger and add_job with        *)
(* replace_existing; a schedule APScheduler refuses raises first.          *)
AddToScheduler(j, cr) ==
    /\ trigger'  = [trigger  EXCEPT ![j] = cr]
    /\ nextFire' = [nextFire EXCEPT ![j] = NextFire(FireTimes[cr], now)]

(* scheduler_service.remove_job *)
RemoveFromScheduler(j) ==
    /\ trigger'  = [trigger  EXCEPT ![j] = NoCron]
    /\ nextFire' = [nextFire EXCEPT ![j] = NoTime]

-----------------------------------------------------------------------------
(* Time, crashes and startup *)

(* The fire time of job j's schedule that the next tick brings, if any.    *)
Passing(j) == {f \in {now + 1} : Live(j) /\ f \in FireTimes[cron[j]]}

Tick ==
    /\ now < MaxTime
    /\ now' = now + 1
    /\ suppressed' = [j \in Jobs |->
         suppressed[j] \cup IF proc = "up" /\ ~enabled[j] THEN Passing(j) ELSE {}]
    /\ starting' = [j \in Jobs |->
         starting[j] \cup IF proc = "loading" /\ enabled[j] THEN Passing(j) ELSE {}]
    /\ UNCHANGED <<table, memory, exec, boot, call, crashes, done, dropped, overlapped>>

(* The process stops: everything but the table is gone.                    *)
Crash ==
    /\ proc # "down" /\ crashes < MaxCrashes
    /\ crashes' = crashes + 1
    /\ proc' = "down" /\ toLoad' = {} /\ catchup' = {}
    /\ trigger'  = [j \in Jobs |-> NoCron]
    /\ nextFire' = [j \in Jobs |-> NoTime]
    /\ stage'    = [r \in Runs |-> "idle"]
    /\ fireOf'   = [r \in Runs |-> NoTime]
    /\ startOf'  = [r \in Runs |-> NoTime]
    /\ seenNext' = [r \in Runs |-> NoTime]
    /\ call'     = [c \in Clients |-> IdleCall]
    /\ UNCHANGED <<table, now, history>>

(* plan_missed_runs over the enabled jobs; a job whose trigger cannot be   *)
(* built is skipped.  (Ranges of names, which _trigger_for_job takes and   *)
(* create_job refuses, are not among the schedules.)                       *)
MissedOf(j) == LatestMissedFire(FireTimes[cron[j]], nextRun[j], lastRun[j], now)

(* Mutant: the plan keeps the jobs that missed nothing.                    *)
PlanMissedRuns_unfiltered(enabledJobs) ==
    {[job |-> j, fire |-> MissedOf(j)] : j \in {i \in enabledJobs : cron[i] \notin BadCrons}}

PlanMissedRuns(enabledJobs) ==
    {[job |-> j, fire |-> MissedOf(j)] :
        j \in {i \in enabledJobs : /\ cron[i] \notin BadCrons
                                   /\ Replayable(MissedOf(i), i \in ExitJobs, now)}}

EnabledJobs == {j \in Jobs : Live(j) /\ enabled[j]}

(* _load_enabled_jobs, first half: the plan is made before any job is      *)
(* scheduled, because scheduling overwrites next_run.                      *)
StartUp ==
    /\ proc = "down"
    /\ proc' = "loading"
    /\ toLoad' = EnabledJobs
    /\ catchup' = PlanMissedRuns(EnabledJobs)
    /\ UNCHANGED <<table, memory, exec, call, env, history>>

(* _schedule_job: schedule one job and commit its new next_run; a job that *)
(* cannot be scheduled is logged and left out.                             *)
LoadJob(j) ==
    /\ proc = "loading" /\ j \in toLoad
    /\ toLoad' = toLoad \ {j}
    /\ IF cron[j] \in BadCrons
         THEN UNCHANGED <<memory, nextRun>>
         ELSE /\ AddToScheduler(j, cron[j])
              /\ nextRun' = [nextRun EXCEPT ![j] =
                               IF nextFire'[j] # NoTime THEN nextFire'[j] ELSE @]
    /\ UNCHANGED <<status, enabled, cron, lastRun, exec, proc, catchup, call, env, history>>

(* The startup jobs are loaded and _start_catchup has created the task     *)
(* that runs the plan.  startup_event still cleans up webhooks after that; *)
(* the API answers when it has returned.                                   *)
Ready ==
    /\ proc = "loading" /\ toLoad = {}
    /\ proc' = "up"
    /\ UNCHANGED <<table, memory, exec, toLoad, catchup, call, env, history>>

-----------------------------------------------------------------------------
(* API calls *)

Free(c, op) == proc = "up" /\ op \in Operations /\ call[c] = IdleCall

Enter(c, at, j, cr, on, was) ==
    call' = [call EXCEPT ![c] = [at |-> at, job |-> j, cron |-> cr, on |-> on, was |-> was]]

Leave(c) == call' = [call EXCEPT ![c] = IdleCall]

(* JobService.create_job up to the commit of the row *)
CreateRow(c, j, cr, on) ==
    /\ Free(c, "create") /\ ~LoopBusy /\ status[j] = "new"
    /\ status'  = [status  EXCEPT ![j] = "live"]
    /\ enabled' = [enabled EXCEPT ![j] = on]
    /\ cron'    = [cron    EXCEPT ![j] = cr]
    /\ nextRun' = [nextRun EXCEPT ![j] = NextFire(FireTimes[cr], now)]
    /\ IF on THEN Enter(c, "createSchedule", j, cr, on, FALSE) ELSE UNCHANGED call
    /\ UNCHANGED <<lastRun, memory, exec, boot, env, history>>

(* its second half: schedule the job; when that raises the row stays       *)
CreateSchedule(c) ==
    /\ call[c].at = "createSchedule"
    /\ IF call[c].cron \in BadCrons
         THEN UNCHANGED memory
         ELSE AddToScheduler(call[c].job, call[c].cron)
    /\ Leave(c)
    /\ UNCHANGED <<table, exec, boot, env, history>>

(* JobService.update_job up to the commit; next_run is recomputed when the *)
(* request gives a schedule (cr # NoCron), even an unchanged one.          *)
UpdateRow(c, j, cr, on) ==
    LET newCron == IF cr = NoCron THEN cron[j] ELSE cr IN
    /\ Free(c, "update") /\ ~LoopBusy /\ Live(j)
    /\ enabled' = [enabled EXCEPT ![j] = on]
    /\ cron'    = [cron    EXCEPT ![j] = newCron]
    /\ nextRun' = [nextRun EXCEPT ![j] =
                     IF cr = NoCron THEN @ ELSE NextFire(FireTimes[cr], now)]
    /\ Enter(c, "updateSync", j, newCron, on, FALSE)
    /\ UNCHANGED <<status, lastRun, memory, exec, boot, env, history>>

(* Mutant: a disabled job is not taken out of the scheduler.               *)
UpdateSync_keep(c) ==
    LET j == call[c].job IN
    /\ call[c].at = "updateSync"
    /\ IF call[c].on /\ call[c].cron \notin BadCrons
         THEN AddToScheduler(j, call[c].cron)
         ELSE UNCHANGED memory
    /\ Leave(c)
    /\ UNCHANGED <<table, exec, boot, env, history>>

(* _sync_scheduler_after_job_update: remove, then create; when create      *)
(* raises the job is out of the scheduler and the row stays enabled.       *)
UpdateSync(c) ==
    LET j == call[c].job IN
    /\ call[c].at = "updateSync"
    /\ IF call[c].on /\ call[c].cron \notin BadCrons
         THEN AddToScheduler(j, call[c].cron)
         ELSE RemoveFromScheduler(j)
    /\ Leave(c)
    /\ UNCHANGED <<table, exec, boot, env, history>>

(* JobService.toggle_job_status: read the row, change the scheduler, then  *)
(* commit.  next_run is not recomputed.                                    *)
ToggleRead(c, j, on) ==
    /\ Free(c, IF on THEN "enable" ELSE "disable") /\ Live(j)
    /\ Enter(c, "toggleSchedule", j, cron[j], on, enabled[j])
    /\ UNCHANGED <<table, memory, exec, boot, env, history>>

ToggleSchedule(c) ==
    LET j == call[c].job IN
    /\ call[c].at = "toggleSchedule"
    /\ IF call[c].on /\ call[c].cron \in BadCrons
         THEN Leave(c) /\ UNCHANGED memory
         ELSE /\ IF call[c].on THEN AddToScheduler(j, call[c].cron)
                               ELSE RemoveFromScheduler(j)
              /\ call' = [call EXCEPT ![c].at = "toggleCommit"]
    /\ UNCHANGED <<table, exec, boot, env, history>>

(* SQLAlchemy writes enabled only when it differs from the value read; a   *)
(* row deleted meanwhile or a failing commit rolls back the row alone.     *)
ToggleCommit(c) ==
    LET j == call[c].job IN
    /\ call[c].at = "toggleCommit"
    /\ \/ /\ Live(j) /\ call[c].on # call[c].was
          /\ enabled' = [enabled EXCEPT ![j] = call[c].on]
       \/ /\ ~Live(j) \/ call[c].on = call[c].was \/ CommitMayFail
          /\ UNCHANGED enabled
    /\ Leave(c)
    /\ UNCHANGED <<status, cron, nextRun, lastRun, memory, exec, boot, env, history>>

(* JobService.delete_job: the webhooks of its chain go first (a blocking   *)
(* call), then the scheduler's job, then the row.                          *)
DeleteRead(c, j) ==
    /\ Free(c, "delete") /\ Live(j)
    /\ Enter(c, "deleteUnschedule", j, cron[j], FALSE, FALSE)
    /\ UNCHANGED <<table, memory, exec, boot, env, history>>

(* Mutant: the row goes, the scheduler's job stays.                        *)
DeleteUnschedule_keep(c) ==
    /\ call[c].at = "deleteUnschedule"
    /\ call' = [call EXCEPT ![c].at = "deleteCommit"]
    /\ UNCHANGED <<table, memory, exec, boot, env, history>>

DeleteUnschedule(c) ==
    /\ call[c].at = "deleteUnschedule"
    /\ RemoveFromScheduler(call[c].job)
    /\ call' = [call EXCEPT ![c].at = "deleteCommit"]
    /\ UNCHANGED <<table, exec, boot, env, history>>

DeleteCommit(c) ==
    /\ call[c].at = "deleteCommit"
    /\ \/ status' = [status EXCEPT ![call[c].job] = "deleted"]
       \/ CommitMayFail /\ UNCHANGED status
    /\ Leave(c)
    /\ UNCHANGED <<enabled, cron, nextRun, lastRun, memory, exec, boot, env, history>>

-----------------------------------------------------------------------------
(* Executions *)

Submit(r, fire) ==
    /\ stage'   = [stage  EXCEPT ![r] = "submitted"]
    /\ fireOf'  = [fireOf EXCEPT ![r] = fire]
    /\ UNCHANGED <<startOf, seenNext>>

(* Execution r is over.                                                    *)
End(r) ==
    /\ stage'    = [stage    EXCEPT ![r] = "idle"]
    /\ fireOf'   = [fireOf   EXCEPT ![r] = NoTime]
    /\ startOf'  = [startOf  EXCEPT ![r] = NoTime]
    /\ seenNext' = [seenNext EXCEPT ![r] = NoTime]

GiveUp(r) ==
    dropped' = [dropped EXCEPT ![JobOf(r)] =
                  IF fireOf[r] = NoTime THEN @ ELSE @ \cup {fireOf[r]}]

(* APScheduler wakes up: the due fire times of job j coalesce into the     *)
(* latest, which is refused while an execution of j that APScheduler       *)
(* started is unfinished (max_instances = 1).                              *)
Fire(j) ==
    LET r   == <<"scheduled", j>>
        due == FiresIn(FireTimes[trigger[j]], nextFire[j], now)
        f   == Latest(due)
    IN
    /\ proc = "up" /\ ~LoopBusy /\ Scheduled(j)
    /\ nextFire[j] # NoTime /\ nextFire[j] <= now
    /\ nextFire' = [nextFire EXCEPT ![j] = NextFire(FireTimes[trigger[j]], f)]
    /\ IF stage[r] = "idle"
         THEN Submit(r, f) /\ UNCHANGED dropped
         ELSE UNCHANGED exec /\ dropped' = [dropped EXCEPT ![j] = @ \cup {f}]
    /\ UNCHANGED <<table, trigger, boot, call, env, done, suppressed, starting, overlapped>>

(* The executor thread finds the fire older than misfire_grace_time.       *)
Misfire(r) ==
    /\ KindOf(r) = "scheduled" /\ stage[r] = "submitted"
    /\ now - fireOf[r] > Grace
    /\ End(r) /\ GiveUp(r)
    /\ UNCHANGED <<table, memory, boot, call, env, done, suppressed, starting, overlapped>>

(* Mutant: the replay of one run forgets the others.                       *)
StartReplay_onlyOne(p) ==
    /\ proc = "up" /\ ~LoopBusy
    /\ \A j \in Jobs : stage[<<"replay", j>>] = "idle"
    /\ p \in catchup /\ \A q \in catchup : p.fire <= q.fire
    /\ catchup' = {}
    /\ Submit(<<"replay", p.job>>, p.fire)
    /\ UNCHANGED <<table, memory, proc, toLoad, call, env, history>>

(* run_missed: one replay after the other, oldest fire first, outside      *)
(* APScheduler and so outside max_instances.                               *)
StartReplay(p) ==
    /\ proc = "up" /\ ~LoopBusy
    /\ \A j \in Jobs : stage[<<"replay", j>>] = "idle"
    /\ p \in catchup /\ \A q \in catchup : p.fire <= q.fire
    /\ catchup' = catchup \ {p}
    /\ Submit(<<"replay", p.job>>, p.fire)
    /\ UNCHANGED <<table, memory, proc, toLoad, call, env, history>>

(* POST /jobs/{id}/run: neither enabled nor a running execution is looked at *)
RunNow(j) ==
    /\ proc = "up" /\ "run" \in Operations /\ Live(j)
    /\ stage[<<"manual", j>>] = "idle"
    /\ Submit(<<"manual", j>>, NoTime)
    /\ UNCHANGED <<table, memory, boot, call, env, history>>

(* run_job begins: last_run := now in the session, not yet committed, and  *)
(* the command goes to CoreHub.  A deleted job raises.                     *)
Begin(r) ==
    LET j == JobOf(r) IN
    /\ stage[r] = "submitted"
    /\ KindOf(r) = "scheduled" => now - fireOf[r] <= Grace
    /\ IF Live(j)
         THEN /\ stage'   = [stage   EXCEPT ![r] = "running"]
              /\ startOf' = [startOf EXCEPT ![r] = now]
              /\ overlapped' = [overlapped EXCEPT ![j] =
                   @ \/ \E k \in Kinds : stage[<<k, j>>] = "running"]
              /\ UNCHANGED <<fireOf, seenNext, dropped>>
         ELSE End(r) /\ GiveUp(r) /\ UNCHANGED overlapped
    /\ UNCHANGED <<table, memory, boot, call, env, done, suppressed, starting>>

(* Mutant: only a run-now records last_run.                                *)
Commit_manualOnly(r) ==
    LET j == JobOf(r) IN
    /\ stage[r] = "running" /\ Live(j)
    /\ IF KindOf(r) = "manual"
         THEN /\ lastRun' = [lastRun EXCEPT ![j] = startOf[r]]
              /\ End(r) /\ UNCHANGED done
         ELSE /\ stage' = [stage EXCEPT ![r] = "returned"]
              /\ done'  = [done  EXCEPT ![j] = @ \cup {fireOf[r]}]
              /\ UNCHANGED <<lastRun, fireOf, startOf, seenNext>>
    /\ UNCHANGED <<status, enabled, cron, nextRun, memory, boot, call, env,
                   dropped, suppressed, starting, overlapped>>

(* run_job commits last_run and the outcome.  A run-now is then over; a    *)
(* scheduled or replayed execution goes on in _execute_job.                *)
Commit(r) ==
    LET j == JobOf(r) IN
    /\ stage[r] = "running" /\ Live(j)
    /\ lastRun' = [lastRun EXCEPT ![j] = startOf[r]]
    /\ IF KindOf(r) = "manual"
         THEN End(r) /\ UNCHANGED done
         ELSE /\ stage' = [stage EXCEPT ![r] = "returned"]
              /\ done'  = [done  EXCEPT ![j] = @ \cup {fireOf[r]}]
              /\ UNCHANGED <<fireOf, startOf, seenNext>>
    /\ UNCHANGED <<status, enabled, cron, nextRun, memory, boot, call, env,
                   dropped, suppressed, starting, overlapped>>

(* The commit raises, because it fails or because the row is gone: rolled  *)
(* back, nothing of the execution is recorded.                             *)
FailCommit(r) ==
    /\ stage[r] = "running" /\ (CommitMayFail \/ ~Live(JobOf(r)))
    /\ End(r) /\ GiveUp(r)
    /\ UNCHANGED <<table, memory, boot, call, env, done, suppressed, starting, overlapped>>

(* Mutant: the fire after the next one is read.                            *)
ReadNext_skip(r) ==
    /\ stage[r] = "returned"
    /\ stage'    = [stage    EXCEPT ![r] = "refresh"]
    /\ seenNext' = [seenNext EXCEPT ![r] =
                      IF nextFire[JobOf(r)] = NoTime
                        THEN NoTime
                        ELSE NextFire(FireTimes[cron[JobOf(r)]], nextFire[JobOf(r)])]
    /\ UNCHANGED <<table, memory, boot, call, env, history, fireOf, startOf>>

(* _execute_job asks APScheduler for the job's next_run_time ...           *)
ReadNext(r) ==
    /\ stage[r] = "returned"
    /\ stage'    = [stage    EXCEPT ![r] = "refresh"]
    /\ seenNext' = [seenNext EXCEPT ![r] = nextFire[JobOf(r)]]
    /\ UNCHANGED <<table, memory, boot, call, env, history, fireOf, startOf>>

(* ... and stores it.  Under FIRE_ONCE a successful execution goes on to   *)
(* disable the job.                                                        *)
SaveNext(r) ==
    LET j == JobOf(r) IN
    /\ stage[r] = "refresh"
    /\ nextRun' = [nextRun EXCEPT ![j] =
                     IF seenNext[r] # NoTime /\ Live(j) THEN seenNext[r] ELSE @]
    /\ \/ End(r)
       \/ /\ FireOnce
          /\ stage' = [stage EXCEPT ![r] = "disable"]
          /\ UNCHANGED <<fireOf, startOf, seenNext>>
    /\ UNCHANGED <<status, enabled, cron, lastRun, memory, boot, call, env, history>>

(* Mutant: the row is disabled and the scheduler keeps the job.            *)
DisableOnce_rowOnly(r) ==
    LET j == JobOf(r) IN
    /\ stage[r] = "disable"
    /\ enabled' = [enabled EXCEPT ![j] = @ /\ ~Live(j)]
    /\ End(r)
    /\ UNCHANGED <<status, cron, nextRun, lastRun, memory, boot, call, env, history>>

DisableOnce(r) ==
    LET j == JobOf(r) IN
    /\ stage[r] = "disable"
    /\ IF Live(j)
         THEN /\ enabled' = [enabled EXCEPT ![j] = FALSE]
              /\ stage'   = [stage   EXCEPT ![r] = "remove"]
              /\ UNCHANGED <<fireOf, startOf, seenNext>>
         ELSE End(r) /\ UNCHANGED enabled
    /\ UNCHANGED <<status, cron, nextRun, lastRun, memory, boot, call, env, history>>

RemoveOnce(r) ==
    /\ stage[r] = "remove"
    /\ RemoveFromScheduler(JobOf(r))
    /\ End(r)
    /\ UNCHANGED <<table, boot, call, env, history>>

-----------------------------------------------------------------------------
Startup == StartUp \/ (\E j \in Jobs : LoadJob(j)) \/ Ready

ApiCall(c) ==
    \/ \E j \in Jobs, cr \in Crons, on \in BOOLEAN : CreateRow(c, j, cr, on)
    \/ CreateSchedule(c)
    \/ \E j \in Jobs, cr \in Crons \cup {NoCron}, on \in BOOLEAN : UpdateRow(c, j, cr, on)
    \/ UpdateSync(c)
    \/ \E j \in Jobs, on \in BOOLEAN : ToggleRead(c, j, on)
    \/ ToggleSchedule(c)
    \/ ToggleCommit(c)
    \/ \E j \in Jobs : DeleteRead(c, j)
    \/ DeleteUnschedule(c)
    \/ DeleteCommit(c)

Execution(r) ==
    \/ Misfire(r) \/ Begin(r) \/ Commit(r) \/ FailCommit(r)
    \/ ReadNext(r) \/ SaveNext(r) \/ DisableOnce(r) \/ RemoveOnce(r)

Next ==
    \/ Tick
    \/ Crash
    \/ Startup
    \/ \E c \in Clients : ApiCall(c)
    \/ \E j \in Jobs : Fire(j) \/ RunNow(j)
    \/ \E p \in catchup : StartReplay(p)
    \/ \E r \in Runs : Execution(r)

Spec == Init /\ [][Next]_vars

(* The event loop keeps turning and every thread is scheduled; a command   *)
(* ends: a task posted to a route by the route's timeout, the tasks that   *)
(* call CoreHub themselves (groups, queries, rebuilds) only if CoreHub     *)
(* answers, for they set none.  Nothing obliges a caller to call, the      *)
(* clock to reach a given tick or the process to die; a process that died  *)
(* is started again by the container runtime.                              *)
Fairness ==
    /\ WF_vars(Startup)
    /\ \A c \in Clients : WF_vars(call[c] # IdleCall /\ ApiCall(c))
    /\ \A j \in Jobs : WF_vars(Fire(j))
    /\ WF_vars(\E p \in catchup : StartReplay(p))
    /\ \A r \in Runs : WF_vars(Execution(r))

FairSpec == Spec /\ Fairness

-----------------------------------------------------------------------------
TypeOK ==
    /\ status   \in [Jobs -> {"new", "live", "deleted"}]
    /\ enabled  \in [Jobs -> BOOLEAN]
    /\ cron     \in [Jobs -> Crons]
    /\ nextRun  \in [Jobs -> OptTime]
    /\ lastRun  \in [Jobs -> OptTime]
    /\ proc \in {"down", "loading", "up"}
    /\ toLoad \subseteq Jobs
    /\ catchup \subseteq MissedRun
    /\ trigger  \in [Jobs -> Crons \cup {NoCron}]
    /\ nextFire \in [Jobs -> OptTime]
    /\ stage    \in [Runs -> Stages]
    /\ fireOf   \in [Runs -> OptTime]
    /\ startOf  \in [Runs -> OptTime]
    /\ seenNext \in [Runs -> OptTime]
    /\ call     \in [Clients -> Calls]
    /\ now \in Time /\ crashes \in Nat
    /\ done       \in [Jobs -> SUBSET OptTime]
    /\ dropped    \in [Jobs -> SUBSET OptTime]
    /\ suppressed \in [Jobs -> SUBSET Time]
    /\ starting   \in [Jobs -> SUBSET Time]
    /\ overlapped \in [Jobs -> BOOLEAN]

-----------------------------------------------------------------------------
(* The catch-up plan rests on two columns: next_run says a fire was due,   *)
(* last_run says it ran.  An execution that committed is not planned again *)
(* after a restart, unless two executions of the job ran at the same time  *)
(* (the one that started first may then commit last and move last_run      *)
(* back before the fire).                                                  *)
CommittedFireNotReplayed ==
    [][\A p \in catchup' \ catchup :
         p.fire \in done[p.job] => overlapped[p.job]]_vars

(* Why it holds.  The fire times and start times in flight lie in the past *)
(* ...                                                                     *)
InThePast ==
    /\ \A p \in catchup : p.fire <= now
    /\ \A j \in Jobs : lastRun[j] # NoTime => lastRun[j] <= now
    /\ \A r \in Runs : stage[r] = "submitted" /\ fireOf[r] # NoTime => fireOf[r] <= now
    /\ \A r \in Runs : stage[r] = "running" =>
          /\ startOf[r] # NoTime /\ startOf[r] <= now
          /\ fireOf[r] # NoTime => fireOf[r] <= startOf[r]

(* ... so last_run, which only moves forward while the executions of a job *)
(* exclude each other, is at or after every fire that was executed.        *)
LastRunCovers ==
    /\ \A j \in Jobs : \A f \in done[j] :
          ~overlapped[j] /\ f # NoTime => lastRun[j] # NoTime /\ f <= lastRun[j]
    /\ \A r \in Runs : stage[r] = "running" /\ ~overlapped[JobOf(r)] =>
          lastRun[JobOf(r)] = NoTime \/ lastRun[JobOf(r)] <= startOf[r]
    /\ \A r, q \in Runs :
          /\ stage[r] = "running" /\ stage[q] = "running"
          /\ JobOf(r) = JobOf(q) /\ ~overlapped[JobOf(r)]
          => r = q

(* The two together are inductive: last_run accounts for every fire that   *)
(* committed.                                                              *)
CatchupInv == InThePast /\ LastRunCovers

(* The latest fire time of job j that is due.                              *)
LatestDue(j) == Latest(FiresIn(FireTimes[cron[j]], 1, now))

InFlight(j, f) == \E k \in {"scheduled", "replay"} :
                     /\ fireOf[<<k, j>>] = f
                     /\ stage[<<k, j>>] \in {"submitted", "running"}

(* The evidence a restart would find for fire f of job j.                  *)
Evidence(j, f) == /\ nextRun[j] # NoTime /\ nextRun[j] <= f
                  /\ lastRun[j] = NoTime \/ lastRun[j] < f

(* Where the latest due fire f of job j is accounted for: it ran or was    *)
(* given up, or an execution that began after it committed, or it waits in *)
(* APScheduler, or is being executed, or is in the catch-up plan, or the   *)
(* process is down and the table still shows it, or it is too old to be    *)
(* replayed.                                                               *)
AccountedFor(j, f) ==
    \/ f \in done[j] \cup dropped[j]
    \/ lastRun[j] # NoTime /\ lastRun[j] >= f
    \/ proc = "up" /\ Scheduled(j) /\ nextFire[j] # NoTime /\ nextFire[j] <= f
    \/ InFlight(j, f)
    \/ [job |-> j, fire |-> f] \in catchup
    \/ proc = "down" /\ Evidence(j, f)
    \/ now - f > Grace /\ j \notin ExitJobs

FireOwed(j) == Live(j) /\ enabled[j] /\ cron[j] \notin BadCrons /\ LatestDue(j) # NoTime

(* Through executions, failures and a restart, the latest due fire of an   *)
(* enabled job is never lost, unless it passed while startup_event was     *)
(* loading the jobs.                                                       *)
NoFireForgotten ==
    \A j \in Jobs : FireOwed(j) =>
        AccountedFor(j, LatestDue(j)) \/ LatestDue(j) \in starting[j]

(* The same as progress: whatever the interleaving, a fire that is due is  *)
(* executed or given up, is overtaken by a later fire, grows too old, or   *)
(* its job is disabled.                                                    *)
FireSettles ==
    \A j \in Jobs, f \in 1..MaxTime \cap UNION {FireTimes[cr] : cr \in Crons} :
        (FireOwed(j) /\ f = LatestDue(j)) ~>
            \/ f \in done[j] \cup dropped[j] \cup starting[j]
            \/ ~FireOwed(j) \/ f # LatestDue(j) \/ (lastRun[j] # NoTime /\ lastRun[j] >= f)
            \/ now - f > Grace /\ j \notin ExitJobs

(* Between two API calls APScheduler holds exactly the enabled jobs, each  *)
(* with the schedule of its row.                                           *)
Settled(j) ==
    /\ proc = "up"
    /\ \A c \in Clients : call[c].job # j
    /\ \A k \in Kinds : stage[<<k, j>>] # "remove"

SchedulerFollowsTable ==
    \A j \in Jobs : Settled(j) /\ cron[j] \notin BadCrons =>
        trigger[j] = (IF Live(j) /\ enabled[j] THEN cron[j] ELSE NoCron)

(* A scheduled execution starts only for a job that is enabled, or whose   *)
(* enabling is about to be committed, or that FIRE_ONCE has disabled and   *)
(* is about to remove from APScheduler.                                    *)
FiresOnlyEnabled ==
    [][\A j \in Jobs :
         (stage[<<"scheduled", j>>] = "idle" /\ stage'[<<"scheduled", j>>] = "submitted") =>
             /\ Live(j)
             /\ \/ enabled[j]
                \/ \E c \in Clients : call[c].job = j /\ call[c].on
                \/ \E k \in Kinds : stage[<<k, j>>] = "remove"]_vars

(* Unless an update changes the schedule during an execution, the stored   *)
(* next_run of a scheduled job is never later than APScheduler's next      *)
(* fire: a crash cannot hide that fire.                                    *)
EvidenceNotAhead ==
    \A j \in Jobs : (Settled(j) /\ Live(j) /\ Scheduled(j) /\ nextFire[j] # NoTime) =>
        (nextRun[j] # NoTime /\ nextRun[j] <= nextFire[j])

(* The docstring of MissedRun: a planned fire passed while Chronos was     *)
(* down, so it is none that passed while Chronos was up and the job was    *)
(* disabled.                                                               *)
PlannedFirePassedWhileDown ==
    [][\A p \in catchup' \ catchup : p.fire \notin suppressed[p.job]]_vars
=============================================================================
