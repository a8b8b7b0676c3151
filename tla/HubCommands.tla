---------------------------- MODULE HubCommands ----------------------------
(***************************************************************************)
(* The executions that start, stop, snapshot or redo entities of a         *)
(* pipeline in CoreHub: CoreHubClient and PipelineManager                  *)
(* (core/play_pause.py), the internal /pipelines routes                    *)
(* (api/pipeline_router.py) and the three callers that turn a task into    *)
(* such commands: a scheduled job (job_service), a chained or trigger-flow *)
(* event (chain_execution_service) and the command line (cli/job_runner).  *)
(*                                                                         *)
(* An execution is a sequence of units (one call of a CoreHubClient method *)
(* each) and a unit is a sequence of steps: a command to post, the lookup  *)
(* of the entities it is about, or the wait until they are settled.  A     *)
(* step that fails ends its unit, never the execution.  The fixed pauses   *)
(* (2 s between entities, 5 s before a snapshot) need no step: the model   *)
(* lets any time pass between two steps.                                   *)
(***************************************************************************)
EXTENDS Integers, Sequences, FiniteSets, SequencesExt

CONSTANTS
  Entity,         \* entities of one pipeline
  GroupId,        \* its groups
  GroupOf,        \* GroupOf[e]: the group of an entity
  Exec,           \* executions
  Request,        \* what an execution may be asked for
  NoRequest,      \* an execution that was asked for nothing yet
  Asked,          \* Asked[x]: the requests execution x may get
  MaxPolls        \* status reads that fit in CHRONOS_REDO_PAUSE_TIMEOUT

Phase == {"hold", "sync", "snapshot", "stopping"}

\* What a task does, and to what; the maintenance tasks are of a pipeline.
TaskType == ({"start", "stop", "snapshot", "redo"} \X {"entity", "group", "pipeline"})
              \cup ({"enter", "exit"} \X {"pipeline"})

ASSUME EntityAssumption == IsFiniteSet(Entity)
ASSUME GroupsAssumption == GroupOf \in [Entity -> GroupId]
ASSUME RequestAssumption ==
  \A q \in Request :
    /\ q \in [src : {"job", "event", "cli"}, type : TaskType,
             entities : Seq(Entity), groups : Seq(GroupId)]
ASSUME AskedAssumption == Asked \in [Exec -> SUBSET Request]
ASSUME NoRequestAssumption == NoRequest \notin Request
ASSUME MaxPollsAssumption == MaxPolls \in Nat

VARIABLES
  phase,          \* CoreHub: what an entity is doing; all but "hold" is Active
  issue,          \* CoreHub: the entity has a non-empty errorState
  run,            \* run[x]: the execution's place in its program
  verdict,        \* verdict[x]: what its caller recorded
  applied,        \* commands of x that CoreHub accepted (history)
  warned,         \* entities x saw settled only by their issue (history)
  disturbed       \* entities another execution commanded since x saw them
                  \* settled (history)

vars == <<phase, issue, run, verdict, applied, warned, disturbed>>

------------------------------------------------------------------------------
(* CoreHubClient: one method, one unit. *)

Post(cmd, on) == [do |-> "post", cmd |-> cmd, on |-> on]
Resolve(on)   == [do |-> "resolve", cmd |-> "get", on |-> on]
Settle(on)    == [do |-> "settle", cmd |-> "get", on |-> on]

Steps == [do : {"post", "resolve", "settle"}, on : SUBSET Entity,
          cmd : {"get", "start", "stop", "snapshot", "redo", "enter", "exit"}]

Members(g) == {e \in Entity : GroupOf[e] = g}

start_entity(e)    == <<Post("start", {e})>>
stop_entity(e)     == <<Post("stop", {e})>>
resync_entity(e)   == <<Post("stop", {e}), Post("snapshot", {e})>>
redo_entity(e)     == <<Post("stop", {e}), Settle({e}), Post("redo", {e})>>

start_pipeline     == <<Post("start", Entity)>>
stop_pipeline      == <<Post("stop", Entity)>>
resync_pipeline    == <<Post("stop", Entity), Post("snapshot", Entity)>>
redo_pipeline      == <<Post("stop", Entity), Resolve(Entity), Settle(Entity),
                        Post("redo", Entity)>>

start_group(g)     == <<Post("start", Members(g))>>
stop_group(g)      == <<Post("stop", Members(g))>>
resync_group(g)    == <<Post("stop", Members(g)), Post("snapshot", Members(g))>>
redo_group(g)      == <<Post("stop", Members(g)), Resolve(Members(g)),
                        Settle(Members(g)), Post("redo", Members(g))>>

enter_maintenance_mode == <<Post("enter", {})>>
exit_maintenance_mode  == <<Post("exit", {})>>

------------------------------------------------------------------------------
(* PipelineManager: a list of entities or groups is one unit after another. *)

play_entities(ids)   == [i \in DOMAIN ids |-> start_entity(ids[i])]
pause_entities(ids)  == [i \in DOMAIN ids |-> stop_entity(ids[i])]
resync_entities(ids) == [i \in DOMAIN ids |-> resync_entity(ids[i])]
redo_entities(ids)   == [i \in DOMAIN ids |-> redo_entity(ids[i])]
redo_groups(gs)      == [i \in DOMAIN gs |-> redo_group(gs[i])]

(* A group whose entities CoreHub does not name counts as an empty one, and *)
(* the entities of several groups come in no fixed order.                   *)
get_multiple_groups_entities(gs) ==
  {UNION {Members(g) : g \in known} : known \in SUBSET {gs[i] : i \in DOMAIN gs}}

resync_groups(gs) ==
  {resync_entities(ids) :
     ids \in UNION {SetToSeqs(found) : found \in get_multiple_groups_entities(gs)}}

(* The /pipelines routes: an empty list of entities means the pipeline.     *)
(* "one-time-snapshot-group" looks its entities up first (leg "expand").    *)

PlayRoute(ids) == IF ids # <<>> THEN play_entities(ids) ELSE <<start_pipeline>>
PauseRoute(ids) == IF ids # <<>> THEN pause_entities(ids) ELSE <<stop_pipeline>>
SnapshotRoute(ids) == IF ids # <<>> THEN resync_entities(ids) ELSE <<resync_pipeline>>
RedoRoute(ids) == IF ids # <<>> THEN redo_entities(ids) ELSE <<redo_pipeline>>
RedoGroupRoute(gs) == redo_groups(gs)
EnterRoute == <<enter_maintenance_mode>>
ExitRoute == <<exit_maintenance_mode>>

(* The action a task type is mapped to, the same in job_service and in      *)
(* chain_execution_service; a task type is <<verb, scope>>.                 *)
_task_type_to_action(t) ==
  CASE t[1] = "start" -> "play"
    [] t[1] = "stop" -> "pause"
    [] t[1] = "snapshot" -> IF t[2] = "group" THEN "one-time-snapshot-group"
                                              ELSE "one-time-snapshot"
    [] t[1] = "redo" -> IF t[2] = "group" THEN "redo-group" ELSE "redo"
    [] t[1] = "enter" -> "enter-maintenance"
    [] t[1] = "exit" -> "exit-maintenance"

\* What a route makes of the body it gets.
RouteUnits(action, ids, gs) ==
  CASE action = "play" -> PlayRoute(ids)
    [] action = "pause" -> PauseRoute(ids)
    [] action = "one-time-snapshot" -> SnapshotRoute(ids)
    [] action = "one-time-snapshot-group" -> <<>>
    [] action = "redo" -> RedoRoute(ids)
    [] action = "redo-group" -> RedoGroupRoute(gs)
    [] action = "enter-maintenance" -> EnterRoute
    [] action = "exit-maintenance" -> ExitRoute

\* A scheduled group task calls CoreHubClient itself, group by group.
_execute_group_operation(action, gs) ==
  [i \in DOMAIN gs |->
     CASE action = "play" -> start_group(gs[i])
       [] action = "pause" -> stop_group(gs[i])
       [] action = "one-time-snapshot-group" -> resync_group(gs[i])
       [] action = "redo-group" -> redo_group(gs[i])]

\* Group tasks of a job are the ones that post to no route.
IsGroupTask(t) == t[2] = "group"
Direct(q) == q.src = "job" /\ IsGroupTask(q.type)

(* Mutant: a group task of a job is posted like any other task.            *)
_execute_job_logic_posted(q) ==
  RouteUnits(_task_type_to_action(q.type), q.entities, q.groups)

_execute_job_logic(q) ==
  IF IsGroupTask(q.type)
  THEN _execute_group_operation(_task_type_to_action(q.type), q.groups)
  ELSE RouteUnits(_task_type_to_action(q.type), q.entities, <<>>)

\* A chained event sends its groups along, and each route reads what it knows.
_execute_event(q) ==
  RouteUnits(_task_type_to_action(q.type), q.entities, q.groups)

(* The command line knows no route for starting, stopping or snapshotting   *)
(* groups, nor for the maintenance mode.                                    *)
_endpoint_for_job(q) ==
  q.type \notin ({"start", "stop", "snapshot"} \X {"group"})
                 \cup ({"enter", "exit"} \X {"pipeline"})

execute_job(q) ==
  RouteUnits(_task_type_to_action(q.type), q.entities, q.groups)

UnitsOf(q) ==
  CASE q.src = "job" -> _execute_job_logic(q)
    [] q.src = "event" -> _execute_event(q)
    [] q.src = "cli" -> IF _endpoint_for_job(q) THEN execute_job(q) ELSE <<>>

(* A task that is of groups and names none fails before CoreHub hears of it, *)
(* and so does one the command line has no route for; but the routes play    *)
(* and pause ask for no group.                                              *)
Runs(q) ==
  /\ q.src = "cli" => _endpoint_for_job(q)
  /\ IsGroupTask(q.type) /\ q.groups = <<>> =>
       q.src # "job" /\ q.type[1] \in {"start", "stop"}

\* The entities a task is about.
Target(q) ==
  CASE q.type[2] = "entity" -> {q.entities[i] : i \in DOMAIN q.entities}
    [] q.type[2] = "group" -> UNION {Members(q.groups[i]) : i \in DOMAIN q.groups}
    [] q.type[2] = "pipeline" -> Entity

------------------------------------------------------------------------------
Legs == {"idle", "expand", "ready", "reading", "open", "reopen", "denied",
         "taken", "refused", "end"}

Idle == [req |-> NoRequest, units |-> <<>>, u |-> 1, s |-> 1, leg |-> "idle",
         polls |-> 0, blind |-> FALSE, ok |-> TRUE]

Init ==
  /\ phase = [e \in Entity |-> "sync"]
  /\ issue = [e \in Entity |-> FALSE]
  /\ run = [x \in Exec |-> Idle]
  /\ verdict = [x \in Exec |-> "none"]
  /\ applied = [x \in Exec |-> <<>>]
  /\ warned = [x \in Exec |-> {}]
  /\ disturbed = [x \in Exec |-> {}]

hub == <<phase, issue>>
history == <<applied, warned, disturbed>>

Busy(x) == run[x].u <= Len(run[x].units)
Unit(x) == run[x].units[run[x].u]
Step(x) == Unit(x)[run[x].s]
At(x)   == <<run[x].u, run[x].s>>

(* Mutant: the last unit alone decides on the outcome.                     *)
NextUnit_lastDecides(r, good) ==
  [r EXCEPT !.u = @ + 1, !.s = 1, !.leg = "ready", !.polls = 0, !.blind = FALSE,
            !.ok = good]

\* The next unit of an execution, and what one success or failure leads to.
NextUnit(r, good) ==
  [r EXCEPT !.u = @ + 1, !.s = 1, !.leg = "ready", !.polls = 0, !.blind = FALSE,
            !.ok = @ /\ good]

Advance(x, r) ==
  IF r.s < Len(Unit(x)) THEN [r EXCEPT !.s = @ + 1, !.leg = "ready"]
                        ELSE NextUnit(r, TRUE)

Go(x, r) == run' = [run EXCEPT ![x] = r]
Leg(x, leg) == Go(x, [run[x] EXCEPT !.leg = leg])

(* A job, an event or the command line starts an execution, or fails at     *)
(* once.                                                                    *)
Dispatch(x, q) ==
  /\ run[x].leg = "idle"
  /\ q \in Asked[x]
  /\ LET wide == ~Direct(q) /\ q.type = <<"snapshot", "group">>
     IN Go(x, [Idle EXCEPT !.req = q, !.units = UnitsOf(q),
                           !.leg = IF ~Runs(q) THEN "end"
                                   ELSE IF wide THEN "expand" ELSE "ready"])
  /\ verdict' = [verdict EXCEPT ![x] = IF Runs(q) THEN "waiting" ELSE "failed"]
  /\ UNCHANGED <<hub, history>>

(* The route of a group snapshot looks the entities up, one request to      *)
(* CoreHub for each group, and resyncs them.                                *)
Expand(x) ==
  /\ run[x].leg = "expand"
  /\ \E units \in resync_groups(run[x].req.groups) :
       Go(x, [run[x] EXCEPT !.units = units, !.leg = "ready"])
  /\ UNCHANGED <<hub, verdict, history>>

(* fetch_core_hub sends a command; no timeout is set, so CoreHub may take    *)
(* any time to answer, or never answer.                                     *)
Send(x) ==
  /\ run[x].leg = "ready" /\ Busy(x) /\ Step(x).do = "post"
  /\ Leg(x, "open")
  /\ UNCHANGED <<hub, verdict, history>>

\* What an accepted command does to the entities it is about.
PhaseAfter(cmd, p) ==
  CASE cmd \in {"start", "redo"} -> "sync"
    [] cmd = "stop" -> IF p = "hold" THEN "hold" ELSE "stopping"
    [] cmd = "snapshot" -> "snapshot"

(* CoreHub accepts a command: it is in force before the answer arrives.     *)
HubTakes(x) ==
  /\ run[x].leg \in {"open", "reopen"}
  /\ LET cmd == Step(x).cmd
         on == Step(x).on
     IN /\ phase' = [e \in Entity |->
                       IF e \in on THEN PhaseAfter(cmd, phase[e]) ELSE phase[e]]
        /\ issue' = [e \in Entity |-> issue[e] /\ ~(e \in on /\ cmd \in {"start", "redo"})]
        /\ disturbed' = [y \in Exec |-> IF y # x /\ cmd # "stop"
                                        THEN disturbed[y] \cup on ELSE disturbed[y]]
  /\ applied' = [applied EXCEPT ![x] = Append(@, At(x))]
  /\ Leg(x, "taken")
  /\ UNCHANGED <<verdict, warned>>

(* CoreHub answers anything but 2xx or 401, or the request never reaches it. *)
HubRefuses(x) ==
  /\ run[x].leg \in {"open", "reopen"}
  /\ Leg(x, "refused")
  /\ UNCHANGED <<hub, verdict, history>>

\* 401: the first one leads to a new login and a retry, the second is final.
HubDenies(x) ==
  /\ run[x].leg \in {"open", "reopen"}
  /\ Leg(x, IF run[x].leg = "open" THEN "denied" ELSE "refused")
  /\ UNCHANGED <<hub, verdict, history>>

\* The connection breaks after CoreHub accepted: the caller sees an error.
AnswerLost(x) ==
  /\ run[x].leg = "taken"
  /\ Leg(x, "refused")
  /\ UNCHANGED <<hub, verdict, history>>

\* _refresh_and_retry: a fresh token, or none (or the retry is switched off).
RefreshAndRetry(x) ==
  /\ run[x].leg = "denied"
  /\ Leg(x, "reopen") \/ Leg(x, "refused")
  /\ UNCHANGED <<hub, verdict, history>>

Answered(x) ==
  /\ run[x].leg = "taken"
  /\ Go(x, Advance(x, run[x]))
  /\ UNCHANGED <<hub, verdict, history>>

\* A command that is not accepted ends its unit: no later step is sent.
GiveUpUnit(x) ==
  /\ run[x].leg = "refused"
  /\ Go(x, NextUnit(run[x], FALSE))
  /\ UNCHANGED <<hub, verdict, history>>

(* Mutant: the deadline is not looked at between two status reads.          *)
Ask_noDeadline(x) ==
  /\ run[x].leg = "ready" /\ Busy(x)
  /\ \/ Step(x).do = "resolve" /\ Leg(x, "reading")
     \/ /\ Step(x).do = "settle" /\ ~run[x].blind
        /\ Go(x, [run[x] EXCEPT !.leg = "reading", !.polls = @ + 1])
  /\ UNCHANGED <<hub, verdict, history>>

(* A lookup or a status read is sent, without a timeout like a command; the *)
(* deadline of the wait is looked at before each status read.               *)
Ask(x) ==
  /\ run[x].leg = "ready" /\ Busy(x)
  /\ \/ Step(x).do = "resolve" /\ Leg(x, "reading")
     \/ /\ Step(x).do = "settle" /\ ~run[x].blind /\ run[x].polls < MaxPolls
        /\ Go(x, [run[x] EXCEPT !.leg = "reading", !.polls = @ + 1])
  /\ UNCHANGED <<hub, verdict, history>>

(* The entities of a pipeline or a group are read from CoreHub; the lookup   *)
(* may fail or find none.                                                   *)
ResolveTargets(x) ==
  /\ run[x].leg = "reading" /\ Step(x).do = "resolve"
  /\ \E known \in IF Step(x).on = {} THEN {FALSE} ELSE BOOLEAN :
       Go(x, Advance(x, [run[x] EXCEPT !.blind = ~known]))
  /\ UNCHANGED <<hub, verdict, history>>

\* _wait_targets_or_proceed: without the entities it goes on without polling.
ProceedBlind(x) ==
  /\ run[x].leg = "ready" /\ Busy(x) /\ Step(x).do = "settle" /\ run[x].blind
  /\ Go(x, Advance(x, run[x]))
  /\ UNCHANGED <<hub, verdict, history>>

_is_entity_settled(e) == issue[e] \/ phase[e] = "hold"

(* Mutant: a failed status read leaves nothing pending.                    *)
_pending_settled_ids_noneIfUnread(on, readable) ==
  {e \in on : readable /\ ~_is_entity_settled(e)}

\* A failed status read names no entity, so every target stays pending.
_pending_settled_ids(on, readable) ==
  IF readable THEN {e \in on : ~_is_entity_settled(e)} ELSE on

(* _wait_for_entities_settled: one status read after the other until none   *)
(* is pending or the deadline has passed.                                   *)
PollSettled(x, readable) ==
  /\ run[x].leg = "reading" /\ Step(x).do = "settle"
  /\ \/ /\ _pending_settled_ids(Step(x).on, readable) = {}
        /\ Go(x, Advance(x, run[x]))
        /\ warned' = [warned EXCEPT ![x] = {e \in Step(x).on : issue[e]}]
        /\ disturbed' = [disturbed EXCEPT ![x] = {}]
     \/ /\ _pending_settled_ids(Step(x).on, readable) # {}
        /\ Leg(x, "ready")
        /\ UNCHANGED <<warned, disturbed>>
  /\ UNCHANGED <<hub, verdict, applied>>

(* Mutant: the deadline ends the wait only when nothing is pending any more. *)
PollTimeout_ifSettled(x) ==
  /\ run[x].leg = "ready" /\ Busy(x) /\ Step(x).do = "settle"
  /\ run[x].polls > 0 /\ _pending_settled_ids(Step(x).on, TRUE) = {}
  /\ Leg(x, "refused")
  /\ UNCHANGED <<hub, verdict, history>>

\* The deadline passed before a status read showed every target settled.
PollTimeout(x) ==
  /\ run[x].leg = "ready" /\ Busy(x) /\ Step(x).do = "settle"
  /\ ~run[x].blind /\ run[x].polls > 0
  /\ Leg(x, "refused")
  /\ UNCHANGED <<hub, verdict, history>>

(* The last unit is over: the route answers 200 or 500 and the caller, if   *)
(* it still waits, records success or failure.                              *)
Finish(x) ==
  /\ run[x].leg = "ready" /\ ~Busy(x)
  /\ Leg(x, "end")
  /\ verdict' = [verdict EXCEPT ![x] =
       IF @ # "waiting" THEN @ ELSE IF run[x].ok THEN "success" ELSE "failed"]
  /\ UNCHANGED <<hub, history>>

(* SCHEDULER_INTERNAL_HTTP_TIMEOUT: the caller of a route stops waiting and *)
(* records a failure; the route goes on.                                    *)
CallerTimeout(x) ==
  /\ verdict[x] = "waiting" /\ ~Direct(run[x].req)
  /\ verdict' = [verdict EXCEPT ![x] = "failed"]
  /\ UNCHANGED <<hub, run, history>>

\* A stop takes effect, or a one-time snapshot is complete.
HubSettles(e) ==
  /\ phase[e] \in {"stopping", "snapshot"}
  /\ phase' = [phase EXCEPT ![e] = "hold"]
  /\ UNCHANGED <<issue, run, verdict, history>>

\* An entity that is working reports an error or a warning.
HubRaisesIssue(e) ==
  /\ phase[e] # "hold" /\ ~issue[e]
  /\ issue' = [issue EXCEPT ![e] = TRUE]
  /\ UNCHANGED <<phase, run, verdict, history>>

\* What CoreHub and the connection to it do about a request of x.
Hub(x) ==
  \/ Expand(x) \/ HubTakes(x) \/ HubRefuses(x) \/ HubDenies(x)
  \/ Answered(x) \/ AnswerLost(x) \/ ResolveTargets(x)
  \/ \E readable \in BOOLEAN : PollSettled(x, readable)

\* What the thread of x does between two requests.
Client(x) ==
  \/ Send(x) \/ RefreshAndRetry(x) \/ GiveUpUnit(x) \/ Ask(x)
  \/ ProceedBlind(x) \/ PollTimeout(x) \/ Finish(x)

Next ==
  \/ \E x \in Exec :
       \/ \E q \in Asked[x] : Dispatch(x, q)
       \/ Client(x) \/ Hub(x) \/ CallerTimeout(x)
  \/ \E e \in Entity : HubSettles(e) \/ HubRaisesIssue(e)

(* The threads of the scheduler run and its timeouts expire.  CoreHub owes   *)
(* nothing: no request that an execution sends has a timeout, so it may wait *)
(* for an answer for ever, and nothing says that an entity ever stops.       *)
Fairness ==
  \A x \in Exec : WF_vars(Client(x)) /\ WF_vars(CallerTimeout(x))

Spec == Init /\ [][Next]_vars /\ Fairness
------------------------------------------------------------------------------
TypeOK ==
  /\ phase \in [Entity -> Phase]
  /\ issue \in [Entity -> BOOLEAN]
  /\ verdict \in [Exec -> {"none", "waiting", "success", "failed"}]
  /\ run \in [Exec -> [req : Request \cup {NoRequest}, units : Seq(Seq(Steps)),
                       u : Nat, s : Nat, leg : Legs, polls : 0 .. MaxPolls,
                       blind : BOOLEAN, ok : BOOLEAN]]
  /\ applied \in [Exec -> Seq(Nat \X Nat)]
  /\ warned \in [Exec -> SUBSET Entity]
  /\ disturbed \in [Exec -> SUBSET Entity]

(* When a redo is on its way to CoreHub, no entity it is about is Active,   *)
(* unless the status read that let it through showed an issue, another      *)
(* execution commanded the entity after that read, or the entities could    *)
(* not be looked up: the stop was accepted and waited for (play_pause.py,   *)
(* redo_entity, redo_pipeline, redo_group).                                 *)
RedoOnHold ==
  \A x \in Exec :
    (/\ run[x].leg \in {"open", "reopen", "denied"}
     /\ Step(x).cmd = "redo" /\ ~run[x].blind) =>
      \A e \in Step(x).on \ (warned[x] \cup disturbed[x]) : phase[e] = "hold"

OnTarget(x) ==
  \A i \in DOMAIN applied[x] :
    run[x].units[applied[x][i][1]][applied[x][i][2]].on \subseteq Target(run[x].req)

\* An entity task that names no entity is one of the whole pipeline to the routes.
Named(q) == q.type[2] = "entity" => q.entities # <<>>

(* A scheduled job commands the entities it names and no others, whichever  *)
(* way its task takes to CoreHub, unless it is an entity task that names     *)
(* none: nothing refuses one (job_service.py, _execute_job_logic).          *)
JobStaysOnTarget ==
  \A x \in Exec :
    run[x].leg # "idle" /\ run[x].req.src = "job" /\ Named(run[x].req) => OnTarget(x)

(* A chained event of a group commands the entities of that group only      *)
(* (schemas.py: "group_start: Start all entities within specific groups").  *)
EventStaysOnTarget ==
  \A x \in Exec : run[x].leg # "idle" /\ run[x].req.src = "event" => OnTarget(x)

(* Every execution implements CommandOutcome: commands are accepted in the  *)
(* order of the program, none twice in spite of the retry after a 401, and  *)
(* a success is recorded only after all of them, although a unit that fails *)
(* does not stop the execution and a caller may give up on it.              *)
Posts(us) == {c \in UNION {{<<u, s>> : s \in DOMAIN us[u]} : u \in DOMAIN us} :
                us[c[1]][c[2]].do = "post"}

Outcome == INSTANCE CommandOutcome WITH plan <- [x \in Exec |-> Posts(run[x].units)]

OutcomeSpec == Outcome!Spec

\* A request of x is on its way, or its answer is.
Unanswered(x) == run[x].leg \in {"expand", "reading", "open", "reopen", "taken"}

(* An execution ends although an entity may never stop and commands may be   *)
(* refused, unless CoreHub never answers one of its requests: it is then     *)
(* stuck in that request, and whoever called its route has given up on it;   *)
(* only a group task of a job, which calls CoreHub itself, is left running.  *)
ExecutionsEnd ==
  \A x \in Exec :
    run[x].leg # "idle" ~>
      \/ run[x].leg = "end"
      \/ [](Unanswered(x) /\ (verdict[x] = "waiting" => Direct(run[x].req)))
=============================================================================
