------------------------------ MODULE HubRuns ------------------------------
(***************************************************************************)
(* The executions that start something in CoreHub and judge its outcome:   *)
(* the Enterprise brain rebuild, AI agent runs, the Validator with its     *)
(* reconciliation, Query Studio statements (core/play_pause.py), and the   *)
(* submissions that are retried: visualization refreshes and backups       *)
(* (models/visualize_refresh.py, models/corehub_backup.py), with the       *)
(* routes in front of them (api/pipeline_router.py).                       *)
(*                                                                         *)
(* An execution sends one request after the other; wire[x] is the request  *)
(* under way or the answer that came back.  What the client does between   *)
(* two requests is one action, named for the answer it takes.              *)
(***************************************************************************)
EXTENDS Integers

CONSTANTS
  Exec,           \* executions
  Together,       \* the tasks that may be executed next to each other, one
                  \* for each execution, or "none"
  Entities,       \* number of entities of a validation
  MaxPolls,       \* status reads that fit before a deadline
  Retries,        \* _HUB_RETRY.total
  MaxGeneration   \* rebuilds that others ask for stop at this generation

Task == {"brain", "agent", "agent_async", "validate", "reconcile", "query",
         "visualize", "backup"}
Diff == {"rows", "schema"}

ASSUME TogetherAssumption == Together \subseteq [Exec -> Task \cup {"none"}]
ASSUME EntitiesAssumption == Entities \in Nat \ {0}
ASSUME BoundsAssumption == MaxPolls \in Nat /\ Retries \in Nat /\ MaxGeneration \in Nat

VARIABLES
  run,            \* run[x]: where the execution is and what it remembers
  wire,           \* wire[x]: its request, or CoreHub's answer to it
  brain,          \* CoreHub: status and generation of the brain, and the
                  \* executions whose trigger waits (asked) or is built (serves)
  work,           \* work[x]: CoreHub's agent run, comparison or statement for x,
                  \* the entity it is of and the differences that are left
  schedule,       \* the visualization's job: row enabled, APScheduler job there
  user,           \* a call that enables or disables that job: its next step,
                  \* what it read and what it sets
  own,            \* own[x]: how the rebuild that served x ended (history)
  shared,         \* x met a rebuild that did not serve it (history)
  took,           \* took[x]: submissions of x that CoreHub accepted, but for
                  \* those whose answer was lost or empty (history)
  checked,        \* checked[x]: entities found equal or repaired (history)
  overtaken       \* the latest call of a user and a disabling have crossed, and
                  \* no later one that crossed none (history)

hub == <<brain, work>>
history == <<own, shared, took, checked>>
row == <<schedule, user, overtaken>>
vars == <<run, wire, hub, row, history>>

Stage == {"idle", "before", "saved", "trigger", "poll", "reconcile", "disable",
          "remove", "success", "failed"}
Over == {"success", "failed"}

Says(what) == [is |-> what, gen |-> 0, diff |-> {}]
Answers == {"error", "rejected", "gone", "unclear", "accepted", "not_started", "live", "running",
            "good", "bad", "CREATING", "READY", "FAILED"}

Init ==
  /\ \E tasks \in Together :
       run = [x \in Exec |-> [task |-> tasks[x], stage |-> "idle", polls |-> 0, posts |-> 0,
                              entity |-> 1, ok |-> TRUE, known |-> FALSE, gen |-> 0,
                              saw |-> FALSE, diff |-> {}]]
  /\ wire = [x \in Exec |-> Says("quiet")]
  /\ brain = [status |-> "READY", gen |-> 1, asked |-> {}, serves |-> {}]
  /\ work = [x \in Exec |-> [is |-> "none", of |-> 1, diff |-> {}]]
  /\ schedule = [enabled |-> TRUE, scheduled |-> TRUE]
  /\ user = [at |-> "none", seen |-> TRUE, to |-> TRUE]
  /\ own = [x \in Exec |-> "none"]
  /\ shared = {}
  /\ took = [x \in Exec |-> 0]
  /\ checked = [x \in Exec |-> {}]
  /\ overtaken = FALSE

------------------------------------------------------------------------------
(* The client's side of a request. *)

Asks(x, tasks, stage) ==
  run[x].task \in tasks /\ run[x].stage = stage /\ wire[x].is = "sent"

Heard(x, tasks, stage) ==
  run[x].task \in tasks /\ run[x].stage = stage /\ wire[x].is \in Answers

Failed(x) == wire[x].is \in {"error", "rejected", "gone", "unclear"}

\* Send the request of the stage in r.
Request(x, r) ==
  /\ run' = [run EXCEPT ![x] = r]
  /\ wire' = [wire EXCEPT ![x] = Says("sent")]

Stop(x, result) ==
  /\ run' = [run EXCEPT ![x].stage = result]
  /\ wire' = [wire EXCEPT ![x] = Says("quiet")]

Outcome(good) == IF good THEN "success" ELSE "failed"

\* After a status read that decides nothing: the next one, or the deadline.
ReadAgain(x, r) ==
  /\ run[x].polls < MaxPolls
  /\ Request(x, [r EXCEPT !.polls = @ + 1])

Start(x) ==
  /\ run[x].stage = "idle" /\ run[x].task # "none"
  /\ Request(x, [run[x] EXCEPT !.stage = CASE run[x].task = "brain" -> "before"
                                            [] run[x].task = "query" -> "saved"
                                            [] OTHER -> "trigger"])
  /\ UNCHANGED <<hub, row, history>>

\* CoreHub's answer arrives at x; what CoreHub itself does is elsewhere.
Reply(x, answer) ==
  /\ wire' = [wire EXCEPT ![x] = answer]
  /\ UNCHANGED <<run, row>>

(* No answer, an answer that cannot be used, or one with a 5xx status.      *)
NoAnswer(x) ==
  /\ wire[x].is = "sent"
  /\ Reply(x, Says("error"))
  /\ UNCHANGED <<hub, history>>

\* Neither a refresh nor the reading of a saved query has a timeout.
HasTimeout(x) ==
  run[x].task # "visualize" /\ (run[x].task = "query" => run[x].stage # "saved")

TimesOut(x) == HasTimeout(x) /\ NoAnswer(x)

(* CoreHub did what it was asked and the answer is lost, or the answer to a *)
(* backup has no body, which fetch_core_hub hands over like no answer.      *)
AnswerLost(x) ==
  /\ wire[x].is \in {"accepted", "not_started", "unclear"}
  /\ Reply(x, Says("error"))
  /\ took' = IF run[x].task \in {"visualize", "backup"}
             THEN [took EXCEPT ![x] = @ - 1] ELSE took
  /\ UNCHANGED <<hub, own, shared, checked>>

------------------------------------------------------------------------------
(* The Enterprise brain: CoreHub keeps one status row for all triggers.     *)

HubReadsBrain(x) ==
  /\ Asks(x, {"brain"}, "before") \/ Asks(x, {"brain"}, "poll")
  /\ Reply(x, [is |-> brain.status, gen |-> brain.gen, diff |-> {}])
  /\ UNCHANGED <<hub, history>>

(* The trigger is accepted at once; a rebuild under way serves it as well.  *)
HubTakesTrigger(x) ==
  /\ Asks(x, {"brain"}, "trigger")
  /\ Reply(x, Says("accepted"))
  /\ brain' = IF brain.status = "CREATING" THEN [brain EXCEPT !.serves = @ \cup {x}]
                                           ELSE [brain EXCEPT !.asked = @ \cup {x}]
  /\ UNCHANGED <<work, history>>

\* The rebuild starts in the background, here or by the hand of another user.
RebuildStarts ==
  /\ brain.status # "CREATING"
  /\ brain.asked # {} \/ brain.gen < MaxGeneration
  /\ brain' = [brain EXCEPT !.status = "CREATING", !.serves = brain.asked, !.asked = {}]
  /\ UNCHANGED <<run, wire, work, row, history>>

\* The execution has read the status before its trigger, or tried to.
Watches(x) ==
  /\ run[x].task = "brain"
  /\ run[x].stage \in {"trigger", "poll"} \/ Heard(x, {"brain"}, "before")

\* It ends, and only a failed one may leave the generation as it was.
RebuildEnds(result) ==
  /\ brain.status = "CREATING"
  /\ \E gen \in IF result = "FAILED" THEN {brain.gen, brain.gen + 1} ELSE {brain.gen + 1} :
       brain' = [brain EXCEPT !.status = result, !.gen = gen, !.serves = {}]
  /\ own' = [x \in Exec |-> IF x \in brain.serves THEN result ELSE own[x]]
  /\ shared' = shared \cup {x \in Exec \ brain.serves : Watches(x)}
  /\ UNCHANGED <<run, wire, work, row, took, checked>>

(* Mutant: any terminal status ends the wait.                               *)
brain_rebuild_settled_atOnce(job, saw_creating, before_generation, before_known) ==
  job.is \in {"READY", "FAILED"}

brain_rebuild_settled(job, saw_creating, before_generation, before_known) ==
  /\ job.is \in {"READY", "FAILED"}
  /\ saw_creating \/ (before_known /\ job.gen # before_generation)

BrainBefore(x) ==
  /\ Heard(x, {"brain"}, "before")
  /\ Request(x, [run[x] EXCEPT !.stage = "trigger", !.known = ~Failed(x),
                               !.gen = wire[x].gen, !.saw = wire[x].is = "CREATING"])
  /\ UNCHANGED <<hub, row, history>>

BrainStarted(x) ==
  /\ Heard(x, {"brain"}, "trigger")
  /\ IF Failed(x) THEN Stop(x, "failed")
                  ELSE Request(x, [run[x] EXCEPT !.stage = "poll"])
  /\ UNCHANGED <<hub, row, history>>

BrainPolled(x) ==
  /\ Heard(x, {"brain"}, "poll")
  /\ LET saw == run[x].saw \/ wire[x].is = "CREATING"
     IN IF brain_rebuild_settled(wire[x], saw, run[x].gen, run[x].known)
        THEN Stop(x, Outcome(wire[x].is = "READY"))
        ELSE ReadAgain(x, [run[x] EXCEPT !.saw = saw]) \/ Stop(x, "failed")
  /\ UNCHANGED <<hub, row, history>>

------------------------------------------------------------------------------
(* Agent runs, comparisons and statements: CoreHub works for one execution. *)

Worker == {"agent", "agent_async", "validate", "reconcile"}

HubTakesWork(x) ==
  /\ Asks(x, Worker, "trigger")
  /\ Reply(x, Says("accepted"))
  /\ work' = [work EXCEPT ![x] = [is |-> "running", of |-> run[x].entity, diff |-> {}]]
  /\ UNCHANGED <<brain, history>>

(* A run ends well or not, or stays where it is: it may wait for an         *)
(* approval that nobody gives.  A comparison that ends well has a result.   *)
HubFinishesWork(x, result) ==
  /\ work[x].is = "running"
  /\ \E found \in IF run[x].task \in {"validate", "reconcile"} /\ result = "good"
                  THEN SUBSET Diff ELSE {{}} :
       /\ work' = [work EXCEPT ![x].is = result, ![x].diff = found]
       /\ checked' = IF result = "good" /\ found = {}
                     THEN [checked EXCEPT ![x] = @ \cup {work[x].of}] ELSE checked
  /\ UNCHANGED <<run, wire, brain, row, own, shared, took>>

HubReadsWork(x) ==
  /\ Asks(x, Worker, "poll")
  /\ Reply(x, [is |-> work[x].is, gen |-> 0, diff |-> work[x].diff])
  /\ UNCHANGED <<hub, history>>

AgentStarted(x) ==
  /\ Heard(x, {"agent", "agent_async"}, "trigger")
  /\ IF Failed(x) THEN Stop(x, "failed")
     ELSE IF run[x].task = "agent_async" THEN Stop(x, "success")
     ELSE Request(x, [run[x] EXCEPT !.stage = "poll"])
  /\ UNCHANGED <<hub, row, history>>

(* Mutant: the end of an agent run is taken for its success.                *)
AgentPolled_anyEnd(x) ==
  /\ Heard(x, {"agent"}, "poll")
  /\ IF wire[x].is \in {"good", "bad"} THEN Stop(x, "success")
                                       ELSE ReadAgain(x, run[x]) \/ Stop(x, "failed")
  /\ UNCHANGED <<hub, row, history>>

AgentPolled(x) ==
  /\ Heard(x, {"agent"}, "poll")
  /\ IF wire[x].is \in {"good", "bad"} THEN Stop(x, Outcome(wire[x].is = "good"))
                                       ELSE ReadAgain(x, run[x]) \/ Stop(x, "failed")
  /\ UNCHANGED <<hub, row, history>>

(* A validation goes through its entities; one that fails does not keep the *)
(* next from being validated.                                               *)
NextEntity(x, good) ==
  LET ok == run[x].ok /\ good
  IN IF run[x].entity < Entities
     THEN Request(x, [run[x] EXCEPT !.stage = "trigger", !.entity = @ + 1,
                                    !.ok = ok, !.polls = 0, !.diff = {}])
     ELSE Stop(x, Outcome(ok))

ValidationStarted(x) ==
  /\ Heard(x, {"validate", "reconcile"}, "trigger")
  /\ IF Failed(x) THEN NextEntity(x, FALSE)
                  ELSE Request(x, [run[x] EXCEPT !.stage = "poll"])
  /\ UNCHANGED <<hub, row, history>>

(* Mutant: a comparison that has no end yet is read until it has one.       *)
ValidationPolled_noDeadline(x) ==
  /\ Heard(x, {"validate", "reconcile"}, "poll")
  /\ IF wire[x].is \notin {"good", "bad"} THEN Request(x, run[x])
     ELSE IF wire[x].is = "good" /\ wire[x].diff # {} /\ run[x].task = "reconcile"
     THEN Request(x, [run[x] EXCEPT !.stage = "reconcile", !.diff = wire[x].diff])
     ELSE NextEntity(x, wire[x].is = "good" /\ wire[x].diff = {})
  /\ UNCHANGED <<hub, row, history>>

ValidationPolled(x) ==
  /\ Heard(x, {"validate", "reconcile"}, "poll")
  /\ IF wire[x].is \notin {"good", "bad"}
     THEN ReadAgain(x, run[x]) \/ NextEntity(x, FALSE)
     ELSE IF wire[x].is = "good" /\ wire[x].diff # {} /\ run[x].task = "reconcile"
     THEN Request(x, [run[x] EXCEPT !.stage = "reconcile", !.diff = wire[x].diff])
     ELSE NextEntity(x, wire[x].is = "good" /\ wire[x].diff = {})
  /\ UNCHANGED <<hub, row, history>>

\* CoreHub repairs the rows it does not skip; a schema it does not repair.
HubReconciles(x) ==
  /\ Asks(x, {"reconcile"}, "reconcile")
  /\ \E skipped \in SUBSET (work[x].diff \cap {"rows"}) :
       LET rest == skipped \cup (work[x].diff \cap {"schema"})
       IN /\ work' = [work EXCEPT ![x].diff = rest]
          /\ checked' = IF rest = {} THEN [checked EXCEPT ![x] = @ \cup {work[x].of}]
                                     ELSE checked
          /\ Reply(x, [is |-> "accepted", gen |-> 0, diff |-> skipped])
  /\ UNCHANGED <<brain, own, shared, took>>

\* Skipped rows come with this answer, schema differences with the comparison.
Reconciled(x) ==
  /\ Heard(x, {"reconcile"}, "reconcile")
  /\ NextEntity(x, ~Failed(x) /\ wire[x].diff \cup (run[x].diff \cap {"schema"}) = {})
  /\ UNCHANGED <<hub, row, history>>

\* A saved query is read first; without it the stored copy is run.
HubReadsSavedQuery(x) ==
  /\ Asks(x, {"query"}, "saved")
  /\ Reply(x, Says("live"))
  /\ UNCHANGED <<hub, history>>

SavedQueryRead(x) ==
  /\ Heard(x, {"query"}, "saved")
  /\ \/ Request(x, [run[x] EXCEPT !.stage = "trigger"])
     \/ Failed(x) /\ Stop(x, "failed")
  /\ UNCHANGED <<hub, row, history>>

HubExecutesQuery(x, result) ==
  /\ Asks(x, {"query"}, "trigger")
  /\ work' = [work EXCEPT ![x].is = result]
  /\ Reply(x, Says(result))
  /\ UNCHANGED <<brain, history>>

QueryExecuted(x) ==
  /\ Heard(x, {"query"}, "trigger")
  /\ Stop(x, Outcome(wire[x].is = "good"))
  /\ UNCHANGED <<hub, row, history>>

------------------------------------------------------------------------------
(* Submissions: one POST, tried again after an error that may pass.         *)

(* CoreHub accepts, whether or not there is something to start; a refresh   *)
(* it accepts with another status than 202 counts as failed, and is final.  *)
HubTakesSubmission(x) ==
  /\ Asks(x, {"visualize", "backup"}, "trigger")
  /\ took' = [took EXCEPT ![x] = @ + 1]
  /\ \/ Reply(x, Says("accepted")) \/ Reply(x, Says("not_started"))
     \/ run[x].task = "visualize" /\ Reply(x, Says("unclear"))
  /\ UNCHANGED <<hub, own, shared, checked>>

HubRejects(x) ==
  /\ Asks(x, {"visualize", "backup"}, "trigger")
  /\ Reply(x, Says("rejected")) \/ (run[x].task = "visualize" /\ Reply(x, Says("gone")))
  /\ UNCHANGED <<hub, history>>

(* Mutant: an accepted refresh or backup that CoreHub did not start is      *)
(* submitted again.                                                         *)
retryable_notStarted(answer) == answer.is \in {"error", "not_started"}

retryable(answer) == answer.is = "error"

Resubmit(x) ==
  /\ retryable(wire[x]) /\ run[x].posts < Retries
  /\ Request(x, [run[x] EXCEPT !.posts = @ + 1])

LastAttempt(x) == retryable(wire[x]) => run[x].posts = Retries

Disabling(x) == run[x].stage \in {"disable", "remove"}

Refreshed(x) ==
  /\ Heard(x, {"visualize"}, "trigger")
  /\ \/ /\ Resubmit(x) \/ (LastAttempt(x) /\ wire[x].is # "gone" /\ Stop(x, Outcome(~Failed(x))))
        /\ UNCHANGED row
     \/ /\ wire[x].is = "gone"
        /\ Stop(x, "disable")
        /\ overtaken' = (user.at # "none")
        /\ UNCHANGED <<schedule, user>>
  /\ UNCHANGED <<hub, history>>

\* A backup that CoreHub does not know leaves its job alone.
BackedUp(x) ==
  /\ Heard(x, {"backup"}, "trigger")
  /\ Resubmit(x) \/ (LastAttempt(x) /\ Stop(x, Outcome(~Failed(x))))
  /\ UNCHANGED <<hub, row, history>>

\* The visualization is gone: the row of its job is committed as disabled ...
DisableSchedule(x) ==
  /\ run[x].stage = "disable"
  /\ schedule' = [schedule EXCEPT !.enabled = FALSE]
  /\ run' = [run EXCEPT ![x].stage = "remove"]
  /\ UNCHANGED <<wire, hub, user, overtaken, history>>

(* Mutant: the job stays in APScheduler.                                    *)
RemoveSchedule_keep(x) ==
  /\ run[x].stage = "remove"
  /\ Stop(x, "failed")
  /\ UNCHANGED <<hub, row, history>>

\* ... and the job is taken out of APScheduler.
RemoveSchedule(x) ==
  /\ run[x].stage = "remove"
  /\ schedule' = [schedule EXCEPT !.scheduled = FALSE]
  /\ Stop(x, "failed")
  /\ UNCHANGED <<hub, user, overtaken, history>>

(* A user enables or disables the job: toggle_job_status reads the row,     *)
(* changes APScheduler and commits, which writes a changed value only.  The *)
(* job is a bystander to the other tasks: without a refresh nobody calls.   *)
UserReads(to) ==
  /\ user.at = "none"
  /\ \E x \in Exec : run[x].task = "visualize"
  /\ user' = [at |-> "schedule", seen |-> schedule.enabled, to |-> to]
  /\ overtaken' = \E x \in Exec : Disabling(x)
  /\ UNCHANGED <<run, wire, hub, schedule, history>>

UserSchedules ==
  /\ user.at = "schedule"
  /\ schedule' = [schedule EXCEPT !.scheduled = user.to]
  /\ user' = [user EXCEPT !.at = "commit"]
  /\ UNCHANGED <<run, wire, hub, overtaken, history>>

UserCommits ==
  /\ user.at = "commit"
  /\ schedule' = [schedule EXCEPT !.enabled = IF user.seen # user.to THEN user.to ELSE @]
  /\ user' = [user EXCEPT !.at = "none"]
  /\ UNCHANGED <<run, wire, hub, overtaken, history>>

------------------------------------------------------------------------------
Client(x) ==
  \/ BrainBefore(x) \/ BrainStarted(x) \/ BrainPolled(x)
  \/ AgentStarted(x) \/ AgentPolled(x)
  \/ ValidationStarted(x) \/ ValidationPolled(x) \/ Reconciled(x)
  \/ SavedQueryRead(x) \/ QueryExecuted(x)
  \/ Refreshed(x) \/ BackedUp(x) \/ DisableSchedule(x) \/ RemoveSchedule(x)

HubAnswers(x) ==
  \/ HubReadsBrain(x) \/ HubTakesTrigger(x)
  \/ HubTakesWork(x) \/ HubReadsWork(x) \/ HubReconciles(x)
  \/ HubReadsSavedQuery(x) \/ \E result \in {"good", "bad"} : HubExecutesQuery(x, result)
  \/ HubTakesSubmission(x) \/ HubRejects(x) \/ NoAnswer(x)

Next ==
  \/ \E x \in Exec :
       \/ Start(x) \/ Client(x) \/ HubAnswers(x) \/ AnswerLost(x)
       \/ \E result \in {"good", "bad"} : HubFinishesWork(x, result)
  \/ RebuildStarts \/ \E result \in {"READY", "FAILED"} : RebuildEnds(result)
  \/ (\E to \in BOOLEAN : UserReads(to)) \/ UserSchedules \/ UserCommits

(* Threads run, and a request that has a timeout is answered or times out;  *)
(* nothing says that CoreHub ever answers another one, or that a rebuild,   *)
(* an agent run or a comparison ends.                                       *)
Spec ==
  Init /\ [][Next]_vars
       /\ \A x \in Exec : WF_vars(Client(x)) /\ WF_vars(TimesOut(x))
------------------------------------------------------------------------------
TypeOK ==
  /\ run \in [Exec -> [task : Task \cup {"none"}, stage : Stage, polls : 0 .. MaxPolls,
                       posts : 0 .. Retries, entity : 1 .. Entities, ok : BOOLEAN,
                       known : BOOLEAN, gen : Nat, saw : BOOLEAN, diff : SUBSET Diff]]
  /\ wire \in [Exec -> [is : Answers \cup {"quiet", "sent"}, gen : Nat, diff : SUBSET Diff]]
  /\ brain \in [status : {"CREATING", "READY", "FAILED"}, gen : Nat,
                asked : SUBSET Exec, serves : SUBSET Exec]
  /\ work \in [Exec -> [is : {"none", "running", "good", "bad"}, of : 1 .. Entities,
                        diff : SUBSET Diff]]
  /\ schedule \in [enabled : BOOLEAN, scheduled : BOOLEAN]
  /\ user \in [at : {"none", "schedule", "commit"}, seen : BOOLEAN, to : BOOLEAN]
  /\ own \in [Exec -> {"none", "READY", "FAILED"}]
  /\ shared \in SUBSET Exec
  /\ took \in [Exec -> Nat]
  /\ checked \in [Exec -> SUBSET (1 .. Entities)]
  /\ overtaken \in BOOLEAN

(* A success is recorded only for what CoreHub did: the agent run or the    *)
(* statement ended well, every entity of a validation was equal or repaired *)
(* as a whole, a submission was accepted (play_pause.py,                    *)
(* execute_entity_validation, _poll_ai_agent_run; pipeline_router.py).      *)
SuccessIsReal ==
  \A x \in Exec : run[x].stage = "success" =>
    CASE run[x].task \in {"agent", "query"} -> work[x].is = "good"
      [] run[x].task \in {"validate", "reconcile"} -> checked[x] = 1 .. Entities
      [] run[x].task \in {"visualize", "backup"} -> took[x] > 0
      [] OTHER -> TRUE

(* A brain rebuild is reported as its own trigger's: "a READY/FAILED row    *)
(* from a previous build is not treated as this trigger's result"           *)
(* (play_pause.py, execute_brain_reindex), as long as no other rebuild ends *)
(* between the first status read and the report.                            *)
BrainReportsOwnBuild ==
  \A x \in Exec \ shared :
    run[x].task = "brain" /\ run[x].stage = "success" => own[x] = "READY"

(* CoreHub accepts a refresh or a backup a second time only when its answer *)
(* to the first was lost, in spite of the retries (post_visualize_refresh,  *)
(* post_corehub_backup).                                                    *)
SubmittedOnce ==
  \A x \in Exec : took[x] <= 1

(* Between two calls the job of a visualization is in APScheduler exactly   *)
(* if its row is enabled, however many refreshes find it gone at once: only *)
(* a user's call that crosses a disabling can break this, for each changes  *)
(* the row and APScheduler in another order, and the next call or disabling *)
(* that crosses none mends it (disable_visualize_schedule,                  *)
(* toggle_job_status).                                                      *)
ScheduleFollowsRow ==
  (\A x \in Exec : ~Disabling(x)) /\ user.at = "none" /\ ~overtaken =>
    schedule.enabled = schedule.scheduled

(* Every execution ends although CoreHub's work may not: each wait has a    *)
(* deadline and each retry a limit.  Only one that waits for the answer to  *)
(* a request without a timeout may wait for ever.                           *)
RunsEnd ==
  \A x \in Exec :
    run[x].stage # "idle" ~>
      \/ run[x].stage \in Over
      \/ [](wire[x].is = "sent" /\ ~HasTimeout(x))
=============================================================================
