---------------------------- MODULE TriggerFlows ----------------------------
(***************************************************************************)
(* The fires of a trigger flow: the three routes that accept one           *)
(* (api/trigger_router.py, api/webhook_router.py), TriggerFlowService.fire *)
(* with its record of the outcome (services/trigger_flow_service.py), the  *)
(* choice of the events to run (services/origin_routing.py), and the run   *)
(* itself (chain_execution_service.execute_trigger_flow).                  *)
(*                                                                         *)
(* All fires run on the event loop of the server; they interleave only     *)
(* where one awaits the answer to an event.  The calls that change the     *)
(* flow commit in the thread pool, between any two steps of a fire.        *)
(***************************************************************************)
EXTENDS Integers, Sequences

CONSTANTS
  Fire,           \* the requests and callbacks that fire the flow
  Source,         \* Source[f]: "webhook", "manual" or "platform_event"
  Waits,          \* fires requested with wait=true
  Origin,         \* Origin[f]: the targets f's payload may mean by its source:
                  \* one if it gives the kind, several if only an id, or none
  AiRun,          \* fires whose payload reports the end of an AI agent run
  Target,         \* pipelines, groups and entities
  Chains,         \* the lists of events a user may give the flow
  MaxEdits,       \* calls that change the flow
  MaxLog          \* log entries kept (20)

Mode == {"SYNC", "ASYNC"}
Event == [targets : SUBSET Target, mode : Mode, refuses : BOOLEAN]
Row == [at : Nat, id : Nat, event : Event]
Placed == [at : Nat, event : Event]       \* an event and its place in a chain

ASSUME FiresAssumption ==
  /\ Source \in [Fire -> {"webhook", "manual", "platform_event"}]
  /\ Origin \in [Fire -> SUBSET Target]
  /\ AiRun \subseteq {f \in Fire : Source[f] = "platform_event"}
  /\ Waits \subseteq {f \in Fire : Source[f] # "platform_event"}
ASSUME ChainsAssumption == Chains \subseteq Seq(Event)
ASSUME LimitsAssumption == MaxEdits \in Nat /\ MaxLog \in Nat \ {0}

VARIABLES
  flow,           \* the row of trigger_flows; failed: last_error_message is set
  rows,           \* its trigger_flow_events, with their places and ids
  nextId,         \* an id that no event had before
  log,            \* trigger_flow_execution_logs of the flow, oldest first
  run,            \* run[f]: where the fire is and what it has in hand;
                  \* failed: the SYNC events not answered 2xx (history)
  tasks,          \* tasks[f]: ASYNC events of f that wait for the loop
  posted,         \* posted[f]: the events posted (history)
  edits,          \* calls so far
  overtaken       \* fires for which the flow changed after they chose (history)

table == <<flow, rows, nextId>>
vars == <<table, log, run, tasks, posted, edits, overtaken>>

Awake == {"read", "triggered", "chain", "record", "log"}
Ended == {"logged", "noop", "gone", "raised", "timedout"}
Stage == {"idle", "refused", "accepted", "posting"} \cup Awake \cup Ended

WithIds(chain, first) ==
  {[at |-> i, id |-> first + i - 1, event |-> chain[i]] : i \in DOMAIN chain}

Init ==
  /\ flow \in [there : {TRUE}, enabled : {TRUE}, origin : BOOLEAN, failed : {FALSE}]
  /\ \E chain \in Chains :
       /\ rows = WithIds(chain, 1)
       /\ nextId = Len(chain) + 1
  /\ log = <<>>
  /\ run = [f \in Fire |-> [stage |-> "idle", origin |-> FALSE, picked |-> {},
                            chain |-> {}, todo |-> {}, failed |-> {}, good |-> TRUE]]
  /\ tasks = [f \in Fire |-> {}]
  /\ posted = [f \in Fire |-> {}]
  /\ edits = 0
  /\ overtaken = {}

\* Between two awaits a fire has the event loop to itself.
Turn(f) == \A g \in Fire \ {f} : run[g].stage \notin Awake

To(f, r) == run' = [run EXCEPT ![f] = r]
Go(f, stage) == To(f, [run[f] EXCEPT !.stage = stage])

------------------------------------------------------------------------------
(* fire_trigger_flow, fire_trigger_flow_internal, platform_event_notify:    *)
(* the flow must be there and enabled when the fire is accepted.            *)
Accept(f) ==
  /\ run[f].stage = "idle" /\ Turn(f)
  /\ Go(f, IF flow.there /\ flow.enabled THEN "accepted" ELSE "refused")
  /\ UNCHANGED <<table, log, tasks, posted, edits, overtaken>>

\* The event acts on the source of the payload.
job_target_matches(f, event) == event.targets \cap Origin[f] # {}

filter_events_for_routing(f, list) ==
  {r \in list : flow.origin => job_target_matches(f, r.event)}

(* The first part of fire: the flow and its events are read, and for a      *)
(* platform event filtered; nothing to do counts as a success.              *)
Read(f) ==
  /\ run[f].stage = "accepted" /\ Turn(f)
  /\ LET platform == Source[f] = "platform_event"
         list == IF platform THEN filter_events_for_routing(f, rows) ELSE rows
     IN IF ~flow.there THEN Go(f, "gone")
        ELSE IF platform /\ flow.origin /\ list = {} THEN Go(f, "noop")
        ELSE To(f, [run[f] EXCEPT !.stage = "read", !.origin = platform /\ flow.origin,
                                  !.picked = {[at |-> r.at, id |-> r.id] : r \in list}])
  /\ UNCHANGED <<table, log, tasks, posted, edits, overtaken>>

\* last_triggered is committed; the update finds no row if the flow is gone.
Trigger(f) ==
  /\ run[f].stage = "read"
  /\ Go(f, IF flow.there THEN "triggered" ELSE "raised")
  /\ UNCHANGED <<table, log, tasks, posted, edits, overtaken>>

\* loop_guard_error: an agent event refuses the report of an agent run.
Refused(f, chain) == f \in AiRun /\ \E e \in chain : e.event.refuses

\* The events of the flow that have the ids picked, and whether one is gone.
Loaded(f) ==
  {[at |-> q[1].at, event |-> q[2].event] :
     q \in {q \in run[f].picked \X rows : q[1].id = q[2].id}}

EventGone(f) == \E p \in run[f].picked : \A r \in rows : r.id # p.id

(* Mutant: the guard is left to the event it is about.                      *)
Load_unguarded(f) ==
  /\ run[f].stage = "triggered"
  /\ To(f, IF EventGone(f)
           THEN [run[f] EXCEPT !.stage = "record", !.good = FALSE]
           ELSE [run[f] EXCEPT !.stage = "chain", !.chain = Loaded(f), !.todo = Loaded(f)])
  /\ UNCHANGED <<table, log, tasks, posted, edits, overtaken>>

(* execute_trigger_flow reads the events again, by their ids: the commit has *)
(* expired them.  One that is gone is an error; a new row may have its id.   *)
Load(f) ==
  /\ run[f].stage = "triggered"
  /\ To(f, IF EventGone(f) \/ Refused(f, Loaded(f))
           THEN [run[f] EXCEPT !.stage = "record", !.good = FALSE]
           ELSE [run[f] EXCEPT !.stage = "chain", !.chain = Loaded(f), !.todo = Loaded(f)])
  /\ UNCHANGED <<table, log, tasks, posted, edits, overtaken>>

------------------------------------------------------------------------------
(* _run_executable_list *)

\* e comes first of the events.
First(e, events) == e \in events /\ \A d \in events : e.at <= d.at

CreateTask(f) ==
  /\ run[f].stage = "chain"
  /\ \E e \in run[f].todo :
       /\ First(e, run[f].todo) /\ e.event.mode = "ASYNC"
       /\ tasks' = [tasks EXCEPT ![f] = @ \cup {e}]
       /\ To(f, [run[f] EXCEPT !.todo = @ \ {e}])
  /\ UNCHANGED <<table, log, posted, edits, overtaken>>

\* The task of an ASYNC event runs when no fire has the loop.
StartTask(f) ==
  /\ Turn(f) /\ run[f].stage \notin Awake
  /\ \E e \in tasks[f] :
       /\ First(e, tasks[f])
       /\ tasks' = [tasks EXCEPT ![f] = @ \ {e}]
       /\ posted' = [posted EXCEPT ![f] = @ \cup {e}]
  /\ UNCHANGED <<table, log, run, edits, overtaken>>

PostSync(f) ==
  /\ run[f].stage = "chain"
  /\ \E e \in run[f].todo :
       /\ First(e, run[f].todo) /\ e.event.mode = "SYNC"
       /\ posted' = [posted EXCEPT ![f] = @ \cup {e}]
  /\ Go(f, "posting")
  /\ UNCHANGED <<table, log, tasks, edits, overtaken>>

(* Mutant: the chain goes on after an event that failed.                    *)
PostReturns_goOn(f, good) ==
  /\ run[f].stage = "posting" /\ Turn(f)
  /\ \E e \in run[f].todo :
       /\ First(e, run[f].todo)
       /\ To(f, [run[f] EXCEPT !.todo = @ \ {e}, !.stage = "chain",
                               !.failed = IF good THEN @ ELSE @ \cup {e}])
  /\ UNCHANGED <<table, log, tasks, posted, edits, overtaken>>

(* Mutant: a failed event ends the fire with an exception.                  *)
PostReturns_raise(f, good) ==
  /\ run[f].stage = "posting" /\ Turn(f)
  /\ \E e \in run[f].todo :
       /\ First(e, run[f].todo)
       /\ To(f, IF good THEN [run[f] EXCEPT !.todo = @ \ {e}, !.stage = "chain"]
                        ELSE [run[f] EXCEPT !.good = FALSE, !.stage = "raised"])
  /\ UNCHANGED <<table, log, tasks, posted, edits, overtaken>>

\* The answer to a SYNC event: the first one that is not 2xx ends the chain.
PostReturns(f, good) ==
  /\ run[f].stage = "posting" /\ Turn(f)
  /\ \E e \in run[f].todo :
       /\ First(e, run[f].todo)
       /\ To(f, IF good THEN [run[f] EXCEPT !.todo = @ \ {e}, !.stage = "chain"]
                        ELSE [run[f] EXCEPT !.good = FALSE, !.stage = "record",
                                            !.failed = {e}])
  /\ UNCHANGED <<table, log, tasks, posted, edits, overtaken>>

ChainDone(f) ==
  /\ run[f].stage = "chain" /\ run[f].todo = {}
  /\ Go(f, "record")
  /\ UNCHANGED <<table, log, tasks, posted, edits, overtaken>>

(* wait=true: the caller gives up at an await, and the fire is cancelled.   *)
WaitTimeout(f) ==
  /\ f \in Waits /\ run[f].stage = "posting" /\ Turn(f)
  /\ Go(f, "timedout")
  /\ UNCHANGED <<table, log, tasks, posted, edits, overtaken>>

(* Mutant: a success leaves the error of an earlier fire in place.          *)
Record_keepError(f) ==
  /\ run[f].stage = "record"
  /\ flow' = IF flow.there THEN [flow EXCEPT !.failed = @ \/ ~run[f].good] ELSE flow
  /\ Go(f, "log")
  /\ UNCHANGED <<rows, nextId, log, tasks, posted, edits, overtaken>>

\* A success clears last_error_message, _record_error sets it.
Record(f) ==
  /\ run[f].stage = "record"
  /\ flow' = IF flow.there THEN [flow EXCEPT !.failed = ~run[f].good] ELSE flow
  /\ Go(f, "log")
  /\ UNCHANGED <<rows, nextId, log, tasks, posted, edits, overtaken>>

(* Mutant: the log is not pruned.                                           *)
_record_execution_log_all(entry) == log' = Append(log, entry)

_record_execution_log(entry) ==
  log' = LET all == Append(log, entry)
         IN IF Len(all) > MaxLog THEN Tail(all) ELSE all

(* The entry refers to the flow: without it the commit is refused.          *)
WriteLog(f) ==
  /\ run[f].stage = "log"
  /\ IF flow.there
     THEN /\ _record_execution_log([fire |-> f, good |-> run[f].good])
          /\ Go(f, "logged")
     ELSE /\ Go(f, "raised")
          /\ UNCHANGED log
  /\ UNCHANGED <<table, tasks, posted, edits, overtaken>>

------------------------------------------------------------------------------
(* The calls that change the flow. *)

Choosing == {f \in Fire : run[f].stage \in {"read", "triggered"}}

Edit ==
  /\ flow.there /\ edits < MaxEdits
  /\ edits' = edits + 1
  /\ UNCHANGED <<run, tasks, posted>>

(* update_flow replaces the events as a whole, if it is given any.  SQLite  *)
(* hands out the ids that were freed if no other flow has a higher one.     *)
ReplaceEvents(chain) ==
  /\ \E first \in {nextId} \cup {r.id : r \in {r \in rows : r.at = 1}} :
       /\ rows' = WithIds(chain, first)
       /\ nextId' = IF first + Len(chain) > nextId THEN first + Len(chain) ELSE nextId
  /\ overtaken' = overtaken \cup Choosing

UpdateFlow(origin) ==
  /\ Edit
  /\ flow' = [flow EXCEPT !.origin = origin]
  /\ UNCHANGED <<rows, nextId, overtaken>> \/ \E chain \in Chains : ReplaceEvents(chain)
  /\ UNCHANGED log

ToggleEnabled ==
  /\ Edit
  /\ flow' = [flow EXCEPT !.enabled = ~@]
  /\ UNCHANGED <<rows, nextId, log, overtaken>>

\* The events and the log go with the flow (ON DELETE CASCADE).
DeleteFlow ==
  /\ Edit
  /\ flow' = [flow EXCEPT !.there = FALSE]
  /\ rows' = {} /\ log' = <<>>
  /\ UNCHANGED <<nextId, overtaken>>

------------------------------------------------------------------------------
Steps(f) ==
  \/ Read(f) \/ Trigger(f) \/ Load(f) \/ CreateTask(f) \/ PostSync(f) \/ ChainDone(f)
  \/ Record(f) \/ WriteLog(f) \/ \E good \in BOOLEAN : PostReturns(f, good)

Next ==
  \/ \E f \in Fire : Accept(f) \/ Steps(f) \/ StartTask(f) \/ WaitTimeout(f)
  \/ \E origin \in BOOLEAN : UpdateFlow(origin)
  \/ ToggleEnabled \/ DeleteFlow

(* The loop takes every fire that is ready, and posting an event ends by    *)
(* its HTTP timeout at the latest.                                          *)
Spec == Init /\ [][Next]_vars /\ \A f \in Fire : WF_vars(Steps(f))
------------------------------------------------------------------------------
TypeOK ==
  /\ flow \in [there : BOOLEAN, enabled : BOOLEAN, origin : BOOLEAN, failed : BOOLEAN]
  /\ rows \in SUBSET Row
  /\ nextId \in Nat
  /\ log \in Seq([fire : Fire, good : BOOLEAN]) /\ Len(log) <= MaxLog
  /\ run \in [Fire -> [stage : Stage, origin : BOOLEAN, picked : SUBSET [at : Nat, id : Nat],
                       chain : SUBSET Placed, todo : SUBSET Placed,
                       failed : SUBSET Placed, good : BOOLEAN]]
  /\ tasks \in [Fire -> SUBSET Placed]
  /\ posted \in [Fire -> SUBSET Placed]
  /\ edits \in 0 .. MaxEdits
  /\ overtaken \in SUBSET Fire

(* With origin routing only events about the source of a platform event are *)
(* posted ("only actions whose target matches event.source run", fire), and *)
(* a chain with an agent that refuses the report of an agent run posts      *)
(* nothing at all, unless the flow changed while the fire chose its events. *)
PostsItsChain ==
  \A f \in Fire \ overtaken :
    /\ run[f].origin => \A e \in posted[f] : job_target_matches(f, e.event)
    /\ posted[f] # {} => ~Refused(f, run[f].chain)

(* What is logged as a success has posted every SYNC event of its chain and *)
(* was refused none, and no SYNC event is posted after one that failed      *)
(* (_run_executable_list, fire), with ASYNC events posted at any time.      *)
LogIsTrue ==
  LET Sync(f) == {e \in run[f].chain : e.event.mode = "SYNC"}
  IN /\ \A i \in DOMAIN log :
          log[i].good => LET f == log[i].fire
                         IN run[f].failed = {} /\ Sync(f) \subseteq posted[f]
     /\ \A f \in Fire : \A e \in run[f].failed, d \in Sync(f) :
          e.at < d.at => d \notin posted[f]

(* The flow shows an error exactly when the last fire in its log failed:    *)
(* outcomes are recorded and logged in one turn, whatever the order in      *)
(* which fires that overlap end.                                            *)
ErrorShownIsLatest ==
  flow.there /\ (\A f \in Fire : run[f].stage # "log") =>
    flow.failed = (log # <<>> /\ ~log[Len(log)].good)

(* Every fire that is accepted comes to an end, and unless there was        *)
(* nothing to do, nobody waited any longer or the flow was deleted, to an   *)
(* entry in the log.                                                        *)
FiresEnd ==
  \A f \in Fire :
    run[f].stage = "accepted" ~> \/ run[f].stage \in {"logged", "noop", "timedout"}
                                 \/ run[f].stage \in {"gone", "raised"} /\ ~flow.there
=============================================================================
