-------------------------- MODULE HubCommandsProofs --------------------------
(***************************************************************************)
(* Theorems about HubCommands, for every set of entities, groups,          *)
(* executions and requests and every number of status reads: the types,    *)
(* that an execution implements CommandOutcome, that a scheduled job stays *)
(* on its target and that a redo finds its entities at rest.               *)
(***************************************************************************)
EXTENDS HubCommands, FiniteSetTheorems, TLAPS

(***************************************************************************)
(* The programs an execution is made of                                    *)
(***************************************************************************)

(* A unit has a step, an entity is only named by commands that are about   *)
(* entities, and a redo comes after the wait for its entities.             *)
GoodUnit(w) ==
  /\ w \in Seq(Steps) /\ Len(w) > 0
  /\ \A s \in DOMAIN w :
       /\ w[s].do = "post" => w[s].cmd \in {"start", "stop", "snapshot", "redo"} \/ w[s].on = {}
       /\ w[s].cmd = "redo" => /\ w[s].do = "post" /\ s > 1
                               /\ w[s - 1].do = "settle" /\ w[s - 1].on = w[s].on

About(w, T) == \A s \in DOMAIN w : w[s].do = "post" => w[s].on \subseteq T

GoodUnits(us) == \A u \in DOMAIN us : GoodUnit(us[u])
Program(us) == us \in Seq(Seq(Steps)) /\ GoodUnits(us)

(* The steps a unit is put together from.                                  *)
LEMMA StepTypes ==
  ASSUME NEW on \in SUBSET Entity
  PROVE  /\ \A cmd \in {"start", "stop", "snapshot", "redo", "enter", "exit"} :
              /\ Post(cmd, on) \in Steps
              /\ Post(cmd, on).do = "post" /\ Post(cmd, on).cmd = cmd /\ Post(cmd, on).on = on
         /\ Resolve(on) \in Steps
         /\ Resolve(on).do = "resolve" /\ Resolve(on).cmd = "get" /\ Resolve(on).on = on
         /\ Settle(on) \in Steps
         /\ Settle(on).do = "settle" /\ Settle(on).cmd = "get" /\ Settle(on).on = on
  BY DEF Post, Resolve, Settle, Steps

(* One command, a stop and a snapshot, and a redo with and without a lookup. *)
LEMMA UnitShapes ==
  ASSUME NEW on \in SUBSET Entity
  PROVE  /\ \A cmd \in {"start", "stop"} :
              GoodUnit(<<Post(cmd, on)>>) /\ About(<<Post(cmd, on)>>, on)
         /\ GoodUnit(<<Post("stop", on), Post("snapshot", on)>>)
         /\ About(<<Post("stop", on), Post("snapshot", on)>>, on)
         /\ GoodUnit(<<Post("stop", on), Settle(on), Post("redo", on)>>)
         /\ About(<<Post("stop", on), Settle(on), Post("redo", on)>>, on)
         /\ GoodUnit(<<Post("stop", on), Resolve(on), Settle(on), Post("redo", on)>>)
         /\ About(<<Post("stop", on), Resolve(on), Settle(on), Post("redo", on)>>, on)
<1> USE StepTypes
<1>1. ASSUME NEW cmd \in {"start", "stop"}
      PROVE  GoodUnit(<<Post(cmd, on)>>) /\ About(<<Post(cmd, on)>>, on)
  <2> DEFINE w == <<Post(cmd, on)>>
  <2>1. w \in Seq(Steps) /\ Len(w) = 1 /\ DOMAIN w = {1} /\ w[1] = Post(cmd, on)
    OBVIOUS
  <2> HIDE DEF w
  <2> QED
    BY <2>1 DEF GoodUnit, About, w
<1>2. /\ GoodUnit(<<Post("stop", on), Post("snapshot", on)>>)
      /\ About(<<Post("stop", on), Post("snapshot", on)>>, on)
  <2> DEFINE w == <<Post("stop", on), Post("snapshot", on)>>
  <2>1. /\ w \in Seq(Steps) /\ Len(w) = 2 /\ DOMAIN w = {1, 2}
        /\ w[1] = Post("stop", on) /\ w[2] = Post("snapshot", on)
    OBVIOUS
  <2> HIDE DEF w
  <2>2. GoodUnit(w) /\ About(w, on)
    BY <2>1 DEF GoodUnit, About
  <2> QED
    BY <2>2 DEF w
<1>3. /\ GoodUnit(<<Post("stop", on), Settle(on), Post("redo", on)>>)
      /\ About(<<Post("stop", on), Settle(on), Post("redo", on)>>, on)
  <2> DEFINE w == <<Post("stop", on), Settle(on), Post("redo", on)>>
  <2>1. /\ w \in Seq(Steps) /\ Len(w) = 3 /\ DOMAIN w = {1, 2, 3}
        /\ w[1] = Post("stop", on) /\ w[2] = Settle(on) /\ w[3] = Post("redo", on)
    OBVIOUS
  <2> HIDE DEF w
  <2>2. GoodUnit(w) /\ About(w, on)
    BY <2>1 DEF GoodUnit, About
  <2> QED
    BY <2>2 DEF w
<1>4. /\ GoodUnit(<<Post("stop", on), Resolve(on), Settle(on), Post("redo", on)>>)
      /\ About(<<Post("stop", on), Resolve(on), Settle(on), Post("redo", on)>>, on)
  <2> DEFINE w == <<Post("stop", on), Resolve(on), Settle(on), Post("redo", on)>>
  <2>1. /\ w \in Seq(Steps) /\ Len(w) = 4 /\ DOMAIN w = {1, 2, 3, 4}
        /\ w[1] = Post("stop", on) /\ w[2] = Resolve(on)
        /\ w[3] = Settle(on) /\ w[4] = Post("redo", on)
    OBVIOUS
  <2> HIDE DEF w
  <2>2. GoodUnit(w) /\ About(w, on)
    BY <2>1 DEF GoodUnit, About
  <2> QED
    BY <2>2 DEF w
<1> QED
  BY <1>1, <1>2, <1>3, <1>4

LEMMA MembersType == \A g : Members(g) \in SUBSET Entity
  BY DEF Members

(* Every method of the client is a good unit about what it was given.      *)
LEMMA MethodShapes ==
  /\ \A e \in Entity :
       /\ GoodUnit(start_entity(e)) /\ About(start_entity(e), {e})
       /\ GoodUnit(stop_entity(e)) /\ About(stop_entity(e), {e})
       /\ GoodUnit(resync_entity(e)) /\ About(resync_entity(e), {e})
       /\ GoodUnit(redo_entity(e)) /\ About(redo_entity(e), {e})
  /\ GoodUnit(start_pipeline) /\ GoodUnit(stop_pipeline)
  /\ GoodUnit(resync_pipeline) /\ GoodUnit(redo_pipeline)
  /\ About(start_pipeline, Entity) /\ About(stop_pipeline, Entity)
  /\ About(resync_pipeline, Entity) /\ About(redo_pipeline, Entity)
  /\ \A g :
       /\ GoodUnit(start_group(g)) /\ About(start_group(g), Members(g))
       /\ GoodUnit(stop_group(g)) /\ About(stop_group(g), Members(g))
       /\ GoodUnit(resync_group(g)) /\ About(resync_group(g), Members(g))
       /\ GoodUnit(redo_group(g)) /\ About(redo_group(g), Members(g))
  /\ GoodUnit(enter_maintenance_mode) /\ About(enter_maintenance_mode, {})
  /\ GoodUnit(exit_maintenance_mode) /\ About(exit_maintenance_mode, {})
<1>1. ASSUME NEW e \in Entity
      PROVE  /\ GoodUnit(start_entity(e)) /\ About(start_entity(e), {e})
             /\ GoodUnit(stop_entity(e)) /\ About(stop_entity(e), {e})
             /\ GoodUnit(resync_entity(e)) /\ About(resync_entity(e), {e})
             /\ GoodUnit(redo_entity(e)) /\ About(redo_entity(e), {e})
  <2>1. {e} \in SUBSET Entity
    OBVIOUS
  <2> QED
    BY <2>1, UnitShapes DEF start_entity, stop_entity, resync_entity, redo_entity
<1>2. /\ GoodUnit(start_pipeline) /\ GoodUnit(stop_pipeline)
      /\ GoodUnit(resync_pipeline) /\ GoodUnit(redo_pipeline)
      /\ About(start_pipeline, Entity) /\ About(stop_pipeline, Entity)
      /\ About(resync_pipeline, Entity) /\ About(redo_pipeline, Entity)
  <2>1. Entity \in SUBSET Entity
    OBVIOUS
  <2> QED
    BY <2>1, UnitShapes DEF start_pipeline, stop_pipeline, resync_pipeline, redo_pipeline
<1>3. ASSUME NEW g
      PROVE  /\ GoodUnit(start_group(g)) /\ About(start_group(g), Members(g))
             /\ GoodUnit(stop_group(g)) /\ About(stop_group(g), Members(g))
             /\ GoodUnit(resync_group(g)) /\ About(resync_group(g), Members(g))
             /\ GoodUnit(redo_group(g)) /\ About(redo_group(g), Members(g))
  BY MembersType, UnitShapes DEF start_group, stop_group, resync_group, redo_group
<1>4. ASSUME NEW cmd \in {"enter", "exit"}
      PROVE  GoodUnit(<<Post(cmd, {})>>) /\ About(<<Post(cmd, {})>>, {})
  <2> DEFINE w == <<Post(cmd, {})>>
  <2>1. w \in Seq(Steps) /\ Len(w) = 1 /\ DOMAIN w = {1} /\ w[1] = Post(cmd, {})
    BY StepTypes
  <2> HIDE DEF w
  <2>2. GoodUnit(w) /\ About(w, {})
    BY <2>1, StepTypes DEF GoodUnit, About
  <2> QED
    BY <2>2 DEF w
<1> QED
  BY <1>1, <1>2, <1>3, <1>4 DEF enter_maintenance_mode, exit_maintenance_mode

(* One unit, or one unit for each element of a list.                       *)
LEMMA OneUnit ==
  ASSUME NEW w, GoodUnit(w)
  PROVE  Program(<<w>>) /\ \A T : About(w, T) => \A u \in DOMAIN <<w>> : About(<<w>>[u], T)
<1>1. w \in Seq(Steps)
  BY DEF GoodUnit
<1> DEFINE us == <<w>>
<1>2. us \in Seq(Seq(Steps)) /\ DOMAIN us = {1} /\ us[1] = w
  BY <1>1
<1> HIDE DEF us
<1>3. Program(us) /\ \A T : About(w, T) => \A u \in DOMAIN us : About(us[u], T)
  BY <1>2 DEF Program, GoodUnits
<1> QED
  BY <1>3 DEF us

LEMMA UnitList ==
  ASSUME NEW n \in Nat, NEW us, DOMAIN us = 1 .. n, us = [u \in 1 .. n |-> us[u]],
         \A u \in 1 .. n : GoodUnit(us[u])
  PROVE  Program(us)
<1>1. \A u \in 1 .. n : us[u] \in Seq(Steps)
  BY DEF GoodUnit
<1>2. us \in Seq(Seq(Steps))
  BY <1>1
<1> QED
  BY <1>2 DEF Program, GoodUnits

LEMMA ListTypes ==
  ASSUME NEW ids \in Seq(Entity)
  PROVE  /\ Len(ids) \in Nat /\ DOMAIN ids = 1 .. Len(ids)
         /\ \A i \in DOMAIN ids : ids[i] \in Entity
  OBVIOUS

LEMMA ManagerShapes ==
  /\ \A ids \in Seq(Entity) :
       /\ Program(play_entities(ids)) /\ Program(pause_entities(ids))
       /\ Program(resync_entities(ids)) /\ Program(redo_entities(ids))
  /\ \A gs \in Seq(GroupId) : Program(redo_groups(gs))
<1>1. ASSUME NEW ids \in Seq(Entity)
      PROVE  /\ Program(play_entities(ids)) /\ Program(pause_entities(ids))
             /\ Program(resync_entities(ids)) /\ Program(redo_entities(ids))
  <2>1. /\ Len(ids) \in Nat /\ DOMAIN ids = 1 .. Len(ids)
        /\ \A i \in 1 .. Len(ids) : ids[i] \in Entity
    BY <1>1, ListTypes
  <2>2. Program(play_entities(ids))
    BY <2>1, UnitList, MethodShapes DEF play_entities
  <2>3. Program(pause_entities(ids))
    BY <2>1, UnitList, MethodShapes DEF pause_entities
  <2>4. Program(resync_entities(ids))
    BY <2>1, UnitList, MethodShapes DEF resync_entities
  <2>5. Program(redo_entities(ids))
    BY <2>1, UnitList, MethodShapes DEF redo_entities
  <2> QED
    BY <2>2, <2>3, <2>4, <2>5
<1>2. ASSUME NEW gs \in Seq(GroupId) PROVE Program(redo_groups(gs))
  <2>1. Len(gs) \in Nat /\ DOMAIN gs = 1 .. Len(gs)
    BY <1>2
  <2> QED
    BY <2>1, UnitList, MethodShapes DEF redo_groups
<1> QED
  BY <1>1, <1>2

(* Whatever an execution is asked for, its program is well formed.         *)
LEMMA RequestFacts ==
  ASSUME NEW q \in Request
  PROVE  /\ q.src \in {"job", "event", "cli"} /\ q.type \in TaskType
         /\ q.entities \in Seq(Entity) /\ q.groups \in Seq(GroupId)
  BY RequestAssumption

LEMMA TypeFacts ==
  ASSUME NEW t \in TaskType
  PROVE  \/ t[1] \in {"start", "stop", "snapshot", "redo"} /\ t[2] \in {"entity", "group", "pipeline"}
         \/ t[1] \in {"enter", "exit"} /\ t[2] = "pipeline"
  BY DEF TaskType

Action == {"play", "pause", "one-time-snapshot", "one-time-snapshot-group", "redo",
           "redo-group", "enter-maintenance", "exit-maintenance"}

LEMMA ActionType ==
  ASSUME NEW t \in TaskType
  PROVE  _task_type_to_action(t) \in Action
  BY TypeFacts DEF _task_type_to_action, Action

LEMMA EmptyProgram == Program(<<>>)
<1>1. <<>> \in Seq(Seq(Steps)) /\ DOMAIN <<>> = {}
  OBVIOUS
<1> QED
  BY <1>1 DEF Program, GoodUnits

LEMMA RouteShapes ==
  ASSUME NEW action \in Action, NEW ids \in Seq(Entity), NEW gs \in Seq(GroupId)
  PROVE  Program(RouteUnits(action, ids, gs))
<1>1. Program(PlayRoute(ids)) /\ Program(PauseRoute(ids))
  BY ManagerShapes, MethodShapes, OneUnit DEF PlayRoute, PauseRoute
<1>2. Program(SnapshotRoute(ids)) /\ Program(RedoRoute(ids))
  BY ManagerShapes, MethodShapes, OneUnit DEF SnapshotRoute, RedoRoute
<1>3. Program(RedoGroupRoute(gs)) /\ Program(EnterRoute) /\ Program(ExitRoute)
  BY ManagerShapes, MethodShapes, OneUnit DEF RedoGroupRoute, EnterRoute, ExitRoute
<1> QED
  BY <1>1, <1>2, <1>3, EmptyProgram DEF RouteUnits, Action

LEMMA GroupShapes ==
  ASSUME NEW t \in TaskType, t[2] = "group", NEW gs \in Seq(GroupId)
  PROVE  /\ Program(_execute_group_operation(_task_type_to_action(t), gs))
         /\ LET us == _execute_group_operation(_task_type_to_action(t), gs)
            IN DOMAIN us = DOMAIN gs /\ \A u \in DOMAIN us : About(us[u], Members(gs[u]))
<1> DEFINE action == _task_type_to_action(t)
           us == _execute_group_operation(action, gs)
<1>1. action \in {"play", "pause", "one-time-snapshot-group", "redo-group"}
  BY TypeFacts DEF _task_type_to_action
<1>2. Len(gs) \in Nat /\ DOMAIN gs = 1 .. Len(gs)
  OBVIOUS
<1> HIDE DEF action
<1>3. DOMAIN us = 1 .. Len(gs)
  BY <1>2 DEF _execute_group_operation
<1>4. \A u \in 1 .. Len(gs) : GoodUnit(us[u]) /\ About(us[u], Members(gs[u]))
  <2> SUFFICES ASSUME NEW u \in 1 .. Len(gs)
               PROVE  GoodUnit(us[u]) /\ About(us[u], Members(gs[u]))
    OBVIOUS
  <2>1. us[u] = CASE action = "play" -> start_group(gs[u])
                  [] action = "pause" -> stop_group(gs[u])
                  [] action = "one-time-snapshot-group" -> resync_group(gs[u])
                  [] action = "redo-group" -> redo_group(gs[u])
    BY <1>2 DEF _execute_group_operation
  <2>2. us[u] \in {start_group(gs[u]), stop_group(gs[u]), resync_group(gs[u]), redo_group(gs[u])}
    BY <1>1, <2>1
  <2>3. ASSUME NEW w \in {start_group(gs[u]), stop_group(gs[u]), resync_group(gs[u]), redo_group(gs[u])}
        PROVE  GoodUnit(w) /\ About(w, Members(gs[u]))
    BY <2>3, MethodShapes
  <2> HIDE DEF us
  <2> QED
    BY <2>2, <2>3
<1>5. us = [u \in 1 .. Len(gs) |-> us[u]]
  <2> DEFINE f(i) == CASE action = "play" -> start_group(gs[i])
                       [] action = "pause" -> stop_group(gs[i])
                       [] action = "one-time-snapshot-group" -> resync_group(gs[i])
                       [] action = "redo-group" -> redo_group(gs[i])
  <2>1. us = [i \in 1 .. Len(gs) |-> f(i)]
    BY <1>2 DEF _execute_group_operation
  <2> HIDE DEF us, f
  <2> QED
    BY <2>1
<1> HIDE DEF us
<1>6. Program(us)
  BY <1>2, <1>3, <1>4, <1>5, UnitList
<1> QED
  BY <1>2, <1>3, <1>4, <1>6 DEF us, action

LEMMA UnitsShape ==
  ASSUME NEW q \in Request
  PROVE  Program(UnitsOf(q))
<1>1. /\ q.src \in {"job", "event", "cli"} /\ q.type \in TaskType
      /\ q.entities \in Seq(Entity) /\ q.groups \in Seq(GroupId) /\ <<>> \in Seq(GroupId)
  BY RequestFacts
<1>2. _task_type_to_action(q.type) \in Action
  BY <1>1, ActionType
<1>3. Program(_execute_event(q)) /\ Program(execute_job(q))
  BY <1>1, <1>2, RouteShapes DEF _execute_event, execute_job
<1>4. Program(_execute_job_logic(q))
  BY <1>1, <1>2, RouteShapes, GroupShapes DEF _execute_job_logic, IsGroupTask
<1> QED
  BY <1>1, <1>3, <1>4, EmptyProgram DEF UnitsOf

(* A scheduled job is about its target.                                    *)
OnlyFor(us, T) == \A u \in DOMAIN us : About(us[u], T)

LEMMA AboutMore ==
  ASSUME NEW w, NEW S, NEW T, About(w, S), S \subseteq T
  PROVE  About(w, T)
  BY DEF About

LEMMA JobUnits ==
  ASSUME NEW q \in Request, q.src = "job", Named(q)
  PROVE  OnlyFor(UnitsOf(q), Target(q))
<1> DEFINE ids == q.entities
           gs == q.groups
           T == Target(q)
<1>1. /\ q.type \in TaskType /\ ids \in Seq(Entity) /\ gs \in Seq(GroupId)
      /\ q.type[2] = "entity" => ids # <<>>
  BY RequestFacts DEF Named
<1>2. CASE q.type[2] = "group"
  <2>1. UnitsOf(q) = _execute_group_operation(_task_type_to_action(q.type), gs)
    BY <1>2 DEF UnitsOf, _execute_job_logic, IsGroupTask
  <2>2. \A i \in DOMAIN gs : Members(gs[i]) \subseteq T
    BY <1>2 DEF Target
  <2> HIDE DEF T
  <2>3. OnlyFor(UnitsOf(q), T)
    BY <1>1, <1>2, <2>1, <2>2, GroupShapes, AboutMore DEF OnlyFor
  <2> QED
    BY <2>3 DEF T
<1>3. CASE q.type[2] # "group"
  <2>1. UnitsOf(q) = RouteUnits(_task_type_to_action(q.type), ids, <<>>)
    BY <1>3 DEF UnitsOf, _execute_job_logic, IsGroupTask
  <2>2. /\ ids # <<>> => \A i \in DOMAIN ids : ids[i] \in Entity /\ {ids[i]} \subseteq T
        /\ ids = <<>> => T = Entity
    <3>1. CASE q.type[2] = "entity"
      BY <1>1, <3>1 DEF Target
    <3>2. CASE q.type[2] = "pipeline"
      BY <1>1, <3>2 DEF Target
    <3> QED
      BY <1>1, <1>3, <3>1, <3>2, TypeFacts
  <2>3. _task_type_to_action(q.type) \in {"play", "pause", "one-time-snapshot", "redo",
                                         "enter-maintenance", "exit-maintenance"}
    BY <1>1, <1>3, TypeFacts DEF _task_type_to_action
  <2>4. {} \subseteq T
    OBVIOUS
  <2> HIDE DEF T
  <2>5. ids # <<>> => /\ OnlyFor(play_entities(ids), T) /\ OnlyFor(pause_entities(ids), T)
                      /\ OnlyFor(resync_entities(ids), T) /\ OnlyFor(redo_entities(ids), T)
    <3> SUFFICES ASSUME ids # <<>>
                 PROVE  /\ OnlyFor(play_entities(ids), T) /\ OnlyFor(pause_entities(ids), T)
                        /\ OnlyFor(resync_entities(ids), T) /\ OnlyFor(redo_entities(ids), T)
      OBVIOUS
    <3>1. OnlyFor(play_entities(ids), T)
      <4>1. \A i \in DOMAIN ids : About(start_entity(ids[i]), {ids[i]})
        BY <2>2, MethodShapes
      <4>2. \A i \in DOMAIN ids : About(start_entity(ids[i]), T)
        BY <2>2, <4>1, AboutMore
      <4> QED
        BY <4>2 DEF OnlyFor, play_entities
    <3>2. OnlyFor(pause_entities(ids), T)
      <4>1. \A i \in DOMAIN ids : About(stop_entity(ids[i]), {ids[i]})
        BY <2>2, MethodShapes
      <4>2. \A i \in DOMAIN ids : About(stop_entity(ids[i]), T)
        BY <2>2, <4>1, AboutMore
      <4> QED
        BY <4>2 DEF OnlyFor, pause_entities
    <3>3. OnlyFor(resync_entities(ids), T)
      <4>1. \A i \in DOMAIN ids : About(resync_entity(ids[i]), {ids[i]})
        BY <2>2, MethodShapes
      <4>2. \A i \in DOMAIN ids : About(resync_entity(ids[i]), T)
        BY <2>2, <4>1, AboutMore
      <4> QED
        BY <4>2 DEF OnlyFor, resync_entities
    <3>4. OnlyFor(redo_entities(ids), T)
      <4>1. \A i \in DOMAIN ids : About(redo_entity(ids[i]), {ids[i]})
        BY <2>2, MethodShapes
      <4>2. \A i \in DOMAIN ids : About(redo_entity(ids[i]), T)
        BY <2>2, <4>1, AboutMore
      <4> QED
        BY <4>2 DEF OnlyFor, redo_entities
    <3> QED
      BY <3>1, <3>2, <3>3, <3>4
  <2>6. ids = <<>> => /\ OnlyFor(<<start_pipeline>>, T) /\ OnlyFor(<<stop_pipeline>>, T)
                      /\ OnlyFor(<<resync_pipeline>>, T) /\ OnlyFor(<<redo_pipeline>>, T)
    BY <2>2, MethodShapes, OneUnit DEF OnlyFor
  <2>7. OnlyFor(EnterRoute, T) /\ OnlyFor(ExitRoute, T)
    <3>1. About(enter_maintenance_mode, T) /\ About(exit_maintenance_mode, T)
      BY <2>4, MethodShapes, AboutMore
    <3> QED
      BY <3>1, MethodShapes, OneUnit DEF OnlyFor, EnterRoute, ExitRoute
  <2>8. OnlyFor(UnitsOf(q), T)
    BY <2>1, <2>3, <2>5, <2>6, <2>7 DEF RouteUnits, PlayRoute, PauseRoute, SnapshotRoute, RedoRoute
  <2> QED
    BY <2>8 DEF T
<1> QED
  BY <1>2, <1>3

(* The route of a group snapshot looks up entities of the pipeline.        *)
LEMMA ResyncShape ==
  ASSUME NEW gs \in Seq(GroupId), NEW units \in resync_groups(gs)
  PROVE  Program(units)
<1>1. PICK found \in get_multiple_groups_entities(gs) :
        \E ids \in SetToSeqs(found) : units = resync_entities(ids)
  BY DEF resync_groups
<1>2. PICK ids \in SetToSeqs(found) : units = resync_entities(ids)
  BY <1>1
<1>3. found \subseteq Entity
  BY <1>1, MembersType DEF get_multiple_groups_entities
<1>4. IsFiniteSet(found) /\ Cardinality(found) \in Nat
  BY <1>3, EntityAssumption, FS_Subset, FS_CardinalityType
<1>5. ids \in [1 .. Cardinality(found) -> found]
  BY <1>2 DEF SetToSeqs
<1>6. ids \in Seq(Entity)
  BY <1>3, <1>4, <1>5
<1> QED
  BY <1>2, <1>6, ManagerShapes

(***************************************************************************)
(* The inductive invariant                                                 *)
(***************************************************************************)

RunType == [req : Request \cup {NoRequest}, units : Seq(Seq(Steps)),
            u : Nat, s : Nat, leg : Legs, polls : 0 .. MaxPolls,
            blind : BOOLEAN, ok : BOOLEAN]

Sending == {"open", "reopen", "denied"}
AtStep == {"ready", "reading", "taken", "refused"} \cup Sending

(* An execution is at a step of a good program, and at a command while it  *)
(* sends one.                                                              *)
Placed(x) ==
  /\ GoodUnits(run[x].units)
  /\ run[x].u > 0
  /\ run[x].leg \in AtStep /\ Busy(x) => run[x].s \in 1 .. Len(Unit(x))
  /\ run[x].leg \in Sending \cup {"taken"} => Busy(x) /\ Step(x).do = "post"
  /\ run[x].leg = "reading" => Busy(x) /\ Step(x).do # "post"
  /\ run[x].leg = "refused" => Busy(x)
  /\ run[x].leg # "idle" => run[x].req \in Request
  /\ run[x].leg \in {"idle", "expand"} => run[x].u = 1 /\ run[x].s = 1 /\ run[x].units = <<>>

(* What is recorded goes with the place.                                   *)
Recorded(x) ==
  /\ verdict[x] = "none" <=> run[x].leg = "idle"
  /\ verdict[x] = "success" => run[x].leg = "end"

Earlier(c, x) == Outcome!Later(At(x), c)
Accepted(x, c) == \E i \in DOMAIN applied[x] : applied[x][i] = c

(* The commands CoreHub accepted are posts of the program before the place *)
(* (or at it, once it may have been accepted), and all of them as long as  *)
(* nothing failed.                                                         *)
InOrder(x) ==
  /\ run[x].leg \in {"idle", "expand"} => applied[x] = <<>>
  /\ \A i \in DOMAIN applied[x] : applied[x][i] \in Posts(run[x].units)
  /\ run[x].leg \in AtStep =>
       /\ \A i \in DOMAIN applied[x] :
            Earlier(applied[x][i], x)
              \/ (run[x].leg \in {"taken", "refused"} /\ applied[x][i] = At(x))
       /\ run[x].ok => \A c \in Posts(run[x].units) : Earlier(c, x) => Accepted(x, c)
  /\ run[x].leg = "taken" => Accepted(x, At(x))

(* The program of a job is about its target.                               *)
OnItsTarget(x) ==
  run[x].leg # "idle" /\ run[x].req.src = "job" =>
    /\ run[x].leg # "expand"
    /\ Named(run[x].req) => OnlyFor(run[x].units, Target(run[x].req))

(* Entities that were seen at rest stay so until the redo, unless somebody *)
(* else commands them.                                                     *)
AtRest(x) ==
  run[x].leg \in Sending \cup {"ready"} /\ Busy(x) /\ Step(x).cmd = "redo" /\ ~run[x].blind =>
    \A e \in Step(x).on \ (warned[x] \cup disturbed[x]) : phase[e] = "hold"

Local(x) == Placed(x) /\ Recorded(x) /\ InOrder(x) /\ OnItsTarget(x)
IInv == TypeOK /\ \A x \in Exec : Local(x) /\ AtRest(x)

(***************************************************************************)
(* What the steps every action is made of do to an execution               *)
(***************************************************************************)

LEMMA GoStep ==
  ASSUME TypeOK, NEW x \in Exec, NEW r \in RunType, Go(x, r)
  PROVE  /\ run' \in [Exec -> RunType] /\ run'[x] = r
         /\ \A y \in Exec \ {x} : run'[y] = run[y]
  BY DEF Go, TypeOK, RunType

(* A change of the leg alone.                                              *)
SamePlace(x) ==
  /\ run'[x].req = run[x].req /\ run'[x].units = run[x].units
  /\ run'[x].u = run[x].u /\ run'[x].s = run[x].s
  /\ run'[x].blind = run[x].blind /\ run'[x].ok = run[x].ok

LEMMA LegStep ==
  ASSUME TypeOK, NEW x \in Exec, NEW leg \in Legs, Leg(x, leg)
  PROVE  /\ run' \in [Exec -> RunType] /\ run'[x].leg = leg /\ SamePlace(x)
         /\ \A y \in Exec \ {x} : run'[y] = run[y]
<1>1. run[x] \in RunType
  BY DEF TypeOK, RunType
<1> DEFINE r == [run[x] EXCEPT !.leg = leg]
<1>2. /\ r \in RunType /\ r.leg = leg /\ r.req = run[x].req /\ r.units = run[x].units
      /\ r.u = run[x].u /\ r.s = run[x].s /\ r.blind = run[x].blind /\ r.ok = run[x].ok
  BY <1>1 DEF RunType
<1>3. Go(x, r)
  BY DEF Leg
<1> HIDE DEF r
<1> QED
  BY <1>2, <1>3, GoStep DEF SamePlace

(* The next unit of an execution.                                          *)
MovesOn(x, good) ==
  /\ run' \in [Exec -> RunType]
  /\ \A y \in Exec \ {x} : run'[y] = run[y]
  /\ run'[x].leg = "ready" /\ run'[x].req = run[x].req /\ run'[x].units = run[x].units
  /\ run'[x].u = run[x].u + 1 /\ run'[x].s = 1
  /\ run'[x].ok = (run[x].ok /\ good)

LEMMA NextUnitStep ==
  ASSUME TypeOK, NEW x \in Exec, NEW good \in BOOLEAN, NEW r \in RunType,
         r.req = run[x].req, r.units = run[x].units, r.u = run[x].u, r.ok = run[x].ok,
         Go(x, NextUnit(r, good))
  PROVE  MovesOn(x, good)
<1> DEFINE t == [r EXCEPT !.u = @ + 1, !.s = 1, !.leg = "ready", !.polls = 0, !.blind = FALSE,
                          !.ok = r.ok /\ good]
<1>1. (r.ok /\ good) \in BOOLEAN /\ 0 \in 0 .. MaxPolls /\ "ready" \in Legs /\ r.u + 1 \in Nat
  BY MaxPollsAssumption DEF RunType, Legs
<1>2. /\ t \in RunType /\ t.leg = "ready" /\ t.req = r.req /\ t.units = r.units
      /\ t.u = r.u + 1 /\ t.s = 1 /\ t.ok = (r.ok /\ good)
  BY <1>1 DEF RunType
<1>3. Go(x, t)
  BY DEF NextUnit
<1> HIDE DEF t
<1> QED
  BY <1>2, <1>3, GoStep DEF MovesOn

(* The next step of an execution.                                          *)
LEMMA AdvanceStep ==
  ASSUME TypeOK, NEW x \in Exec, NEW r \in RunType,
         Len(Unit(x)) \in Nat, run[x].s \in 1 .. Len(Unit(x)),
         r.req = run[x].req, r.units = run[x].units, r.u = run[x].u, r.s = run[x].s,
         r.ok = run[x].ok, Go(x, Advance(x, r))
  PROVE  \/ run[x].s = Len(Unit(x)) /\ MovesOn(x, TRUE)
         \/ /\ run' \in [Exec -> RunType]
            /\ \A y \in Exec \ {x} : run'[y] = run[y]
            /\ run'[x].leg = "ready" /\ run'[x].req = run[x].req
            /\ run'[x].units = run[x].units /\ run'[x].u = run[x].u
            /\ run[x].s < Len(Unit(x)) /\ run'[x].s = run[x].s + 1
            /\ run'[x].ok = run[x].ok /\ run'[x].blind = r.blind
<1>1. CASE r.s < Len(Unit(x))
  <2> DEFINE t == [r EXCEPT !.s = @ + 1, !.leg = "ready"]
  <2>1. r.s + 1 \in Nat /\ "ready" \in Legs
    BY DEF RunType, Legs
  <2>2. /\ t \in RunType /\ t.leg = "ready" /\ t.req = r.req /\ t.units = r.units
        /\ t.u = r.u /\ t.s = r.s + 1 /\ t.ok = r.ok /\ t.blind = r.blind
    BY <2>1 DEF RunType
  <2>3. Go(x, t)
    BY <1>1 DEF Advance
  <2> HIDE DEF t
  <2> QED
    BY <1>1, <2>2, <2>3, GoStep
<1>2. CASE ~(r.s < Len(Unit(x)))
  <2>1. Go(x, NextUnit(r, TRUE))
    BY <1>2 DEF Advance
  <2>2. MovesOn(x, TRUE)
    BY <2>1, NextUnitStep
  <2>3. run[x].s = Len(Unit(x))
    BY <1>2
  <2> QED
    BY <2>2, <2>3
<1> QED
  BY <1>1, <1>2

(***************************************************************************)
(* Where the steps lead                                                    *)
(***************************************************************************)

(* What is known of the step an execution is at.                           *)
LEMMA StepFacts ==
  ASSUME TypeOK, NEW x \in Exec, Placed(x), run[x].leg \in AtStep, Busy(x)
  PROVE  /\ run[x].u \in DOMAIN run[x].units /\ run[x].s \in DOMAIN Unit(x)
         /\ Unit(x) \in Seq(Steps) /\ Len(Unit(x)) \in Nat /\ run[x].s \in 1 .. Len(Unit(x))
         /\ GoodUnit(Unit(x)) /\ Step(x) \in Steps
         /\ Step(x).on \subseteq Entity
<1>1. run[x].units \in Seq(Seq(Steps)) /\ run[x].u \in Nat /\ run[x].u > 0
  BY DEF TypeOK, Placed
<1>2. run[x].u \in DOMAIN run[x].units
  BY <1>1 DEF Busy
<1>3. Unit(x) \in Seq(Steps) /\ GoodUnit(Unit(x))
  BY <1>1, <1>2 DEF Placed, GoodUnits, Unit
<1>4. Len(Unit(x)) \in Nat /\ run[x].s \in 1 .. Len(Unit(x)) /\ run[x].s \in DOMAIN Unit(x)
  BY <1>3 DEF Placed
<1>5. Step(x) \in Steps
  BY <1>3, <1>4 DEF Step
<1> QED
  BY <1>2, <1>3, <1>4, <1>5 DEF Steps

(* A post of a program is one of its steps.                                *)
LEMMA PostFacts ==
  ASSUME NEW us, NEW c
  PROVE  c \in Posts(us) <=>
           \E u \in DOMAIN us : \E s \in DOMAIN us[u] : c = <<u, s>> /\ us[u][s].do = "post"
  BY DEF Posts

(* A unit that is started is at its first step, if the program has one     *)
(* more, and what was accepted lies before it.                             *)
LEMMA AfterUnit ==
  ASSUME TypeOK, NEW x \in Exec, Local(x), run[x].leg \in AtStep, Busy(x),
         NEW good \in BOOLEAN, MovesOn(x, good), applied' = applied, verdict' = verdict,
         good => /\ run[x].s = Len(Unit(x))
                 /\ Step(x).do # "post" \/ run[x].leg = "taken"
  PROVE  Local(x)'
<1>1. /\ run[x] \in RunType /\ run[x].units \in Seq(Seq(Steps)) /\ run[x].u \in Nat
      /\ run[x].s \in 1 .. Len(Unit(x)) /\ Len(Unit(x)) \in Nat
      /\ run[x].u \in DOMAIN run[x].units
  BY StepFacts DEF Local, TypeOK, RunType
<1>2. /\ run'[x].leg = "ready" /\ run'[x].req = run[x].req /\ run'[x].units = run[x].units
      /\ run'[x].u = run[x].u + 1 /\ run'[x].s = 1 /\ run'[x].ok = (run[x].ok /\ good)
  BY DEF MovesOn
<1>3. Placed(x)'
  <2>1. Busy(x)' => 1 \in 1 .. Len(Unit(x)')
    <3> SUFFICES ASSUME Busy(x)' PROVE 1 \in 1 .. Len(Unit(x)')
      OBVIOUS
    <3>1. run[x].u + 1 \in DOMAIN run[x].units
      BY <1>1, <1>2 DEF Busy
    <3>2. Unit(x)' = run[x].units[run[x].u + 1]
      BY <1>2 DEF Unit
    <3>3. GoodUnit(run[x].units[run[x].u + 1])
      BY <3>1 DEF Local, Placed, GoodUnits
    <3> QED
      BY <3>2, <3>3 DEF GoodUnit
  <2> QED
    BY <1>1, <1>2, <2>1 DEF Local, Placed, AtStep, Sending
<1>4. Recorded(x)'
  BY <1>2 DEF Local, Recorded, AtStep, Sending
<1>5. InOrder(x)'
  <2>1. At(x) = <<run[x].u, run[x].s>> /\ At(x)' = <<run[x].u + 1, 1>>
    BY <1>2 DEF At
  <2>2. \A i \in DOMAIN applied[x] : applied[x][i] \in Posts(run[x].units)
    BY DEF Local, InOrder
  <2>3. ASSUME NEW i \in DOMAIN applied[x] PROVE Outcome!Later(At(x)', applied[x][i])
    <3>1. PICK u \in DOMAIN run[x].units :
            \E s \in DOMAIN run[x].units[u] : applied[x][i] = <<u, s>>
      BY <2>2, PostFacts
    <3>2. PICK s \in DOMAIN run[x].units[u] : applied[x][i] = <<u, s>>
      BY <3>1
    <3>3. u \in Nat
      BY <1>1
    <3>4. Outcome!Later(At(x), <<u, s>>) \/ <<u, s>> = At(x)
      BY <3>2 DEF Local, InOrder, Earlier
    <3>5. u < run[x].u + 1
      BY <1>1, <2>1, <3>3, <3>4 DEF Outcome!Later
    <3> QED
      BY <2>1, <3>2, <3>5 DEF Outcome!Later
  <2>4. ASSUME run[x].ok, good, NEW c \in Posts(run[x].units), Outcome!Later(At(x)', c)
        PROVE  Accepted(x, c)
    <3>1. PICK u \in DOMAIN run[x].units :
            \E s \in DOMAIN run[x].units[u] : c = <<u, s>> /\ run[x].units[u][s].do = "post"
      BY PostFacts
    <3>2. PICK s \in DOMAIN run[x].units[u] : c = <<u, s>> /\ run[x].units[u][s].do = "post"
      BY <3>1
    <3>3. u \in Nat /\ u > 0 /\ run[x].units[u] \in Seq(Steps)
      BY <1>1
    <3>4. s \in 1 .. Len(run[x].units[u]) /\ Len(run[x].units[u]) \in Nat
      BY <3>3
    <3>5. u <= run[x].u
      BY <1>1, <2>1, <2>4, <3>2, <3>3, <3>4 DEF Outcome!Later
    <3>6. CASE u < run[x].u \/ s < run[x].s
      <4>1. Earlier(c, x)
        BY <1>1, <2>1, <3>2, <3>3, <3>4, <3>5, <3>6 DEF Outcome!Later, Earlier
      <4> QED
        BY <2>4, <4>1 DEF Local, InOrder
    <3>7. CASE ~(u < run[x].u \/ s < run[x].s)
      <4>1. u = run[x].u /\ s = run[x].s
        BY <1>1, <2>4, <3>3, <3>4, <3>5, <3>7 DEF Unit
      <4>2. c = At(x) /\ Step(x).do = "post"
        BY <2>1, <3>2, <4>1 DEF Step, Unit
      <4> QED
        BY <2>4, <4>2 DEF Local, InOrder
    <3> QED
      BY <3>6, <3>7
  <2> QED
    BY <1>2, <2>2, <2>3, <2>4 DEF InOrder, AtStep, Sending, Earlier, Accepted
<1>6. OnItsTarget(x)'
  BY <1>2 DEF Local, OnItsTarget, AtStep, Sending
<1> QED
  BY <1>3, <1>4, <1>5, <1>6 DEF Local

(* The same for the next step of a unit.                                   *)
LEMMA AfterStep ==
  ASSUME TypeOK, NEW x \in Exec, Local(x), run[x].leg \in AtStep, Busy(x),
         applied' = applied, verdict' = verdict,
         Step(x).do # "post" \/ run[x].leg = "taken",
         run'[x].leg = "ready", run'[x].req = run[x].req, run'[x].units = run[x].units,
         run'[x].u = run[x].u, run[x].s < Len(Unit(x)), run'[x].s = run[x].s + 1,
         run'[x].ok = run[x].ok
  PROVE  Local(x)'
<1>1. /\ run[x] \in RunType /\ run[x].units \in Seq(Seq(Steps)) /\ run[x].u \in Nat
      /\ run[x].s \in 1 .. Len(Unit(x)) /\ Len(Unit(x)) \in Nat
      /\ run[x].u \in DOMAIN run[x].units
  BY StepFacts DEF Local, TypeOK, RunType
<1>2. Placed(x)'
  <2>1. Unit(x)' = Unit(x) /\ run[x].s + 1 \in 1 .. Len(Unit(x))
    BY <1>1 DEF Unit
  <2> QED
    BY <1>1, <2>1 DEF Local, Placed, AtStep, Sending, Busy
<1>3. Recorded(x)'
  BY DEF Local, Recorded, AtStep, Sending
<1>4. InOrder(x)'
  <2>1. At(x) = <<run[x].u, run[x].s>> /\ At(x)' = <<run[x].u, run[x].s + 1>>
    BY DEF At
  <2>2. \A i \in DOMAIN applied[x] : applied[x][i] \in Posts(run[x].units)
    BY DEF Local, InOrder
  <2>3. ASSUME NEW u \in DOMAIN run[x].units, NEW s \in DOMAIN run[x].units[u]
        PROVE  /\ u \in Nat /\ s \in Nat
               /\ Outcome!Later(At(x)', <<u, s>>) <=> Outcome!Later(At(x), <<u, s>>) \/ <<u, s>> = At(x)
    <3>1. u \in Nat /\ run[x].units[u] \in Seq(Steps)
      BY <1>1
    <3>2. s \in Nat
      BY <3>1
    <3> QED
      BY <1>1, <2>1, <3>1, <3>2 DEF Outcome!Later
  <2>4. ASSUME NEW i \in DOMAIN applied[x] PROVE Outcome!Later(At(x)', applied[x][i])
    <3>1. PICK u \in DOMAIN run[x].units :
            \E s \in DOMAIN run[x].units[u] : applied[x][i] = <<u, s>>
      BY <2>2, PostFacts
    <3>2. Outcome!Later(At(x), applied[x][i]) \/ applied[x][i] = At(x)
      BY DEF Local, InOrder, Earlier
    <3> QED
      BY <2>3, <3>1, <3>2
  <2>5. ASSUME run[x].ok, NEW c \in Posts(run[x].units), Outcome!Later(At(x)', c)
        PROVE  Accepted(x, c)
    <3>1. PICK u \in DOMAIN run[x].units :
            \E s \in DOMAIN run[x].units[u] : c = <<u, s>> /\ run[x].units[u][s].do = "post"
      BY PostFacts
    <3>2. Earlier(c, x) \/ c = At(x)
      BY <2>3, <2>5, <3>1 DEF Earlier
    <3>3. CASE Earlier(c, x)
      BY <2>5, <3>3 DEF Local, InOrder
    <3>4. CASE c = At(x)
      <4>1. Step(x).do = "post"
        BY <2>1, <3>1, <3>4 DEF Step, Unit
      <4> QED
        BY <3>4, <4>1 DEF Local, InOrder
    <3> QED
      BY <3>2, <3>3, <3>4
  <2> QED
    BY <2>2, <2>4, <2>5 DEF InOrder, AtStep, Sending, Earlier, Accepted
<1>5. OnItsTarget(x)'
  BY DEF Local, OnItsTarget, AtStep, Sending
<1> QED
  BY <1>2, <1>3, <1>4, <1>5 DEF Local

(***************************************************************************)
(* Every execution stays in its program                                    *)
(***************************************************************************)

Moved(x) ==
  /\ run' \in [Exec -> RunType]
  /\ \A y \in Exec \ {x} : run'[y] = run[y]

LEMMA LocalFrame ==
  ASSUME NEW y, Local(y), run'[y] = run[y], verdict'[y] = verdict[y], applied'[y] = applied[y]
  PROVE  Local(y)'
<1>1. Placed(y)' /\ Recorded(y)' /\ OnItsTarget(y)'
  BY DEF Local, Placed, Recorded, OnItsTarget, Busy, Unit, Step
<1>2. InOrder(y)'
  BY DEF Local, InOrder, Earlier, Accepted, At
<1> QED
  BY <1>1, <1>2 DEF Local

(* A change of the leg at a step.                                          *)
LEMMA LegLocal ==
  ASSUME TypeOK, NEW x \in Exec, Local(x), run[x].leg \in AtStep, Busy(x),
         NEW leg \in Sending \cup {"ready", "reading", "refused"}, Leg(x, leg),
         leg \in Sending => Step(x).do = "post",
         leg = "reading" => Step(x).do # "post",
         leg # "refused" => run[x].leg \notin {"taken", "refused"},
         applied' = applied, verdict' = verdict
  PROVE  Moved(x) /\ Local(x)' /\ SamePlace(x) /\ run'[x].leg = leg
<1>1. Moved(x) /\ SamePlace(x) /\ run'[x].leg = leg
  BY LegStep DEF Moved, Sending, Legs
<1>2. Busy(x)' = Busy(x) /\ Unit(x)' = Unit(x) /\ Step(x)' = Step(x) /\ At(x)' = At(x)
  BY <1>1 DEF SamePlace, Busy, Unit, Step, At
<1>3. Placed(x)' /\ Recorded(x)' /\ OnItsTarget(x)'
  BY <1>1, <1>2 DEF SamePlace, Local, Placed, Recorded, OnItsTarget, AtStep, Sending
<1>4. InOrder(x)'
  BY <1>1, <1>2 DEF SamePlace, Local, InOrder, Earlier, Accepted, AtStep, Sending
<1> QED
  BY <1>1, <1>3, <1>4 DEF Local

LEMMA DispatchLocal ==
  ASSUME IInv, NEW x \in Exec, NEW q \in Asked[x], Dispatch(x, q)
  PROVE  Moved(x) /\ Local(x)' /\ verdict'[x] \in {"waiting", "failed"}
<1> DEFINE routed == Runs(q)
           wide == ~Direct(q) /\ q.type = <<"snapshot", "group">>
           leg == IF ~routed THEN "end" ELSE IF wide THEN "expand" ELSE "ready"
           r == [Idle EXCEPT !.req = q, !.units = UnitsOf(q), !.leg = leg]
<1>1. q \in Request
  BY AskedAssumption
<1>2. Program(UnitsOf(q))
  BY <1>1, UnitsShape
<1>3. /\ leg \in {"end", "expand", "ready"}
      /\ leg = "end" <=> ~routed
      /\ leg = "expand" <=> routed /\ wide
  OBVIOUS
<1>4. Go(x, r) /\ verdict' = [verdict EXCEPT ![x] = IF routed THEN "waiting" ELSE "failed"]
      /\ UNCHANGED <<hub, history>> /\ run[x].leg = "idle"
  BY DEF Dispatch
<1>5. leg = "expand" => UnitsOf(q) = <<>> /\ q.src # "job"
  <2> SUFFICES ASSUME routed, wide PROVE UnitsOf(q) = <<>> /\ q.src # "job"
    BY <1>3
  <2>1. q.type[2] = "group" /\ q.src # "job"
    BY DEF Direct, IsGroupTask
  <2>2. _task_type_to_action(q.type) = "one-time-snapshot-group"
    BY DEF _task_type_to_action
  <2>3. q.src = "event" \/ (q.src = "cli" /\ ~_endpoint_for_job(q))
    <3>1. q.type \in {"start", "stop", "snapshot"} \X {"group"}
      OBVIOUS
    <3> QED
      BY <1>1, <2>1, <3>1, RequestFacts DEF _endpoint_for_job
  <2> QED
    BY <2>1, <2>2, <2>3 DEF UnitsOf, _execute_event, RouteUnits
<1> HIDE DEF routed, wide, leg
<1>6. /\ r \in RunType /\ r.req = q /\ r.units = UnitsOf(q) /\ r.leg = leg
      /\ r.u = 1 /\ r.s = 1 /\ r.ok = TRUE /\ r.blind = FALSE
  <2>1. /\ Idle \in RunType /\ Idle.u = 1 /\ Idle.s = 1
        /\ Idle.ok = TRUE /\ Idle.blind = FALSE
    BY MaxPollsAssumption DEF Idle, RunType, Legs
  <2>2. UnitsOf(q) \in Seq(Seq(Steps)) /\ leg \in Legs
    BY <1>2, <1>3 DEF Program, Legs
  <2> QED
    BY <1>1, <2>1, <2>2 DEF RunType
<1> HIDE DEF r
<1>7. Moved(x) /\ run'[x] = r
  BY <1>4, <1>6, GoStep DEF IInv, Moved
<1>8. verdict'[x] = (IF routed THEN "waiting" ELSE "failed") /\ applied' = applied
  BY <1>4 DEF IInv, TypeOK, history
<1>9. applied[x] = <<>>
  BY <1>4 DEF IInv, Local, InOrder
<1>10. Placed(x)'
  <2>1. Busy(x)' => 1 \in 1 .. Len(Unit(x)')
    <3> SUFFICES ASSUME Busy(x)' PROVE 1 \in 1 .. Len(Unit(x)')
      OBVIOUS
    <3>1. 1 \in DOMAIN UnitsOf(q)
      BY <1>2, <1>6, <1>7 DEF Busy, Program
    <3> QED
      BY <1>2, <1>6, <1>7, <3>1 DEF Unit, Program, GoodUnits, GoodUnit
  <2> QED
    BY <1>1, <1>2, <1>3, <1>5, <1>6, <1>7, <2>1 DEF Placed, Program, AtStep, Sending
<1>11. Recorded(x)'
  BY <1>3, <1>6, <1>7, <1>8 DEF Recorded
<1>12. InOrder(x)'
  <2>1. At(x)' = <<1, 1>>
    BY <1>6, <1>7 DEF At
  <2>2. ASSUME NEW c \in Posts(UnitsOf(q)) PROVE ~Outcome!Later(<<1, 1>>, c)
    <3>1. PICK u \in DOMAIN UnitsOf(q) : \E s \in DOMAIN UnitsOf(q)[u] : c = <<u, s>>
      BY PostFacts
    <3>2. PICK s \in DOMAIN UnitsOf(q)[u] : c = <<u, s>>
      BY <3>1
    <3>3. u \in Nat \ {0} /\ UnitsOf(q)[u] \in Seq(Steps)
      BY <1>2 DEF Program
    <3>4. s \in Nat \ {0}
      BY <3>3
    <3> QED
      BY <3>2, <3>3, <3>4 DEF Outcome!Later
  <2> QED
    BY <1>3, <1>6, <1>7, <1>8, <1>9, <2>1, <2>2 DEF InOrder, AtStep, Sending, Earlier, Accepted
<1>13. OnItsTarget(x)'
  BY <1>1, <1>3, <1>5, <1>6, <1>7, JobUnits DEF OnItsTarget
<1> QED
  BY <1>7, <1>8, <1>10, <1>11, <1>12, <1>13 DEF Local

LEMMA ExpandLocal ==
  ASSUME IInv, NEW x \in Exec, Expand(x)
  PROVE  Moved(x) /\ Local(x)'
<1>1. run[x].leg = "expand" /\ Local(x) /\ run[x] \in RunType
      /\ UNCHANGED <<hub, verdict, history>>
  BY DEF Expand, IInv, TypeOK, RunType
<1>2. PICK units \in resync_groups(run[x].req.groups) :
        Go(x, [run[x] EXCEPT !.units = units, !.leg = "ready"])
  BY DEF Expand
<1>3. run[x].req \in Request /\ run[x].u = 1 /\ run[x].s = 1
  BY <1>1 DEF Local, Placed
<1>4. Program(units)
  BY <1>3, RequestFacts, ResyncShape
<1> DEFINE r == [run[x] EXCEPT !.units = units, !.leg = "ready"]
<1>5. /\ r \in RunType /\ r.req = run[x].req /\ r.units = units /\ r.leg = "ready"
      /\ r.u = 1 /\ r.s = 1 /\ r.ok = run[x].ok /\ r.blind = run[x].blind
  BY <1>1, <1>3, <1>4 DEF RunType, Program, Legs
<1> HIDE DEF r
<1>6. Moved(x) /\ run'[x] = r
  BY <1>2, <1>5, GoStep DEF r, IInv, Moved
<1>7. applied' = applied /\ verdict' = verdict /\ applied[x] = <<>>
  BY <1>1 DEF history, Local, InOrder
<1>8. Placed(x)'
  <2>1. Busy(x)' => 1 \in 1 .. Len(Unit(x)')
    <3> SUFFICES ASSUME Busy(x)' PROVE 1 \in 1 .. Len(Unit(x)')
      OBVIOUS
    <3>1. 1 \in DOMAIN units
      BY <1>4, <1>5, <1>6 DEF Busy, Program
    <3> QED
      BY <1>4, <1>5, <1>6, <3>1 DEF Unit, Program, GoodUnits, GoodUnit
  <2> QED
    BY <1>3, <1>4, <1>5, <1>6, <2>1 DEF Placed, Program, AtStep, Sending
<1>9. Recorded(x)'
  BY <1>1, <1>5, <1>6, <1>7 DEF Local, Recorded
<1>10. InOrder(x)'
  <2>1. At(x)' = <<1, 1>>
    BY <1>5, <1>6 DEF At
  <2>2. ASSUME NEW c \in Posts(units) PROVE ~Outcome!Later(<<1, 1>>, c)
    <3>1. PICK u \in DOMAIN units : \E s \in DOMAIN units[u] : c = <<u, s>>
      BY PostFacts
    <3>2. PICK s \in DOMAIN units[u] : c = <<u, s>>
      BY <3>1
    <3>3. u \in Nat \ {0} /\ units[u] \in Seq(Steps)
      BY <1>4 DEF Program
    <3>4. s \in Nat \ {0}
      BY <3>3
    <3> QED
      BY <3>2, <3>3, <3>4 DEF Outcome!Later
  <2> QED
    BY <1>5, <1>6, <1>7, <2>1, <2>2 DEF InOrder, AtStep, Sending, Earlier, Accepted
<1>11. OnItsTarget(x)'
  BY <1>1, <1>5, <1>6 DEF Local, OnItsTarget
<1> QED
  BY <1>6, <1>8, <1>9, <1>10, <1>11 DEF Local

(* CoreHub accepts the command of the place, the latest so far.            *)
LEMMA TakesLocal ==
  ASSUME IInv, NEW x \in Exec, HubTakes(x)
  PROVE  /\ Moved(x) /\ Local(x)' /\ At(x) \in Posts(run[x].units)
         /\ \A i \in DOMAIN applied[x] : Earlier(applied[x][i], x)
         /\ run'[x].units = run[x].units
<1>1. TypeOK /\ Local(x) /\ run[x].leg \in {"open", "reopen"} /\ run[x] \in RunType
  BY DEF IInv, HubTakes, TypeOK, RunType
<1>2. Busy(x) /\ Step(x).do = "post"
  BY <1>1 DEF Local, Placed, Sending
<1>3. run[x].u \in DOMAIN run[x].units /\ run[x].s \in DOMAIN Unit(x)
  BY <1>1, <1>2, StepFacts DEF Local, AtStep, Sending
<1>4. At(x) \in Posts(run[x].units)
  BY <1>2, <1>3, PostFacts DEF At, Step, Unit
<1>5. Moved(x) /\ SamePlace(x) /\ run'[x].leg = "taken"
  BY <1>1, LegStep DEF HubTakes, Moved, Legs
<1>6. Busy(x)' = Busy(x) /\ Unit(x)' = Unit(x) /\ Step(x)' = Step(x) /\ At(x)' = At(x)
  BY <1>5 DEF SamePlace, Busy, Unit, Step, At
<1>7. applied'[x] = Append(applied[x], At(x)) /\ applied[x] \in Seq(Nat \X Nat) /\ verdict' = verdict
  BY <1>1 DEF HubTakes, TypeOK
<1>8. At(x) \in Nat \X Nat
  BY <1>1 DEF At, RunType
<1>9. /\ DOMAIN applied'[x] = DOMAIN applied[x] \cup {Len(applied[x]) + 1}
      /\ \A i \in DOMAIN applied[x] : applied'[x][i] = applied[x][i]
      /\ applied'[x][Len(applied[x]) + 1] = At(x)
  BY <1>7, <1>8
<1>10. \A i \in DOMAIN applied[x] : Earlier(applied[x][i], x)
  BY <1>1 DEF Local, InOrder, AtStep, Sending
<1>11. Placed(x)' /\ Recorded(x)' /\ OnItsTarget(x)'
  BY <1>1, <1>2, <1>5, <1>6, <1>7
  DEF SamePlace, Local, Placed, Recorded, OnItsTarget, AtStep, Sending
<1>12. InOrder(x)'
  BY <1>1, <1>4, <1>5, <1>6, <1>9, <1>10
  DEF SamePlace, Local, InOrder, Earlier, Accepted, AtStep, Sending
<1> QED
  BY <1>4, <1>5, <1>10, <1>11, <1>12 DEF Local, SamePlace

(* A step or a unit that is over leads to the next.                        *)
LEMMA AdvanceLocal ==
  ASSUME TypeOK, NEW x \in Exec, Local(x), run[x].leg \in AtStep, Busy(x), NEW r \in RunType,
         r.req = run[x].req, r.units = run[x].units, r.u = run[x].u, r.s = run[x].s,
         r.ok = run[x].ok, Go(x, Advance(x, r)),
         Step(x).do # "post" \/ run[x].leg = "taken",
         applied' = applied, verdict' = verdict
  PROVE  Moved(x) /\ Local(x)' /\ run'[x].units = run[x].units
<1>1. Len(Unit(x)) \in Nat /\ run[x].s \in 1 .. Len(Unit(x))
  BY StepFacts DEF Local
<1>2. CASE run[x].s = Len(Unit(x)) /\ MovesOn(x, TRUE)
  <2>1. Local(x)'
    BY <1>2, AfterUnit
  <2> QED
    BY <1>2, <2>1 DEF Moved, MovesOn
<1>3. CASE /\ run' \in [Exec -> RunType]
           /\ \A y \in Exec \ {x} : run'[y] = run[y]
           /\ run'[x].leg = "ready" /\ run'[x].req = run[x].req
           /\ run'[x].units = run[x].units /\ run'[x].u = run[x].u
           /\ run[x].s < Len(Unit(x)) /\ run'[x].s = run[x].s + 1
           /\ run'[x].ok = run[x].ok /\ run'[x].blind = r.blind
  <2>1. Local(x)'
    BY <1>3, AfterStep
  <2> QED
    BY <1>3, <2>1 DEF Moved
<1> QED
  BY <1>1, <1>2, <1>3, AdvanceStep

(* A status read that is sent changes the leg and the number of reads.     *)
LEMMA AskSettled ==
  ASSUME TypeOK, NEW x \in Exec, Local(x), run[x].leg = "ready", run[x].polls < MaxPolls,
         Busy(x), Step(x).do = "settle",
         Go(x, [run[x] EXCEPT !.leg = "reading", !.polls = @ + 1]),
         applied' = applied, verdict' = verdict
  PROVE  Moved(x) /\ Local(x)' /\ SamePlace(x) /\ run'[x].leg = "reading"
<1> DEFINE r == [run[x] EXCEPT !.leg = "reading", !.polls = @ + 1]
<1>1. run[x] \in RunType /\ run[x].polls + 1 \in 0 .. MaxPolls /\ "reading" \in Legs
  BY MaxPollsAssumption DEF TypeOK, RunType, Legs
<1>2. /\ r \in RunType /\ r.leg = "reading" /\ r.req = run[x].req /\ r.units = run[x].units
      /\ r.u = run[x].u /\ r.s = run[x].s /\ r.blind = run[x].blind /\ r.ok = run[x].ok
  BY <1>1 DEF RunType
<1>3. Go(x, r)
  OBVIOUS
<1> HIDE DEF r
<1>4. Moved(x) /\ SamePlace(x) /\ run'[x].leg = "reading"
  BY <1>2, <1>3, GoStep DEF Moved, SamePlace
<1>5. Busy(x)' = Busy(x) /\ Unit(x)' = Unit(x) /\ Step(x)' = Step(x) /\ At(x)' = At(x)
  BY <1>4 DEF SamePlace, Busy, Unit, Step, At
<1>6. Placed(x)' /\ Recorded(x)' /\ OnItsTarget(x)'
  BY <1>4, <1>5 DEF SamePlace, Local, Placed, Recorded, OnItsTarget, AtStep, Sending
<1>7. InOrder(x)'
  BY <1>4, <1>5 DEF SamePlace, Local, InOrder, Earlier, Accepted, AtStep, Sending
<1> QED
  BY <1>4, <1>6, <1>7 DEF Local

LEMMA ClientLocal ==
  ASSUME IInv, NEW x \in Exec,
         \/ Send(x) \/ RefreshAndRetry(x) \/ Answered(x) \/ GiveUpUnit(x)
         \/ Ask(x) \/ ResolveTargets(x) \/ ProceedBlind(x) \/ PollTimeout(x)
         \/ \E readable \in BOOLEAN : PollSettled(x, readable)
         \/ HubRefuses(x) \/ HubDenies(x) \/ AnswerLost(x)
  PROVE  Moved(x) /\ Local(x)' /\ UNCHANGED <<applied, verdict>> /\ run'[x].units = run[x].units
<1>1. TypeOK /\ Local(x) /\ run[x] \in RunType
  BY DEF IInv, TypeOK, RunType
<1>2. applied' = applied /\ verdict' = verdict
  BY DEF Send, RefreshAndRetry, Answered, GiveUpUnit, Ask, ResolveTargets, ProceedBlind, PollTimeout,
         PollSettled, HubRefuses, HubDenies, AnswerLost, history
<1>3. run[x].leg \in AtStep /\ Busy(x)
  BY <1>1 DEF Send, RefreshAndRetry, Answered, GiveUpUnit, Ask, ResolveTargets, ProceedBlind, PollTimeout,
         PollSettled, HubRefuses, HubDenies, AnswerLost, AtStep, Sending, Local, Placed
<1>4. CASE Send(x)
  <2>1. run[x].leg = "ready" /\ Step(x).do = "post" /\ Leg(x, "open")
    BY <1>4 DEF Send
  <2> QED
    BY <1>1, <1>2, <1>3, <2>1, LegLocal DEF Sending, SamePlace
<1>5. ASSUME run[x].leg \in Sending \cup {"taken"},
             NEW leg \in {"denied", "reopen", "refused"}, Leg(x, leg),
             run[x].leg = "taken" => leg = "refused"
      PROVE  Moved(x) /\ Local(x)' /\ run'[x].units = run[x].units
  <2>1. Step(x).do = "post"
    BY <1>1, <1>5 DEF Local, Placed
  <2> QED
    BY <1>1, <1>2, <1>3, <1>5, <2>1, LegLocal DEF Sending, SamePlace
<1>6. CASE RefreshAndRetry(x) \/ HubRefuses(x) \/ HubDenies(x) \/ AnswerLost(x)
  BY <1>2, <1>5, <1>6 DEF RefreshAndRetry, HubRefuses, HubDenies, AnswerLost, Sending
<1>7. CASE Answered(x)
  <2>1. run[x].leg = "taken" /\ Go(x, Advance(x, run[x]))
    BY <1>7 DEF Answered
  <2> QED
    BY <1>1, <1>2, <1>3, <2>1, AdvanceLocal
<1>8. CASE GiveUpUnit(x)
  <2>1. Go(x, NextUnit(run[x], FALSE))
    BY <1>8 DEF GiveUpUnit
  <2>2. MovesOn(x, FALSE)
    BY <1>1, <2>1, NextUnitStep
  <2>3. Local(x)'
    BY <1>1, <1>2, <1>3, <2>2, AfterUnit
  <2> QED
    BY <1>2, <2>2, <2>3 DEF Moved, MovesOn
<1>9. CASE ResolveTargets(x)
  <2>1. PICK blind \in BOOLEAN : Go(x, Advance(x, [run[x] EXCEPT !.blind = blind]))
    <3>1. PICK known \in BOOLEAN : Go(x, Advance(x, [run[x] EXCEPT !.blind = ~known]))
      BY <1>9 DEF ResolveTargets
    <3> QED
      BY <3>1
  <2> DEFINE r == [run[x] EXCEPT !.blind = blind]
  <2>2. /\ r \in RunType /\ r.req = run[x].req /\ r.units = run[x].units /\ r.u = run[x].u
        /\ r.s = run[x].s /\ r.ok = run[x].ok
    BY <1>1 DEF RunType
  <2>3. Go(x, Advance(x, r)) /\ Step(x).do = "resolve"
    BY <1>9, <2>1 DEF ResolveTargets
  <2> HIDE DEF r
  <2> QED
    BY <1>1, <1>2, <1>3, <2>2, <2>3, AdvanceLocal
<1>10. CASE PollTimeout(x)
  <2>1. Leg(x, "refused")
    BY <1>10 DEF PollTimeout
  <2> QED
    BY <1>1, <1>2, <1>3, <2>1, LegLocal DEF Sending, SamePlace
<1>11. ASSUME NEW readable \in BOOLEAN, PollSettled(x, readable)
       PROVE  Moved(x) /\ Local(x)' /\ run'[x].units = run[x].units
  <2>1. run[x].leg = "reading" /\ Step(x).do = "settle"
    BY <1>11 DEF PollSettled
  <2>2. Go(x, Advance(x, run[x])) \/ Leg(x, "ready")
    BY <1>11 DEF PollSettled
  <2>3. CASE Go(x, Advance(x, run[x]))
    BY <1>1, <1>2, <1>3, <2>1, <2>3, AdvanceLocal
  <2>4. CASE Leg(x, "ready")
    BY <1>1, <1>2, <1>3, <2>1, <2>4, LegLocal DEF SamePlace, Sending
  <2> QED
    BY <2>2, <2>3, <2>4
<1>12. CASE Ask(x)
  <2>1. run[x].leg = "ready" /\ Busy(x) /\ Step(x).do # "post"
    BY <1>12 DEF Ask
  <2>2. CASE Leg(x, "reading")
    BY <1>1, <1>2, <1>3, <2>1, <2>2, LegLocal DEF SamePlace, Sending
  <2>3. CASE /\ Step(x).do = "settle" /\ run[x].polls < MaxPolls
             /\ Go(x, [run[x] EXCEPT !.leg = "reading", !.polls = @ + 1])
    BY <1>1, <1>2, <2>1, <2>3, AskSettled DEF SamePlace
  <2> QED
    BY <1>12, <2>2, <2>3 DEF Ask
<1>13. CASE ProceedBlind(x)
  <2>1. Step(x).do = "settle" /\ Go(x, Advance(x, run[x]))
    BY <1>13 DEF ProceedBlind
  <2> QED
    BY <1>1, <1>2, <1>3, <2>1, AdvanceLocal
<1> QED
  BY <1>2, <1>4, <1>6, <1>7, <1>8, <1>9, <1>10, <1>11, <1>12, <1>13

(* The end: a success needs every command.                                 *)
LEMMA FinishLocal ==
  ASSUME IInv, NEW x \in Exec, Finish(x)
  PROVE  /\ Moved(x) /\ Local(x)' /\ run'[x].units = run[x].units
         /\ run[x].ok => \A c \in Posts(run[x].units) : Accepted(x, c)
<1>1. TypeOK /\ Local(x) /\ run[x] \in RunType /\ run[x].leg = "ready" /\ ~Busy(x)
  BY DEF Finish, IInv, TypeOK, RunType
<1>2. Moved(x) /\ SamePlace(x) /\ run'[x].leg = "end"
  BY <1>1, LegStep DEF Finish, Moved, Legs
<1>3. applied' = applied /\ verdict'[x] = (IF verdict[x] # "waiting" THEN verdict[x]
                                           ELSE IF run[x].ok THEN "success" ELSE "failed")
  BY <1>1 DEF Finish, history, TypeOK
<1>4. Local(x)'
  BY <1>1, <1>2, <1>3 DEF SamePlace, Local, Placed, Recorded, InOrder, OnItsTarget,
     AtStep, Sending, Busy
<1>5. ASSUME run[x].ok, NEW c \in Posts(run[x].units) PROVE Accepted(x, c)
  <2>1. PICK u \in DOMAIN run[x].units : \E s \in DOMAIN run[x].units[u] : c = <<u, s>>
    BY PostFacts
  <2>2. u \in Nat /\ u < run[x].u /\ run[x].u \in Nat
    BY <1>1 DEF Busy, RunType
  <2>3. Earlier(c, x)
    BY <2>1, <2>2 DEF Earlier, At, Outcome!Later
  <2> QED
    BY <1>1, <1>5, <2>3 DEF Local, InOrder, AtStep
<1> QED
  BY <1>2, <1>4, <1>5 DEF SamePlace

(* A caller that gives up leaves the execution where it is.                *)
LEMMA TimeoutLocal ==
  ASSUME IInv, NEW x \in Exec, CallerTimeout(x)
  PROVE  Local(x)'
<1>1. Local(x) /\ run' = run /\ applied' = applied
  BY DEF IInv, CallerTimeout, history
<1>2. verdict[x] = "waiting" /\ verdict'[x] = "failed"
  BY DEF CallerTimeout, IInv, TypeOK
<1>3. Placed(x)' /\ OnItsTarget(x)'
  BY <1>1 DEF Local, Placed, OnItsTarget, Busy, Unit, Step
<1>4. InOrder(x)'
  BY <1>1 DEF Local, InOrder, Earlier, Accepted, At
<1>5. Recorded(x)'
  BY <1>1, <1>2 DEF Local, Recorded
<1> QED
  BY <1>3, <1>4, <1>5 DEF Local

LEMMA LocalStep ==
  ASSUME IInv, [Next]_vars
  PROVE  \A y \in Exec : Local(y)'
<1>1. ASSUME NEW x \in Exec, Local(x)',
             \A y \in Exec \ {x} : /\ run'[y] = run[y] /\ verdict'[y] = verdict[y]
                                   /\ applied'[y] = applied[y]
      PROVE  \A y \in Exec : Local(y)'
  BY <1>1, LocalFrame DEF IInv
<1>2. ASSUME NEW x \in Exec, NEW q \in Asked[x], Dispatch(x, q) PROVE \A y \in Exec : Local(y)'
  <2>1. verdict' = [verdict EXCEPT ![x] = verdict'[x]] /\ applied' = applied
    BY <1>2 DEF Dispatch, history, IInv, TypeOK
  <2>2. \A y \in Exec \ {x} : verdict'[y] = verdict[y]
    BY <2>1 DEF IInv, TypeOK
  <2> QED
    BY <1>1, <1>2, <2>1, <2>2, DispatchLocal DEF Moved
<1>3. ASSUME NEW x \in Exec, Expand(x) PROVE \A y \in Exec : Local(y)'
  BY <1>1, <1>3, ExpandLocal DEF Moved, Expand, history
<1>4. ASSUME NEW x \in Exec, HubTakes(x) PROVE \A y \in Exec : Local(y)'
  <2>1. \A y \in Exec \ {x} : applied'[y] = applied[y] /\ verdict'[y] = verdict[y]
    BY <1>4 DEF HubTakes, IInv, TypeOK
  <2> QED
    BY <1>1, <1>4, <2>1, TakesLocal DEF Moved
<1>5. ASSUME NEW x \in Exec, Finish(x) PROVE \A y \in Exec : Local(y)'
  <2>1. \A y \in Exec \ {x} : applied'[y] = applied[y] /\ verdict'[y] = verdict[y]
    BY <1>5 DEF Finish, IInv, TypeOK, history
  <2> QED
    BY <1>1, <1>5, <2>1, FinishLocal DEF Moved
<1>6. ASSUME NEW x \in Exec, CallerTimeout(x) PROVE \A y \in Exec : Local(y)'
  <2>1. \A y \in Exec \ {x} : /\ run'[y] = run[y] /\ applied'[y] = applied[y]
                              /\ verdict'[y] = verdict[y]
    BY <1>6 DEF CallerTimeout, IInv, TypeOK, history
  <2> QED
    BY <1>1, <1>6, <2>1, TimeoutLocal
<1>7. ASSUME NEW x \in Exec,
             \/ Send(x) \/ RefreshAndRetry(x) \/ Answered(x) \/ GiveUpUnit(x)
             \/ Ask(x) \/ ResolveTargets(x) \/ ProceedBlind(x) \/ PollTimeout(x)
             \/ \E readable \in BOOLEAN : PollSettled(x, readable)
             \/ HubRefuses(x) \/ HubDenies(x) \/ AnswerLost(x)
      PROVE  \A y \in Exec : Local(y)'
  BY <1>1, <1>7, ClientLocal DEF Moved
<1>8. CASE (\E e \in Entity : HubSettles(e) \/ HubRaisesIssue(e)) \/ UNCHANGED vars
  <2>1. UNCHANGED <<run, verdict, applied>>
    BY <1>8 DEF HubSettles, HubRaisesIssue, vars, history
  <2> QED
    BY <2>1, LocalFrame DEF IInv
<1> QED
  BY <1>2, <1>3, <1>4, <1>5, <1>6, <1>7, <1>8 DEF Next, Client, Hub

(***************************************************************************)
(* Types                                                                   *)
(***************************************************************************)

LEMMA RunStep ==
  ASSUME IInv, [Next]_vars
  PROVE  run' \in [Exec -> RunType]
<1>1. CASE \E x \in Exec :
             \/ \E q \in Asked[x] : Dispatch(x, q)
             \/ Expand(x) \/ HubTakes(x) \/ Finish(x)
             \/ Send(x) \/ RefreshAndRetry(x) \/ Answered(x) \/ GiveUpUnit(x)
             \/ Ask(x) \/ ResolveTargets(x) \/ ProceedBlind(x) \/ PollTimeout(x)
             \/ \E readable \in BOOLEAN : PollSettled(x, readable)
             \/ HubRefuses(x) \/ HubDenies(x) \/ AnswerLost(x)
  BY <1>1, DispatchLocal, ExpandLocal, TakesLocal, FinishLocal, ClientLocal DEF Moved
<1>2. CASE \/ \E x \in Exec : CallerTimeout(x)
           \/ \E e \in Entity : HubSettles(e) \/ HubRaisesIssue(e)
           \/ UNCHANGED vars
  BY <1>2 DEF CallerTimeout, HubSettles, HubRaisesIssue, vars, IInv, TypeOK, RunType
<1> QED
  BY <1>1, <1>2 DEF Next, Client, Hub

(* A command that is accepted is one that changes what it is about.        *)
LEMMA TakenCommand ==
  ASSUME IInv, NEW x \in Exec, HubTakes(x)
  PROVE  /\ Step(x).on \subseteq Entity
         /\ Step(x).cmd \in {"start", "stop", "snapshot", "redo"} \/ Step(x).on = {}
<1>1. TypeOK /\ Placed(x) /\ run[x].leg \in Sending
  BY DEF IInv, Local, HubTakes, Sending
<1>2. Busy(x) /\ Step(x).do = "post" /\ run[x].leg \in AtStep
  BY <1>1 DEF Placed, AtStep, Sending
<1>3. GoodUnit(Unit(x)) /\ run[x].s \in DOMAIN Unit(x) /\ Step(x).on \subseteq Entity
  BY <1>1, <1>2, StepFacts
<1> QED
  BY <1>2, <1>3 DEF GoodUnit, Step

LEMMA TypeStep ==
  ASSUME IInv, [Next]_vars
  PROVE  TypeOK'
<1>0. TypeOK /\ run' \in [Exec -> RunType]
  BY RunStep DEF IInv
<1>1. ASSUME NEW x \in Exec, NEW q \in Asked[x], Dispatch(x, q) PROVE TypeOK'
  BY <1>0, <1>1 DEF Dispatch, TypeOK, RunType, hub, history
<1>2. ASSUME NEW x \in Exec, HubTakes(x) PROVE TypeOK'
  <2>1. phase' \in [Entity -> Phase]
    <3>1. \A e \in Entity : phase[e] \in Phase
      BY <1>0 DEF TypeOK
    <3>2. \A cmd \in {"start", "stop", "snapshot", "redo"} : \A p \in Phase : PhaseAfter(cmd, p) \in Phase
      BY DEF PhaseAfter, Phase
    <3>3. \A e \in Entity : (IF e \in Step(x).on THEN PhaseAfter(Step(x).cmd, phase[e])
                                                 ELSE phase[e]) \in Phase
      BY <1>2, <3>1, <3>2, TakenCommand
    <3>4. phase' = [e \in Entity |-> IF e \in Step(x).on THEN PhaseAfter(Step(x).cmd, phase[e])
                                                         ELSE phase[e]]
      BY <1>2 DEF HubTakes
    <3> QED
      BY <3>3, <3>4
  <2>2. issue' \in [Entity -> BOOLEAN]
    <3>1. issue' = [e \in Entity |->
                      issue[e] /\ ~(e \in Step(x).on /\ Step(x).cmd \in {"start", "redo"})]
      BY <1>2 DEF HubTakes
    <3> QED
      BY <3>1
  <2>3. disturbed' \in [Exec -> SUBSET Entity]
    <3>1. disturbed' = [y \in Exec |-> IF y # x /\ Step(x).cmd # "stop"
                                       THEN disturbed[y] \cup Step(x).on ELSE disturbed[y]]
      BY <1>2 DEF HubTakes
    <3> QED
      BY <1>0, <1>2, <3>1, TakenCommand DEF TypeOK
  <2>4. applied' \in [Exec -> Seq(Nat \X Nat)]
    <3>1. At(x) \in Nat \X Nat
      BY <1>0 DEF At, TypeOK
    <3>2. applied' = [applied EXCEPT ![x] = Append(@, At(x))]
      BY <1>2 DEF HubTakes
    <3>3. applied \in [Exec -> Seq(Nat \X Nat)]
      BY <1>0 DEF TypeOK
    <3>4. Append(applied[x], At(x)) \in Seq(Nat \X Nat)
      BY <3>1, <3>3
    <3> QED
      BY <3>2, <3>3, <3>4
  <2> QED
    BY <1>0, <1>2, <2>1, <2>2, <2>3, <2>4 DEF HubTakes, TypeOK, RunType
<1>3. ASSUME NEW x \in Exec, NEW readable \in BOOLEAN, PollSettled(x, readable) PROVE TypeOK'
  <2>1. Step(x).on \subseteq Entity
    <3>1. run[x].leg \in AtStep /\ Busy(x) /\ Placed(x)
      BY <1>3 DEF PollSettled, AtStep, IInv, Local, Placed
    <3> QED
      BY <1>0, <3>1, StepFacts
  <2>2. {e \in Step(x).on : issue[e]} \in SUBSET Entity
    BY <2>1
  <2>3. warned' \in [Exec -> SUBSET Entity]
    BY <1>0, <1>3, <2>2 DEF PollSettled, TypeOK
  <2>4. disturbed' \in [Exec -> SUBSET Entity]
    BY <1>0, <1>3 DEF PollSettled, TypeOK
  <2> QED
    BY <1>0, <1>3, <2>3, <2>4 DEF PollSettled, TypeOK, RunType, hub
<1>4. ASSUME NEW x \in Exec, Finish(x) PROVE TypeOK'
  BY <1>0, <1>4 DEF Finish, TypeOK, RunType, hub, history
<1>5. ASSUME NEW x \in Exec, CallerTimeout(x) PROVE TypeOK'
  BY <1>0, <1>5 DEF CallerTimeout, TypeOK, RunType, hub, history
<1>6. ASSUME NEW x \in Exec,
             \/ Expand(x) \/ Send(x) \/ RefreshAndRetry(x) \/ Answered(x) \/ GiveUpUnit(x)
             \/ Ask(x) \/ ResolveTargets(x) \/ ProceedBlind(x) \/ PollTimeout(x)
             \/ HubRefuses(x) \/ HubDenies(x) \/ AnswerLost(x)
      PROVE  TypeOK'
  <2>1. UNCHANGED <<phase, issue, verdict, applied, warned, disturbed>>
    BY <1>6 DEF Expand, Send, RefreshAndRetry, Answered, GiveUpUnit, Ask, ResolveTargets, ProceedBlind, PollTimeout,
       HubRefuses, HubDenies, AnswerLost, hub, history
  <2> QED
    BY <1>0, <2>1 DEF TypeOK, RunType
<1>7. ASSUME NEW e \in Entity, HubSettles(e) PROVE TypeOK'
  BY <1>0, <1>7 DEF HubSettles, TypeOK, RunType, Phase, history
<1>8. ASSUME NEW e \in Entity, HubRaisesIssue(e) PROVE TypeOK'
  BY <1>0, <1>8 DEF HubRaisesIssue, TypeOK, RunType, history
<1>9. CASE UNCHANGED vars
  BY <1>0, <1>9 DEF vars, TypeOK
<1> QED
  BY <1>1, <1>2, <1>3, <1>4, <1>5, <1>6, <1>7, <1>8, <1>9 DEF Next, Client, Hub

(***************************************************************************)
(* A redo finds its entities at rest                                       *)
(***************************************************************************)

(* Nobody's entities start to move, or x is told that they were commanded. *)
RestKept(x) ==
  /\ warned'[x] = warned[x]
  /\ \A e \in Entity : e \notin disturbed'[x] =>
       e \notin disturbed[x] /\ (phase[e] = "hold" => phase'[e] = "hold")

LEMMA RestFrame ==
  ASSUME TypeOK, NEW x \in Exec, Local(x), AtRest(x), SamePlace(x), RestKept(x),
         run'[x].leg \in Sending \cup {"ready"} => run[x].leg \in Sending \cup {"ready"}
  PROVE  AtRest(x)'
<1>1. Busy(x)' = Busy(x) /\ Step(x)' = Step(x)
  BY DEF SamePlace, Busy, Unit, Step
<1>2. run[x].leg \in Sending \cup {"ready"} /\ Busy(x) => Step(x).on \subseteq Entity
  BY StepFacts DEF Local, AtStep, Sending
<1> QED
  BY <1>1, <1>2 DEF AtRest, RestKept, SamePlace

(* A unit never begins with a redo.                                        *)
LEMMA RestAtStart ==
  ASSUME NEW x \in Exec, TypeOK', Local(x)', run'[x].s = 1
  PROVE  AtRest(x)'
<1> SUFFICES ASSUME (run[x].leg \in Sending \cup {"ready"})', Busy(x)'
             PROVE  Step(x)'.cmd # "redo"
  BY DEF AtRest
<1>1. run'[x].u \in DOMAIN run'[x].units /\ 1 \in DOMAIN Unit(x)' /\ GoodUnit(Unit(x)')
  <2>1. run'[x].units \in Seq(Seq(Steps)) /\ run'[x].u \in Nat /\ run'[x].u > 0
    BY DEF TypeOK, Local, Placed
  <2>2. run'[x].u \in DOMAIN run'[x].units
    BY <2>1 DEF Busy
  <2>3. Unit(x)' = run'[x].units[run'[x].u] /\ GoodUnit(Unit(x)')
    BY <2>2 DEF Unit, Local, Placed, GoodUnits
  <2> QED
    BY <2>2, <2>3 DEF GoodUnit
<1>2. Step(x)' = Unit(x)'[1]
  BY DEF Step
<1> QED
  BY <1>1, <1>2 DEF GoodUnit

(* A redo is reached over the status read that found its entities settled. *)
LEMMA RestAdvance ==
  ASSUME TypeOK, TypeOK', NEW x \in Exec, Local(x), Local(x)', run[x].leg \in AtStep, Busy(x),
         NEW r \in RunType,
         r.req = run[x].req, r.units = run[x].units, r.u = run[x].u, r.s = run[x].s,
         r.ok = run[x].ok, Go(x, Advance(x, r)),
         Step(x).do = "settle" /\ ~r.blind =>
           \A e \in Step(x).on \ (warned'[x] \cup disturbed'[x]) : phase'[e] = "hold"
  PROVE  AtRest(x)'
<1>1. Len(Unit(x)) \in Nat /\ run[x].s \in 1 .. Len(Unit(x)) /\ GoodUnit(Unit(x))
  BY StepFacts DEF Local
<1>2. CASE MovesOn(x, TRUE)
  BY <1>2, RestAtStart DEF MovesOn
<1>3. CASE /\ run'[x].units = run[x].units /\ run'[x].u = run[x].u
           /\ run[x].s < Len(Unit(x)) /\ run'[x].s = run[x].s + 1
           /\ run'[x].blind = r.blind
  <2>1. Unit(x)' = Unit(x) /\ Step(x)' = Unit(x)[run[x].s + 1]
    BY <1>3 DEF Unit, Step
  <2>2. run[x].s + 1 \in DOMAIN Unit(x) /\ run[x].s + 1 - 1 = run[x].s
    BY <1>1, <1>3 DEF GoodUnit
  <2>3. Step(x)'.cmd = "redo" => Step(x).do = "settle" /\ Step(x).on = Step(x)'.on
    BY <1>1, <2>1, <2>2 DEF GoodUnit, Step
  <2> QED
    BY <1>3, <2>3 DEF AtRest
<1> QED
  BY <1>1, <1>2, <1>3, AdvanceStep

LEMMA RestStep ==
  ASSUME IInv, [Next]_vars
  PROVE  \A y \in Exec : AtRest(y)'
<1>0. TypeOK /\ TypeOK' /\ \A y \in Exec : Local(y) /\ Local(y)' /\ AtRest(y)
  BY TypeStep, LocalStep DEF IInv
<1>1. ASSUME NEW y \in Exec, run'[y] = run[y], RestKept(y) PROVE AtRest(y)'
  BY <1>0, <1>1, RestFrame DEF SamePlace
<1>2. ASSUME UNCHANGED <<phase, warned, disturbed>> PROVE \A y \in Exec : RestKept(y)
  BY <1>2 DEF RestKept
<1>3. ASSUME UNCHANGED <<phase, warned, disturbed>>, NEW x \in Exec, AtRest(x)',
             \A y \in Exec \ {x} : run'[y] = run[y]
      PROVE  \A y \in Exec : AtRest(y)'
  BY <1>1, <1>2, <1>3
<1>4. ASSUME NEW x \in Exec, NEW q \in Asked[x], Dispatch(x, q) PROVE \A y \in Exec : AtRest(y)'
  <2>1. UNCHANGED <<phase, warned, disturbed>>
    BY <1>4 DEF Dispatch, hub, history
  <2>2. Moved(x)
    BY <1>4, DispatchLocal
  <2>3. run'[x].s = 1
    <3>1. Idle.s = 1
      BY DEF Idle
    <3>2. PICK u, l : run' = [run EXCEPT ![x] = [Idle EXCEPT !.req = q, !.units = u, !.leg = l]]
      BY <1>4 DEF Dispatch, Go
    <3>3. [Idle EXCEPT !.req = q, !.units = u, !.leg = l].s = 1
      BY DEF Idle
    <3> QED
      BY <1>0, <3>2, <3>3 DEF TypeOK
  <2> QED
    BY <1>0, <1>3, <2>1, <2>2, <2>3, RestAtStart DEF Moved
<1>5. ASSUME NEW x \in Exec, Expand(x) PROVE \A y \in Exec : AtRest(y)'
  <2>1. UNCHANGED <<phase, warned, disturbed>>
    BY <1>5 DEF Expand, hub, history
  <2>2. Moved(x)
    BY <1>5, ExpandLocal
  <2>3. run'[x].s = 1
    <3>1. run[x] \in RunType /\ run[x].s = 1
      BY <1>0, <1>5 DEF Expand, Local, Placed, TypeOK, RunType
    <3>2. PICK u : run' = [run EXCEPT ![x] = [run[x] EXCEPT !.units = u, !.leg = "ready"]]
      BY <1>5 DEF Expand, Go
    <3>3. [run[x] EXCEPT !.units = u, !.leg = "ready"].s = 1
      BY <3>1 DEF RunType
    <3> QED
      BY <1>0, <3>2, <3>3 DEF TypeOK
  <2> QED
    BY <1>0, <1>3, <2>1, <2>2, <2>3, RestAtStart DEF Moved
<1>6. ASSUME NEW x \in Exec, HubTakes(x) PROVE \A y \in Exec : AtRest(y)'
  <2>1. Moved(x) /\ run'[x].leg = "taken"
    BY <1>0, <1>6, TakesLocal, LegStep DEF HubTakes, Legs
  <2>2. AtRest(x)'
    BY <2>1 DEF AtRest, Sending
  <2>3. ASSUME NEW y \in Exec \ {x} PROVE RestKept(y)
    <3>1. /\ warned' = warned
          /\ phase' = [e \in Entity |-> IF e \in Step(x).on THEN PhaseAfter(Step(x).cmd, phase[e])
                                                            ELSE phase[e]]
          /\ disturbed'[y] = IF Step(x).cmd # "stop" THEN disturbed[y] \cup Step(x).on
                                                     ELSE disturbed[y]
      BY <1>6 DEF HubTakes
    <3>2. PhaseAfter("stop", "hold") = "hold"
      BY DEF PhaseAfter
    <3> QED
      BY <3>1, <3>2 DEF RestKept
  <2> QED
    BY <1>1, <2>1, <2>2, <2>3 DEF Moved
<1>7. ASSUME NEW x \in Exec, SamePlace(x), Moved(x), UNCHANGED <<phase, warned, disturbed>>,
             run'[x].leg \in Sending \cup {"ready"} => run[x].leg \in Sending \cup {"ready"}
      PROVE  \A y \in Exec : AtRest(y)'
  <2>1. AtRest(x)'
    BY <1>0, <1>2, <1>7, RestFrame
  <2> QED
    BY <1>3, <1>7, <2>1 DEF Moved
<1>8. ASSUME NEW x \in Exec,
             \/ Send(x) \/ RefreshAndRetry(x) \/ PollTimeout(x)
             \/ HubRefuses(x) \/ HubDenies(x) \/ AnswerLost(x) \/ Finish(x)
      PROVE  \A y \in Exec : AtRest(y)'
  <2>1. UNCHANGED <<phase, warned, disturbed>>
    BY <1>8 DEF Send, RefreshAndRetry, PollTimeout, HubRefuses, HubDenies, AnswerLost, Finish,
       hub, history
  <2>2. PICK leg \in Legs : Leg(x, leg) /\ (run[x].leg = "taken" => leg = "refused")
    BY <1>8 DEF Send, RefreshAndRetry, PollTimeout, HubRefuses, HubDenies, AnswerLost, Finish, Legs
  <2>3. run[x].leg \in Sending \cup {"ready", "taken"}
    BY <1>8 DEF Send, RefreshAndRetry, PollTimeout, HubRefuses, HubDenies, AnswerLost, Finish,
       Sending
  <2>4. SamePlace(x) /\ Moved(x) /\ run'[x].leg = leg
    BY <1>0, <2>2, LegStep DEF Moved
  <2> QED
    BY <1>7, <2>1, <2>2, <2>3, <2>4 DEF Sending
<1>9. ASSUME NEW x \in Exec, Answered(x) PROVE \A y \in Exec : AtRest(y)'
  <2>1. UNCHANGED <<phase, warned, disturbed>> /\ run[x].leg = "taken" /\ Go(x, Advance(x, run[x]))
    BY <1>9 DEF Answered, hub, history
  <2>2. Busy(x) /\ Step(x).do = "post" /\ run[x].leg \in AtStep /\ run[x] \in RunType
    BY <1>0, <2>1 DEF Local, Placed, AtStep, TypeOK, RunType
  <2>3. AtRest(x)'
    BY <1>0, <2>1, <2>2, RestAdvance
  <2> QED
    BY <1>3, <1>9, <2>1, <2>3, ClientLocal DEF Moved
<1>10. ASSUME NEW x \in Exec, ResolveTargets(x) PROVE \A y \in Exec : AtRest(y)'
  <2>1. UNCHANGED <<phase, warned, disturbed>> /\ run[x].leg = "reading" /\ Busy(x)
        /\ Step(x).do = "resolve"
    BY <1>0, <1>10 DEF ResolveTargets, hub, history, Local, Placed
  <2>2. PICK blind \in BOOLEAN : Go(x, Advance(x, [run[x] EXCEPT !.blind = blind]))
    <3>1. PICK known \in BOOLEAN : Go(x, Advance(x, [run[x] EXCEPT !.blind = ~known]))
      BY <1>10 DEF ResolveTargets
    <3> QED
      BY <3>1
  <2> DEFINE r == [run[x] EXCEPT !.blind = blind]
  <2>3. /\ r \in RunType /\ r.req = run[x].req /\ r.units = run[x].units /\ r.u = run[x].u
        /\ r.s = run[x].s /\ r.ok = run[x].ok
    <3>1. run[x] \in RunType
      BY <1>0 DEF TypeOK, RunType
    <3> QED
      BY <3>1 DEF RunType
  <2>4. Go(x, Advance(x, r))
    BY <2>2
  <2> HIDE DEF r
  <2>5. AtRest(x)'
    BY <1>0, <2>1, <2>3, <2>4, RestAdvance DEF AtStep
  <2> QED
    BY <1>3, <1>10, <2>1, <2>5, ClientLocal DEF Moved
<1>11. ASSUME NEW x \in Exec, GiveUpUnit(x) PROVE \A y \in Exec : AtRest(y)'
  <2>1. UNCHANGED <<phase, warned, disturbed>> /\ Go(x, NextUnit(run[x], FALSE))
    BY <1>11 DEF GiveUpUnit, hub, history
  <2>2. MovesOn(x, FALSE)
    BY <1>0, <2>1, NextUnitStep DEF TypeOK, RunType
  <2>3. AtRest(x)'
    BY <1>0, <2>2, RestAtStart DEF MovesOn
  <2> QED
    BY <1>3, <2>1, <2>2, <2>3 DEF MovesOn
<1>12. ASSUME NEW x \in Exec, NEW readable \in BOOLEAN, PollSettled(x, readable)
       PROVE  \A y \in Exec : AtRest(y)'
  <2>1. /\ run[x].leg = "reading" /\ Busy(x) /\ Step(x).do = "settle" /\ run[x].leg \in AtStep
        /\ run[x] \in RunType /\ phase' = phase
    BY <1>0, <1>12 DEF PollSettled, AtStep, TypeOK, RunType, hub, Local, Placed
  <2>2. Moved(x)
    BY <1>12, ClientLocal
  <2>3. CASE /\ _pending_settled_ids(Step(x).on, readable) = {}
             /\ Go(x, Advance(x, run[x]))
             /\ warned' = [warned EXCEPT ![x] = {e \in Step(x).on : issue[e]}]
             /\ disturbed' = [disturbed EXCEPT ![x] = {}]
    <3>1. warned'[x] = {e \in Step(x).on : issue[e]}
      BY <1>0, <2>3 DEF TypeOK
    <3>2. \A e \in Step(x).on \ warned'[x] : phase'[e] = "hold"
      BY <2>1, <2>3, <3>1 DEF _pending_settled_ids, _is_entity_settled
    <3>3. AtRest(x)'
      BY <1>0, <2>1, <2>3, <3>2, RestAdvance
    <3>4. \A y \in Exec \ {x} : RestKept(y)
      BY <1>0, <2>1, <2>3 DEF RestKept, TypeOK
    <3> QED
      BY <1>1, <2>2, <3>3, <3>4 DEF Moved
  <2>4. CASE Leg(x, "ready") /\ UNCHANGED <<warned, disturbed>>
    <3>1. SamePlace(x)
      BY <1>0, <2>4, LegStep DEF Legs
    <3>2. Step(x)' = Step(x) /\ Step(x).cmd # "redo"
      <4>1. GoodUnit(Unit(x)) /\ run[x].s \in DOMAIN Unit(x)
        BY <1>0, <2>1, StepFacts DEF Local
      <4> QED
        BY <2>1, <3>1, <4>1 DEF SamePlace, Step, Unit, GoodUnit
    <3>3. AtRest(x)'
      BY <3>2 DEF AtRest
    <3> QED
      BY <1>3, <2>1, <2>2, <2>4, <3>3 DEF Moved
  <2> QED
    BY <1>12, <2>3, <2>4 DEF PollSettled
<1>14. ASSUME NEW x \in Exec, Ask(x) PROVE \A y \in Exec : AtRest(y)'
  <2>1. UNCHANGED <<phase, warned, disturbed>> /\ run[x].leg = "ready" /\ Busy(x)
    BY <1>14 DEF Ask, hub, history
  <2>2. Moved(x) /\ UNCHANGED <<applied, verdict>>
    BY <1>14, ClientLocal
  <2>3. run'[x].leg = "reading"
    <3>1. CASE Leg(x, "reading")
      BY <1>0, <3>1, LegStep DEF Legs
    <3>2. CASE /\ Step(x).do = "settle" /\ run[x].polls < MaxPolls
               /\ Go(x, [run[x] EXCEPT !.leg = "reading", !.polls = @ + 1])
      BY <1>0, <2>1, <2>2, <3>2, AskSettled
    <3> QED
      BY <1>14, <3>1, <3>2 DEF Ask
  <2>4. AtRest(x)'
    BY <2>3 DEF AtRest, Sending
  <2> QED
    BY <1>3, <2>1, <2>2, <2>4 DEF Moved
<1>15. ASSUME NEW x \in Exec, ProceedBlind(x) PROVE \A y \in Exec : AtRest(y)'
  <2>1. /\ UNCHANGED <<phase, warned, disturbed>> /\ run[x].leg \in AtStep /\ Busy(x)
        /\ run[x].blind /\ Go(x, Advance(x, run[x])) /\ run[x] \in RunType
    BY <1>0, <1>15 DEF ProceedBlind, hub, history, AtStep, TypeOK, RunType
  <2>2. AtRest(x)'
    BY <1>0, <2>1, RestAdvance
  <2> QED
    BY <1>3, <1>15, <2>1, <2>2, ClientLocal DEF Moved
<1>13. CASE \/ \E x \in Exec : CallerTimeout(x)
            \/ \E e \in Entity : HubSettles(e) \/ HubRaisesIssue(e)
            \/ UNCHANGED vars
  <2>1. UNCHANGED <<run, warned, disturbed>>
    BY <1>13 DEF CallerTimeout, HubSettles, HubRaisesIssue, vars, history
  <2>2. \A e \in Entity : phase[e] = "hold" => phase'[e] = "hold"
    BY <1>0, <1>13 DEF CallerTimeout, HubSettles, HubRaisesIssue, vars, hub, TypeOK
  <2> QED
    BY <1>1, <2>1, <2>2 DEF RestKept
<1> QED
  BY <1>4, <1>5, <1>6, <1>8, <1>9, <1>10, <1>11, <1>12, <1>13,
     <1>14, <1>15 DEF Next, Client, Hub

(***************************************************************************)
(* Every step is one of CommandOutcome or a stutter                        *)
(***************************************************************************)

Plan == [x \in Exec |-> Posts(run[x].units)]

LEMMA SamePlan ==
  ASSUME \A x \in Exec : run'[x].units = run[x].units
  PROVE  Plan' = Plan
  BY DEF Plan

LEMMA OthersPlan ==
  ASSUME NEW x \in Exec, Moved(x)
  PROVE  \A y \in Exec \ {x} : Plan'[y] = Plan[y]
  BY DEF Plan, Moved

LEMMA OutcomeStep ==
  ASSUME IInv, [Next]_vars
  PROVE  [Outcome!Next]_(Outcome!vars)
<1>0. TypeOK /\ \A x \in Exec : Local(x) /\ Plan[x] = Posts(run[x].units)
  BY DEF IInv, Plan
<1>1. ASSUME NEW x \in Exec, NEW q \in Asked[x], Dispatch(x, q) PROVE Outcome!Next
  <2>1. Moved(x) /\ verdict'[x] \in {"waiting", "failed"}
    BY <1>1, DispatchLocal
  <2>2. run[x].leg = "idle" /\ applied' = applied
    BY <1>1 DEF Dispatch, history
  <2>3. verdict[x] = "none" /\ applied[x] = <<>>
    BY <1>0, <2>2 DEF Local, Recorded, InOrder
  <2>4. verdict' = [verdict EXCEPT ![x] = verdict'[x]]
    BY <1>0, <1>1 DEF Dispatch, TypeOK
  <2>5. Outcome!Plan(x)
    BY <2>1, <2>3, OthersPlan DEF Outcome!Plan, Plan
  <2>6. Outcome!Record(x, "none", "waiting") \/ Outcome!Record(x, "none", "failed")
    BY <2>1, <2>3, <2>4 DEF Outcome!Record
  <2>7. Outcome!Begin(x)
    BY <2>2, <2>5, <2>6 DEF Outcome!Begin
  <2> QED
    BY <2>7 DEF Outcome!Next
<1>2. ASSUME NEW x \in Exec, Expand(x) PROVE Outcome!Next
  <2>1. Moved(x)
    BY <1>2, ExpandLocal
  <2>2. run[x].leg = "expand" /\ applied' = applied /\ verdict' = verdict
    BY <1>2 DEF Expand, history
  <2>3. verdict[x] # "success" /\ applied[x] = <<>>
    BY <1>0, <2>2 DEF Local, Recorded, InOrder
  <2>4. Outcome!Replan(x)
    BY <2>1, <2>2, <2>3, OthersPlan DEF Outcome!Plan, Outcome!Replan, Plan
  <2> QED
    BY <2>4 DEF Outcome!Next
<1>3. ASSUME NEW x \in Exec, HubTakes(x) PROVE Outcome!Next
  <2>1. /\ Moved(x) /\ At(x) \in Posts(run[x].units)
        /\ \A i \in DOMAIN applied[x] : Earlier(applied[x][i], x)
        /\ run'[x].units = run[x].units
    BY <1>3, TakesLocal
  <2>2. Plan' = Plan
    BY <2>1, SamePlan DEF Moved
  <2>3. run[x].leg \in {"open", "reopen"} /\ verdict' = verdict
        /\ applied' = [applied EXCEPT ![x] = Append(@, At(x))]
    BY <1>3 DEF HubTakes
  <2>4. verdict[x] # "success"
    BY <1>0, <2>3 DEF Local, Recorded
  <2>5. DOMAIN applied[x] = 1 .. Len(applied[x])
    BY <1>0 DEF TypeOK
  <2>6. Outcome!Apply(x)
    BY <1>0, <2>1, <2>2, <2>3, <2>4, <2>5 DEF Outcome!Apply, Earlier, Plan
  <2> QED
    BY <2>6 DEF Outcome!Next
<1>4. ASSUME NEW x \in Exec, Finish(x) PROVE Outcome!Next \/ UNCHANGED Outcome!vars
  <2>1. /\ Moved(x) /\ run'[x].units = run[x].units
        /\ run[x].ok => \A c \in Posts(run[x].units) : Accepted(x, c)
    BY <1>4, FinishLocal
  <2>2. Plan' = Plan
    BY <2>1, SamePlan DEF Moved
  <2>3. /\ applied' = applied
        /\ verdict' = [verdict EXCEPT ![x] =
             IF @ # "waiting" THEN @ ELSE IF run[x].ok THEN "success" ELSE "failed"]
    BY <1>4 DEF Finish, history
  <2>4. CASE verdict[x] # "waiting"
    <3>1. verdict' = verdict
      BY <1>0, <2>3, <2>4 DEF TypeOK
    <3> QED
      BY <2>2, <2>3, <3>1 DEF Outcome!vars, Plan
  <2>5. CASE verdict[x] = "waiting" /\ run[x].ok
    <3>1. \A c \in Plan[x] : \E i \in 1 .. Len(applied[x]) : applied[x][i] = c
      BY <1>0, <2>1, <2>5 DEF Accepted, TypeOK
    <3>2. Outcome!Succeed(x)
      BY <2>2, <2>3, <2>5, <3>1 DEF Outcome!Succeed, Outcome!Record, Plan
    <3> QED
      BY <3>2 DEF Outcome!Next
  <2>6. CASE verdict[x] = "waiting" /\ ~run[x].ok
    <3>1. Outcome!Fail(x)
      BY <2>2, <2>3, <2>6 DEF Outcome!Fail, Outcome!Record, Plan
    <3> QED
      BY <3>1 DEF Outcome!Next
  <2> QED
    BY <2>4, <2>5, <2>6
<1>5. ASSUME NEW x \in Exec, CallerTimeout(x) PROVE Outcome!Next
  <2>1. /\ run' = run /\ applied' = applied /\ verdict[x] = "waiting"
        /\ verdict' = [verdict EXCEPT ![x] = "failed"]
    BY <1>5 DEF CallerTimeout, history
  <2>2. Plan' = Plan
    BY <2>1, SamePlan
  <2>3. Outcome!Fail(x)
    BY <2>1, <2>2 DEF Outcome!Fail, Outcome!Record, Plan
  <2> QED
    BY <2>3 DEF Outcome!Next
<1>6. ASSUME NEW x \in Exec,
             \/ Send(x) \/ RefreshAndRetry(x) \/ Answered(x) \/ GiveUpUnit(x)
             \/ Ask(x) \/ ResolveTargets(x) \/ ProceedBlind(x) \/ PollTimeout(x)
             \/ \E readable \in BOOLEAN : PollSettled(x, readable)
             \/ HubRefuses(x) \/ HubDenies(x) \/ AnswerLost(x)
      PROVE  UNCHANGED Outcome!vars
  <2>1. Moved(x) /\ UNCHANGED <<applied, verdict>> /\ run'[x].units = run[x].units
    BY <1>6, ClientLocal
  <2>2. Plan' = Plan
    BY <2>1, SamePlan DEF Moved
  <2> QED
    BY <2>1, <2>2 DEF Outcome!vars, Plan
<1>7. CASE (\E e \in Entity : HubSettles(e) \/ HubRaisesIssue(e)) \/ UNCHANGED vars
  <2>1. UNCHANGED <<run, applied, verdict>>
    BY <1>7 DEF HubSettles, HubRaisesIssue, vars, history
  <2> QED
    BY <2>1 DEF Outcome!vars
<1> QED
  BY <1>1, <1>2, <1>3, <1>4, <1>5, <1>6, <1>7 DEF Next, Client, Hub

(***************************************************************************)
(* The theorems                                                            *)
(***************************************************************************)

LEMMA InitInvariant == Init => IInv /\ Outcome!Init
<1> SUFFICES ASSUME Init PROVE IInv /\ Outcome!Init
  OBVIOUS
<1>1. \A x \in Exec : run[x] = Idle /\ verdict[x] = "none" /\ applied[x] = <<>>
  BY DEF Init
<1>2. /\ Idle \in RunType /\ Idle.u = 1 /\ Idle.s = 1 /\ Idle.leg = "idle" /\ Idle.units = <<>>
  BY MaxPollsAssumption DEF Idle, RunType, Legs
<1>3. TypeOK
  BY <1>2 DEF Init, TypeOK, RunType, Phase
<1>4. Posts(<<>>) = {}
  BY DEF Posts
<1>5. ASSUME NEW x \in Exec PROVE Local(x) /\ AtRest(x)
  <2>1. run[x].leg = "idle" /\ run[x].u = 1 /\ run[x].s = 1 /\ run[x].units = <<>>
    BY <1>1, <1>2
  <2> QED
    BY <1>1, <2>1 DEF Local, Placed, Recorded, InOrder, OnItsTarget, AtRest, AtStep, Sending,
       GoodUnits
<1>6. Outcome!Init
  BY <1>1, <1>2, <1>4 DEF Init, Outcome!Init
<1> QED
  BY <1>3, <1>5, <1>6 DEF IInv

LEMMA NextInvariant == IInv /\ [Next]_vars => IInv'
  BY TypeStep, LocalStep, RestStep DEF IInv

LEMMA Invariant == Spec => []IInv
  BY InitInvariant, NextInvariant, PTL DEF Spec

(* Types, for every program an execution may get.                          *)
THEOREM TypeCorrect == Spec => []TypeOK
<1>1. IInv => TypeOK
  BY DEF IInv
<1> QED
  BY <1>1, Invariant, PTL

(* A redo that waited is sent only while its entities are at rest, except  *)
(* those the wait saw with an issue and those another execution commanded  *)
(* after it; of a redo that could look up no entity nothing is said.  This *)
(* for every list of entities or groups.                                   *)
THEOREM RedoAfterRest == Spec => []RedoOnHold
<1>1. IInv => RedoOnHold
  <2> SUFFICES ASSUME IInv, NEW x \in Exec, run[x].leg \in Sending,
                      Step(x).cmd = "redo", ~run[x].blind
               PROVE  \A e \in Step(x).on \ (warned[x] \cup disturbed[x]) : phase[e] = "hold"
    BY DEF RedoOnHold, Sending
  <2>1. AtRest(x) /\ Busy(x)
    BY DEF IInv, Local, Placed
  <2> QED
    BY <2>1 DEF AtRest
<1> QED
  BY <1>1, Invariant, PTL

(* A scheduled job stays on its target, for every job but the entity tasks *)
(* that name no entity, which the routes take for tasks of the pipeline.   *)
THEOREM JobOnTarget == Spec => []JobStaysOnTarget
<1>1. IInv => JobStaysOnTarget
  <2> SUFFICES ASSUME IInv, NEW x \in Exec, run[x].leg # "idle", run[x].req.src = "job",
                      Named(run[x].req), NEW i \in DOMAIN applied[x]
               PROVE  run[x].units[applied[x][i][1]][applied[x][i][2]].on \subseteq Target(run[x].req)
    BY DEF JobStaysOnTarget, OnTarget
  <2>1. OnlyFor(run[x].units, Target(run[x].req)) /\ applied[x][i] \in Posts(run[x].units)
    BY DEF IInv, Local, OnItsTarget, InOrder
  <2>2. PICK u \in DOMAIN run[x].units :
          \E s \in DOMAIN run[x].units[u] :
            applied[x][i] = <<u, s>> /\ run[x].units[u][s].do = "post"
    BY <2>1, PostFacts
  <2>3. PICK s \in DOMAIN run[x].units[u] :
          applied[x][i] = <<u, s>> /\ run[x].units[u][s].do = "post"
    BY <2>2
  <2> QED
    BY <2>1, <2>3 DEF OnlyFor, About
<1> QED
  BY <1>1, Invariant, PTL

(* HubCommands implements CommandOutcome: commands are accepted in order,  *)
(* none twice, and a success is recorded only after all of them.           *)
THEOREM ImplementsOutcome == Spec => OutcomeSpec
  BY InitInvariant, Invariant, OutcomeStep, PTL DEF Spec, OutcomeSpec, Outcome!Spec

=============================================================================
