------------------------- MODULE TriggerFlowsProofs -------------------------
(***************************************************************************)
(* Theorems about TriggerFlows, for every set of fires and chains and      *)
(* every bound: its types, that a fire posts only what it chose, that the  *)
(* log tells the truth, and that the error a flow shows is its latest.     *)
(***************************************************************************)
EXTENDS TriggerFlows, SequenceTheorems, TLAPS

(***************************************************************************)
(* The inductive invariant                                                 *)
(***************************************************************************)

FlowType == [there : BOOLEAN, enabled : BOOLEAN, origin : BOOLEAN, failed : BOOLEAN]
Picked == [at : Nat, id : Nat]
RunType == [stage : Stage, origin : BOOLEAN, picked : SUBSET Picked,
            chain : SUBSET Placed, todo : SUBSET Placed,
            failed : SUBSET Placed, good : BOOLEAN]
Entry == [fire : Fire, good : BOOLEAN]

OnePlace(events) == \A d, e \in events : d.at = e.at => d = e

(* Neither two places nor two ids of a flow are the same.                  *)
RowsDistinct == OnePlace(rows) /\ \A q, r \in rows : q.id = r.id => q = r

(* Awake between two awaits is one fire at most.                           *)
OneAwake ==
  \A f, g \in Fire : run[f].stage \in Awake /\ run[g].stage \in Awake => f = g

Early == {"idle", "refused", "accepted", "read", "triggered", "noop", "gone"}

(* A fire has nothing in hand before it loads its events, and what it has  *)
(* then has its places.                                                    *)
Prepared(f) ==
  /\ OnePlace(run[f].picked) /\ OnePlace(run[f].chain)
  /\ run[f].stage \in Early =>
       /\ run[f].chain = {} /\ run[f].todo = {} /\ run[f].failed = {}
       /\ tasks[f] = {} /\ posted[f] = {}

(* The SYNC events that are no longer to do were posted, and those posted  *)
(* come before what is to do and before what failed.                       *)
InOrder(f) ==
  /\ run[f].todo \subseteq run[f].chain /\ posted[f] \subseteq run[f].chain
  /\ tasks[f] \subseteq {e \in run[f].chain : e.event.mode = "ASYNC"}
  /\ \A e \in run[f].chain \ run[f].todo : e.event.mode = "SYNC" => e \in posted[f]
  /\ \A d \in posted[f] : d.event.mode = "SYNC" =>
       /\ \A e \in run[f].todo : d.at <= e.at
       /\ \A e \in run[f].failed : d.at <= e.at
  /\ run[f].stage = "posting" =>
       \A e \in run[f].todo : First(e, run[f].todo) => e \in posted[f]
  /\ run[f].stage \in {"chain", "posting"} => run[f].failed = {}
  /\ run[f].stage \in {"record", "log", "logged"} /\ run[f].good =>
       run[f].todo = {} /\ run[f].failed = {}

(* What is run passed the guard against loops.                             *)
Guarded(f) ==
  run[f].stage \in {"chain", "posting"} \/ tasks[f] # {} \/ posted[f] # {} =>
    ~Refused(f, run[f].chain)

(* What was picked by its target still has that target when it is loaded.  *)
OnSource(f) ==
  f \notin overtaken /\ run[f].origin =>
    /\ run[f].stage \in {"read", "triggered"} =>
         \A p \in run[f].picked, r \in rows : p.id = r.id => job_target_matches(f, r.event)
    /\ \A e \in run[f].chain : job_target_matches(f, e.event)

OfFire(f) == Prepared(f) /\ InOrder(f) /\ Guarded(f) /\ OnSource(f)

(* The log is about fires that ended with this outcome.                    *)
LogOfEnded ==
  \A i \in 1 .. Len(log) : /\ run[log[i].fire].stage = "logged"
                           /\ run[log[i].fire].good = log[i].good

(* The error of the flow is the one to be logged next or the last logged.  *)
ErrorFollows ==
  flow.there =>
    IF \E f \in Fire : run[f].stage = "log"
    THEN \A f \in Fire : run[f].stage = "log" => flow.failed = ~run[f].good
    ELSE flow.failed = (log # <<>> /\ ~log[Len(log)].good)

IInv ==
  /\ TypeOK /\ RowsDistinct /\ OneAwake
  /\ \A f \in Fire : OfFire(f)
  /\ LogOfEnded /\ ErrorFollows

(***************************************************************************)
(* Helpers                                                                 *)
(***************************************************************************)

(* What a fire has in hand does not depend on the other fires.             *)
LEMMA Kept ==
  ASSUME NEW f \in Fire, OfFire(f), run'[f] = run[f], tasks'[f] = tasks[f],
         posted'[f] = posted[f], UNCHANGED <<rows, overtaken>>
  PROVE  OfFire(f)'
<1>1. Prepared(f)'
  BY DEF OfFire, Prepared, OnePlace
<1>2. InOrder(f)'
  BY DEF OfFire, InOrder, First
<1>3. Guarded(f)'
  BY DEF OfFire, Guarded, Refused
<1>4. OnSource(f)'
  BY DEF OfFire, OnSource, job_target_matches
<1> QED
  BY <1>1, <1>2, <1>3, <1>4 DEF OfFire

(* A step of one fire changes what that fire has in hand.                  *)
LEMMA ToStep ==
  ASSUME TypeOK, NEW f \in Fire, NEW r \in RunType, To(f, r)
  PROVE  /\ run' \in [Fire -> RunType] /\ run'[f] = r
         /\ \A g \in Fire \ {f} : run'[g] = run[g]
  BY DEF To, TypeOK, RunType, Picked

LEMMA RunIs ==
  ASSUME TypeOK, NEW f \in Fire
  PROVE  run[f] \in RunType
  BY DEF TypeOK, RunType, Picked

LEMMA PlacedEvents ==
  ASSUME TypeOK, NEW f \in Fire
  PROVE  /\ Loaded(f) \subseteq Placed
         /\ \A e \in Loaded(f) : \E p \in run[f].picked, r \in rows :
              p.id = r.id /\ e = [at |-> p.at, event |-> r.event]
<1>1. rows \subseteq Row /\ run[f].picked \subseteq Picked
  BY DEF TypeOK, Picked
<1>2. ASSUME NEW e \in Loaded(f)
      PROVE  \E p \in run[f].picked, r \in rows :
               p.id = r.id /\ e = [at |-> p.at, event |-> r.event]
  <2>1. PICK q \in run[f].picked \X rows :
          q[1].id = q[2].id /\ e = [at |-> q[1].at, event |-> q[2].event]
    BY Zenon DEF Loaded
  <2>2. q[1] \in run[f].picked /\ q[2] \in rows
    OBVIOUS
  <2> QED
    BY <2>1, <2>2
<1>3. ASSUME NEW e \in Loaded(f) PROVE e \in Placed
  <2>1. PICK p \in run[f].picked, r \in rows :
          p.id = r.id /\ e = [at |-> p.at, event |-> r.event]
    BY <1>2
  <2>2. p.at \in Nat /\ r.event \in Event
    BY <1>1 DEF Picked, Row
  <2> QED
    BY <2>1, <2>2 DEF Placed
<1> QED
  BY <1>2, <1>3

LEMMA Entries ==
  ASSUME TypeOK
  PROVE  /\ Len(log) \in Nat
         /\ \A i \in 1 .. Len(log) : log[i].fire \in Fire
<1>1. log \in Seq(Entry)
  BY DEF TypeOK, Entry
<1>2. \A i \in 1 .. Len(log) : log[i] \in Entry
  BY <1>1, ElementOfSeq
<1> QED
  BY <1>1, <1>2 DEF Entry

(***************************************************************************)
(* The steps of a fire                                                     *)
(***************************************************************************)

(* A step of one fire, other than recording its outcome, that keeps what   *)
(* it has in hand in order keeps everything.                               *)
LEMMA FireStep ==
  ASSUME IInv, NEW f \in Fire, NEW r \in RunType, To(f, r),
         UNCHANGED <<table, log, edits, overtaken>>,
         tasks' \in [Fire -> SUBSET Placed], posted' \in [Fire -> SUBSET Placed],
         \A g \in Fire \ {f} : tasks'[g] = tasks[g] /\ posted'[g] = posted[g],
         run[f].stage \notin {"log", "logged"}, r.stage # "log",
         Turn(f) \/ run[f].stage \in Awake,
         OfFire(f)'
  PROVE  IInv'
<1>1. /\ run' \in [Fire -> RunType] /\ run'[f] = r
      /\ \A g \in Fire \ {f} : run'[g] = run[g]
  BY ToStep DEF IInv
<1>2. TypeOK'
  BY <1>1 DEF IInv, TypeOK, table, RunType, Picked
<1>3. RowsDistinct'
  BY DEF IInv, RowsDistinct, OnePlace, table
<1>4. OneAwake'
  BY <1>1 DEF IInv, OneAwake, Turn
<1>5. \A g \in Fire : OfFire(g)'
  BY <1>1, Kept DEF IInv, table
<1>6. \A i \in 1 .. Len(log) : log[i].fire \in Fire
  BY Entries DEF IInv
<1>7. LogOfEnded'
  BY <1>1, <1>6 DEF IInv, LogOfEnded
<1>8. ErrorFollows'
  BY <1>1 DEF IInv, ErrorFollows, table
<1> QED
  BY <1>2, <1>3, <1>4, <1>5, <1>7, <1>8 DEF IInv

(* Stages that end a fire, or hand it on, and leave what it has in hand.   *)
LEMMA GoStep ==
  ASSUME IInv, NEW f \in Fire, NEW stage \in Stage, Go(f, stage),
         UNCHANGED <<table, log, edits, overtaken, tasks, posted>>,
         run[f].stage \notin {"log", "logged"}, stage # "log",
         Turn(f) \/ run[f].stage \in Awake,
         stage \in Early => run[f].stage \in Early,
         stage \notin {"chain", "posting", "logged"},
         stage \in {"read", "triggered"} => run[f].stage \in {"read", "triggered"},
         stage = "record" /\ run[f].good => run[f].todo = {} /\ run[f].failed = {}
  PROVE  IInv'
<1> DEFINE r == [run[f] EXCEPT !.stage = stage]
<1>1. run[f] \in RunType /\ To(f, r)
  BY RunIs DEF IInv, Go
<1>2. /\ r \in RunType /\ r.stage = stage
      /\ r.origin = run[f].origin /\ r.picked = run[f].picked /\ r.chain = run[f].chain
      /\ r.todo = run[f].todo /\ r.failed = run[f].failed /\ r.good = run[f].good
  BY <1>1 DEF RunType
<1> HIDE DEF r
<1>3. run'[f] = r
  BY <1>1, <1>2, ToStep DEF IInv
<1>4. OfFire(f)'
  <2>1. OfFire(f)
    BY DEF IInv
  <2>2. UNCHANGED <<rows, overtaken>>
    BY DEF table
  <2>3. Prepared(f)'
    BY <1>2, <1>3, <2>1 DEF OfFire, Prepared, OnePlace
  <2>4. InOrder(f)'
    BY <1>2, <1>3, <2>1 DEF OfFire, InOrder, First
  <2>5. Guarded(f)'
    BY <1>2, <1>3, <2>1 DEF OfFire, Guarded, Refused
  <2>6. OnSource(f)'
    BY <1>2, <1>3, <2>1, <2>2 DEF OfFire, OnSource, job_target_matches
  <2> QED
    BY <2>3, <2>4, <2>5, <2>6 DEF OfFire
<1>5. tasks \in [Fire -> SUBSET Placed] /\ posted \in [Fire -> SUBSET Placed]
  BY DEF IInv, TypeOK
<1> QED
  BY <1>1, <1>2, <1>3, <1>4, <1>5, FireStep

LEMMA AcceptStep ==
  ASSUME IInv, NEW f \in Fire, Accept(f)
  PROVE  IInv'
<1>1. CASE flow.there /\ flow.enabled
  BY <1>1, GoStep DEF Accept, Stage, Early
<1>2. CASE ~(flow.there /\ flow.enabled)
  BY <1>2, GoStep DEF Accept, Stage, Early
<1> QED
  BY <1>1, <1>2

LEMMA TriggerStep ==
  ASSUME IInv, NEW f \in Fire, Trigger(f)
  PROVE  IInv'
<1>1. CASE flow.there
  BY <1>1, GoStep DEF Trigger, Stage, Awake, Early
<1>2. CASE ~flow.there
  BY <1>2, GoStep DEF Trigger, Stage, Awake, Ended, Early
<1> QED
  BY <1>1, <1>2

LEMMA ChainDoneStep ==
  ASSUME IInv, NEW f \in Fire, ChainDone(f)
  PROVE  IInv'
<1>1. run[f].stage = "chain" /\ run[f].todo = {} /\ run[f].failed = {}
  BY DEF ChainDone, IInv, OfFire, InOrder
<1> QED
  BY <1>1, GoStep DEF ChainDone, Stage, Awake, Early

LEMMA WaitTimeoutStep ==
  ASSUME IInv, NEW f \in Fire, WaitTimeout(f)
  PROVE  IInv'
  BY GoStep DEF WaitTimeout, Stage, Ended, Early

(* The events that are read are picked by the target of the payload.       *)
LEMMA ReadStep ==
  ASSUME IInv, NEW f \in Fire, Read(f)
  PROVE  IInv'
<1> DEFINE platform == Source[f] = "platform_event"
           list == IF platform THEN filter_events_for_routing(f, rows) ELSE rows
           r == [run[f] EXCEPT !.stage = "read", !.origin = platform /\ flow.origin,
                               !.picked = {[at |-> q.at, id |-> q.id] : q \in list}]
<1>1. run[f] \in RunType /\ run[f].stage = "accepted" /\ Turn(f)
  BY RunIs DEF IInv, Read
<1>2. CASE ~flow.there \/ (platform /\ flow.origin /\ list = {})
  <2>1. \E stage \in {"gone", "noop"} : Go(f, stage)
    BY <1>2 DEF Read
  <2> QED
    BY <1>1, <2>1, GoStep DEF Read, Stage, Ended, Early
<1>3. CASE flow.there /\ ~(platform /\ flow.origin /\ list = {})
  <2>1. To(f, r)
    BY <1>3 DEF Read
  <2>2. list \subseteq rows /\ rows \subseteq Row /\ flow.origin \in BOOLEAN
    BY DEF filter_events_for_routing, IInv, TypeOK
  <2>3. platform /\ flow.origin => \A q \in list : job_target_matches(f, q.event)
    BY DEF filter_events_for_routing
  <2>4. \A p \in r.picked : \E q \in list : p = [at |-> q.at, id |-> q.id]
    BY <1>1 DEF RunType
  <2>5. r.picked \subseteq Picked
    BY <2>2, <2>4 DEF Row, Picked
  <2>6. /\ r \in RunType /\ r.stage = "read" /\ r.origin = (platform /\ flow.origin)
        /\ r.chain = run[f].chain /\ r.todo = run[f].todo /\ r.failed = run[f].failed
        /\ r.good = run[f].good
    BY <1>1, <2>2, <2>5 DEF RunType, Stage, Awake
  <2>7. \A p \in r.picked, q \in rows : p.id = q.id =>
          /\ p = [at |-> q.at, id |-> q.id]
          /\ platform /\ flow.origin => job_target_matches(f, q.event)
    <3> SUFFICES ASSUME NEW p \in r.picked, NEW q \in rows, p.id = q.id
                 PROVE  /\ p = [at |-> q.at, id |-> q.id]
                        /\ platform /\ flow.origin => job_target_matches(f, q.event)
      OBVIOUS
    <3>1. PICK s \in list : p = [at |-> s.at, id |-> s.id]
      BY <2>4
    <3>2. s = q
      BY <2>2, <3>1 DEF IInv, RowsDistinct
    <3> QED
      BY <2>3, <3>1, <3>2
  <2>8. OnePlace(r.picked)
    <3> SUFFICES ASSUME NEW d \in r.picked, NEW e \in r.picked, d.at = e.at
                 PROVE  d = e
      BY DEF OnePlace
    <3>1. PICK s \in list : d = [at |-> s.at, id |-> s.id]
      BY <2>4
    <3>2. PICK t \in list : e = [at |-> t.at, id |-> t.id]
      BY <2>4
    <3>3. s = t
      BY <2>2, <3>1, <3>2 DEF IInv, RowsDistinct, OnePlace
    <3> QED
      BY <3>1, <3>2, <3>3
  <2> HIDE DEF r, list
  <2>9. run'[f] = r /\ tasks' = tasks /\ posted' = posted /\ UNCHANGED <<rows, overtaken>>
    BY <2>1, <2>6, ToStep DEF IInv, Read, table
  <2>10. OfFire(f)'
    <3>1. OfFire(f)
      BY DEF IInv
    <3>2. Prepared(f)'
      BY <1>1, <2>6, <2>8, <2>9, <3>1 DEF OfFire, Prepared, Early
    <3>3. InOrder(f)'
      BY <2>6, <2>9, <3>1 DEF OfFire, InOrder, First
    <3>4. Guarded(f)'
      BY <2>6, <2>9, <3>1 DEF OfFire, Guarded, Refused
    <3>5. run[f].chain = {}
      BY <1>1, <3>1 DEF OfFire, Prepared, Early
    <3>6. OnSource(f)'
      BY <2>6, <2>7, <2>9, <3>5 DEF OnSource, job_target_matches
    <3> QED
      BY <3>2, <3>3, <3>4, <3>6 DEF OfFire
  <2>11. tasks \in [Fire -> SUBSET Placed] /\ posted \in [Fire -> SUBSET Placed]
    BY DEF IInv, TypeOK
  <2> QED
    BY <1>1, <2>1, <2>6, <2>9, <2>10, <2>11, FireStep DEF Read
<1> QED
  BY <1>2, <1>3

(* The chain is run only if every event is there and none refuses.         *)
LEMMA LoadStep ==
  ASSUME IInv, NEW f \in Fire, Load(f)
  PROVE  IInv'
<1>1. /\ run[f] \in RunType /\ run[f].stage = "triggered" /\ OfFire(f)
      /\ tasks \in [Fire -> SUBSET Placed] /\ posted \in [Fire -> SUBSET Placed]
  BY RunIs DEF IInv, Load, TypeOK
<1>2. /\ run[f].chain = {} /\ run[f].todo = {} /\ run[f].failed = {}
      /\ tasks[f] = {} /\ posted[f] = {} /\ OnePlace(run[f].picked)
  BY <1>1 DEF OfFire, Prepared, Early
<1>3. UNCHANGED <<rows, overtaken, tasks, posted>>
  BY DEF Load, table
<1>4. CASE EventGone(f) \/ Refused(f, Loaded(f))
  <2> DEFINE r == [run[f] EXCEPT !.stage = "record", !.good = FALSE]
  <2>1. To(f, r)
    BY <1>4 DEF Load
  <2>2. /\ r \in RunType /\ r.stage = "record" /\ ~r.good /\ r.picked = run[f].picked
        /\ r.origin = run[f].origin
        /\ r.chain = {} /\ r.todo = {} /\ r.failed = {}
    BY <1>1, <1>2 DEF RunType, Stage, Awake
  <2> HIDE DEF r
  <2>3. run'[f] = r
    BY <2>1, <2>2, ToStep DEF IInv
  <2>4. OfFire(f)'
    BY <1>2, <1>3, <2>2, <2>3
    DEF OfFire, Prepared, OnePlace, InOrder, Guarded, OnSource, Early
  <2> QED
    BY <1>1, <1>3, <2>1, <2>2, <2>4, FireStep DEF Load, Awake
<1>5. CASE ~EventGone(f) /\ ~Refused(f, Loaded(f))
  <2> DEFINE r == [run[f] EXCEPT !.stage = "chain", !.chain = Loaded(f), !.todo = Loaded(f)]
  <2>1. To(f, r)
    BY <1>5 DEF Load
  <2>2. Loaded(f) \subseteq Placed
    BY PlacedEvents DEF IInv
  <2>3. /\ r \in RunType /\ r.stage = "chain" /\ r.picked = run[f].picked
        /\ r.origin = run[f].origin
        /\ r.chain = Loaded(f) /\ r.todo = Loaded(f) /\ r.failed = {}
    BY <1>1, <1>2, <2>2 DEF RunType, Stage, Awake
  <2>4. \A e \in Loaded(f) : \E p \in run[f].picked, q \in rows :
          p.id = q.id /\ e = [at |-> p.at, event |-> q.event]
    BY PlacedEvents DEF IInv
  <2>5. OnePlace(Loaded(f))
    <3> SUFFICES ASSUME NEW d \in Loaded(f), NEW e \in Loaded(f), d.at = e.at
                 PROVE  d = e
      BY DEF OnePlace
    <3>1. PICK p \in run[f].picked, q \in rows :
            p.id = q.id /\ d = [at |-> p.at, event |-> q.event]
      BY <2>4
    <3>2. PICK s \in run[f].picked, t \in rows :
            s.id = t.id /\ e = [at |-> s.at, event |-> t.event]
      BY <2>4
    <3>3. p = s
      BY <1>2, <3>1, <3>2 DEF OnePlace
    <3>4. q = t
      BY <3>1, <3>2, <3>3 DEF IInv, RowsDistinct
    <3> QED
      BY <3>1, <3>2, <3>3, <3>4
  <2>6. f \notin overtaken /\ run[f].origin =>
          \A e \in Loaded(f) : job_target_matches(f, e.event)
    <3> SUFFICES ASSUME f \notin overtaken, run[f].origin, NEW e \in Loaded(f)
                 PROVE  job_target_matches(f, e.event)
      OBVIOUS
    <3>1. PICK p \in run[f].picked, q \in rows :
            p.id = q.id /\ e = [at |-> p.at, event |-> q.event]
      BY <2>4
    <3>2. job_target_matches(f, q.event)
      BY <1>1, <3>1 DEF OfFire, OnSource
    <3> QED
      BY <3>1, <3>2 DEF job_target_matches
  <2> HIDE DEF r
  <2>7. run'[f] = r
    BY <2>1, <2>3, ToStep DEF IInv
  <2>8. Prepared(f)' /\ InOrder(f)'
    BY <1>2, <1>3, <2>3, <2>5, <2>7 DEF Prepared, OnePlace, InOrder, Early
  <2>9. Guarded(f)'
    BY <1>5, <2>3, <2>7 DEF Guarded, Refused
  <2>10. OnSource(f)'
    BY <1>3, <2>3, <2>6, <2>7 DEF OnSource, job_target_matches
  <2>11. OfFire(f)'
    BY <2>8, <2>9, <2>10 DEF OfFire
  <2> QED
    BY <1>1, <1>3, <2>1, <2>3, <2>11, FireStep DEF Load, Awake
<1> QED
  BY <1>4, <1>5

LEMMA CreateTaskStep ==
  ASSUME IInv, NEW f \in Fire, CreateTask(f)
  PROVE  IInv'
<1>1. /\ run[f] \in RunType /\ run[f].stage = "chain" /\ OfFire(f)
      /\ tasks \in [Fire -> SUBSET Placed] /\ posted \in [Fire -> SUBSET Placed]
  BY RunIs DEF IInv, CreateTask, TypeOK
<1>2. PICK e \in run[f].todo :
        /\ First(e, run[f].todo) /\ e.event.mode = "ASYNC"
        /\ tasks' = [tasks EXCEPT ![f] = @ \cup {e}]
        /\ To(f, [run[f] EXCEPT !.todo = @ \ {e}])
  BY DEF CreateTask
<1> DEFINE r == [run[f] EXCEPT !.todo = @ \ {e}]
<1>3. /\ r \in RunType /\ r.stage = "chain" /\ r.picked = run[f].picked
      /\ r.origin = run[f].origin /\ r.chain = run[f].chain
      /\ r.todo = run[f].todo \ {e} /\ r.failed = run[f].failed /\ r.good = run[f].good
  BY <1>1 DEF RunType
<1>4. e \in Placed /\ e \in run[f].chain
  BY <1>1 DEF RunType, OfFire, InOrder
<1>5. To(f, r)
  BY <1>2
<1> HIDE DEF r
<1>6. /\ run'[f] = r /\ posted' = posted /\ UNCHANGED <<rows, overtaken>>
  BY <1>3, <1>5, ToStep DEF IInv, CreateTask, table
<1>7. /\ tasks'[f] = tasks[f] \cup {e} /\ tasks' \in [Fire -> SUBSET Placed]
      /\ \A g \in Fire \ {f} : tasks'[g] = tasks[g]
  BY <1>1, <1>2, <1>4
<1>8. OfFire(f)'
  <2>1. Prepared(f)'
    BY <1>1, <1>3, <1>6 DEF OfFire, Prepared, OnePlace, Early
  <2>2. InOrder(f)'
    BY <1>1, <1>2, <1>3, <1>4, <1>6, <1>7 DEF OfFire, InOrder
  <2>3. Guarded(f)'
    BY <1>1, <1>3, <1>6 DEF OfFire, Guarded, Refused
  <2>4. OnSource(f)'
    BY <1>1, <1>3, <1>6 DEF OfFire, OnSource, job_target_matches
  <2> QED
    BY <2>1, <2>2, <2>3, <2>4 DEF OfFire
<1> QED
  BY <1>1, <1>3, <1>5, <1>6, <1>7, <1>8, FireStep DEF CreateTask, Awake

LEMMA PostSyncStep ==
  ASSUME IInv, NEW f \in Fire, PostSync(f)
  PROVE  IInv'
<1>1. /\ run[f] \in RunType /\ run[f].stage = "chain" /\ OfFire(f)
      /\ tasks \in [Fire -> SUBSET Placed] /\ posted \in [Fire -> SUBSET Placed]
  BY RunIs DEF IInv, PostSync, TypeOK
<1>2. PICK e \in run[f].todo :
        /\ First(e, run[f].todo) /\ e.event.mode = "SYNC"
        /\ posted' = [posted EXCEPT ![f] = @ \cup {e}]
  BY DEF PostSync
<1> DEFINE r == [run[f] EXCEPT !.stage = "posting"]
<1>3. /\ r \in RunType /\ r.stage = "posting" /\ r.picked = run[f].picked
      /\ r.origin = run[f].origin /\ r.chain = run[f].chain
      /\ r.todo = run[f].todo /\ r.failed = run[f].failed /\ r.good = run[f].good
  BY <1>1 DEF RunType, Stage
<1>4. e \in Placed /\ e \in run[f].chain
  BY <1>1 DEF RunType, OfFire, InOrder
<1>5. To(f, r)
  BY DEF PostSync, Go
<1> HIDE DEF r
<1>6. /\ run'[f] = r /\ tasks' = tasks /\ UNCHANGED <<rows, overtaken>>
  BY <1>3, <1>5, ToStep DEF IInv, PostSync, table
<1>7. /\ posted'[f] = posted[f] \cup {e} /\ posted' \in [Fire -> SUBSET Placed]
      /\ \A g \in Fire \ {f} : posted'[g] = posted[g]
  BY <1>1, <1>2, <1>4
<1>8. \A d \in run[f].todo : First(d, run[f].todo) => d = e
  <2>1. \A d \in run[f].todo : d \in run[f].chain /\ d.at \in Nat
    BY <1>1 DEF OfFire, InOrder, RunType, Placed
  <2> QED
    BY <1>1, <1>2, <2>1 DEF First, OfFire, Prepared, OnePlace
<1>9. OfFire(f)'
  <2>1. Prepared(f)'
    BY <1>1, <1>3, <1>6 DEF OfFire, Prepared, OnePlace, Early
  <2>2. InOrder(f)'
    BY <1>1, <1>2, <1>3, <1>4, <1>6, <1>7, <1>8 DEF OfFire, InOrder, First
  <2>3. Guarded(f)'
    BY <1>1, <1>3, <1>6 DEF OfFire, Guarded, Refused
  <2>4. OnSource(f)'
    BY <1>1, <1>3, <1>6 DEF OfFire, OnSource, job_target_matches
  <2> QED
    BY <2>1, <2>2, <2>3, <2>4 DEF OfFire
<1> QED
  BY <1>1, <1>3, <1>5, <1>6, <1>7, <1>9, FireStep DEF PostSync, Awake

LEMMA PostReturnsStep ==
  ASSUME IInv, NEW f \in Fire, NEW good \in BOOLEAN, PostReturns(f, good)
  PROVE  IInv'
<1>1. /\ run[f] \in RunType /\ run[f].stage = "posting" /\ OfFire(f) /\ Turn(f)
      /\ tasks \in [Fire -> SUBSET Placed] /\ posted \in [Fire -> SUBSET Placed]
  BY RunIs DEF IInv, PostReturns, TypeOK
<1> DEFINE next(e) == IF good THEN [run[f] EXCEPT !.todo = @ \ {e}, !.stage = "chain"]
                      ELSE [run[f] EXCEPT !.good = FALSE, !.stage = "record",
                                          !.failed = {e}]
<1>2. PICK e \in run[f].todo : First(e, run[f].todo) /\ To(f, next(e))
  BY DEF PostReturns
<1>3. e \in Placed /\ e \in posted[f] /\ \A d \in posted[f] : d.event.mode = "SYNC" => d.at <= e.at
  BY <1>1, <1>2 DEF RunType, OfFire, InOrder
<1>4. /\ next(e) \in RunType /\ next(e).stage = (IF good THEN "chain" ELSE "record")
      /\ next(e).picked = run[f].picked /\ next(e).origin = run[f].origin
      /\ next(e).chain = run[f].chain
      /\ next(e).todo = (IF good THEN run[f].todo \ {e} ELSE run[f].todo)
      /\ next(e).failed = (IF good THEN run[f].failed ELSE {e})
      /\ ~good => ~next(e).good
  BY <1>1, <1>3 DEF RunType, Stage, Awake
<1> HIDE DEF next
<1>5. /\ run'[f] = next(e) /\ tasks' = tasks /\ posted' = posted
      /\ UNCHANGED <<rows, overtaken>>
  BY <1>2, <1>4, ToStep DEF IInv, PostReturns, table
<1>6. OfFire(f)'
  <2>1. Prepared(f)'
    BY <1>1, <1>4, <1>5 DEF OfFire, Prepared, OnePlace, Early
  <2>2. InOrder(f)'
    BY <1>1, <1>3, <1>4, <1>5 DEF OfFire, InOrder
  <2>3. Guarded(f)'
    BY <1>1, <1>4, <1>5 DEF OfFire, Guarded, Refused
  <2>4. OnSource(f)'
    BY <1>1, <1>4, <1>5 DEF OfFire, OnSource, job_target_matches
  <2> QED
    BY <2>1, <2>2, <2>3, <2>4 DEF OfFire
<1> QED
  BY <1>1, <1>2, <1>4, <1>5, <1>6, FireStep DEF PostReturns

(* The tasks of a fire that runs no more are still those it created.       *)
LEMMA StartTaskStep ==
  ASSUME IInv, NEW f \in Fire, StartTask(f)
  PROVE  IInv'
<1>1. /\ OfFire(f) /\ UNCHANGED <<table, log, run, edits, overtaken>>
      /\ tasks \in [Fire -> SUBSET Placed] /\ posted \in [Fire -> SUBSET Placed]
  BY DEF IInv, StartTask, TypeOK
<1>2. PICK e \in tasks[f] : /\ tasks' = [tasks EXCEPT ![f] = @ \ {e}]
                            /\ posted' = [posted EXCEPT ![f] = @ \cup {e}]
  BY DEF StartTask
<1>3. /\ e \in Placed /\ e \in run[f].chain /\ e.event.mode # "SYNC"
      /\ tasks[f] # {} /\ run[f].stage \notin Early
  BY <1>1 DEF OfFire, InOrder, Prepared
<1>4. /\ tasks' \in [Fire -> SUBSET Placed] /\ posted' \in [Fire -> SUBSET Placed]
      /\ tasks'[f] = tasks[f] \ {e} /\ posted'[f] = posted[f] \cup {e}
      /\ \A g \in Fire \ {f} : tasks'[g] = tasks[g] /\ posted'[g] = posted[g]
  BY <1>1, <1>2, <1>3
<1>5. OfFire(f)'
  <2>1. Prepared(f)'
    BY <1>1, <1>3 DEF OfFire, Prepared, OnePlace
  <2>2. InOrder(f)'
    BY <1>1, <1>3, <1>4 DEF OfFire, InOrder, First
  <2>3. Guarded(f)'
    BY <1>1, <1>3 DEF OfFire, Guarded, Refused
  <2>4. OnSource(f)'
    BY <1>1 DEF OfFire, OnSource, job_target_matches, table
  <2> QED
    BY <2>1, <2>2, <2>3, <2>4 DEF OfFire
<1>6. \A g \in Fire : OfFire(g)'
  BY <1>1, <1>4, <1>5, Kept DEF IInv, table
<1>7. TypeOK'
  BY <1>1, <1>4 DEF IInv, TypeOK, table
<1>8. RowsDistinct' /\ OneAwake' /\ LogOfEnded' /\ ErrorFollows'
  BY <1>1 DEF IInv, RowsDistinct, OnePlace, OneAwake, LogOfEnded, ErrorFollows, table
<1> QED
  BY <1>6, <1>7, <1>8 DEF IInv

(* The outcome of a fire is recorded and logged in one turn of its own.    *)
LEMMA Turned ==
  ASSUME IInv, NEW f \in Fire, NEW r \in RunType, To(f, r), run[f].stage \in Awake,
         UNCHANGED <<rows, overtaken, tasks, posted>>,
         r.stage \in {"log", "logged", "raised"},
         r.picked = run[f].picked, r.origin = run[f].origin, r.chain = run[f].chain,
         r.todo = run[f].todo, r.failed = run[f].failed, r.good = run[f].good,
         run[f].stage \in {"record", "log"}
  PROVE  /\ run' \in [Fire -> RunType] /\ run'[f] = r
         /\ \A g \in Fire \ {f} : run'[g] = run[g]
         /\ \A g \in Fire \ {f} : run[g].stage \notin Awake
         /\ OneAwake' /\ \A g \in Fire : OfFire(g)'
<1>1. /\ run' \in [Fire -> RunType] /\ run'[f] = r
      /\ \A g \in Fire \ {f} : run'[g] = run[g]
  BY ToStep DEF IInv
<1>2. \A g \in Fire \ {f} : run[g].stage \notin Awake
  BY DEF IInv, OneAwake
<1>3. OneAwake'
  BY <1>1, <1>2 DEF OneAwake
<1>4. OfFire(f)'
  <2>1. OfFire(f)
    BY DEF IInv
  <2>2. Prepared(f)'
    BY <1>1, <2>1 DEF OfFire, Prepared, OnePlace, Early
  <2>3. InOrder(f)'
    BY <1>1, <2>1 DEF OfFire, InOrder
  <2>4. Guarded(f)'
    BY <1>1, <2>1 DEF OfFire, Guarded, Refused
  <2>5. OnSource(f)'
    BY <1>1, <2>1 DEF OfFire, OnSource, job_target_matches
  <2> QED
    BY <2>2, <2>3, <2>4, <2>5 DEF OfFire
<1>5. \A g \in Fire : OfFire(g)'
  BY <1>1, <1>4, Kept DEF IInv
<1> QED
  BY <1>1, <1>2, <1>3, <1>5

LEMMA RecordStep ==
  ASSUME IInv, NEW f \in Fire, Record(f)
  PROVE  IInv'
<1> DEFINE r == [run[f] EXCEPT !.stage = "log"]
<1>1. /\ run[f] \in RunType /\ run[f].stage = "record" /\ To(f, r)
      /\ UNCHANGED <<rows, nextId, log, tasks, posted, edits, overtaken>>
  BY RunIs DEF IInv, Record, Go
<1>2. /\ r \in RunType /\ r.stage = "log" /\ r.picked = run[f].picked
      /\ r.origin = run[f].origin /\ r.chain = run[f].chain
      /\ r.todo = run[f].todo /\ r.failed = run[f].failed /\ r.good = run[f].good
  BY <1>1 DEF RunType, Stage, Awake
<1> HIDE DEF r
<1>3. /\ run' \in [Fire -> RunType] /\ run'[f] = r
      /\ \A g \in Fire \ {f} : run'[g] = run[g]
      /\ \A g \in Fire \ {f} : run[g].stage \notin Awake
      /\ OneAwake' /\ \A g \in Fire : OfFire(g)'
  BY <1>1, <1>2, Turned DEF Awake
<1>4. /\ flow' \in FlowType /\ flow'.there = flow.there
      /\ flow.there => flow'.failed = ~run[f].good
  <2>1. flow \in FlowType /\ run[f].good \in BOOLEAN
    BY <1>1 DEF IInv, TypeOK, FlowType, RunType
  <2> QED
    BY <2>1 DEF Record, FlowType
<1>5. TypeOK'
  BY <1>1, <1>3, <1>4 DEF IInv, TypeOK, RunType, Picked, FlowType
<1>6. RowsDistinct'
  BY <1>1 DEF IInv, RowsDistinct, OnePlace
<1>7. LogOfEnded'
  <2>1. \A i \in 1 .. Len(log) : log[i].fire \in Fire
    BY Entries DEF IInv
  <2> QED
    BY <1>1, <1>3, <2>1 DEF IInv, LogOfEnded
<1>8. ErrorFollows'
  BY <1>2, <1>3, <1>4 DEF ErrorFollows, Awake
<1> QED
  BY <1>3, <1>5, <1>6, <1>7, <1>8 DEF IInv

(* What the log is after an entry, within its length or over it.           *)
LEMMA LogStep ==
  ASSUME TypeOK, NEW entry \in Entry, _record_execution_log(entry)
  PROVE  /\ log' \in Seq(Entry) /\ Len(log') \in 1 .. MaxLog
         /\ log'[Len(log')] = entry
         /\ \A i \in 1 .. Len(log') : \/ log'[i] = entry
                                      \/ \E j \in 1 .. Len(log) : log'[i] = log[j]
<1> DEFINE all == Append(log, entry)
<1>1. log \in Seq(Entry) /\ Len(log) \in Nat /\ Len(log) <= MaxLog
  BY DEF TypeOK, Entry
<1>2. /\ all \in Seq(Entry) /\ Len(all) = Len(log) + 1
      /\ \A i \in 1 .. Len(all) : all[i] = IF i <= Len(log) THEN log[i] ELSE entry
  BY <1>1
<1>3. MaxLog \in Nat /\ MaxLog > 0
  BY LimitsAssumption
<1>4. CASE Len(all) <= MaxLog
  <2>1. log' = all
    BY <1>1, <1>2, <1>3, <1>4 DEF _record_execution_log
  <2> HIDE DEF all
  <2> QED
    BY <1>1, <1>2, <1>3, <1>4, <2>1
<1>5. CASE ~(Len(all) <= MaxLog)
  <2>1. log' = Tail(all)
    BY <1>1, <1>2, <1>3, <1>5 DEF _record_execution_log
  <2> HIDE DEF all
  <2>2. /\ Tail(all) \in Seq(Entry) /\ Len(Tail(all)) = Len(log)
        /\ \A i \in 1 .. Len(Tail(all)) : Tail(all)[i] = all[i + 1]
    BY <1>1, <1>2, HeadTailProperties
  <2>3. Len(log) = MaxLog
    BY <1>1, <1>2, <1>3, <1>5
  <2>4. \A i \in 1 .. Len(log) :
          log'[i] = entry \/ \E j \in 1 .. Len(log) : log'[i] = log[j]
    <3> SUFFICES ASSUME NEW i \in 1 .. Len(log), log'[i] # entry
                 PROVE  \E j \in 1 .. Len(log) : log'[i] = log[j]
      OBVIOUS
    <3>1. log'[i] = all[i + 1] /\ i + 1 \in 1 .. Len(all)
      BY <1>1, <1>2, <2>1, <2>2
    <3>2. log'[i] = log[i + 1] /\ i + 1 \in 1 .. Len(log)
      BY <1>1, <1>2, <3>1
    <3> QED
      BY <3>2
  <2>5. log'[Len(log')] = entry
    BY <1>1, <1>2, <1>3, <2>1, <2>2, <2>3
  <2> QED
    BY <1>1, <1>3, <2>1, <2>2, <2>3, <2>4, <2>5
<1> QED
  BY <1>4, <1>5

LEMMA WriteLogStep ==
  ASSUME IInv, NEW f \in Fire, WriteLog(f)
  PROVE  IInv'
<1> DEFINE entry == [fire |-> f, good |-> run[f].good]
           r == [run[f] EXCEPT !.stage = IF flow.there THEN "logged" ELSE "raised"]
<1>1. /\ run[f] \in RunType /\ run[f].stage = "log" /\ To(f, r)
      /\ UNCHANGED <<table, tasks, posted, edits, overtaken>>
  BY RunIs DEF IInv, WriteLog, Go
<1>2. /\ r \in RunType /\ r.picked = run[f].picked
      /\ r.stage = (IF flow.there THEN "logged" ELSE "raised")
      /\ r.origin = run[f].origin /\ r.chain = run[f].chain
      /\ r.todo = run[f].todo /\ r.failed = run[f].failed /\ r.good = run[f].good
  BY <1>1 DEF RunType, Stage, Ended
<1> HIDE DEF r
<1>3. /\ run' \in [Fire -> RunType] /\ run'[f] = r
      /\ \A g \in Fire \ {f} : run'[g] = run[g]
      /\ \A g \in Fire \ {f} : run[g].stage \notin Awake
      /\ OneAwake' /\ \A g \in Fire : OfFire(g)'
  BY <1>1, <1>2, Turned DEF Awake, table
<1>4. RowsDistinct'
  BY <1>1 DEF IInv, RowsDistinct, OnePlace, table
<1>5. \A g \in Fire : run'[g].stage # "log"
  BY <1>2, <1>3 DEF Awake
<1>6. entry \in Entry /\ entry.fire = f /\ entry.good = run[f].good
  BY <1>1 DEF Entry, RunType
<1>7. /\ Len(log) \in Nat
      /\ \A i \in 1 .. Len(log) : log[i].fire \in Fire /\ log[i].fire # f
  BY <1>1, Entries DEF IInv, LogOfEnded
<1>8. CASE flow.there
  <2>1. _record_execution_log(entry)
    BY <1>8 DEF WriteLog
  <2> HIDE DEF entry
  <2>2. /\ log' \in Seq(Entry) /\ Len(log') \in 1 .. MaxLog
        /\ log'[Len(log')] = entry
        /\ \A i \in 1 .. Len(log') : \/ log'[i] = entry
                                     \/ \E j \in 1 .. Len(log) : log'[i] = log[j]
    BY <1>6, <2>1, LogStep DEF IInv
  <2>3. TypeOK'
    <3>1. Len(log') <= MaxLog
      BY <2>2, LimitsAssumption
    <3> QED
      BY <1>1, <1>3, <2>2, <3>1 DEF IInv, TypeOK, RunType, Picked, Entry, table
  <2>4. LogOfEnded'
    BY <1>2, <1>3, <1>6, <1>7, <1>8, <2>2 DEF IInv, LogOfEnded
  <2>5. ErrorFollows'
    <3>1. flow.failed = ~run[f].good
      BY <1>1, <1>8 DEF IInv, ErrorFollows
    <3>2. log' # <<>>
      BY <2>2
    <3> QED
      BY <1>1, <1>5, <1>6, <2>2, <3>1, <3>2 DEF ErrorFollows, table
  <2> QED
    BY <1>3, <1>4, <2>3, <2>4, <2>5 DEF IInv
<1>9. CASE ~flow.there
  <2>1. log' = log
    BY <1>9 DEF WriteLog
  <2>2. TypeOK'
    BY <1>1, <1>3, <2>1 DEF IInv, TypeOK, RunType, Picked, table
  <2>3. LogOfEnded'
    BY <1>3, <1>7, <2>1 DEF IInv, LogOfEnded
  <2>4. ErrorFollows'
    BY <1>1, <1>9 DEF ErrorFollows, table
  <2> QED
    BY <1>3, <1>4, <2>2, <2>3, <2>4 DEF IInv
<1> QED
  BY <1>8, <1>9

(***************************************************************************)
(* The calls that change the flow                                          *)
(***************************************************************************)

(* A call that leaves the fires alone, and marks those that chose from     *)
(* events it replaces, keeps what they have in hand.                       *)
LEMMA EditKeepsFires ==
  ASSUME IInv, UNCHANGED <<run, tasks, posted>>,
         rows' \subseteq rows \/ overtaken' = overtaken \cup Choosing,
         overtaken \subseteq overtaken'
  PROVE  OneAwake' /\ \A f \in Fire : OfFire(f)'
<1>1. ASSUME NEW f \in Fire PROVE OfFire(f)'
  <2>1. OfFire(f)
    BY DEF IInv
  <2>2. Prepared(f)' /\ InOrder(f)' /\ Guarded(f)'
    BY <2>1 DEF OfFire, Prepared, OnePlace, InOrder, First, Guarded, Refused
  <2>3. OnSource(f)'
    BY <2>1 DEF OfFire, OnSource, Choosing, job_target_matches
  <2> QED
    BY <2>2, <2>3 DEF OfFire
<1> QED
  BY <1>1 DEF IInv, OneAwake

LEMMA ReplacedRows ==
  ASSUME TypeOK, NEW chain \in Chains, ReplaceEvents(chain)
  PROVE  rows' \in SUBSET Row /\ nextId' \in Nat /\ RowsDistinct'
<1>1. /\ chain \in Seq(Event) /\ Len(chain) \in Nat /\ DOMAIN chain = 1 .. Len(chain)
      /\ \A i \in DOMAIN chain : chain[i] \in Event
  BY ChainsAssumption, LenProperties, ElementOfSeq
<1>2. PICK first \in Nat :
        /\ rows' = WithIds(chain, first)
        /\ nextId' = IF first + Len(chain) > nextId THEN first + Len(chain) ELSE nextId
  <2>1. {nextId} \cup {r.id : r \in {r \in rows : r.at = 1}} \subseteq Nat
    BY DEF TypeOK, Row
  <2> QED
    BY <2>1 DEF ReplaceEvents
<1>3. \A r \in rows' : \E i \in DOMAIN chain :
        r = [at |-> i, id |-> first + i - 1, event |-> chain[i]]
  BY <1>2 DEF WithIds
<1>4. rows' \in SUBSET Row
  <2>1. \A i \in DOMAIN chain : [at |-> i, id |-> first + i - 1, event |-> chain[i]] \in Row
    BY <1>1 DEF Row
  <2> QED
    BY <1>3, <2>1
<1>5. RowsDistinct'
  <2> SUFFICES ASSUME NEW q \in rows', NEW r \in rows', q.at = r.at \/ q.id = r.id
               PROVE  q = r
    BY DEF RowsDistinct, OnePlace
  <2>1. PICK i \in DOMAIN chain : q = [at |-> i, id |-> first + i - 1, event |-> chain[i]]
    BY <1>3
  <2>2. PICK j \in DOMAIN chain : r = [at |-> j, id |-> first + j - 1, event |-> chain[j]]
    BY <1>3
  <2>3. i = j
    BY <1>1, <2>1, <2>2
  <2> QED
    BY <2>1, <2>2, <2>3
<1>6. nextId' \in Nat
  BY <1>1, <1>2 DEF TypeOK
<1> QED
  BY <1>4, <1>5, <1>6

LEMMA UpdateFlowStep ==
  ASSUME IInv, NEW origin \in BOOLEAN, UpdateFlow(origin)
  PROVE  IInv'
<1>1. /\ UNCHANGED <<run, tasks, posted, log>> /\ edits' \in 0 .. MaxEdits
      /\ flow' = [flow EXCEPT !.origin = origin]
  BY LimitsAssumption DEF UpdateFlow, Edit, IInv, TypeOK
<1>2. /\ flow' \in FlowType /\ flow'.there = flow.there /\ flow'.failed = flow.failed
  BY <1>1 DEF IInv, TypeOK, FlowType
<1>3. /\ rows' \in SUBSET Row /\ nextId' \in Nat /\ RowsDistinct'
      /\ rows' \subseteq rows \/ overtaken' = overtaken \cup Choosing
      /\ overtaken \subseteq overtaken' /\ overtaken' \in SUBSET Fire
  <2>1. CASE UNCHANGED <<rows, nextId, overtaken>>
    BY <2>1 DEF IInv, TypeOK, RowsDistinct, OnePlace
  <2>2. CASE \E chain \in Chains : ReplaceEvents(chain)
    BY <2>2, ReplacedRows DEF IInv, TypeOK, ReplaceEvents, Choosing
  <2> QED
    BY <2>1, <2>2 DEF UpdateFlow
<1>4. OneAwake' /\ \A f \in Fire : OfFire(f)'
  BY <1>1, <1>3, EditKeepsFires
<1>5. TypeOK'
  BY <1>1, <1>2, <1>3 DEF IInv, TypeOK, FlowType
<1>6. LogOfEnded' /\ ErrorFollows'
  BY <1>1, <1>2 DEF IInv, LogOfEnded, ErrorFollows
<1> QED
  BY <1>3, <1>4, <1>5, <1>6 DEF IInv

LEMMA ToggleStep ==
  ASSUME IInv, ToggleEnabled
  PROVE  IInv'
<1>1. /\ UNCHANGED <<run, tasks, posted, log, rows, nextId, overtaken>>
      /\ edits' \in 0 .. MaxEdits
      /\ flow' = [flow EXCEPT !.enabled = ~@]
  BY LimitsAssumption DEF ToggleEnabled, Edit, IInv, TypeOK
<1>2. /\ flow' \in FlowType /\ flow'.there = flow.there /\ flow'.failed = flow.failed
  BY <1>1 DEF IInv, TypeOK, FlowType
<1>3. OneAwake' /\ \A f \in Fire : OfFire(f)'
  BY <1>1, EditKeepsFires
<1>4. TypeOK'
  BY <1>1, <1>2 DEF IInv, TypeOK, FlowType
<1>5. RowsDistinct' /\ LogOfEnded' /\ ErrorFollows'
  BY <1>1, <1>2 DEF IInv, RowsDistinct, OnePlace, LogOfEnded, ErrorFollows
<1> QED
  BY <1>3, <1>4, <1>5 DEF IInv

LEMMA DeleteStep ==
  ASSUME IInv, DeleteFlow
  PROVE  IInv'
<1>1. /\ UNCHANGED <<run, tasks, posted, nextId, overtaken>>
      /\ edits' \in 0 .. MaxEdits /\ rows' = {} /\ log' = <<>>
      /\ flow' = [flow EXCEPT !.there = FALSE]
  BY LimitsAssumption DEF DeleteFlow, Edit, IInv, TypeOK
<1>2. /\ flow' \in FlowType /\ ~flow'.there
  BY <1>1 DEF IInv, TypeOK, FlowType
<1>3. OneAwake' /\ \A f \in Fire : OfFire(f)'
  BY <1>1, EditKeepsFires
<1>4. TypeOK'
  BY <1>1, <1>2, LimitsAssumption DEF IInv, TypeOK, FlowType
<1>5. RowsDistinct' /\ LogOfEnded' /\ ErrorFollows'
  BY <1>1, <1>2 DEF RowsDistinct, OnePlace, LogOfEnded, ErrorFollows
<1> QED
  BY <1>3, <1>4, <1>5 DEF IInv

(***************************************************************************)
(* The theorems                                                            *)
(***************************************************************************)

LEMMA InitInvariant == Init => IInv
<1> SUFFICES ASSUME Init PROVE IInv
  OBVIOUS
<1>1. PICK chain \in Chains : rows = WithIds(chain, 1) /\ nextId = Len(chain) + 1
  BY DEF Init
<1>2. /\ Len(chain) \in Nat /\ DOMAIN chain = 1 .. Len(chain)
      /\ \A i \in DOMAIN chain : chain[i] \in Event
  BY ChainsAssumption, LenProperties, ElementOfSeq
<1>3. \A r \in rows : \E i \in DOMAIN chain :
        r = [at |-> i, id |-> 1 + i - 1, event |-> chain[i]]
  BY <1>1 DEF WithIds
<1>4. rows \in SUBSET Row
  <2>1. \A i \in DOMAIN chain : [at |-> i, id |-> 1 + i - 1, event |-> chain[i]] \in Row
    BY <1>2 DEF Row
  <2> QED
    BY <1>3, <2>1
<1>5. RowsDistinct
  <2> SUFFICES ASSUME NEW q \in rows, NEW r \in rows, q.at = r.at \/ q.id = r.id
               PROVE  q = r
    BY DEF RowsDistinct, OnePlace
  <2>1. PICK i \in DOMAIN chain : q = [at |-> i, id |-> 1 + i - 1, event |-> chain[i]]
    BY <1>3
  <2>2. PICK j \in DOMAIN chain : r = [at |-> j, id |-> 1 + j - 1, event |-> chain[j]]
    BY <1>3
  <2>3. i = j
    BY <1>2, <2>1, <2>2
  <2> QED
    BY <2>1, <2>2, <2>3
<1>6. TypeOK
  <2>1. flow \in FlowType
    BY DEF Init, FlowType
  <2>2. [stage |-> "idle", origin |-> FALSE, picked |-> {}, chain |-> {}, todo |-> {},
         failed |-> {}, good |-> TRUE] \in RunType
    BY DEF RunType, Stage
  <2>3. run \in [Fire -> RunType]
    BY <2>2, Zenon DEF Init
  <2>4. /\ log = <<>> /\ edits = 0 /\ overtaken = {} /\ nextId \in Nat
        /\ tasks \in [Fire -> SUBSET Placed] /\ posted \in [Fire -> SUBSET Placed]
    BY <1>1, <1>2 DEF Init
  <2> QED
    BY <1>4, <2>1, <2>3, <2>4, LimitsAssumption DEF TypeOK, FlowType, RunType, Picked
<1>7. \A f \in Fire : /\ run[f].stage = "idle" /\ ~run[f].origin /\ run[f].picked = {}
                      /\ run[f].chain = {} /\ run[f].todo = {} /\ run[f].failed = {}
                      /\ tasks[f] = {} /\ posted[f] = {}
  BY DEF Init
<1>8. \A f \in Fire : OfFire(f)
  BY <1>7 DEF OfFire, Prepared, OnePlace, InOrder, Guarded, OnSource
<1>9. OneAwake /\ LogOfEnded /\ ErrorFollows
  <2>1. log = <<>> /\ flow.failed = FALSE
    BY DEF Init
  <2>2. OneAwake
    BY <1>7 DEF OneAwake, Awake
  <2>3. LogOfEnded
    BY <2>1 DEF LogOfEnded
  <2>4. ErrorFollows
    BY <1>7, <2>1 DEF ErrorFollows
  <2> QED
    BY <2>2, <2>3, <2>4
<1> QED
  BY <1>5, <1>6, <1>8, <1>9 DEF IInv

LEMMA NextInvariant == IInv /\ [Next]_vars => IInv'
<1> SUFFICES ASSUME IInv, [Next]_vars PROVE IInv'
  OBVIOUS
<1>1. ASSUME NEW f \in Fire, Accept(f) \/ StartTask(f) \/ WaitTimeout(f) PROVE IInv'
  BY <1>1, AcceptStep, StartTaskStep, WaitTimeoutStep
<1>2. ASSUME NEW f \in Fire, Steps(f) PROVE IInv'
  BY <1>2, ReadStep, TriggerStep, LoadStep, CreateTaskStep, PostSyncStep, ChainDoneStep,
     RecordStep, WriteLogStep, PostReturnsStep DEF Steps
<1>3. CASE \E origin \in BOOLEAN : UpdateFlow(origin)
  BY <1>3, UpdateFlowStep
<1>4. CASE ToggleEnabled \/ DeleteFlow
  BY <1>4, ToggleStep, DeleteStep
<1>5. CASE UNCHANGED vars
  <2>1. UNCHANGED <<flow, rows, nextId, log, run, tasks, posted, edits, overtaken>>
    BY <1>5 DEF vars, table
  <2>2. TypeOK'
    BY <2>1 DEF IInv, TypeOK
  <2>3. \A f \in Fire : OfFire(f)'
    BY <2>1, Kept DEF IInv
  <2>4. RowsDistinct' /\ OneAwake' /\ LogOfEnded' /\ ErrorFollows'
    BY <2>1 DEF IInv, RowsDistinct, OnePlace, OneAwake, LogOfEnded, ErrorFollows
  <2> QED
    BY <2>2, <2>3, <2>4 DEF IInv
<1> QED
  BY <1>1, <1>2, <1>3, <1>4, <1>5 DEF Next

LEMMA Invariant == Spec => []IInv
  BY InitInvariant, NextInvariant, PTL DEF Spec

(* Types, for every list of events and number of fires.                    *)
THEOREM TypeCorrect == Spec => []TypeOK
<1>1. IInv => TypeOK
  BY DEF IInv
<1> QED
  BY <1>1, Invariant, PTL

(* A fire whose flow was not edited while it chose its events posts only   *)
(* events about the source of its payload, and none of a chain that the    *)
(* guard against loops refuses, whatever else fires and is edited later.   *)
THEOREM PostsOnlyItsChain == Spec => []PostsItsChain
<1>1. IInv => PostsItsChain
  <2> SUFFICES ASSUME IInv, NEW f \in Fire \ overtaken
               PROVE  /\ run[f].origin => \A e \in posted[f] : job_target_matches(f, e.event)
                      /\ posted[f] # {} => ~Refused(f, run[f].chain)
    BY DEF PostsItsChain
  <2>1. OfFire(f)
    BY DEF IInv
  <2>2. run[f].origin => \A e \in posted[f] : job_target_matches(f, e.event)
    BY <2>1 DEF OfFire, InOrder, OnSource
  <2> QED
    BY <2>1, <2>2 DEF OfFire, Guarded
<1> QED
  BY <1>1, Invariant, PTL

(* The log tells of a success only what was posted and not refused, for    *)
(* every length of a chain and of the log.                                 *)
THEOREM LogTold == Spec => []LogIsTrue
<1>1. IInv => LogIsTrue
  <2> SUFFICES ASSUME IInv PROVE LogIsTrue
    OBVIOUS
  <2>1. DOMAIN log = 1 .. Len(log)
    BY LenProperties DEF IInv, TypeOK
  <2>2. ASSUME NEW i \in DOMAIN log, log[i].good
        PROVE  /\ run[log[i].fire].failed = {}
               /\ {e \in run[log[i].fire].chain : e.event.mode = "SYNC"} \subseteq posted[log[i].fire]
    <3>1. log[i].fire \in Fire
      BY <2>1, Entries DEF IInv
    <3>2. OfFire(log[i].fire) /\ run[log[i].fire].stage = "logged" /\ run[log[i].fire].good
      BY <2>1, <2>2, <3>1 DEF IInv, LogOfEnded
    <3> QED
      BY <3>2 DEF OfFire, InOrder
  <2>3. ASSUME NEW f \in Fire, NEW e \in run[f].failed, NEW d \in run[f].chain,
               d.event.mode = "SYNC", e.at < d.at
        PROVE  d \notin posted[f]
    <3>1. OfFire(f) /\ run[f] \in RunType
      BY RunIs DEF IInv
    <3>2. e.at \in Nat /\ d.at \in Nat
      BY <3>1 DEF RunType, Placed
    <3>3. d \in posted[f] => d.at <= e.at
      BY <2>3, <3>1 DEF OfFire, InOrder
    <3> QED
      BY <2>3, <3>2, <3>3
  <2> QED
    BY <2>2, <2>3 DEF LogIsTrue
<1> QED
  BY <1>1, Invariant, PTL

(* The error a flow shows is that of the last fire in its log, whatever    *)
(* the order in which fires end and however long the log.                  *)
THEOREM ErrorIsLatest == Spec => []ErrorShownIsLatest
<1>1. IInv => ErrorShownIsLatest
  BY DEF IInv, ErrorFollows, ErrorShownIsLatest
<1> QED
  BY <1>1, Invariant, PTL
=============================================================================
