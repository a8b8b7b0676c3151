--------------------------- MODULE HubRunsProofs ---------------------------
(***************************************************************************)
(* Theorems about HubRuns, for every set of executions and tasks and every *)
(* bound: its types, and that what is reported is what CoreHub did: a      *)
(* success is real, a brain rebuild is the execution's own, a submission   *)
(* is accepted once, and the schedule of a visualization follows its row.  *)
(***************************************************************************)
EXTENDS HubRuns, TLAPS

(***************************************************************************)
(* The inductive invariant                                                 *)
(***************************************************************************)

RunType == [task : Task \cup {"none"}, stage : Stage, polls : 0 .. MaxPolls,
            posts : 0 .. Retries, entity : 1 .. Entities, ok : BOOLEAN,
            known : BOOLEAN, gen : Nat, saw : BOOLEAN, diff : SUBSET Diff]
WireType == [is : Answers \cup {"quiet", "sent"}, gen : Nat, diff : SUBSET Diff]

(* The answers a stage of a task may bring, and what they say of CoreHub's *)
(* work for the execution.                                                 *)
HonestWork(x) ==
  /\ run[x].task \in Worker =>
       /\ run[x].stage \in {"trigger", "reconcile"} =>
            wire[x].is \in {"sent", "error", "accepted"}
       /\ run[x].stage \in {"poll", "reconcile"}
            \/ (run[x].stage = "trigger" /\ wire[x].is = "accepted") =>
          work[x].is # "none" /\ work[x].of = run[x].entity
  /\ run[x].task = "agent" =>
       /\ run[x].stage = "poll" /\ wire[x].is = "good" => work[x].is = "good"
       /\ run[x].stage = "success" => work[x].is = "good"
  /\ run[x].task = "query" =>
       /\ work[x].is # "running"
       /\ run[x].stage = "trigger" /\ wire[x].is = "good" => work[x].is = "good"
       /\ run[x].stage = "success" => work[x].is = "good"

(* A validation that found nothing wrong so far has checked the entities   *)
(* before the one it is at.                                                *)
HonestCheck(x) ==
  run[x].task \in {"validate", "reconcile"} =>
    /\ run[x].ok /\ run[x].stage \notin Over => 1 .. run[x].entity - 1 \subseteq checked[x]
    /\ work[x].is = "good" /\ work[x].diff = {} => work[x].of \in checked[x]
    /\ run[x].stage = "poll" /\ wire[x].is = "good" =>
         work[x].is = "good" /\ wire[x].diff = work[x].diff
    /\ run[x].stage = "reconcile" =>
         /\ work[x].is = "good"
         /\ work[x].diff \cap {"schema"} = run[x].diff \cap {"schema"}
         /\ wire[x].is = "accepted" => wire[x].diff = work[x].diff \cap {"rows"}
    /\ run[x].stage = "success" => 1 .. Entities \subseteq checked[x]

(* A submission has been accepted once exactly if the answer to it says so; *)
(* after a failure it may have been accepted as well.                       *)
Taken == {"accepted", "not_started", "unclear"}

HonestSubmission(x) ==
  IF run[x].task \in {"visualize", "backup"}
  THEN /\ wire[x].is \in Taken \cup {"quiet", "sent", "error", "rejected", "gone"}
       /\ wire[x].is \in Taken => run[x].stage = "trigger"
       /\ run[x].stage \in Over => wire[x].is = "quiet"
       /\ IF run[x].stage = "failed" THEN took[x] \in {0, 1}
          ELSE took[x] = IF wire[x].is \in Taken \/ run[x].stage = "success" THEN 1 ELSE 0
  ELSE took[x] = 0

(* A trigger waits or is built only after it was sent, and once.           *)
TriggeredOnce(x) ==
  (x \in brain.asked \cup brain.serves \/ own[x] # "none") =>
     /\ run[x].task = "brain"
     /\ run[x].stage \notin {"idle", "before"}
     /\ ~(run[x].stage = "trigger" /\ wire[x].is = "sent")
     /\ ~(x \in brain.asked \cup brain.serves /\ own[x] # "none")
     /\ ~(x \in brain.asked /\ x \in brain.serves)

(* What an execution that met no foreign rebuild knows of the brain.       *)
KnowsBrain(x) ==
  run[x].task = "brain" /\ x \notin shared =>
    /\ run[x].stage = "before" /\ wire[x].is \in Answers /\ ~Failed(x) =>
         wire[x].gen = brain.gen /\ (wire[x].is = "CREATING" => brain.status = "CREATING")
    /\ run[x].stage \in {"trigger", "poll"} =>
         IF own[x] = "none"
         THEN /\ run[x].known => run[x].gen = brain.gen
              /\ run[x].saw => brain.status = "CREATING"
         ELSE brain.status \in {"CREATING", own[x]}
    /\ run[x].stage = "poll" /\ wire[x].is = "CREATING" /\ own[x] = "none" =>
         brain.status = "CREATING"
    /\ run[x].stage = "poll" /\ wire[x].is \in {"READY", "FAILED"} =>
         wire[x].is = own[x] \/ (~run[x].saw /\ (run[x].known => wire[x].gen = run[x].gen))
    /\ run[x].stage = "success" => own[x] = "READY"

(* A user's call that crosses no disabling finds the row as it read it.    *)
UserKnowsRow ==
  ~overtaken /\ user.at # "none" =>
    /\ \A x \in Exec : ~Disabling(x)
    /\ user.seen = schedule.enabled
    /\ user.at = "commit" => schedule.scheduled = user.to

(* While the job of a visualization is being disabled, its row says so or  *)
(* is about to.                                                            *)
RowComesFirst ==
  ~overtaken /\ user.at = "none" =>
    IF \E x \in Exec : Disabling(x)
    THEN ~schedule.enabled \/ \E x \in Exec : run[x].stage = "disable"
    ELSE schedule.enabled = schedule.scheduled

Honest(x) == HonestWork(x) /\ HonestCheck(x) /\ HonestSubmission(x)
FollowsBrain(x) == TriggeredOnce(x) /\ KnowsBrain(x)

IInv ==
  /\ TypeOK
  /\ \A x \in Exec : Honest(x) /\ FollowsBrain(x)
  /\ UserKnowsRow /\ RowComesFirst

(***************************************************************************)
(* What the steps every action is made of do to an execution               *)
(***************************************************************************)

(* The other executions, and CoreHub's work for them, stay as they are.    *)
Only(x) ==
  \A y \in Exec \ {x} :
    /\ run'[y] = run[y] /\ wire'[y] = wire[y]
    /\ work'[y] = work[y] /\ took'[y] = took[y] /\ checked'[y] = checked[y]

(* A request replaces the record of its execution and goes on the wire.    *)
LEMMA RequestStep ==
  ASSUME TypeOK, NEW x \in Exec, NEW r \in RunType, Request(x, r)
  PROVE  /\ run' \in [Exec -> RunType] /\ wire' \in [Exec -> WireType]
         /\ run'[x] = r /\ wire'[x] = Says("sent")
         /\ \A y \in Exec \ {x} : run'[y] = run[y] /\ wire'[y] = wire[y]
  BY DEF Request, TypeOK, RunType, WireType, Says

(* The end of an execution, or of its requests, leaves nothing on the wire. *)
LEMMA StopStep ==
  ASSUME TypeOK, NEW x \in Exec, NEW result \in Stage, Stop(x, result)
  PROVE  /\ run' \in [Exec -> RunType] /\ wire' \in [Exec -> WireType]
         /\ run'[x] = [run[x] EXCEPT !.stage = result] /\ wire'[x] = Says("quiet")
         /\ \A y \in Exec \ {x} : run'[y] = run[y] /\ wire'[y] = wire[y]
<1>1. run \in [Exec -> RunType] /\ wire \in [Exec -> WireType]
  BY DEF TypeOK, RunType, WireType
<1>2. [run[x] EXCEPT !.stage = result] \in RunType
  BY <1>1 DEF RunType
<1>3. Says("quiet") \in WireType
  BY DEF Says, WireType
<1> QED
  BY <1>1, <1>2, <1>3 DEF Stop

(* An answer changes the wire alone.                                       *)
LEMMA ReplyStep ==
  ASSUME TypeOK, NEW x \in Exec, NEW answer \in WireType, Reply(x, answer)
  PROVE  /\ run' = run /\ wire' \in [Exec -> WireType]
         /\ wire'[x] = answer
         /\ \A y \in Exec \ {x} : wire'[y] = wire[y]
  BY DEF Reply, TypeOK, WireType

(* An answer that says a word and nothing else.                            *)
LEMMA SaysType ==
  ASSUME NEW what \in Answers \cup {"quiet", "sent"}
  PROVE  /\ Says(what) \in WireType
         /\ Says(what).is = what /\ Says(what).gen = 0 /\ Says(what).diff = {}
  BY DEF Says, WireType

(* The next entity of a validation: another request, or the end.           *)
LEMMA NextEntityStep ==
  ASSUME TypeOK, NEW x \in Exec, NEW good \in BOOLEAN, NextEntity(x, good)
  PROVE  /\ run' \in [Exec -> RunType] /\ wire' \in [Exec -> WireType]
         /\ \A y \in Exec \ {x} : run'[y] = run[y] /\ wire'[y] = wire[y]
         /\ run'[x].task = run[x].task
         /\ \/ /\ run[x].entity < Entities
               /\ run'[x].stage = "trigger" /\ run'[x].entity = run[x].entity + 1
               /\ run'[x].ok = (run[x].ok /\ good) /\ wire'[x].is = "sent"
            \/ /\ run[x].entity = Entities
               /\ run'[x].stage = (IF run[x].ok /\ good THEN "success" ELSE "failed")
               /\ wire'[x].is = "quiet"
<1>1. run[x] \in RunType /\ Entities \in Nat
  BY EntitiesAssumption DEF TypeOK, RunType
<1>2. CASE run[x].entity < Entities
  <2> DEFINE r == [run[x] EXCEPT !.stage = "trigger", !.entity = @ + 1,
                                 !.ok = run[x].ok /\ good, !.polls = 0, !.diff = {}]
  <2>0. /\ (run[x].ok /\ good) \in BOOLEAN
        /\ 0 \in 0 .. MaxPolls /\ "trigger" \in Stage
        /\ run[x].entity + 1 \in 1 .. Entities
    BY <1>1, <1>2, BoundsAssumption DEF RunType, Stage
  <2>1. r \in RunType
    BY <1>1, <2>0 DEF RunType
  <2>2. Request(x, r)
    BY <1>2 DEF NextEntity
  <2>3. run'[x] = r /\ wire'[x].is = "sent"
    BY <2>1, <2>2, RequestStep, SaysType
  <2>4. /\ run' \in [Exec -> RunType] /\ wire' \in [Exec -> WireType]
        /\ \A y \in Exec \ {x} : run'[y] = run[y] /\ wire'[y] = wire[y]
    BY <2>1, <2>2, RequestStep
  <2>5. /\ r.task = run[x].task /\ r.stage = "trigger"
        /\ r.entity = run[x].entity + 1 /\ r.ok = (run[x].ok /\ good)
    BY <1>1 DEF RunType
  <2> QED
    BY <1>2, <2>3, <2>4, <2>5
<1>3. CASE ~(run[x].entity < Entities)
  <2> DEFINE result == Outcome(run[x].ok /\ good)
  <2>1. result \in Stage
    BY DEF Outcome, Stage
  <2>2. Stop(x, result) /\ run[x].entity = Entities
    BY <1>1, <1>3 DEF NextEntity, RunType
  <2>3. run'[x] = [run[x] EXCEPT !.stage = result] /\ wire'[x].is = "quiet"
    BY <2>1, <2>2, StopStep, SaysType
  <2> QED
    BY <1>1, <2>1, <2>2, <2>3, StopStep DEF RunType, Outcome
<1> QED
  BY <1>2, <1>3

Moves(x) ==
  /\ run' \in [Exec -> RunType] /\ wire' \in [Exec -> WireType]
  /\ run'[x].task = run[x].task
  /\ \A y \in Exec \ {x} : run'[y] = run[y] /\ wire'[y] = wire[y]

LEMMA RequestMoves ==
  ASSUME TypeOK, NEW x \in Exec, NEW r \in RunType, r.task = run[x].task, Request(x, r)
  PROVE  Moves(x)
  BY RequestStep DEF Moves

LEMMA StopMoves ==
  ASSUME TypeOK, NEW x \in Exec, NEW result \in Stage, Stop(x, result)
  PROVE  Moves(x)
<1>1. run[x] \in RunType
  BY DEF TypeOK, RunType
<1>2. [run[x] EXCEPT !.stage = result].task = run[x].task
  BY <1>1 DEF RunType
<1> QED
  BY <1>2, StopStep DEF Moves

LEMMA ReadAgainMoves ==
  ASSUME TypeOK, NEW x \in Exec, NEW r \in RunType, r.task = run[x].task,
         r.polls = run[x].polls, ReadAgain(x, r)
  PROVE  Moves(x)
<1>1. run[x].polls + 1 \in 0 .. MaxPolls
  BY BoundsAssumption DEF ReadAgain, TypeOK
<1>2. [r EXCEPT !.polls = @ + 1] \in RunType /\ [r EXCEPT !.polls = @ + 1].task = r.task
  BY <1>1 DEF RunType
<1> QED
  BY <1>2, RequestMoves DEF ReadAgain

LEMMA OutcomeType == ASSUME NEW good PROVE Outcome(good) \in Over /\ Outcome(good) \in Stage
  BY DEF Outcome, Over, Stage

(* What the client does between two requests keeps the types.              *)
LEMMA ClientMoves ==
  ASSUME TypeOK, NEW x \in Exec, Client(x)
  PROVE  Moves(x)
<1>1. run[x] \in RunType /\ wire[x] \in WireType
  BY DEF TypeOK, RunType, WireType
<1>2. {"success", "failed", "disable"} \subseteq Stage
  BY DEF Stage
<1>3. CASE BrainBefore(x)
  <2> DEFINE r == [run[x] EXCEPT !.stage = "trigger", !.known = ~Failed(x),
                                 !.gen = wire[x].gen, !.saw = wire[x].is = "CREATING"]
  <2>1. Failed(x) \in BOOLEAN
    BY DEF Failed
  <2>2. r \in RunType /\ r.task = run[x].task
    BY <1>1, <2>1 DEF RunType, WireType, Stage
  <2> QED
    BY <1>3, <2>2, RequestMoves DEF BrainBefore
<1>4. CASE BrainStarted(x)
  <2>1. [run[x] EXCEPT !.stage = "poll"] \in RunType /\ [run[x] EXCEPT !.stage = "poll"].task = run[x].task
    BY <1>1 DEF RunType, Stage
  <2> QED
    BY <1>2, <1>4, <2>1, RequestMoves, StopMoves DEF BrainStarted
<1>5. CASE BrainPolled(x)
  <2> DEFINE saw == run[x].saw \/ wire[x].is = "CREATING"
             r == [run[x] EXCEPT !.saw = saw]
  <2>1. saw \in BOOLEAN
    OBVIOUS
  <2>2. r \in RunType /\ r.task = run[x].task /\ r.polls = run[x].polls
    BY <1>1, <2>1 DEF RunType
  <2> HIDE DEF saw
  <2>3. \/ Stop(x, Outcome(wire[x].is = "READY"))
        \/ ReadAgain(x, r) \/ Stop(x, "failed")
    BY <1>5 DEF BrainPolled, saw
  <2> QED
    BY <1>2, <2>2, <2>3, ReadAgainMoves, StopMoves, OutcomeType
<1>6. CASE AgentStarted(x)
  <2>1. [run[x] EXCEPT !.stage = "poll"] \in RunType /\ [run[x] EXCEPT !.stage = "poll"].task = run[x].task
    BY <1>1 DEF RunType, Stage
  <2> QED
    BY <1>2, <1>6, <2>1, RequestMoves, StopMoves DEF AgentStarted
<1>7. CASE AgentPolled(x)
  BY <1>1, <1>2, <1>7, ReadAgainMoves, StopMoves, OutcomeType DEF AgentPolled
<1>8. ASSUME NEW good \in BOOLEAN, NextEntity(x, good) PROVE Moves(x)
  BY <1>8, NextEntityStep DEF Moves
<1>9. CASE ValidationStarted(x)
  <2>1. [run[x] EXCEPT !.stage = "poll"] \in RunType /\ [run[x] EXCEPT !.stage = "poll"].task = run[x].task
    BY <1>1 DEF RunType, Stage
  <2> QED
    BY <1>8, <1>9, <2>1, RequestMoves DEF ValidationStarted
<1>10. CASE ValidationPolled(x)
  <2> DEFINE r == [run[x] EXCEPT !.stage = "reconcile", !.diff = wire[x].diff]
             good == wire[x].is = "good" /\ wire[x].diff = {}
  <2>1. r \in RunType /\ r.task = run[x].task
    BY <1>1 DEF RunType, WireType, Stage
  <2>2. good \in BOOLEAN
    OBVIOUS
  <2>3. \/ ReadAgain(x, run[x]) \/ NextEntity(x, FALSE)
        \/ Request(x, r) \/ NextEntity(x, good)
    BY <1>10 DEF ValidationPolled
  <2> HIDE DEF r, good
  <2> QED
    BY <1>1, <1>8, <2>1, <2>2, <2>3, ReadAgainMoves, RequestMoves
<1>11. CASE Reconciled(x)
  <2>1. PICK good \in BOOLEAN : NextEntity(x, good)
    BY <1>11 DEF Reconciled, Failed
  <2> QED
    BY <1>8, <2>1
<1>12. CASE SavedQueryRead(x)
  <2>1. /\ [run[x] EXCEPT !.stage = "trigger"] \in RunType
        /\ [run[x] EXCEPT !.stage = "trigger"].task = run[x].task
    BY <1>1 DEF RunType, Stage
  <2> QED
    BY <1>2, <1>12, <2>1, RequestMoves, StopMoves DEF SavedQueryRead
<1>13. CASE QueryExecuted(x)
  BY <1>13, StopMoves, OutcomeType DEF QueryExecuted
<1>14. ASSUME Resubmit(x) PROVE Moves(x)
  <2>1. run[x].posts + 1 \in 0 .. Retries
    BY <1>1, <1>14, BoundsAssumption DEF Resubmit, RunType
  <2>2. /\ [run[x] EXCEPT !.posts = @ + 1] \in RunType
        /\ [run[x] EXCEPT !.posts = @ + 1].task = run[x].task
    BY <1>1, <2>1 DEF RunType
  <2> QED
    BY <1>14, <2>2, RequestMoves DEF Resubmit
<1>15. CASE Refreshed(x)
  BY <1>2, <1>14, <1>15, StopMoves, OutcomeType DEF Refreshed
<1>16. CASE BackedUp(x)
  BY <1>14, <1>16, StopMoves, OutcomeType DEF BackedUp
<1>17. CASE DisableSchedule(x)
  <2>1. run \in [Exec -> RunType] /\ wire \in [Exec -> WireType]
    BY DEF TypeOK, RunType, WireType
  <2>2. /\ [run[x] EXCEPT !.stage = "remove"] \in RunType
        /\ [run[x] EXCEPT !.stage = "remove"].task = run[x].task
    BY <1>1 DEF RunType, Stage
  <2>3. run' = [run EXCEPT ![x] = [run[x] EXCEPT !.stage = "remove"]] /\ wire' = wire
    BY <1>17, <2>1 DEF DisableSchedule
  <2> QED
    BY <2>1, <2>2, <2>3 DEF Moves
<1>18. CASE RemoveSchedule(x)
  BY <1>2, <1>18, StopMoves DEF RemoveSchedule
<1> QED
  BY <1>3, <1>4, <1>5, <1>6, <1>7, <1>9, <1>10, <1>11, <1>12, <1>13, <1>15, <1>16,
     <1>17, <1>18 DEF Client

(* The answers CoreHub gives, and those that do not arrive.                *)
LEMMA HubMoves ==
  ASSUME TypeOK, NEW x \in Exec, Honest(x), HubAnswers(x) \/ AnswerLost(x)
  PROVE  run' = run /\ Moves(x)
<1>1. ASSUME NEW answer \in WireType, Reply(x, answer) PROVE run' = run /\ Moves(x)
  <2>1. run \in [Exec -> RunType]
    BY DEF TypeOK, RunType
  <2> QED
    BY <1>1, <2>1, ReplyStep DEF Moves
<1>2. \A what \in Answers : Says(what) \in WireType
  BY SaysType
<1>3. {"error", "rejected", "gone", "unclear", "accepted", "not_started", "live", "good", "bad"}
        \subseteq Answers
  BY DEF Answers
<1>4. CASE HubReadsBrain(x)
  <2>1. [is |-> brain.status, gen |-> brain.gen, diff |-> {}] \in WireType
    BY DEF TypeOK, WireType, Answers
  <2> QED
    BY <1>1, <1>4, <2>1 DEF HubReadsBrain
<1>5. CASE HubReadsWork(x)
  <2>1. work[x].is # "none"
    BY <1>5 DEF HubReadsWork, Asks, Honest, HonestWork
  <2>2. work[x].is \in Answers /\ work[x].diff \in SUBSET Diff
    BY <2>1 DEF TypeOK, Answers
  <2>3. [is |-> work[x].is, gen |-> 0, diff |-> work[x].diff] \in WireType
    BY <2>2 DEF WireType
  <2> QED
    BY <1>1, <1>5, <2>3 DEF HubReadsWork
<1>6. CASE HubReconciles(x)
  <2>1. PICK skipped \in SUBSET (work[x].diff \cap {"rows"}) :
          Reply(x, [is |-> "accepted", gen |-> 0, diff |-> skipped])
    BY <1>6 DEF HubReconciles
  <2>2. [is |-> "accepted", gen |-> 0, diff |-> skipped] \in WireType
    BY <1>3 DEF WireType, Diff
  <2> QED
    BY <1>1, <2>1, <2>2
<1>7. CASE \/ HubTakesTrigger(x) \/ HubTakesWork(x) \/ HubReadsSavedQuery(x)
           \/ HubTakesSubmission(x) \/ HubRejects(x) \/ NoAnswer(x) \/ AnswerLost(x)
           \/ \E result \in {"good", "bad"} : HubExecutesQuery(x, result)
  BY <1>1, <1>2, <1>3, <1>7 DEF HubTakesTrigger, HubTakesWork, HubReadsSavedQuery,
     HubTakesSubmission, HubRejects, NoAnswer, AnswerLost, HubExecutesQuery
<1> QED
  BY <1>4, <1>5, <1>6, <1>7 DEF HubAnswers

LEMMA StartMoves ==
  ASSUME TypeOK, NEW x \in Exec, Start(x)
  PROVE  Moves(x)
<1> DEFINE to == CASE run[x].task = "brain" -> "before"
                   [] run[x].task = "query" -> "saved"
                   [] OTHER -> "trigger"
<1>1. to \in Stage
  BY DEF Stage
<1>2. run[x] \in RunType
  BY DEF TypeOK, RunType
<1>3. Request(x, [run[x] EXCEPT !.stage = to])
  BY DEF Start
<1> HIDE DEF to
<1>4. [run[x] EXCEPT !.stage = to] \in RunType /\ [run[x] EXCEPT !.stage = to].task = run[x].task
  BY <1>1, <1>2 DEF RunType
<1> QED
  BY <1>3, <1>4, RequestMoves

WorkType == [is : {"none", "running", "good", "bad"}, of : 1 .. Entities, diff : SUBSET Diff]

LEMMA WorkDiffType ==
  ASSUME TypeOK, NEW x \in Exec, NEW rest \in SUBSET Diff
  PROVE  [work EXCEPT ![x].diff = rest] \in
           [Exec -> [is : {"none", "running", "good", "bad"}, of : 1 .. Entities,
                     diff : SUBSET Diff]]
<1>1. work \in [Exec -> WorkType]
  BY DEF TypeOK, WorkType
<1>2. [work[x] EXCEPT !.diff = rest] \in WorkType
  BY <1>1 DEF WorkType
<1>3. [work EXCEPT ![x] = [work[x] EXCEPT !.diff = rest]] \in [Exec -> WorkType]
  BY <1>1, <1>2
<1> QED
  BY <1>1, <1>3 DEF WorkType

LEMMA WorkIsType ==
  ASSUME TypeOK, NEW x \in Exec, NEW result \in {"good", "bad"}
  PROVE  [work EXCEPT ![x].is = result] \in
           [Exec -> [is : {"none", "running", "good", "bad"}, of : 1 .. Entities,
                     diff : SUBSET Diff]]
<1>1. work \in [Exec -> WorkType]
  BY DEF TypeOK, WorkType
<1>2. [work[x] EXCEPT !.is = result] \in WorkType
  BY <1>1 DEF WorkType
<1>3. [work EXCEPT ![x] = [work[x] EXCEPT !.is = result]] \in [Exec -> WorkType]
  BY <1>1, <1>2
<1> QED
  BY <1>1, <1>3 DEF WorkType

(* Type correctness is inductive: a status that is read is one there is,   *)
(* and a submission is taken back only after it was accepted.              *)
LEMMA TypeStep ==
  ASSUME IInv, [Next]_vars
  PROVE  TypeOK'
<1> USE DEF IInv
<1>1. ASSUME NEW x \in Exec, Moves(x)
      PROVE  /\ run' \in [Exec -> RunType] /\ wire' \in [Exec -> WireType]
  BY <1>1 DEF Moves
<1>2. CASE \E x \in Exec : Start(x) \/ Client(x)
  <2> PICK x \in Exec : Start(x) \/ Client(x)
    BY <1>2
  <2>1. Moves(x)
    BY StartMoves, ClientMoves
  <2>2. UNCHANGED <<hub, history, user>>
    BY DEF row, Start, Client, BrainBefore, BrainStarted, BrainPolled, AgentStarted,
       AgentPolled, ValidationStarted, ValidationPolled, Reconciled, SavedQueryRead,
       QueryExecuted, Refreshed, BackedUp, DisableSchedule, RemoveSchedule
  <2>3. schedule' \in [enabled : BOOLEAN, scheduled : BOOLEAN] /\ overtaken' \in BOOLEAN
    BY DEF TypeOK, row, Start, Client, BrainBefore, BrainStarted, BrainPolled, AgentStarted,
       AgentPolled, ValidationStarted, ValidationPolled, Reconciled, SavedQueryRead,
       QueryExecuted, Refreshed, BackedUp, DisableSchedule, RemoveSchedule
  <2> QED
    BY <1>1, <2>1, <2>2, <2>3 DEF TypeOK, RunType, WireType, hub, history
<1>3. ASSUME NEW x \in Exec, HubAnswers(x) \/ AnswerLost(x) PROVE TypeOK'
  <2>1. Moves(x)
    BY <1>3, HubMoves
  <2>2. schedule' = schedule /\ user' = user /\ overtaken' = overtaken
    BY <1>3 DEF row, HubAnswers, HubReadsBrain, HubTakesTrigger, HubTakesWork, HubReadsWork,
       HubReconciles, HubReadsSavedQuery, HubExecutesQuery, HubTakesSubmission, HubRejects,
       NoAnswer, AnswerLost, Reply
  <2>3. own' = own /\ shared' = shared
    BY <1>3 DEF HubAnswers, HubReadsBrain, HubTakesTrigger, HubTakesWork, HubReadsWork,
       HubReconciles, HubReadsSavedQuery, HubExecutesQuery, HubTakesSubmission, HubRejects,
       NoAnswer, AnswerLost, history
  <2>4. brain' \in [status : {"CREATING", "READY", "FAILED"}, gen : Nat,
                    asked : SUBSET Exec, serves : SUBSET Exec]
    <3>1. CASE HubTakesTrigger(x)
      BY <3>1 DEF HubTakesTrigger, TypeOK
    <3>2. CASE ~HubTakesTrigger(x)
      <4>1. brain' = brain
        BY <1>3, <3>2 DEF HubAnswers, HubReadsBrain, HubTakesWork, HubReadsWork,
           HubReconciles, HubReadsSavedQuery, HubExecutesQuery, HubTakesSubmission, HubRejects,
           NoAnswer, AnswerLost, hub
      <4> QED
        BY <4>1 DEF TypeOK
    <3> QED
      BY <3>1, <3>2
  <2>5. work' \in [Exec -> [is : {"none", "running", "good", "bad"}, of : 1 .. Entities,
                            diff : SUBSET Diff]]
    <3>1. CASE HubTakesWork(x)
      BY <3>1 DEF HubTakesWork, TypeOK
    <3>2. CASE HubReconciles(x)
      <4>1. PICK skipped \in SUBSET (work[x].diff \cap {"rows"}) :
              work' = [work EXCEPT ![x].diff = skipped \cup (work[x].diff \cap {"schema"})]
        BY <3>2 DEF HubReconciles
      <4>2. skipped \cup (work[x].diff \cap {"schema"}) \in SUBSET Diff
        BY DEF Diff
      <4> QED
        BY <4>1, <4>2, WorkDiffType
    <3>3. CASE \E result \in {"good", "bad"} : HubExecutesQuery(x, result)
      <4>1. PICK result \in {"good", "bad"} : work' = [work EXCEPT ![x].is = result]
        BY <3>3 DEF HubExecutesQuery
      <4> QED
        BY <4>1, WorkIsType
    <3>4. CASE ~HubTakesWork(x) /\ ~HubReconciles(x)
               /\ ~\E result \in {"good", "bad"} : HubExecutesQuery(x, result)
      <4>1. work' = work
        BY <1>3, <3>4 DEF HubAnswers, HubReadsBrain, HubTakesTrigger, HubReadsWork,
           HubReadsSavedQuery, HubTakesSubmission, HubRejects,
           NoAnswer, AnswerLost, hub
      <4> QED
        BY <4>1 DEF TypeOK
    <3> QED
      BY <3>1, <3>2, <3>3, <3>4
  <2>6. took' \in [Exec -> Nat]
    <3>1. CASE HubTakesSubmission(x)
      BY <3>1 DEF HubTakesSubmission, TypeOK
    <3>2. CASE AnswerLost(x)
      <4>1. run[x].task \in {"visualize", "backup"} => took[x] = 1
        BY <3>2 DEF AnswerLost, Honest, HonestSubmission, Taken
      <4> QED
        BY <3>2, <4>1 DEF AnswerLost, TypeOK
    <3>3. CASE ~HubTakesSubmission(x) /\ ~AnswerLost(x)
      <4>1. took' = took
        BY <1>3, <3>3 DEF HubAnswers, HubReadsBrain, HubTakesTrigger, HubTakesWork, HubReadsWork,
           HubReconciles, HubReadsSavedQuery, HubExecutesQuery, HubRejects,
           NoAnswer, history
      <4> QED
        BY <4>1 DEF TypeOK
    <3> QED
      BY <3>1, <3>2, <3>3
  <2>7. checked' \in [Exec -> SUBSET (1 .. Entities)]
    <3>1. CASE HubReconciles(x)
      <4>1. checked' = [checked EXCEPT ![x] = @ \cup {work[x].of}] \/ checked' = checked
        BY <3>1 DEF HubReconciles
      <4>2. checked \in [Exec -> SUBSET (1 .. Entities)] /\ work[x].of \in 1 .. Entities
        BY DEF TypeOK
      <4>3. (checked[x] \cup {work[x].of}) \in SUBSET (1 .. Entities)
        BY <4>2
      <4> HIDE DEF TypeOK, IInv
      <4>4. [checked EXCEPT ![x] = checked[x] \cup {work[x].of}] \in [Exec -> SUBSET (1 .. Entities)]
        BY <4>2, <4>3, Zenon
      <4> QED
        BY <4>1, <4>2, <4>4, Zenon
    <3>2. CASE ~HubReconciles(x)
      <4>1. checked' = checked
        BY <1>3, <3>2 DEF HubAnswers, HubReadsBrain, HubTakesTrigger, HubTakesWork, HubReadsWork,
           HubReadsSavedQuery, HubExecutesQuery, HubTakesSubmission, HubRejects,
           NoAnswer, AnswerLost, history
      <4> QED
        BY <4>1 DEF TypeOK
    <3> QED
      BY <3>1, <3>2
  <2> QED
    BY <1>1, <2>1, <2>2, <2>3, <2>4, <2>5, <2>6, <2>7 DEF TypeOK, RunType, WireType
<1>4. ASSUME NEW x \in Exec, NEW result \in {"good", "bad"}, HubFinishesWork(x, result)
      PROVE  TypeOK'
  <2>1. work' \in [Exec -> [is : {"none", "running", "good", "bad"}, of : 1 .. Entities,
                            diff : SUBSET Diff]]
    <3>1. PICK found \in SUBSET Diff :
            work' = [work EXCEPT ![x] = [work[x] EXCEPT !.is = result, !.diff = found]]
      BY <1>4 DEF HubFinishesWork, TypeOK
    <3>2. work \in [Exec -> WorkType]
      BY DEF TypeOK, WorkType
    <3>3. [work[x] EXCEPT !.is = result, !.diff = found] \in WorkType
      BY <3>2 DEF WorkType
    <3>4. work' \in [Exec -> WorkType]
      BY <3>1, <3>2, <3>3
    <3> QED
      BY <3>4 DEF WorkType
  <2>2. checked' \in [Exec -> SUBSET (1 .. Entities)]
    <3>1. work[x].of \in 1 .. Entities /\ checked \in [Exec -> SUBSET (1 .. Entities)]
      BY DEF TypeOK
    <3>2. checked' = [checked EXCEPT ![x] = @ \cup {work[x].of}] \/ checked' = checked
      BY <1>4 DEF HubFinishesWork
    <3>3. (checked[x] \cup {work[x].of}) \in SUBSET (1 .. Entities)
      BY <3>1
    <3> HIDE DEF TypeOK
    <3>4. [checked EXCEPT ![x] = checked[x] \cup {work[x].of}] \in [Exec -> SUBSET (1 .. Entities)]
      BY <3>1, <3>3, Zenon
    <3> QED
      BY <3>1, <3>2, <3>4, Zenon
  <2> QED
    BY <1>4, <2>1, <2>2 DEF HubFinishesWork, TypeOK, row
<1>5. CASE RebuildStarts
  BY <1>5 DEF RebuildStarts, TypeOK, hub, row, history
<1>6. ASSUME NEW result \in {"READY", "FAILED"}, RebuildEnds(result) PROVE TypeOK'
  <2>1. brain' \in [status : {"CREATING", "READY", "FAILED"}, gen : Nat,
                    asked : SUBSET Exec, serves : SUBSET Exec]
    <3>1. PICK gen \in {brain.gen, brain.gen + 1} :
            brain' = [brain EXCEPT !.status = result, !.gen = gen, !.serves = {}]
      BY <1>6 DEF RebuildEnds
    <3>2. gen \in Nat
      BY DEF TypeOK
    <3> QED
      BY <1>6, <3>1, <3>2 DEF TypeOK
  <2>2. own' \in [Exec -> {"none", "READY", "FAILED"}] /\ shared' \in SUBSET Exec
    BY <1>6 DEF RebuildEnds, TypeOK
  <2> QED
    BY <1>6, <2>1, <2>2 DEF RebuildEnds, TypeOK, row
<1>7. CASE (\E to \in BOOLEAN : UserReads(to)) \/ UserSchedules \/ UserCommits
  <2>0. /\ user \in [at : {"none", "schedule", "commit"}, seen : BOOLEAN, to : BOOLEAN]
        /\ schedule \in [enabled : BOOLEAN, scheduled : BOOLEAN] /\ overtaken \in BOOLEAN
    BY DEF TypeOK
  <2>1. user' \in [at : {"none", "schedule", "commit"}, seen : BOOLEAN, to : BOOLEAN]
    <3>1. CASE \E to \in BOOLEAN : UserReads(to)
      BY <2>0, <3>1 DEF UserReads
    <3>2. CASE UserSchedules \/ UserCommits
      BY <2>0, <3>2 DEF UserSchedules, UserCommits
    <3> QED
      BY <1>7, <3>1, <3>2
  <2>2. schedule' \in [enabled : BOOLEAN, scheduled : BOOLEAN] /\ overtaken' \in BOOLEAN
    <3>1. CASE \E to \in BOOLEAN : UserReads(to)
      BY <2>0, <3>1 DEF UserReads
    <3>2. CASE UserSchedules
      BY <2>0, <3>2 DEF UserSchedules
    <3>3. CASE UserCommits
      <4>1. (IF user.seen # user.to THEN user.to ELSE schedule.enabled) \in BOOLEAN
        BY <2>0
      <4> QED
        BY <2>0, <3>3, <4>1 DEF UserCommits
    <3> QED
      BY <1>7, <3>1, <3>2, <3>3
  <2>3. UNCHANGED <<run, wire, hub, history>>
    BY <1>7 DEF UserReads, UserSchedules, UserCommits
  <2> QED
    BY <2>1, <2>2, <2>3 DEF TypeOK, hub, history
<1>8. CASE UNCHANGED vars
  BY <1>8 DEF vars, TypeOK, hub, row, history
<1> QED
  BY <1>2, <1>3, <1>4, <1>5, <1>6, <1>7, <1>8 DEF Next

(***************************************************************************)
(* A success is real                                                       *)
(***************************************************************************)

(* An execution nobody touches stays honest.                               *)
LEMMA HonestFrame ==
  ASSUME NEW y, Honest(y), run'[y] = run[y], wire'[y] = wire[y], work'[y] = work[y],
         took'[y] = took[y], checked'[y] = checked[y]
  PROVE  Honest(y)'
<1>1. HonestWork(y)'
  BY DEF Honest, HonestWork
<1>2. HonestCheck(y)'
  BY DEF Honest, HonestCheck
<1>3. HonestSubmission(y)'
  BY DEF Honest, HonestSubmission, Taken, Over
<1> QED
  BY <1>1, <1>2, <1>3 DEF Honest

(* The local effect of a request and of an end.                            *)
LEMMA RequestLocal ==
  ASSUME TypeOK, NEW x \in Exec, NEW r, Request(x, r)
  PROVE  run'[x] = r /\ wire'[x].is = "sent"
  BY DEF Request, TypeOK, Says

LEMMA StopLocal ==
  ASSUME TypeOK, NEW x \in Exec, NEW result, Stop(x, result)
  PROVE  /\ run'[x].stage = result /\ wire'[x].is = "quiet"
         /\ run'[x].task = run[x].task /\ run'[x].entity = run[x].entity
         /\ run'[x].ok = run[x].ok /\ run'[x].diff = run[x].diff
         /\ run'[x].saw = run[x].saw /\ run'[x].known = run[x].known
         /\ run'[x].gen = run[x].gen
<1>1. run \in [Exec -> RunType] /\ wire \in [Exec -> WireType]
  BY DEF TypeOK, RunType, WireType
<1>2. run'[x] = [run[x] EXCEPT !.stage = result] /\ wire'[x] = Says("quiet")
  BY <1>1 DEF Stop
<1> QED
  BY <1>1, <1>2 DEF RunType, Says

(* What the client does keeps its execution honest.                        *)
LEMMA HonestClient ==
  ASSUME IInv, NEW x \in Exec, Client(x),
         work'[x] = work[x], took'[x] = took[x], checked'[x] = checked[x]
  PROVE  Honest(x)'
<1>1. TypeOK /\ Honest(x) /\ run[x] \in RunType /\ wire[x] \in WireType
  BY DEF IInv, TypeOK, RunType, WireType
<1>2. ASSUME run[x].task = "brain", Moves(x) PROVE Honest(x)'
  BY <1>1, <1>2 DEF Moves, Honest, HonestWork, HonestCheck, HonestSubmission, Taken, Over, Worker
<1>3. Moves(x)
  BY <1>1, ClientMoves
<1>4. CASE BrainBefore(x) \/ BrainStarted(x) \/ BrainPolled(x)
  BY <1>2, <1>3, <1>4 DEF BrainBefore, BrainStarted, BrainPolled, Heard
<1>5. CASE AgentStarted(x)
  <2>1. run[x].task \in {"agent", "agent_async"} /\ run[x].stage = "trigger" /\ wire[x].is \in Answers
    BY <1>5 DEF AgentStarted, Heard
  <2>2. CASE Stop(x, "failed") \/ (run[x].task = "agent_async" /\ Stop(x, "success"))
    BY <1>1, <2>1, <2>2, StopLocal DEF Honest, HonestWork, HonestCheck, HonestSubmission, Taken, Over, Worker
  <2>3. CASE ~Failed(x) /\ Request(x, [run[x] EXCEPT !.stage = "poll"])
    <3>1. /\ run'[x].stage = "poll" /\ run'[x].task = run[x].task
          /\ run'[x].entity = run[x].entity /\ wire'[x].is = "sent"
      BY <1>1, <2>3, RequestLocal DEF RunType
    <3>2. wire[x].is = "accepted"
      BY <1>1, <2>1, <2>3 DEF Honest, HonestWork, Worker, Failed, Answers
    <3> QED
      BY <1>1, <2>1, <3>1, <3>2 DEF Honest, HonestWork, HonestCheck, HonestSubmission, Taken, Over, Worker
  <2> QED
    BY <1>5, <2>2, <2>3 DEF AgentStarted
<1>6. CASE AgentPolled(x)
  <2>1. run[x].task = "agent" /\ run[x].stage = "poll" /\ wire[x].is \in Answers
    BY <1>6 DEF AgentPolled, Heard
  <2>2. \/ Stop(x, "failed") \/ (wire[x].is = "good" /\ Stop(x, "success"))
        \/ Request(x, [run[x] EXCEPT !.polls = @ + 1])
    BY <1>6 DEF AgentPolled, Outcome, ReadAgain
  <2>3. CASE Stop(x, "failed") \/ (wire[x].is = "good" /\ Stop(x, "success"))
    BY <1>1, <2>1, <2>3, StopLocal DEF Honest, HonestWork, HonestCheck, HonestSubmission, Taken, Over, Worker
  <2>4. CASE Request(x, [run[x] EXCEPT !.polls = @ + 1])
    <3>1. /\ run'[x].stage = "poll" /\ run'[x].task = run[x].task
          /\ run'[x].entity = run[x].entity /\ wire'[x].is = "sent"
      BY <1>1, <2>1, <2>4, RequestLocal DEF RunType
    <3> QED
      BY <1>1, <2>1, <3>1 DEF Honest, HonestWork, HonestCheck, HonestSubmission, Taken, Over, Worker
  <2> QED
    BY <2>2, <2>3, <2>4
<1>7. ASSUME run[x].task \in {"validate", "reconcile"}, run[x].stage \notin Over,
             NEW good \in BOOLEAN, good => run[x].entity \in checked[x],
             NextEntity(x, good)
      PROVE  Honest(x)'
  <2>1. /\ run'[x].task = run[x].task
        /\ \/ /\ run'[x].stage = "trigger" /\ run'[x].entity = run[x].entity + 1
              /\ run'[x].ok = (run[x].ok /\ good) /\ wire'[x].is = "sent"
           \/ /\ run[x].entity = Entities
              /\ run'[x].stage = (IF run[x].ok /\ good THEN "success" ELSE "failed")
              /\ wire'[x].is = "quiet"
    BY <1>1, <1>7, NextEntityStep
  <2>2. run[x].entity \in 1 .. Entities /\ Entities \in Nat
    BY <1>1, EntitiesAssumption DEF RunType
  <2>3. run[x].ok /\ good => 1 .. run[x].entity \subseteq checked[x]
    <3>1. run[x].ok => 1 .. run[x].entity - 1 \subseteq checked[x]
      BY <1>1, <1>7 DEF Honest, HonestCheck
    <3> QED
      BY <1>7, <2>2, <3>1
  <2>4. HonestCheck(x)'
    <3>1. CASE run'[x].stage = "trigger" /\ run'[x].entity = run[x].entity + 1
               /\ run'[x].ok = (run[x].ok /\ good)
      <4>1. run'[x].entity - 1 = run[x].entity
        BY <2>2, <3>1
      <4>2. work'[x].is = "good" /\ work'[x].diff = {} => work'[x].of \in checked'[x]
        BY <1>1, <1>7 DEF Honest, HonestCheck
      <4> QED
        BY <2>3, <3>1, <4>1, <4>2 DEF HonestCheck
    <3>2. CASE run[x].entity = Entities
               /\ run'[x].stage = (IF run[x].ok /\ good THEN "success" ELSE "failed")
      <4>1. work'[x].is = "good" /\ work'[x].diff = {} => work'[x].of \in checked'[x]
        BY <1>1, <1>7 DEF Honest, HonestCheck
      <4> QED
        BY <2>3, <3>2, <4>1 DEF HonestCheck, Over
    <3> QED
      BY <2>1, <3>1, <3>2
  <2>5. HonestWork(x)' /\ HonestSubmission(x)'
    BY <1>1, <1>7, <2>1 DEF Honest, HonestWork, HonestSubmission, Worker
  <2> QED
    BY <2>4, <2>5 DEF Honest
<1>8. CASE ValidationStarted(x)
  <2>1. run[x].task \in {"validate", "reconcile"} /\ run[x].stage = "trigger" /\ wire[x].is \in Answers
    BY <1>8 DEF ValidationStarted, Heard
  <2>2. CASE NextEntity(x, FALSE)
    BY <1>7, <2>1, <2>2 DEF Over
  <2>3. CASE ~Failed(x) /\ Request(x, [run[x] EXCEPT !.stage = "poll"])
    <3>1. /\ run'[x].stage = "poll" /\ run'[x].task = run[x].task /\ run'[x].ok = run[x].ok
          /\ run'[x].entity = run[x].entity /\ wire'[x].is = "sent"
      BY <1>1, <2>3, RequestLocal DEF RunType
    <3>2. wire[x].is = "accepted"
      BY <1>1, <2>1, <2>3 DEF Honest, HonestWork, Worker, Failed, Answers
    <3> QED
      BY <1>1, <2>1, <3>1, <3>2 DEF Honest, HonestWork, HonestCheck, HonestSubmission, Taken, Over, Worker
  <2> QED
    BY <1>8, <2>2, <2>3 DEF ValidationStarted
<1>9. CASE ValidationPolled(x)
  <2>1. run[x].task \in {"validate", "reconcile"} /\ run[x].stage = "poll" /\ wire[x].is \in Answers
    BY <1>9 DEF ValidationPolled, Heard
  <2> DEFINE good == wire[x].is = "good" /\ wire[x].diff = {}
             r == [run[x] EXCEPT !.stage = "reconcile", !.diff = wire[x].diff]
  <2>2. \/ Request(x, [run[x] EXCEPT !.polls = @ + 1])
        \/ NextEntity(x, FALSE)
        \/ NextEntity(x, good)
        \/ wire[x].is = "good" /\ run[x].task = "reconcile" /\ Request(x, r)
    BY <1>9 DEF ValidationPolled, ReadAgain
  <2>3. CASE Request(x, [run[x] EXCEPT !.polls = @ + 1])
    <3>1. /\ run'[x].stage = "poll" /\ run'[x].task = run[x].task /\ run'[x].ok = run[x].ok
          /\ run'[x].entity = run[x].entity /\ wire'[x].is = "sent"
      BY <1>1, <2>1, <2>3, RequestLocal DEF RunType
    <3> QED
      BY <1>1, <2>1, <3>1 DEF Honest, HonestWork, HonestCheck, HonestSubmission, Taken, Over, Worker
  <2>4. CASE NextEntity(x, FALSE)
    BY <1>7, <2>1, <2>4 DEF Over
  <2>5. CASE NextEntity(x, good)
    <3>1. good => run[x].entity \in checked[x]
      BY <1>1, <2>1 DEF Honest, HonestWork, HonestCheck, Worker
    <3> QED
      BY <1>7, <2>1, <2>5, <3>1 DEF Over
  <2>6. CASE wire[x].is = "good" /\ run[x].task = "reconcile" /\ Request(x, r)
    <3>1. /\ run'[x].stage = "reconcile" /\ run'[x].task = run[x].task /\ run'[x].ok = run[x].ok
          /\ run'[x].entity = run[x].entity /\ wire'[x].is = "sent"
          /\ run'[x].diff = wire[x].diff
      <4>1. run'[x] = r /\ wire'[x].is = "sent"
        <5> HIDE DEF r
        <5> QED
          BY <1>1, <2>6, RequestLocal
      <4>2. /\ r.stage = "reconcile" /\ r.task = run[x].task /\ r.ok = run[x].ok
            /\ r.entity = run[x].entity /\ r.diff = wire[x].diff
        BY <1>1 DEF RunType
      <4> QED
        BY <4>1, <4>2
    <3> QED
      BY <1>1, <2>1, <2>6, <3>1 DEF Honest, HonestWork, HonestCheck, HonestSubmission, Taken, Over, Worker
  <2> QED
    BY <2>2, <2>3, <2>4, <2>5, <2>6
<1>10. CASE Reconciled(x)
  <2>1. run[x].task = "reconcile" /\ run[x].stage = "reconcile" /\ wire[x].is \in Answers
    BY <1>10 DEF Reconciled, Heard
  <2> DEFINE good == ~Failed(x) /\ wire[x].diff \cup (run[x].diff \cap {"schema"}) = {}
  <2>2. good => run[x].entity \in checked[x]
    <3> SUFFICES ASSUME good PROVE run[x].entity \in checked[x]
      OBVIOUS
    <3>1. wire[x].is = "accepted"
      BY <1>1, <2>1 DEF Honest, HonestWork, Worker, Failed, Answers
    <3>2. /\ work[x].is = "good" /\ work[x].of = run[x].entity
          /\ work[x].diff \cap {"schema"} = {} /\ work[x].diff \cap {"rows"} = {}
      BY <1>1, <2>1, <3>1 DEF Honest, HonestWork, HonestCheck, Worker
    <3>3. work[x].diff \subseteq Diff
      BY <1>1 DEF TypeOK
    <3>4. work[x].diff = {}
      BY <3>2, <3>3 DEF Diff
    <3> QED
      BY <1>1, <2>1, <3>2, <3>4 DEF Honest, HonestCheck
  <2>3. NextEntity(x, good)
    BY <1>10 DEF Reconciled
  <2>4. good \in BOOLEAN
    BY DEF Failed
  <2> HIDE DEF good
  <2> QED
    BY <1>7, <2>1, <2>2, <2>3, <2>4 DEF Over
<1>11. CASE SavedQueryRead(x)
  <2>1. run[x].task = "query" /\ run[x].stage = "saved" /\ wire[x].is \in Answers
    BY <1>11 DEF SavedQueryRead, Heard
  <2>2. CASE Stop(x, "failed")
    BY <1>1, <2>1, <2>2, StopLocal DEF Honest, HonestWork, HonestCheck, HonestSubmission, Taken, Over, Worker
  <2>3. CASE Request(x, [run[x] EXCEPT !.stage = "trigger"])
    <3>1. run'[x].stage = "trigger" /\ run'[x].task = run[x].task /\ wire'[x].is = "sent"
      BY <1>1, <2>3, RequestLocal DEF RunType
    <3> QED
      BY <1>1, <2>1, <3>1 DEF Honest, HonestWork, HonestCheck, HonestSubmission, Taken, Over, Worker
  <2> QED
    BY <1>11, <2>2, <2>3 DEF SavedQueryRead
<1>12. CASE QueryExecuted(x)
  <2>1. run[x].task = "query" /\ run[x].stage = "trigger" /\ wire[x].is \in Answers
    BY <1>12 DEF QueryExecuted, Heard
  <2>2. Stop(x, Outcome(wire[x].is = "good"))
    BY <1>12 DEF QueryExecuted
  <2> QED
    BY <1>1, <2>1, <2>2, StopLocal DEF Outcome, Honest, HonestWork, HonestCheck, HonestSubmission, Taken, Over, Worker
<1>13. ASSUME run[x].task \in {"visualize", "backup"}, run[x].stage = "trigger",
              wire[x].is \in Answers, Resubmit(x)
       PROVE  Honest(x)'
  <2>1. /\ run'[x].stage = "trigger" /\ run'[x].task = run[x].task
        /\ wire'[x].is = "sent" /\ wire[x].is = "error"
    BY <1>1, <1>13, RequestLocal DEF Resubmit, RunType, retryable
  <2> QED
    BY <1>1, <1>13, <2>1 DEF Honest, HonestWork, HonestCheck, HonestSubmission, Taken, Over, Worker
<1>14. ASSUME run[x].task \in {"visualize", "backup"}, run[x].stage = "trigger",
              wire[x].is \in Answers, NEW result, Stop(x, result),
              result \in {"success", "failed", "disable"},
              result = "success" <=> ~Failed(x), result = "disable" => wire[x].is = "gone"
       PROVE  Honest(x)'
  <2>1. /\ run'[x].stage = result /\ run'[x].task = run[x].task /\ wire'[x].is = "quiet"
    BY <1>1, <1>14, StopLocal
  <2>2. ~Failed(x) <=> wire[x].is \in {"accepted", "not_started"}
    BY <1>1, <1>14 DEF Failed, Honest, HonestSubmission, Taken, Answers
  <2> QED
    BY <1>1, <1>14, <2>1, <2>2 DEF Honest, HonestWork, HonestCheck, HonestSubmission, Taken, Over, Worker
<1>15. CASE Refreshed(x)
  <2>1. run[x].task = "visualize" /\ run[x].stage = "trigger" /\ wire[x].is \in Answers
    BY <1>15 DEF Refreshed, Heard
  <2>2. \/ Resubmit(x) \/ Stop(x, Outcome(~Failed(x)))
        \/ wire[x].is = "gone" /\ Stop(x, "disable")
    BY <1>15 DEF Refreshed
  <2> QED
    BY <1>13, <1>14, <2>1, <2>2 DEF Outcome, Failed
<1>16. CASE BackedUp(x)
  <2>1. run[x].task = "backup" /\ run[x].stage = "trigger" /\ wire[x].is \in Answers
    BY <1>16 DEF BackedUp, Heard
  <2>2. Resubmit(x) \/ Stop(x, Outcome(~Failed(x)))
    BY <1>16 DEF BackedUp
  <2> QED
    BY <1>13, <1>14, <2>1, <2>2 DEF Outcome
<1>17. CASE DisableSchedule(x)
  <2>1. run'[x] = [run[x] EXCEPT !.stage = "remove"] /\ wire'[x] = wire[x] /\ run[x].stage = "disable"
    BY <1>1, <1>17 DEF DisableSchedule, IInv, TypeOK
  <2>2. run'[x].stage = "remove" /\ run'[x].task = run[x].task
        /\ run'[x].ok = run[x].ok /\ run'[x].entity = run[x].entity
    BY <1>1, <2>1 DEF RunType
  <2> QED
    BY <1>1, <2>1, <2>2 DEF Honest, HonestWork, HonestCheck, HonestSubmission, Taken, Over, Worker
<1>18. CASE RemoveSchedule(x)
  <2>1. /\ run[x].stage = "remove" /\ run'[x].stage = "failed" /\ run'[x].task = run[x].task
        /\ wire'[x].is = "quiet"
    BY <1>1, <1>18, StopLocal DEF RemoveSchedule
  <2> QED
    BY <1>1, <2>1 DEF Honest, HonestWork, HonestCheck, HonestSubmission, Taken, Over, Worker
<1> QED
  BY <1>4, <1>5, <1>6, <1>8, <1>9, <1>10, <1>11, <1>12, <1>15, <1>16, <1>17, <1>18 DEF Client

(* Every action of an execution leaves the others alone.                   *)
LEMMA TouchesOne ==
  ASSUME IInv, NEW x \in Exec,
         Start(x) \/ Client(x) \/ HubAnswers(x) \/ AnswerLost(x)
           \/ \E result \in {"good", "bad"} : HubFinishesWork(x, result)
  PROVE  Only(x)
<1>0. TypeOK /\ Honest(x)
  BY DEF IInv
<1>1. \A y \in Exec \ {x} : run'[y] = run[y] /\ wire'[y] = wire[y]
  <2>1. CASE Start(x) \/ Client(x) \/ HubAnswers(x) \/ AnswerLost(x)
    <3>1. Moves(x)
      BY <1>0, <2>1, StartMoves, ClientMoves, HubMoves
    <3> QED
      BY <3>1 DEF Moves
  <2>2. CASE \E result \in {"good", "bad"} : HubFinishesWork(x, result)
    BY <2>2 DEF HubFinishesWork
  <2> QED
    BY <2>1, <2>2
<1>2. \A y \in Exec \ {x} : work'[y] = work[y]
  BY <1>0 DEF TypeOK, Start, Client, BrainBefore, BrainStarted, BrainPolled, AgentStarted,
     AgentPolled, ValidationStarted, ValidationPolled, Reconciled, SavedQueryRead,
     QueryExecuted, Refreshed, BackedUp, DisableSchedule, RemoveSchedule,
     HubAnswers, HubReadsBrain, HubTakesTrigger, HubTakesWork, HubReadsWork,
     HubReconciles, HubReadsSavedQuery, HubExecutesQuery, HubTakesSubmission, HubRejects,
     NoAnswer, AnswerLost, HubFinishesWork, hub
<1>3. \A y \in Exec \ {x} : took'[y] = took[y]
  <2>1. CASE HubTakesSubmission(x)
    BY <1>0, <2>1 DEF HubTakesSubmission, TypeOK
  <2>2. CASE AnswerLost(x)
    BY <1>0, <2>2 DEF AnswerLost, TypeOK
  <2>3. CASE ~HubTakesSubmission(x) /\ ~AnswerLost(x)
    <3>1. took' = took
      BY <2>3 DEF Start, Client, BrainBefore, BrainStarted, BrainPolled, AgentStarted,
         AgentPolled, ValidationStarted, ValidationPolled, Reconciled, SavedQueryRead,
         QueryExecuted, Refreshed, BackedUp, DisableSchedule, RemoveSchedule,
         HubAnswers, HubReadsBrain, HubTakesTrigger, HubTakesWork, HubReadsWork,
         HubReconciles, HubReadsSavedQuery, HubExecutesQuery, HubRejects,
         NoAnswer, HubFinishesWork, history
    <3> QED
      BY <3>1
  <2> QED
    BY <2>1, <2>2, <2>3
<1>4. \A y \in Exec \ {x} : checked'[y] = checked[y]
  <2>1. checked' = [checked EXCEPT ![x] = @ \cup {work[x].of}] \/ checked' = checked
    BY DEF Start, Client, BrainBefore, BrainStarted, BrainPolled, AgentStarted,
       AgentPolled, ValidationStarted, ValidationPolled, Reconciled, SavedQueryRead,
       QueryExecuted, Refreshed, BackedUp, DisableSchedule, RemoveSchedule,
       HubAnswers, HubReadsBrain, HubTakesTrigger, HubTakesWork, HubReadsWork,
       HubReconciles, HubReadsSavedQuery, HubExecutesQuery, HubTakesSubmission, HubRejects,
       NoAnswer, AnswerLost, HubFinishesWork, history
  <2> QED
    BY <1>0, <2>1 DEF TypeOK
<1> QED
  BY <1>1, <1>2, <1>3, <1>4 DEF Only

(* An answer is honest about the work CoreHub did.                         *)
LEMMA HonestHub ==
  ASSUME IInv, NEW x \in Exec, HubAnswers(x) \/ AnswerLost(x)
  PROVE  Honest(x)'
<1>1. TypeOK /\ Honest(x) /\ run[x] \in RunType /\ wire[x] \in WireType
  BY DEF IInv, TypeOK, RunType, WireType
<1>2. /\ work[x].is \in {"none", "running", "good", "bad"} /\ work[x].of \in 1 .. Entities
      /\ work[x].diff \in SUBSET Diff /\ brain.gen \in Nat
      /\ brain.status \in Answers /\ took[x] \in Nat
  BY <1>1 DEF TypeOK, Answers
<1>3. CASE HubReadsBrain(x)
  <2>1. [is |-> brain.status, gen |-> brain.gen, diff |-> {}] \in WireType
    BY <1>2 DEF WireType
  <2>2. run' = run /\ UNCHANGED <<work, took, checked>> /\ run[x].task = "brain"
    BY <1>1, <1>3 DEF HubReadsBrain, Reply, Asks, hub, history
  <2> QED
    BY <1>1, <2>2 DEF Honest, HonestWork, HonestCheck, HonestSubmission, Taken, Over, Worker
<1>4. CASE HubTakesTrigger(x)
  <2>1. run' = run /\ UNCHANGED <<work, took, checked>> /\ run[x].task = "brain"
    BY <1>1, <1>4 DEF HubTakesTrigger, Reply, Asks, history
  <2> QED
    BY <1>1, <2>1 DEF Honest, HonestWork, HonestCheck, HonestSubmission, Taken, Over, Worker
<1>5. CASE HubTakesWork(x)
  <2>1. run' = run /\ UNCHANGED <<took, checked>> /\ run[x].task \in Worker /\ run[x].stage = "trigger"
    BY <1>1, <1>5 DEF HubTakesWork, Reply, Asks, history
  <2>2. wire'[x].is = "accepted"
    BY <1>1, <1>5, ReplyStep, SaysType DEF HubTakesWork, Answers
  <2>3. work'[x].is = "running" /\ work'[x].of = run[x].entity
    BY <1>1, <1>5 DEF HubTakesWork, TypeOK
  <2> QED
    BY <1>1, <2>1, <2>2, <2>3
    DEF Honest, HonestWork, HonestCheck, HonestSubmission, Taken, Over, Worker
<1>6. CASE HubReadsWork(x)
  <2>1. /\ run' = run /\ UNCHANGED <<work, took, checked>>
        /\ run[x].task \in Worker /\ run[x].stage = "poll"
    BY <1>1, <1>6 DEF HubReadsWork, Reply, Asks, hub, history
  <2>2. work[x].is \in Answers
    BY <1>1, <1>2, <2>1 DEF Honest, HonestWork, Answers
  <2>3. [is |-> work[x].is, gen |-> 0, diff |-> work[x].diff] \in WireType
    BY <1>2, <2>2 DEF WireType
  <2>4. wire'[x].is = work[x].is /\ wire'[x].diff = work[x].diff
    BY <1>1, <1>6, <2>3, ReplyStep DEF HubReadsWork
  <2> QED
    BY <1>1, <2>1, <2>4 DEF Honest, HonestWork, HonestCheck, HonestSubmission, Taken, Over, Worker
<1>7. CASE HubReconciles(x)
  <2>1. /\ run' = run /\ took' = took
        /\ run[x].task = "reconcile" /\ run[x].stage = "reconcile" /\ wire[x].is = "sent"
    BY <1>1, <1>7 DEF HubReconciles, Reply, Asks
  <2>2. PICK skipped \in SUBSET (work[x].diff \cap {"rows"}) :
          LET rest == skipped \cup (work[x].diff \cap {"schema"})
          IN /\ work' = [work EXCEPT ![x].diff = rest]
             /\ checked' = IF rest = {} THEN [checked EXCEPT ![x] = @ \cup {work[x].of}]
                                        ELSE checked
             /\ Reply(x, [is |-> "accepted", gen |-> 0, diff |-> skipped])
    BY <1>7 DEF HubReconciles
  <2> DEFINE rest == skipped \cup (work[x].diff \cap {"schema"})
  <2>3. [is |-> "accepted", gen |-> 0, diff |-> skipped] \in WireType
    BY <1>2 DEF WireType, Answers
  <2>4. wire'[x].is = "accepted" /\ wire'[x].diff = skipped
    BY <1>1, <2>2, <2>3, ReplyStep
  <2>5. work'[x].is = work[x].is /\ work'[x].of = work[x].of /\ work'[x].diff = rest
    <3>1. work \in [Exec -> WorkType]
      BY <1>1 DEF TypeOK, WorkType
    <3>2. work' = [work EXCEPT ![x] = [work[x] EXCEPT !.diff = rest]]
      BY <2>2
    <3> QED
      BY <3>1, <3>2 DEF WorkType
  <2>6. /\ checked[x] \subseteq checked'[x]
        /\ rest = {} => work[x].of \in checked'[x]
    BY <1>1, <2>2 DEF TypeOK
  <2>7. work[x].diff \cap {"schema"} = rest \cap {"schema"} /\ skipped = rest \cap {"rows"}
    BY <1>2 DEF Diff
  <2> HIDE DEF rest
  <2>8. HonestCheck(x)'
    BY <1>1, <2>1, <2>4, <2>5, <2>6, <2>7 DEF Honest, HonestCheck, Over
  <2> QED
    BY <1>1, <2>1, <2>4, <2>5, <2>8 DEF Honest, HonestWork, HonestSubmission, Worker
<1>8. CASE HubReadsSavedQuery(x)
  <2>1. /\ run' = run /\ UNCHANGED <<work, took, checked>>
        /\ run[x].task = "query" /\ run[x].stage = "saved"
    BY <1>1, <1>8 DEF HubReadsSavedQuery, Reply, Asks, hub, history
  <2> QED
    BY <1>1, <2>1 DEF Honest, HonestWork, HonestCheck, HonestSubmission, Taken, Over, Worker
<1>9. ASSUME NEW result \in {"good", "bad"}, HubExecutesQuery(x, result) PROVE Honest(x)'
  <2>1. /\ run' = run /\ UNCHANGED <<took, checked>>
        /\ run[x].task = "query" /\ run[x].stage = "trigger"
    BY <1>1, <1>9 DEF HubExecutesQuery, Reply, Asks, history
  <2>2. wire'[x].is = result
    BY <1>1, <1>9, ReplyStep, SaysType DEF HubExecutesQuery, Answers
  <2>3. work'[x].is = result
    BY <1>1, <1>9 DEF HubExecutesQuery, TypeOK
  <2> QED
    BY <1>1, <2>1, <2>2, <2>3 DEF Honest, HonestWork, HonestCheck, HonestSubmission, Taken, Over, Worker
<1>10. CASE HubTakesSubmission(x)
  <2>1. /\ run' = run /\ UNCHANGED <<work, checked>> /\ wire[x].is = "sent"
        /\ run[x].task \in {"visualize", "backup"} /\ run[x].stage = "trigger"
    BY <1>1, <1>10 DEF HubTakesSubmission, Reply, Asks, hub
  <2>2. wire'[x].is \in Taken
    BY <1>1, <1>10, ReplyStep, SaysType DEF HubTakesSubmission, Answers, Taken
  <2>3. took'[x] = took[x] + 1
    BY <1>1, <1>10 DEF HubTakesSubmission, TypeOK
  <2> QED
    BY <1>1, <2>1, <2>2, <2>3 DEF Honest, HonestWork, HonestCheck, HonestSubmission, Taken, Over, Worker
<1>11. CASE HubRejects(x)
  <2>1. /\ run' = run /\ UNCHANGED <<work, took, checked>> /\ wire[x].is = "sent"
        /\ run[x].task \in {"visualize", "backup"} /\ run[x].stage = "trigger"
    BY <1>1, <1>11 DEF HubRejects, Reply, Asks, hub, history
  <2>2. wire'[x].is \in {"rejected", "gone"}
    BY <1>1, <1>11, ReplyStep, SaysType DEF HubRejects, Answers
  <2> QED
    BY <1>1, <2>1, <2>2 DEF Honest, HonestWork, HonestCheck, HonestSubmission, Taken, Over, Worker
<1>12. CASE NoAnswer(x)
  <2>1. run' = run /\ UNCHANGED <<work, took, checked>> /\ wire[x].is = "sent"
    BY <1>1, <1>12 DEF NoAnswer, Reply, hub, history
  <2>2. wire'[x].is = "error"
    BY <1>1, <1>12, ReplyStep, SaysType DEF NoAnswer, Answers
  <2> QED
    BY <1>1, <2>1, <2>2 DEF Honest, HonestWork, HonestCheck, HonestSubmission, Taken, Over, Worker
<1>13. CASE AnswerLost(x)
  <2>1. /\ run' = run /\ UNCHANGED <<work, checked>>
        /\ wire[x].is \in Taken
    BY <1>1, <1>13 DEF AnswerLost, Reply, hub, Taken
  <2>2. wire'[x].is = "error"
    BY <1>1, <1>13, ReplyStep, SaysType DEF AnswerLost, Answers
  <2>3. took'[x] = IF run[x].task \in {"visualize", "backup"} THEN took[x] - 1 ELSE took[x]
    BY <1>1, <1>13 DEF AnswerLost, TypeOK
  <2>4. HonestSubmission(x)'
    BY <1>1, <2>1, <2>2, <2>3 DEF Honest, HonestSubmission, Taken, Over
  <2> QED
    BY <1>1, <2>1, <2>2, <2>4 DEF Honest, HonestWork, HonestCheck, Worker, Over
<1> QED
  BY <1>3, <1>4, <1>5, <1>6, <1>7, <1>8, <1>9, <1>10, <1>11, <1>12, <1>13 DEF HubAnswers

(* The end of CoreHub's work for an execution contradicts nothing it said. *)
LEMMA HonestFinish ==
  ASSUME IInv, NEW x \in Exec, NEW result \in {"good", "bad"}, HubFinishesWork(x, result)
  PROVE  Honest(x)'
<1>1. TypeOK /\ Honest(x) /\ run[x] \in RunType /\ wire[x] \in WireType
  BY DEF IInv, TypeOK, RunType, WireType
<1>2. PICK found \in SUBSET Diff :
        /\ work' = [work EXCEPT ![x] = [work[x] EXCEPT !.is = result, !.diff = found]]
        /\ checked' = IF result = "good" /\ found = {}
                      THEN [checked EXCEPT ![x] = @ \cup {work[x].of}] ELSE checked
  BY DEF HubFinishesWork, TypeOK
<1>3. work'[x].is = result /\ work'[x].of = work[x].of /\ work'[x].diff = found
  <2>1. work \in [Exec -> WorkType]
    BY <1>1 DEF TypeOK, WorkType
  <2> QED
    BY <1>2, <2>1 DEF WorkType
<1>4. checked[x] \subseteq checked'[x] /\ (result = "good" /\ found = {} => work[x].of \in checked'[x])
  BY <1>1, <1>2 DEF TypeOK
<1>5. UNCHANGED <<run, wire, took>> /\ work[x].is = "running"
  BY DEF HubFinishesWork
<1> QED
  BY <1>1, <1>3, <1>4, <1>5 DEF Honest, HonestWork, HonestCheck, HonestSubmission, Taken, Over, Worker

(* What an execution reports stays true to CoreHub's work.                 *)
LEMMA HonestStep ==
  ASSUME IInv, [Next]_vars
  PROVE  \A y \in Exec : Honest(y)'
<1> USE DEF IInv
<1>1. ASSUME NEW x \in Exec, Only(x), Honest(x)' PROVE \A y \in Exec : Honest(y)'
  BY <1>1, HonestFrame DEF Only
<1>2. ASSUME NEW x \in Exec, Start(x) PROVE Honest(x)'
  <2>1. TypeOK /\ Honest(x) /\ run[x] \in RunType /\ wire[x] \in WireType
    BY DEF TypeOK, RunType, WireType
  <2>2. /\ run'[x].stage \in {"before", "saved", "trigger"} /\ run'[x].task = run[x].task
        /\ run'[x].stage = (IF run[x].task = "brain" THEN "before"
                            ELSE IF run[x].task = "query" THEN "saved" ELSE "trigger")
        /\ run'[x].ok = run[x].ok /\ run'[x].entity = run[x].entity /\ wire'[x].is = "sent"
    BY <1>2, <2>1, RequestLocal DEF Start, RunType
  <2>3. run[x].stage = "idle" /\ UNCHANGED <<work, took, checked>>
    BY <1>2 DEF Start, hub, history
  <2> QED
    BY <2>1, <2>2, <2>3 DEF Honest, HonestWork, HonestCheck, HonestSubmission, Taken, Over, Worker
<1>3. ASSUME NEW x \in Exec, Client(x) PROVE Honest(x)'
  <2>1. UNCHANGED <<work, took, checked>>
    BY <1>3 DEF Client, BrainBefore, BrainStarted, BrainPolled, AgentStarted,
       AgentPolled, ValidationStarted, ValidationPolled, Reconciled, SavedQueryRead,
       QueryExecuted, Refreshed, BackedUp, DisableSchedule, RemoveSchedule, hub, history
  <2> QED
    BY <1>3, <2>1, HonestClient
<1>4. CASE \E x \in Exec :
             Start(x) \/ Client(x) \/ HubAnswers(x) \/ AnswerLost(x)
               \/ \E result \in {"good", "bad"} : HubFinishesWork(x, result)
  <2>1. PICK x \in Exec :
             Start(x) \/ Client(x) \/ HubAnswers(x) \/ AnswerLost(x)
               \/ \E result \in {"good", "bad"} : HubFinishesWork(x, result)
    BY <1>4
  <2>2. Only(x)
    BY <2>1, TouchesOne
  <2>3. Honest(x)'
    BY <1>2, <1>3, <2>1, HonestHub, HonestFinish
  <2> QED
    BY <1>1, <2>2, <2>3
<1>5. CASE RebuildStarts \/ (\E result \in {"READY", "FAILED"} : RebuildEnds(result))
             \/ (\E to \in BOOLEAN : UserReads(to)) \/ UserSchedules \/ UserCommits
             \/ UNCHANGED vars
  <2>1. UNCHANGED <<run, wire, work, took, checked>>
    BY <1>5 DEF RebuildStarts, RebuildEnds, UserReads, UserSchedules, UserCommits, vars, hub, history
  <2> QED
    BY <2>1, HonestFrame
<1> QED
  BY <1>4, <1>5 DEF Next

(***************************************************************************)
(* A brain rebuild is the execution's own                                  *)
(***************************************************************************)

(* An execution nobody touches knows as much as before, as long as the     *)
(* brain is the same.                                                      *)
LEMMA BrainFrame ==
  ASSUME NEW y, FollowsBrain(y), run'[y] = run[y], wire'[y] = wire[y], UNCHANGED <<brain, own, shared>>
  PROVE  FollowsBrain(y)'
  BY DEF FollowsBrain, TriggeredOnce, KnowsBrain, Failed

(* The executions of other tasks have nothing to know.                     *)
LEMMA OtherTask ==
  ASSUME NEW y, FollowsBrain(y), run[y].task # "brain", run'[y].task = run[y].task,
         UNCHANGED <<brain, own, shared>>
  PROVE  FollowsBrain(y)'
  BY DEF FollowsBrain, TriggeredOnce, KnowsBrain

(* What the client does keeps what its execution knows.                    *)
LEMMA BrainClient ==
  ASSUME IInv, NEW x \in Exec, Start(x) \/ Client(x)
  PROVE  FollowsBrain(x)' /\ UNCHANGED <<brain, own, shared>>
<1>1. TypeOK /\ FollowsBrain(x) /\ run[x] \in RunType /\ wire[x] \in WireType
  BY DEF IInv, TypeOK, RunType, WireType
<1>2. UNCHANGED <<brain, own, shared>>
  BY DEF Start, Client, BrainBefore, BrainStarted, BrainPolled, AgentStarted,
     AgentPolled, ValidationStarted, ValidationPolled, Reconciled, SavedQueryRead,
     QueryExecuted, Refreshed, BackedUp, DisableSchedule, RemoveSchedule, hub, history
<1>3. run'[x].task = run[x].task
  BY <1>1, StartMoves, ClientMoves DEF Moves
<1>4. CASE Start(x)
  <2>1. CASE run[x].task # "brain"
    BY <1>1, <1>2, <1>3, <2>1, OtherTask
  <2>2. CASE run[x].task = "brain"
    <3>1. run'[x].stage = "before" /\ wire'[x].is = "sent" /\ run[x].stage = "idle"
      BY <1>1, <1>4, <2>2, RequestLocal DEF Start, RunType
    <3> QED
      BY <1>1, <1>2, <3>1 DEF FollowsBrain, TriggeredOnce, KnowsBrain, Answers
  <2> QED
    BY <1>2, <2>1, <2>2
<1>5. CASE BrainBefore(x)
  <2> DEFINE r == [run[x] EXCEPT !.stage = "trigger", !.known = ~Failed(x),
                                 !.gen = wire[x].gen, !.saw = wire[x].is = "CREATING"]
  <2>1. run[x].stage = "before" /\ wire[x].is \in Answers /\ Request(x, r)
    BY <1>5 DEF BrainBefore, Heard
  <2>2. run'[x] = r /\ wire'[x].is = "sent"
    <3> HIDE DEF r
    <3> QED
      BY <1>1, <2>1, RequestLocal
  <2>3. Failed(x) \in BOOLEAN
    BY DEF Failed
  <2>4. /\ r.stage = "trigger" /\ r.known = ~Failed(x) /\ r.gen = wire[x].gen
        /\ r.saw = (wire[x].is = "CREATING")
    BY <1>1, <2>3 DEF RunType
  <2>5. own[x] = "none" /\ x \notin brain.asked \cup brain.serves
    BY <1>1, <2>1 DEF FollowsBrain, TriggeredOnce
  <2>6. TriggeredOnce(x)'
    BY <1>2, <2>5 DEF TriggeredOnce
  <2>7. KnowsBrain(x)'
    <3>1. wire[x].is = "CREATING" => ~Failed(x)
      BY DEF Failed
    <3> HIDE DEF r
    <3> QED
      BY <1>1, <1>2, <1>3, <2>1, <2>2, <2>4, <2>5, <3>1 DEF FollowsBrain, KnowsBrain
  <2> QED
    BY <1>2, <2>6, <2>7 DEF FollowsBrain
<1>6. CASE BrainStarted(x)
  <2>1. run[x].task = "brain" /\ run[x].stage = "trigger" /\ wire[x].is \in Answers
    BY <1>6 DEF BrainStarted, Heard
  <2>2. CASE Stop(x, "failed")
    BY <1>1, <1>2, <2>1, <2>2, StopLocal DEF FollowsBrain, TriggeredOnce, KnowsBrain
  <2>3. CASE Request(x, [run[x] EXCEPT !.stage = "poll"])
    <3>1. /\ run'[x].stage = "poll" /\ run'[x].known = run[x].known
          /\ run'[x].gen = run[x].gen /\ run'[x].saw = run[x].saw /\ wire'[x].is = "sent"
      BY <1>1, <2>3, RequestLocal DEF RunType
    <3> QED
      BY <1>1, <1>2, <1>3, <2>1, <3>1 DEF FollowsBrain, TriggeredOnce, KnowsBrain
  <2> QED
    BY <1>2, <1>6, <2>2, <2>3 DEF BrainStarted
<1>7. CASE BrainPolled(x)
  <2> DEFINE saw == run[x].saw \/ wire[x].is = "CREATING"
             r == [run[x] EXCEPT !.saw = saw, !.polls = @ + 1]
  <2>1. run[x].task = "brain" /\ run[x].stage = "poll" /\ wire[x].is \in Answers
    BY <1>7 DEF BrainPolled, Heard
  <2>2. \/ Stop(x, "failed")
        \/ /\ wire[x].is = "READY" /\ Stop(x, "success")
           /\ saw \/ (run[x].known /\ wire[x].gen # run[x].gen)
        \/ Request(x, [[run[x] EXCEPT !.saw = saw] EXCEPT !.polls = @ + 1])
    BY <1>7 DEF BrainPolled, brain_rebuild_settled, Outcome, ReadAgain
  <2>3. CASE Stop(x, "failed")
    BY <1>1, <1>2, <2>1, <2>3, StopLocal DEF FollowsBrain, TriggeredOnce, KnowsBrain
  <2>4. CASE /\ wire[x].is = "READY" /\ Stop(x, "success")
             /\ saw \/ (run[x].known /\ wire[x].gen # run[x].gen)
    <3>1. x \notin shared => own[x] = "READY"
      BY <1>1, <2>1, <2>4 DEF FollowsBrain, KnowsBrain
    <3> QED
      BY <1>1, <1>2, <2>1, <2>4, <3>1, StopLocal DEF FollowsBrain, TriggeredOnce, KnowsBrain
  <2>5. CASE Request(x, [[run[x] EXCEPT !.saw = saw] EXCEPT !.polls = @ + 1])
    <3>1. saw \in BOOLEAN
      OBVIOUS
    <3> HIDE DEF saw
    <3>2. run'[x] = [[run[x] EXCEPT !.saw = saw] EXCEPT !.polls = @ + 1] /\ wire'[x].is = "sent"
      BY <1>1, <2>5, RequestLocal
    <3>3. /\ run'[x].stage = "poll" /\ run'[x].known = run[x].known
          /\ run'[x].gen = run[x].gen /\ run'[x].saw = saw
      BY <1>1, <2>1, <3>1, <3>2 DEF RunType
    <3> QED
      BY <1>1, <1>2, <1>3, <2>1, <3>2, <3>3 DEF saw, FollowsBrain, TriggeredOnce, KnowsBrain
  <2> QED
    BY <1>2, <2>2, <2>3, <2>4, <2>5
<1>8. CASE Client(x) /\ ~BrainBefore(x) /\ ~BrainStarted(x) /\ ~BrainPolled(x)
  <2>1. CASE run[x].task # "brain"
    BY <1>1, <1>2, <1>3, <2>1, OtherTask
  <2>2. CASE run[x].task = "brain"
    <3>1. DisableSchedule(x) \/ RemoveSchedule(x)
      BY <1>8, <2>2 DEF Client, AgentStarted,
         AgentPolled, ValidationStarted, ValidationPolled, Reconciled, SavedQueryRead,
         QueryExecuted, Refreshed, BackedUp, Heard
    <3>2. run[x].stage \in {"disable", "remove"} /\ run'[x].stage \in {"remove", "failed"}
      BY <1>1, <3>1, StopLocal DEF DisableSchedule, RemoveSchedule, TypeOK
    <3> QED
      BY <1>1, <1>2, <1>3, <3>2 DEF FollowsBrain, TriggeredOnce, KnowsBrain
  <2> QED
    BY <1>2, <2>1, <2>2
<1> QED
  BY <1>4, <1>5, <1>6, <1>7, <1>8

(* What CoreHub says of the brain is how it is, and a trigger is taken once. *)
LEMMA BrainHub ==
  ASSUME IInv, NEW x \in Exec, HubAnswers(x) \/ AnswerLost(x)
  PROVE  \A y \in Exec : FollowsBrain(y)'
<1>1. TypeOK /\ FollowsBrain(x) /\ run[x] \in RunType /\ wire[x] \in WireType
  BY DEF IInv, TypeOK, RunType, WireType
<1>2. UNCHANGED <<run, own, shared>> /\ Moves(x)
  <2>1. run' = run /\ Moves(x)
    BY <1>1, HubMoves DEF IInv
  <2>2. own' = own /\ shared' = shared
    BY DEF HubAnswers, HubReadsBrain, HubTakesTrigger, HubTakesWork, HubReadsWork,
       HubReconciles, HubReadsSavedQuery, HubExecutesQuery, HubTakesSubmission, HubRejects,
       NoAnswer, AnswerLost, history
  <2> QED
    BY <2>1, <2>2
<1>3. ASSUME brain' = brain, FollowsBrain(x)' PROVE \A y \in Exec : FollowsBrain(y)'
  BY <1>2, <1>3, BrainFrame DEF IInv, Moves
<1>4. CASE HubReadsBrain(x)
  <2>1. brain' = brain /\ wire[x].is = "sent" /\ run[x].stage \in {"before", "poll"}
    BY <1>4 DEF HubReadsBrain, Asks, hub
  <2>2. brain.status \in {"CREATING", "READY", "FAILED"} /\ brain.gen \in Nat
    BY <1>1 DEF TypeOK
  <2>3. [is |-> brain.status, gen |-> brain.gen, diff |-> {}] \in WireType
    BY <2>2 DEF WireType, Answers
  <2>4. wire'[x].is = brain.status /\ wire'[x].gen = brain.gen
    BY <1>1, <1>4, <2>3, ReplyStep DEF HubReadsBrain
  <2>5. TriggeredOnce(x)'
    BY <1>1, <1>2, <2>1 DEF FollowsBrain, TriggeredOnce
  <2>6. KnowsBrain(x)'
    <3>1. own[x] \in {"none", "READY", "FAILED"}
      BY <1>1 DEF TypeOK
    <3> QED
      BY <1>1, <1>2, <2>1, <2>2, <2>4, <3>1 DEF FollowsBrain, KnowsBrain
  <2> QED
    BY <1>3, <2>1, <2>5, <2>6 DEF FollowsBrain
<1>5. CASE HubTakesTrigger(x)
  <2>1. run[x].task = "brain" /\ run[x].stage = "trigger" /\ wire[x].is = "sent"
    BY <1>5 DEF HubTakesTrigger, Asks
  <2>2. wire'[x].is = "accepted"
    BY <1>1, <1>5, ReplyStep, SaysType DEF HubTakesTrigger, Answers
  <2>3. /\ brain'.status = brain.status /\ brain'.gen = brain.gen
        /\ brain'.asked \cup brain'.serves = (brain.asked \cup brain.serves) \cup {x}
    BY <1>1, <1>5 DEF HubTakesTrigger, TypeOK
  <2>4. own[x] = "none"
    BY <1>1, <2>1 DEF FollowsBrain, TriggeredOnce
  <2>5. FollowsBrain(x)'
    <3>1. ~(x \in brain'.asked /\ x \in brain'.serves)
      BY <1>1, <1>5, <2>1 DEF HubTakesTrigger, TypeOK, FollowsBrain, TriggeredOnce
    <3> QED
      BY <1>1, <1>2, <2>1, <2>2, <2>3, <2>4, <3>1 DEF FollowsBrain, TriggeredOnce, KnowsBrain
  <2>6. ASSUME NEW y \in Exec \ {x} PROVE FollowsBrain(y)'
    <3>1. FollowsBrain(y) /\ wire'[y] = wire[y]
      BY <1>2 DEF IInv, Moves
    <3>2. /\ y \in brain'.asked <=> y \in brain.asked
          /\ y \in brain'.serves <=> y \in brain.serves
      BY <1>1, <1>5 DEF HubTakesTrigger, TypeOK
    <3> QED
      BY <1>2, <2>3, <3>1, <3>2 DEF FollowsBrain, TriggeredOnce, KnowsBrain, Failed
  <2> QED
    BY <2>5, <2>6
<1>6. CASE ~HubReadsBrain(x) /\ ~HubTakesTrigger(x)
  <2>1. brain' = brain
    BY <1>6 DEF HubAnswers, HubTakesWork, HubReadsWork,
       HubReconciles, HubReadsSavedQuery, HubExecutesQuery, HubTakesSubmission, HubRejects,
       NoAnswer, AnswerLost, hub
  <2>2. CASE run[x].task # "brain"
    BY <1>1, <1>2, <1>3, <2>1, <2>2, OtherTask
  <2>3. CASE run[x].task = "brain"
    <3>1. NoAnswer(x) \/ AnswerLost(x)
      BY <1>6, <2>3 DEF HubAnswers, HubTakesWork, HubReadsWork,
         HubReconciles, HubReadsSavedQuery, HubExecutesQuery, HubTakesSubmission, HubRejects,
         Asks, Worker
    <3>2. wire'[x].is = "error"
      BY <1>1, <3>1, ReplyStep, SaysType DEF NoAnswer, AnswerLost, Answers
    <3>3. FollowsBrain(x)'
      BY <1>1, <1>2, <2>1, <3>2 DEF FollowsBrain, TriggeredOnce, KnowsBrain, Failed
    <3> QED
      BY <1>3, <2>1, <3>3
  <2> QED
    BY <2>2, <2>3
<1> QED
  BY <1>4, <1>5, <1>6

(* A rebuild that ends leaves those it served with its result, and marks   *)
(* those that wait for another.                                            *)
LEMMA BrainRebuilt ==
  ASSUME IInv, NEW y \in Exec, NEW result \in {"READY", "FAILED"}, RebuildEnds(result)
  PROVE  FollowsBrain(y)'
<1>1. TypeOK /\ FollowsBrain(y) /\ run[y] \in RunType /\ wire[y] \in WireType
  BY DEF IInv, TypeOK, RunType, WireType
<1>2. UNCHANGED <<run, wire>>
  BY DEF RebuildEnds
<1>3. brain'.status = result /\ brain'.asked = brain.asked /\ brain'.serves = {}
  BY <1>1 DEF RebuildEnds, TypeOK
<1>4. own'[y] = IF y \in brain.serves THEN result ELSE own[y]
  BY DEF RebuildEnds
<1>5. y \notin shared' => y \notin shared /\ (y \in brain.serves \/ ~Watches(y))
  BY DEF RebuildEnds
<1>6. own[y] \in {"none", "READY", "FAILED"}
  BY <1>1 DEF TypeOK
<1>7. y \in brain.asked => y \notin brain.serves
  BY <1>1 DEF FollowsBrain, TriggeredOnce
<1>8. TriggeredOnce(y)'
  BY <1>1, <1>2, <1>3, <1>4, <1>7 DEF FollowsBrain, TriggeredOnce
<1>9. KnowsBrain(y)'
  <2>1. CASE y \in brain.serves
    <3>1. own[y] = "none" /\ run[y].task = "brain" /\ run[y].stage \notin {"idle", "before"}
      BY <1>1, <2>1 DEF FollowsBrain, TriggeredOnce
    <3> QED
      BY <1>1, <1>2, <1>3, <1>4, <1>5, <2>1, <3>1 DEF FollowsBrain, KnowsBrain
  <2>2. CASE y \notin brain.serves
    BY <1>1, <1>2, <1>3, <1>4, <1>5, <2>2 DEF FollowsBrain, KnowsBrain, Watches, Heard
  <2> QED
    BY <2>1, <2>2
<1> QED
  BY <1>8, <1>9 DEF FollowsBrain

(* Every execution follows the brain.                                      *)
LEMMA BrainStep ==
  ASSUME IInv, [Next]_vars
  PROVE  \A y \in Exec : FollowsBrain(y)'
<1>1. CASE \E x \in Exec : Start(x) \/ Client(x)
  <2>1. PICK x \in Exec : Start(x) \/ Client(x)
    BY <1>1
  <2>2. Only(x) /\ FollowsBrain(x)' /\ UNCHANGED <<brain, own, shared>>
    BY <2>1, TouchesOne, BrainClient
  <2> QED
    BY <2>2, BrainFrame DEF Only, IInv
<1>2. CASE \E x \in Exec : HubAnswers(x) \/ AnswerLost(x)
  BY <1>2, BrainHub
<1>3. CASE (\E x \in Exec : \E result \in {"good", "bad"} : HubFinishesWork(x, result))
             \/ (\E to \in BOOLEAN : UserReads(to)) \/ UserSchedules \/ UserCommits
             \/ UNCHANGED vars
  <2>1. UNCHANGED <<run, wire, brain, own, shared>>
    BY <1>3 DEF HubFinishesWork, UserReads, UserSchedules, UserCommits, vars, hub, history
  <2> QED
    BY <2>1, BrainFrame DEF IInv
<1>4. CASE RebuildStarts
  <2>1. UNCHANGED <<run, wire, own, shared>>
    BY <1>4 DEF RebuildStarts, history
  <2>2. /\ brain'.status = "CREATING" /\ brain'.gen = brain.gen
        /\ brain'.serves = brain.asked /\ brain'.asked = {}
    BY <1>4 DEF RebuildStarts, IInv, TypeOK
  <2> QED
    BY <2>1, <2>2 DEF IInv, FollowsBrain, TriggeredOnce, KnowsBrain, Failed
<1>5. CASE \E result \in {"READY", "FAILED"} : RebuildEnds(result)
  BY <1>5, BrainRebuilt
<1> QED
  BY <1>1, <1>2, <1>3, <1>4, <1>5 DEF Next

(***************************************************************************)
(* The schedule of a visualization follows its row                         *)
(***************************************************************************)

(* Only a refresh that finds the visualization gone starts a disabling, and *)
(* only the two steps of a disabling change the row and APScheduler.        *)
LEMMA DisablesAlone ==
  ASSUME TypeOK, NEW x \in Exec, Start(x) \/ Client(x), ~DisableSchedule(x), ~RemoveSchedule(x)
  PROVE  /\ ~Disabling(x) /\ UNCHANGED <<schedule, user>>
         /\ \/ run'[x].stage \notin {"disable", "remove"} /\ overtaken' = overtaken
            \/ run'[x].stage = "disable" /\ overtaken' = (user.at # "none")
<1> DEFINE Clear == run'[x].stage \notin {"disable", "remove"}
<1>1. run[x] \in RunType
  BY DEF TypeOK, RunType
<1>2. UNCHANGED <<schedule, user>>
  BY DEF row, Start, Client, BrainBefore, BrainStarted, BrainPolled, AgentStarted,
     AgentPolled, ValidationStarted, ValidationPolled, Reconciled, SavedQueryRead,
     QueryExecuted, Refreshed, BackedUp
<1>3. run[x].stage \in {"idle", "before", "saved", "trigger", "poll", "reconcile"}
  BY DEF Start, Client, BrainBefore, BrainStarted, BrainPolled, AgentStarted,
     AgentPolled, ValidationStarted, ValidationPolled, Reconciled, SavedQueryRead,
     QueryExecuted, Refreshed, BackedUp, Heard
<1>4. ASSUME NEW r \in RunType, r.stage \notin {"disable", "remove"}, Request(x, r) PROVE Clear
  BY <1>4, RequestLocal
<1>5. ASSUME NEW result, result \notin {"disable", "remove"}, Stop(x, result) PROVE Clear
  BY <1>5, StopLocal
<1>6. ASSUME NEW stage \in {"before", "saved", "trigger", "poll"},
             Request(x, [run[x] EXCEPT !.stage = stage])
      PROVE  Clear
  BY <1>1, <1>6, RequestLocal DEF RunType
<1>7. ASSUME ReadAgain(x, run[x]) PROVE Clear
  BY <1>1, <1>3, <1>7, RequestLocal DEF ReadAgain, RunType
<1>8. ASSUME NEW good \in BOOLEAN, NextEntity(x, good) PROVE Clear
  BY <1>8, NextEntityStep
<1>9. \A good : Outcome(good) \notin {"disable", "remove"}
  BY DEF Outcome
<1> DEFINE Gone == Stop(x, "disable") /\ overtaken' = (user.at # "none")
<1>10. overtaken' = overtaken \/ Gone
  BY DEF row, Start, Client, BrainBefore, BrainStarted, BrainPolled, AgentStarted,
     AgentPolled, ValidationStarted, ValidationPolled, Reconciled, SavedQueryRead,
     QueryExecuted, Refreshed, BackedUp
<1>11. CASE Gone
  BY <1>2, <1>3, <1>11, StopLocal DEF Disabling
<1> HIDE DEF Gone
<1>12. ASSUME ~Gone PROVE Clear
  <2>1. CASE Start(x)
    <3>1. PICK stage \in {"before", "saved", "trigger"} : Request(x, [run[x] EXCEPT !.stage = stage])
      BY <2>1 DEF Start
    <3> QED
      BY <1>6, <3>1
  <2>2. CASE BrainBefore(x)
    <3> DEFINE r == [run[x] EXCEPT !.stage = "trigger", !.known = ~Failed(x),
                                   !.gen = wire[x].gen, !.saw = wire[x].is = "CREATING"]
    <3>1. r.stage = "trigger" /\ Request(x, r)
      BY <1>1, <2>2 DEF BrainBefore, RunType
    <3> HIDE DEF r
    <3> QED
      BY <3>1, RequestLocal
  <2>3. CASE BrainStarted(x) \/ AgentStarted(x)
    BY <1>5, <1>6, <2>3 DEF BrainStarted, AgentStarted
  <2>4. CASE BrainPolled(x)
    <3> DEFINE saw == run[x].saw \/ wire[x].is = "CREATING"
    <3>1. CASE Request(x, [[run[x] EXCEPT !.saw = saw] EXCEPT !.polls = @ + 1])
      <4>1. [[run[x] EXCEPT !.saw = saw] EXCEPT !.polls = @ + 1].stage = run[x].stage
        BY <1>1 DEF RunType
      <4> QED
        BY <1>3, <3>1, <4>1, RequestLocal
    <3> QED
      BY <1>5, <1>9, <2>4, <3>1 DEF BrainPolled, ReadAgain
  <2>5. CASE AgentPolled(x)
    BY <1>5, <1>7, <1>9, <2>5 DEF AgentPolled
  <2>6. CASE ValidationStarted(x)
    BY <1>6, <1>8, <2>6 DEF ValidationStarted
  <2>7. CASE ValidationPolled(x)
    <3> DEFINE r == [run[x] EXCEPT !.stage = "reconcile", !.diff = wire[x].diff]
    <3>1. CASE Request(x, r)
      <4>1. r.stage = "reconcile"
        BY <1>1 DEF RunType
      <4> HIDE DEF r
      <4> QED
        BY <3>1, <4>1, RequestLocal
    <3>2. PICK good \in BOOLEAN : ReadAgain(x, run[x]) \/ Request(x, r) \/ NextEntity(x, good)
      BY <2>7 DEF ValidationPolled
    <3> QED
      BY <1>7, <1>8, <3>1, <3>2
  <2>8. CASE Reconciled(x)
    <3>1. PICK good \in BOOLEAN : NextEntity(x, good)
      BY <2>8 DEF Reconciled, Failed
    <3> QED
      BY <1>8, <3>1
  <2>9. CASE SavedQueryRead(x) \/ QueryExecuted(x)
    BY <1>5, <1>6, <1>9, <2>9 DEF SavedQueryRead, QueryExecuted
  <2>10. CASE Refreshed(x) \/ BackedUp(x)
    <3>1. ASSUME Resubmit(x) PROVE Clear
      BY <1>1, <1>3, <3>1, RequestLocal DEF Resubmit, RunType
    <3> QED
      BY <1>5, <1>9, <1>12, <2>10, <3>1 DEF Refreshed, BackedUp, Gone
  <2> QED
    BY <2>1, <2>2, <2>3, <2>4, <2>5, <2>6, <2>7, <2>8, <2>9, <2>10 DEF Client
<1> QED
  BY <1>2, <1>3, <1>10, <1>11, <1>12 DEF Disabling

(* The executions that disable the job, after a step of one of them.       *)
LEMMA StageFrame ==
  ASSUME NEW x \in Exec, \A y \in Exec \ {x} : run'[y] = run[y]
  PROVE  \A y \in Exec \ {x} : /\ Disabling(y)' <=> Disabling(y)
                               /\ run'[y].stage = "disable" <=> run[y].stage = "disable"
  BY DEF Disabling

LEMMA RowStep ==
  ASSUME IInv, [Next]_vars
  PROVE  (UserKnowsRow /\ RowComesFirst)'
<1>1. TypeOK /\ UserKnowsRow /\ RowComesFirst
  BY DEF IInv
<1>2. ASSUME NEW x \in Exec, DisableSchedule(x) PROVE (UserKnowsRow /\ RowComesFirst)'
  <2>1. Disabling(x) /\ UNCHANGED <<user, overtaken>>
    BY <1>2 DEF DisableSchedule, Disabling
  <2>2. Disabling(x)' /\ ~schedule'.enabled
    BY <1>1, <1>2 DEF DisableSchedule, TypeOK, Disabling
  <2> QED
    BY <1>1, <2>1, <2>2 DEF UserKnowsRow, RowComesFirst
<1>3. ASSUME NEW x \in Exec, RemoveSchedule(x) PROVE (UserKnowsRow /\ RowComesFirst)'
  <2>1. run[x].stage = "remove" /\ Disabling(x) /\ UNCHANGED <<user, overtaken>>
    BY <1>3 DEF RemoveSchedule, Disabling
  <2>2. /\ schedule'.enabled = schedule.enabled /\ ~schedule'.scheduled
        /\ schedule.enabled \in BOOLEAN /\ schedule'.scheduled \in BOOLEAN
    BY <1>1, <1>3 DEF RemoveSchedule, TypeOK
  <2>3. \A y \in Exec \ {x} : /\ Disabling(y)' <=> Disabling(y)
                              /\ run'[y].stage = "disable" <=> run[y].stage = "disable"
    <3>1. \A y \in Exec \ {x} : run'[y] = run[y]
      BY <1>1, <1>3 DEF RemoveSchedule, Stop, TypeOK
    <3> QED
      BY <3>1, StageFrame
  <2>4. UserKnowsRow'
    BY <1>1, <2>1 DEF UserKnowsRow
  <2>5. RowComesFirst'
    <3> SUFFICES ASSUME ~overtaken', user'.at = "none"
                 PROVE  IF \E y \in Exec : Disabling(y)'
                        THEN ~schedule'.enabled \/ \E y \in Exec : run'[y].stage = "disable"
                        ELSE schedule'.enabled = schedule'.scheduled
      BY DEF RowComesFirst
    <3>1. CASE ~schedule.enabled
      BY <2>2, <3>1
    <3>2. CASE \E y \in Exec : run[y].stage = "disable"
      <4>1. PICK y \in Exec \ {x} : run[y].stage = "disable"
        BY <2>1, <3>2
      <4>2. run'[y].stage = "disable" /\ Disabling(y)'
        BY <2>3, <4>1 DEF Disabling
      <4> QED
        BY <4>2
    <3> QED
      BY <1>1, <2>1, <3>1, <3>2 DEF RowComesFirst
  <2> QED
    BY <2>4, <2>5
<1>4. ASSUME NEW x \in Exec, Start(x) \/ Client(x), ~DisableSchedule(x), ~RemoveSchedule(x)
      PROVE  (UserKnowsRow /\ RowComesFirst)'
  <2>1. /\ ~Disabling(x) /\ UNCHANGED <<schedule, user>>
        /\ \/ run'[x].stage \notin {"disable", "remove"} /\ overtaken' = overtaken
           \/ run'[x].stage = "disable" /\ overtaken' = (user.at # "none")
    BY <1>1, <1>4, DisablesAlone
  <2>2. \A y \in Exec \ {x} : /\ Disabling(y)' <=> Disabling(y)
                              /\ run'[y].stage = "disable" <=> run[y].stage = "disable"
    BY <1>4, TouchesOne, StageFrame DEF Only
  <2>3. CASE run'[x].stage \notin {"disable", "remove"} /\ overtaken' = overtaken
    <3>1. ~Disabling(x)' /\ run[x].stage # "disable" /\ run'[x].stage # "disable"
      BY <2>1, <2>3 DEF Disabling
    <3>2. UserKnowsRow'
      BY <1>1, <2>1, <2>2, <2>3, <3>1 DEF UserKnowsRow, Disabling
    <3>3. (\E y \in Exec : Disabling(y)') <=> (\E y \in Exec : Disabling(y))
      BY <2>1, <2>2, <3>1 DEF Disabling
    <3>4. (\E y \in Exec : run'[y].stage = "disable") <=> (\E y \in Exec : run[y].stage = "disable")
      BY <2>2, <3>1 DEF Disabling
    <3>5. RowComesFirst'
      BY <1>1, <2>1, <2>3, <3>3, <3>4 DEF RowComesFirst, Disabling
    <3> QED
      BY <3>2, <3>5
  <2>4. CASE run'[x].stage = "disable" /\ overtaken' = (user.at # "none")
    <3>1. Disabling(x)'
      BY <2>4 DEF Disabling
    <3> QED
      BY <2>1, <2>4, <3>1 DEF UserKnowsRow, RowComesFirst
  <2> QED
    BY <2>1, <2>3, <2>4
<1>5. ASSUME UNCHANGED <<run, row>> PROVE (UserKnowsRow /\ RowComesFirst)'
  BY <1>1, <1>5 DEF UserKnowsRow, RowComesFirst, Disabling, row
<1>6. ASSUME NEW x \in Exec, HubAnswers(x) \/ AnswerLost(x)
      PROVE  (UserKnowsRow /\ RowComesFirst)'
  <2>1. UNCHANGED <<run, row>>
    BY <1>6 DEF HubAnswers, HubReadsBrain, HubTakesTrigger, HubTakesWork, HubReadsWork,
       HubReconciles, HubReadsSavedQuery, HubExecutesQuery, HubTakesSubmission, HubRejects,
       NoAnswer, AnswerLost, Reply
  <2> QED
    BY <1>5, <2>1
<1>7. CASE (\E x \in Exec : \E result \in {"good", "bad"} : HubFinishesWork(x, result))
             \/ RebuildStarts \/ (\E result \in {"READY", "FAILED"} : RebuildEnds(result))
             \/ UNCHANGED vars
  BY <1>5, <1>7 DEF HubFinishesWork, RebuildStarts, RebuildEnds, vars
<1>8. ASSUME NEW to \in BOOLEAN, UserReads(to) PROVE (UserKnowsRow /\ RowComesFirst)'
  <2>1. /\ user'.at = "schedule" /\ user'.seen = schedule.enabled
        /\ overtaken' = (\E x \in Exec : Disabling(x)) /\ UNCHANGED <<run, schedule>>
    BY <1>8 DEF UserReads
  <2> QED
    BY <2>1 DEF UserKnowsRow, RowComesFirst, Disabling
<1>9. CASE UserSchedules
  <2>1. /\ user.at = "schedule" /\ user'.at = "commit" /\ user'.seen = user.seen
        /\ user'.to = user.to /\ schedule'.scheduled = user.to
        /\ schedule'.enabled = schedule.enabled /\ UNCHANGED <<run, overtaken>>
    BY <1>1, <1>9 DEF UserSchedules, TypeOK
  <2> QED
    BY <1>1, <2>1 DEF UserKnowsRow, RowComesFirst, Disabling
<1>10. CASE UserCommits
  <2>1. /\ user.at = "commit" /\ user'.at = "none" /\ schedule'.scheduled = schedule.scheduled
        /\ schedule'.enabled = (IF user.seen # user.to THEN user.to ELSE schedule.enabled)
        /\ UNCHANGED <<run, overtaken>>
    BY <1>1, <1>10 DEF UserCommits, TypeOK
  <2> QED
    BY <1>1, <2>1 DEF UserKnowsRow, RowComesFirst, Disabling
<1> QED
  BY <1>2, <1>3, <1>4, <1>6, <1>7, <1>8, <1>9, <1>10 DEF Next, Client

(***************************************************************************)
(* The theorems                                                            *)
(***************************************************************************)

LEMMA InitInvariant == Init => IInv
<1> SUFFICES ASSUME Init PROVE IInv
  OBVIOUS
<1>1. PICK tasks \in Together :
        run = [x \in Exec |-> [task |-> tasks[x], stage |-> "idle", polls |-> 0, posts |-> 0,
                               entity |-> 1, ok |-> TRUE, known |-> FALSE, gen |-> 0,
                               saw |-> FALSE, diff |-> {}]]
  BY DEF Init
<1>2. \A x \in Exec : tasks[x] \in Task \cup {"none"}
  BY TogetherAssumption
<1>3. 0 \in 0 .. MaxPolls /\ 0 \in 0 .. Retries /\ 1 \in 1 .. Entities
  BY BoundsAssumption, EntitiesAssumption
<1>4. run \in [Exec -> RunType]
  BY <1>1, <1>2, <1>3 DEF RunType, Stage
<1>5. TypeOK
  BY <1>3, <1>4 DEF Init, TypeOK, RunType, Says
<1>6. ASSUME NEW x \in Exec PROVE Honest(x) /\ FollowsBrain(x)
  <2>1. /\ run[x].stage = "idle" /\ run[x].entity = 1 /\ run[x].ok
        /\ wire[x].is = "quiet" /\ work[x].is = "none" /\ work[x].diff = {}
        /\ own[x] = "none" /\ took[x] = 0 /\ checked[x] = {}
    BY <1>1 DEF Init, Says
  <2>2. brain.asked = {} /\ brain.serves = {}
    BY DEF Init
  <2>3. 1 .. run[x].entity - 1 = {}
    BY <2>1
  <2>4. HonestWork(x) /\ HonestSubmission(x)
    BY <2>1 DEF HonestWork, HonestSubmission, Taken, Over
  <2>5. HonestCheck(x)
    BY <2>1, <2>3 DEF HonestCheck
  <2>6. FollowsBrain(x)
    BY <2>1, <2>2 DEF FollowsBrain, TriggeredOnce, KnowsBrain, Answers
  <2> QED
    BY <2>4, <2>5, <2>6 DEF Honest
<1>7. UserKnowsRow /\ RowComesFirst
  BY <1>1 DEF Init, UserKnowsRow, RowComesFirst, Disabling
<1> QED
  BY <1>5, <1>6, <1>7 DEF IInv

LEMMA NextInvariant == IInv /\ [Next]_vars => IInv'
  BY TypeStep, HonestStep, BrainStep, RowStep DEF IInv

LEMMA Invariant == Spec => []IInv
  BY InitInvariant, NextInvariant, PTL DEF Spec

(* Types: whatever CoreHub answers, and however often it does not, an      *)
(* execution stays within its polls, its retries and its entities.         *)
THEOREM TypeCorrect == Spec => []TypeOK
<1>1. IInv => TypeOK
  BY DEF IInv
<1> QED
  BY <1>1, Invariant, PTL

(* A success is recorded only for what CoreHub did, for every number of    *)
(* executions, entities, status reads and retries.                         *)
THEOREM SuccessTold == Spec => []SuccessIsReal
<1>1. IInv => SuccessIsReal
  <2> SUFFICES ASSUME IInv, NEW x \in Exec, run[x].stage = "success"
               PROVE  CASE run[x].task \in {"agent", "query"} -> work[x].is = "good"
                        [] run[x].task \in {"validate", "reconcile"} -> checked[x] = 1 .. Entities
                        [] run[x].task \in {"visualize", "backup"} -> took[x] > 0
                        [] OTHER -> TRUE
    BY DEF SuccessIsReal
  <2>1. Honest(x) /\ checked[x] \subseteq 1 .. Entities
    BY DEF IInv, TypeOK
  <2>2. CASE run[x].task \in {"agent", "query"}
    BY <2>1, <2>2 DEF Honest, HonestWork
  <2>3. CASE run[x].task \in {"validate", "reconcile"}
    BY <2>1, <2>3 DEF Honest, HonestCheck
  <2>4. CASE run[x].task \in {"visualize", "backup"}
    BY <2>1, <2>4 DEF Honest, HonestSubmission, Taken, Over
  <2> QED
    BY <2>2, <2>3, <2>4
<1> QED
  BY <1>1, Invariant, PTL

(* A brain rebuild is reported as the execution's own unless a rebuild that *)
(* did not serve it ended while it watched, for every number of executions  *)
(* that share the one status row.                                           *)
THEOREM OwnBuildReported == Spec => []BrainReportsOwnBuild
<1>1. IInv => BrainReportsOwnBuild
  BY DEF IInv, FollowsBrain, KnowsBrain, BrainReportsOwnBuild
<1> QED
  BY <1>1, Invariant, PTL

(* A refresh or a backup is accepted a second time only after a lost or    *)
(* empty answer, for every number of retries.                              *)
THEOREM SubmittedAtMostOnce == Spec => []SubmittedOnce
<1>1. ASSUME IInv, NEW x \in Exec PROVE took[x] <= 1
  <2>1. took[x] \in {0, 1}
    BY <1>1 DEF IInv, Honest, HonestSubmission
  <2> QED
    BY <2>1
<1>2. IInv => SubmittedOnce
  BY <1>1 DEF SubmittedOnce
<1> QED
  BY <1>2, Invariant, PTL

(* The job of a visualization follows its row between two calls, for every *)
(* number of refreshes that disable it at the same time and every sequence *)
(* of a user's toggles, unless the latest of them crossed a disabling.     *)
THEOREM ScheduleWithRow == Spec => []ScheduleFollowsRow
<1>1. IInv => ScheduleFollowsRow
  BY DEF IInv, RowComesFirst, ScheduleFollowsRow
<1> QED
  BY <1>1, Invariant, PTL

=============================================================================
