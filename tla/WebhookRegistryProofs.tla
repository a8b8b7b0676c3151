----------------------- MODULE WebhookRegistryProofs -----------------------
(***************************************************************************)
(* Theorems about WebhookRegistry, for every set of callers, events, flows *)
(* and webhooks of others and every bound: its types; that a list that was *)
(* read is not written back over a change, unless a GET may fail; and that *)
(* CoreHub follows the tables when calls stay off each other's webhooks.   *)
(***************************************************************************)
EXTENDS WebhookRegistry, SequenceTheorems, NaturalsInduction, WellFoundedInduction, TLAPS

(***************************************************************************)
(* The inductive invariant                                                 *)
(***************************************************************************)

Value == Values \cup {None}
BatchStep == [do : {"batch"}, remove : SUBSET Keys, add : SUBSET Keys, val : Value,
              wait : {Forever, Joined}]
CommitStep == [do : {"commit"}, keys : SUBSET Keys, val : Value,
               needs : {"job", "row", "nothing"}]
PlanStep == BatchStep \cup CommitStep \cup {InsertJob, DropJob}
WorkerType == [at : {"idle", "lock", "queued", "get", "put", "over"},
               remove : SUBSET Keys, add : SUBSET Keys, val : Value,
               tries : 0 .. MaxAttempts, seen : [Hooks -> Value]]

(* How many batches the steps p still start.                               *)
IsBatch(p, i) == i \in DOMAIN p /\ p[i].do = "batch"
NoneLeft(p) == \A i : ~IsBatch(p, i)
OneLeft(p) == \A i, j : IsBatch(p, i) /\ IsBatch(p, j) => i = j
TwoLeft(p) == \A i, j, k : IsBatch(p, i) /\ IsBatch(p, j) /\ IsBatch(p, k)
                              => i = j \/ j = k \/ i = k

Started(c, n) == worker[<<c, n>>].at # "idle"

(* A call has a thread for every batch it may still start.                 *)
Planned(c) ==
  /\ plan[c] = NotAsked \/ plan[c] \in Seq(PlanStep)
  /\ plan[c] = NotAsked => joins[c] = NoBatch /\ ~Started(c, 1)
  /\ Started(c, 2) => Started(c, 1)
  /\ TwoLeft(plan[c])
  /\ joins[c] = NoBatch => /\ Started(c, 1) => OneLeft(plan[c])
                           /\ Started(c, 2) => NoneLeft(plan[c])
  /\ joins[c] # NoBatch => /\ plan[c] # <<>> /\ IsBatch(plan[c], 1)
                           /\ Started(c, 1)
                           /\ Started(c, 2) => OneLeft(plan[c])
  /\ ~up => plan[c] \in {<<>>, NotAsked} /\ ~Started(c, 1)

(* Between its GET and its PUT a batch holds the lock.  One waits at most: *)
(* the lock refuses any other loop than that of the first that waited.     *)
OneInside ==
  /\ \A w \in Workers : worker[w].at \in {"get", "put"} <=> holder = w
  /\ \A w \in Workers : worker[w].at = "queued" => queue = <<w>>
  /\ queue # <<>> => boundTo # NoBatch /\ queue = <<boundTo>>
                      /\ worker[boundTo].at = "queued"
  /\ woken \subseteq {boundTo} /\ (woken # {} => queue # <<>> /\ holder = NoBatch)

(* What a batch has read is what CoreHub still has when it writes.         *)
ReadIsCurrent ==
  ~GetMayFail => \A w \in Workers : worker[w].at = "put" => worker[w].seen = hub

IInv ==
  /\ TypeOK /\ up \in BOOLEAN /\ plan \in [Callers -> Seq(PlanStep) \cup {NotAsked}]
  /\ \A c \in Callers : Planned(c)
  /\ OneInside /\ ReadIsCurrent

(***************************************************************************)
(* Helpers                                                                 *)
(***************************************************************************)

LEMMA LowestIs ==
  ASSUME NEW S \in SUBSET Nat, S # {}
  PROVE  Lowest(S) \in S /\ \A l \in S : Lowest(S) <= l
<1>1. IsWellFoundedOn(OpToRel(<, Nat), Nat)
  BY NatLessThanWellFounded
<1>2. PICK k \in S : \A l \in S : <<l, k>> \notin OpToRel(<, Nat)
  BY <1>1, WFMin
<1>3. \A l \in S : k <= l
  <2> SUFFICES ASSUME NEW l \in S PROVE k <= l
    OBVIOUS
  <2>1. k \in Nat /\ l \in Nat
    OBVIOUS
  <2>2. ~(l < k)
    BY <1>2, <2>1 DEF OpToRel
  <2> QED
    BY <2>1, <2>2
<1> QED
  BY <1>3 DEF Lowest

LEMMA WorkerFacts ==
  /\ NoBatch \notin Workers
  /\ \A c \in Callers, n \in {1, 2} : <<c, n>> \in Workers
  /\ \A w \in Workers : \E c \in Callers, n \in {1, 2} : w = <<c, n>>
  BY DEF NoBatch, Workers

LEMMA WorkerIs ==
  ASSUME TypeOK
  PROVE  worker \in [Workers -> WorkerType]
  BY DEF TypeOK, WorkerType, Value

LEMMA IdleIs == Idle \in WorkerType /\ Idle.at = "idle" /\ Idle.seen \in [Hooks -> Value]
  BY LimitsAssumption DEF Idle, WorkerType, Value

LEMMA StepFacts ==
  ASSUME NEW s \in PlanStep
  PROVE  /\ s.do \in {"batch", "commit", "insertJob", "dropJob"}
         /\ s.do = "batch" => s.remove \in SUBSET Keys /\ s.add \in SUBSET Keys /\ s.val \in Value
         /\ s.do = "commit" => s.keys \in SUBSET Keys /\ s.val \in Value
  BY DEF PlanStep, BatchStep, CommitStep, InsertJob, DropJob

LEMMA AskedOnce ==
  ASSUME NEW p \in Seq(PlanStep)
  PROVE  p # NotAsked
<1> SUFFICES ASSUME p = NotAsked PROVE FALSE
  OBVIOUS
<1>1. p[1].do = "request" /\ Len(p) = 1
  BY DEF NotAsked
<1>2. p[1] \in PlanStep
  BY <1>1, ElementOfSeq
<1> QED
  BY <1>1, <1>2, StepFacts

(* The next step of a call, and what is left after it.                     *)
LEMMA HeadTail ==
  ASSUME NEW p \in Seq(PlanStep), p # <<>>
  PROVE  /\ Head(p) = p[1] /\ p[1] \in PlanStep
         /\ Tail(p) \in Seq(PlanStep)
         /\ \A i : IsBatch(Tail(p), i) => i \in Nat /\ i >= 1 /\ IsBatch(p, i + 1)
         /\ NoneLeft(p) => NoneLeft(Tail(p))
         /\ OneLeft(p) => OneLeft(Tail(p))
         /\ TwoLeft(p) => TwoLeft(Tail(p))
         /\ IsBatch(p, 1) => (OneLeft(p) => NoneLeft(Tail(p))) /\ (TwoLeft(p) => OneLeft(Tail(p)))
<1>1. /\ Len(p) \in Nat \ {0} /\ Head(p) = p[1] /\ Head(p) \in PlanStep
      /\ Tail(p) \in Seq(PlanStep) /\ Len(Tail(p)) = Len(p) - 1
      /\ \A i \in 1 .. Len(Tail(p)) : Tail(p)[i] = p[i + 1]
      /\ DOMAIN p = 1 .. Len(p) /\ DOMAIN Tail(p) = 1 .. Len(Tail(p))
  BY EmptySeq, HeadTailProperties, LenProperties
<1>2. \A i : IsBatch(Tail(p), i) => i \in Nat /\ i >= 1 /\ IsBatch(p, i + 1)
  <2> SUFFICES ASSUME NEW i, IsBatch(Tail(p), i)
               PROVE  i \in Nat /\ i >= 1 /\ IsBatch(p, i + 1)
    OBVIOUS
  <2>1. i \in 1 .. Len(Tail(p))
    BY <1>1 DEF IsBatch
  <2>2. i \in Nat /\ i >= 1 /\ i + 1 \in 1 .. Len(p)
    BY <1>1, <2>1
  <2> QED
    BY <1>1, <2>1, <2>2 DEF IsBatch
<1>3. NoneLeft(p) => NoneLeft(Tail(p))
  BY <1>2 DEF NoneLeft
<1>4. OneLeft(p) => OneLeft(Tail(p))
  BY <1>2 DEF OneLeft
<1>5. TwoLeft(p) => TwoLeft(Tail(p))
  BY <1>2 DEF TwoLeft
<1>6. IsBatch(p, 1) => (OneLeft(p) => NoneLeft(Tail(p))) /\ (TwoLeft(p) => OneLeft(Tail(p)))
  <2>1. ASSUME IsBatch(p, 1), OneLeft(p) PROVE NoneLeft(Tail(p))
    BY <1>2, <2>1 DEF OneLeft, NoneLeft
  <2>2. ASSUME IsBatch(p, 1), TwoLeft(p) PROVE OneLeft(Tail(p))
    BY <1>2, <2>2 DEF OneLeft, TwoLeft
  <2> QED
    BY <2>1, <2>2
<1> QED
  BY <1>1, <1>2, <1>3, <1>4, <1>5, <1>6

(***************************************************************************)
(* Steps that leave parts of the invariant alone                           *)
(***************************************************************************)

(* The plans of the calls do not see how far a batch is once it runs.      *)
LEMMA PlansStay ==
  ASSUME \A c \in Callers : Planned(c), UNCHANGED <<plan, joins, up>>,
         \A v \in Workers : worker'[v].at = "idle" <=> worker[v].at = "idle"
  PROVE  \A c \in Callers : Planned(c)'
<1> SUFFICES ASSUME NEW c \in Callers PROVE Planned(c)'
  OBVIOUS
<1>1. Started(c, 1)' = Started(c, 1) /\ Started(c, 2)' = Started(c, 2)
  BY WorkerFacts DEF Started
<1> HIDE DEF Started
<1> QED
  BY <1>1 DEF Planned, TwoLeft, OneLeft, NoneLeft, IsBatch

(* One call moves on, the others stay.                                     *)
LEMMA OtherPlansStay ==
  ASSUME NEW c \in Callers, \A d \in Callers : Planned(d), up' = up,
         \A d \in Callers \ {c} : plan'[d] = plan[d] /\ joins'[d] = joins[d],
         \A d \in Callers \ {c}, n \in {1, 2} :
            worker'[<<d, n>>].at = "idle" <=> worker[<<d, n>>].at = "idle",
         Planned(c)'
  PROVE  \A d \in Callers : Planned(d)'
<1> SUFFICES ASSUME NEW d \in Callers \ {c} PROVE Planned(d)'
  OBVIOUS
<1>1. Started(d, 1)' = Started(d, 1) /\ Started(d, 2)' = Started(d, 2)
  BY DEF Started
<1> QED
  BY <1>1 DEF Planned, TwoLeft, OneLeft, NoneLeft, IsBatch

(* The batches and the lock stay, or a batch starts.                       *)
LEMMA LockStays ==
  ASSUME OneInside, UNCHANGED lock, UNCHANGED worker
  PROVE  OneInside'
  BY DEF OneInside, lock

LEMMA ReadStays ==
  ASSUME ReadIsCurrent, UNCHANGED <<worker, hub>>
  PROVE  ReadIsCurrent'
  BY DEF ReadIsCurrent

(***************************************************************************)
(* The steps of an API call                                                *)
(***************************************************************************)

Good(p) == p \in Seq(PlanStep) /\ TwoLeft(p)

LEMMA Shapes ==
  ASSUME NEW s \in PlanStep, NEW t \in PlanStep, NEW u \in PlanStep, NEW v \in PlanStep
  PROVE  /\ Good(<<s>>) /\ Good(<<s, t>>)
         /\ s.do # "batch" => Good(<<s, t, u>>)
         /\ t.do # "batch" /\ u.do # "batch" => Good(<<s, t, u, v>>)
<1>1. Good(<<s>>)
  BY DEF Good, TwoLeft, IsBatch
<1>2. Good(<<s, t>>)
  BY DEF Good, TwoLeft, IsBatch
<1>3. ASSUME s.do # "batch" PROVE Good(<<s, t, u>>)
  BY <1>3 DEF Good, TwoLeft, IsBatch
<1>4. ASSUME t.do # "batch", u.do # "batch" PROVE Good(<<s, t, u, v>>)
  BY <1>4 DEF Good, TwoLeft, IsBatch
<1> QED
  BY <1>1, <1>2, <1>3, <1>4

LEMMA Prepended ==
  ASSUME NEW P, NEW s \in P, NEW q \in Seq(P), NEW r \in Seq(P),
         Len(r) = Len(q) + 1, r[1] = s, \A i \in 1 .. Len(q) : r[i + 1] = q[i]
  PROVE  <<s>> \o q = r
<1> DEFINE t == <<s>> \o q
<1>1. <<s>> \in Seq(P) /\ Len(<<s>>) = 1 /\ <<s>>[1] = s
  OBVIOUS
<1>2. t \in Seq(P) /\ Len(t) = 1 + Len(q) /\ t[1] = s
      /\ \A i \in 1 .. Len(q) : t[i + 1] = q[i]
  BY <1>1, ConcatProperties
<1> HIDE DEF t
<1>3. \A i \in 1 .. Len(t) : t[i] = r[i]
  <2> SUFFICES ASSUME NEW i \in 1 .. Len(t) PROVE t[i] = r[i]
    OBVIOUS
  <2>1. CASE i = 1
    BY <1>2, <2>1
  <2>2. CASE i # 1
    <3>1. i - 1 \in 1 .. Len(q) /\ (i - 1) + 1 = i
      BY <1>2, <2>2, LenProperties
    <3> QED
      BY <1>2, <3>1
  <2> QED
    BY <2>1, <2>2
<1> QED
  BY <1>2, <1>3, SeqEqual, LenProperties DEF t

LEMMA Joined2 ==
  ASSUME NEW s \in PlanStep, NEW t \in PlanStep
  PROVE  <<s>> \o <<t>> = <<s, t>>
<1> DEFINE q == <<t>>
           r == <<s, t>>
<1>1. /\ q \in Seq(PlanStep) /\ r \in Seq(PlanStep) /\ Len(r) = Len(q) + 1 /\ r[1] = s
      /\ \A i \in 1 .. Len(q) : r[i + 1] = q[i]
  OBVIOUS
<1> HIDE DEF q, r
<1>2. <<s>> \o q = r
  BY <1>1, Prepended
<1> QED
  BY <1>2 DEF q, r

LEMMA Joined3 ==
  ASSUME NEW s \in PlanStep, NEW t \in PlanStep, NEW u \in PlanStep
  PROVE  <<s>> \o <<t, u>> = <<s, t, u>>
<1> DEFINE q == <<t, u>>
           r == <<s, t, u>>
<1>1. /\ q \in Seq(PlanStep) /\ r \in Seq(PlanStep) /\ Len(r) = Len(q) + 1 /\ r[1] = s
      /\ \A i \in 1 .. Len(q) : r[i + 1] = q[i]
  OBVIOUS
<1> HIDE DEF q, r
<1>2. <<s>> \o q = r
  BY <1>1, Prepended
<1> QED
  BY <1>2 DEF q, r

LEMMA Joined4 ==
  ASSUME NEW s \in PlanStep, NEW t \in PlanStep, NEW u \in PlanStep, NEW v \in PlanStep
  PROVE  <<s>> \o <<t, u, v>> = <<s, t, u, v>>
<1> DEFINE q == <<t, u, v>>
           r == <<s, t, u, v>>
<1>1. /\ q \in Seq(PlanStep) /\ r \in Seq(PlanStep) /\ Len(r) = Len(q) + 1 /\ r[1] = s
      /\ \A i \in 1 .. Len(q) : r[i + 1] = q[i]
  OBVIOUS
<1> HIDE DEF q, r
<1>2. <<s>> \o q = r
  BY <1>1, Prepended
<1> QED
  BY <1>2 DEF q, r

LEMMA StepsAre ==
  /\ InsertJob \in PlanStep /\ DropJob \in PlanStep
  /\ InsertJob.do # "batch" /\ DropJob.do # "batch"
  /\ \A keys \in SUBSET Keys, v \in Value, needs \in {"job", "row", "nothing"} :
        SetRows(keys, v, needs) \in PlanStep /\ SetRows(keys, v, needs).do # "batch"
  /\ \A keys \in SUBSET Keys, v \in Value, wait \in {Forever, Joined} :
        Register(keys, v, wait) \in PlanStep /\ Delete(keys, wait) \in PlanStep
<1>1. /\ InsertJob \in PlanStep /\ DropJob \in PlanStep
      /\ InsertJob.do # "batch" /\ DropJob.do # "batch"
  BY DEF PlanStep, InsertJob, DropJob
<1>2. ASSUME NEW keys \in SUBSET Keys, NEW v \in Value, NEW needs \in {"job", "row", "nothing"}
      PROVE  SetRows(keys, v, needs) \in PlanStep /\ SetRows(keys, v, needs).do # "batch"
  BY DEF PlanStep, CommitStep, SetRows
<1>3. ASSUME NEW keys \in SUBSET Keys, NEW v \in Value, NEW wait \in {Forever, Joined}
      PROVE  Register(keys, v, wait) \in PlanStep /\ Delete(keys, wait) \in PlanStep
  BY DEF PlanStep, BatchStep, Register, Delete, Value
<1> QED
  BY <1>1, <1>2, <1>3

LEMMA BeginStep ==
  ASSUME IInv, NEW c \in Callers, NEW kind, NEW steps, Good(steps),
         Begin(c, kind, steps), used' \subseteq Keys
  PROVE  IInv'
<1>1. /\ plan' = [plan EXCEPT ![c] = steps] /\ plan[c] = NotAsked /\ up
      /\ UNCHANGED <<job, rows, hub, up, joins, worker, crashes, undone>> /\ UNCHANGED lock
  BY DEF Begin
<1>2. TypeOK' /\ up' \in BOOLEAN
  BY <1>1 DEF IInv, TypeOK, lock
<1>5. plan' \in [Callers -> Seq(PlanStep) \cup {NotAsked}]
  BY <1>1 DEF IInv, Good
<1>3. Planned(c)'
  <2>1. joins[c] = NoBatch /\ ~Started(c, 1) /\ ~Started(c, 2)
    BY <1>1 DEF IInv, Planned
  <2>2. Started(c, 1)' = Started(c, 1) /\ Started(c, 2)' = Started(c, 2) /\ joins'[c] = joins[c]
    BY <1>1 DEF Started
  <2>3. plan'[c] = steps \/ plan'[c] = plan[c]
    BY <1>1
  <2>4. CASE plan'[c] = steps
    <3>1. steps # NotAsked
      BY AskedOnce DEF Good
    <3> QED
      BY <1>1, <2>1, <2>2, <2>4, <3>1 DEF Planned, Good, TwoLeft, IsBatch
  <2>5. CASE plan'[c] = plan[c]
    BY <1>1, <2>1, <2>2, <2>5 DEF IInv, Planned, TwoLeft, OneLeft, NoneLeft, IsBatch
  <2> QED
    BY <2>3, <2>4, <2>5
<1>4. \A d \in Callers : Planned(d)'
  <2>1. \A d \in Callers \ {c} : plan'[d] = plan[d] /\ joins'[d] = joins[d]
    BY <1>1
  <2> QED
    BY <1>1, <1>3, <2>1, OtherPlansStay DEF IInv
<1> QED
  BY <1>1, <1>2, <1>4, <1>5, LockStays, ReadStays DEF IInv

LEMMA JobRequests ==
  ASSUME IInv, NEW c \in Callers, NEW new \in SUBSET Events, NEW v \in Value,
         CreateJob(c, new, v) \/ UpdateJob(c, new, v) \/ DeleteJob(c)
  PROVE  IInv'
<1>0. Events \in SUBSET Keys /\ new \in SUBSET Keys /\ v \in Value /\ None \in Value
  BY DEF Keys, Value
<1>1. used \subseteq Keys
  BY DEF IInv, TypeOK
<1> DEFINE set == SetRows(new, v, "job")
           reg == Register(new, v, Joined)
           clear == SetRows(Events, None, "nothing")
           old == RowsOf(Events)
<1>2. /\ set \in PlanStep /\ set.do # "batch" /\ reg \in PlanStep
      /\ clear \in PlanStep /\ clear.do # "batch"
      /\ InsertJob \in PlanStep /\ DropJob \in PlanStep /\ InsertJob.do # "batch"
      /\ Delete(old, Joined) \in PlanStep /\ Delete(old, Forever) \in PlanStep
  <2>1. old \in SUBSET Keys
    BY <1>0 DEF RowsOf
  <2> QED
    BY <1>0, <2>1, StepsAre
<1>3. CASE CreateJob(c, new, v)
  <2>1. Good(<<InsertJob, set, reg>>)
    BY <1>2, Shapes
  <2>2. used' \subseteq Keys /\ Begin(c, "createJob", <<InsertJob, set, reg>>)
    BY <1>0, <1>1, <1>3 DEF CreateJob
  <2> QED
    BY <2>1, <2>2, BeginStep
<1>4. CASE UpdateJob(c, new, v)
  <2> DEFINE first == IF old = {} THEN <<>> ELSE <<Delete(old, Joined)>>
  <2>1. used' \subseteq Keys /\ Begin(c, "updateJob", first \o Replacement(new, v))
    BY <1>0, <1>1, <1>4 DEF UpdateJob
  <2>2. Good(first \o Replacement(new, v))
    <3>0. Replacement(new, v) = <<clear>> \o (IF new = {} THEN <<>> ELSE <<set, reg>>)
      BY DEF Replacement
    <3> DEFINE del == Delete(old, Joined)
    <3>1. Good(<<clear>>) /\ Good(<<clear, set, reg>>)
          /\ Good(<<del, clear>>) /\ Good(<<del, clear, set, reg>>)
      BY <1>2, Shapes
    <3>8. /\ set \in PlanStep /\ reg \in PlanStep /\ clear \in PlanStep /\ del \in PlanStep
           /\ <<clear>> \in Seq(PlanStep) /\ <<clear, set, reg>> \in Seq(PlanStep)
      BY <1>2
    <3> HIDE DEF set, reg, clear, del
    <3>2. /\ <<clear>> \o <<>> = <<clear>> /\ <<clear>> \o <<set, reg>> = <<clear, set, reg>>
          /\ <<>> \o <<clear>> = <<clear>> /\ <<>> \o <<clear, set, reg>> = <<clear, set, reg>>
          /\ <<del>> \o <<clear>> = <<del, clear>>
          /\ <<del>> \o <<clear, set, reg>> = <<del, clear, set, reg>>
      BY <3>8, ConcatEmptySeq, Joined2, Joined3, Joined4
    <3>3. first = IF old = {} THEN <<>> ELSE <<del>>
      BY DEF del
    <3> HIDE DEF first, old
    <3>4. CASE old = {} /\ new = {}
      BY <3>0, <3>1, <3>2, <3>3, <3>4
    <3>5. CASE old = {} /\ new # {}
      BY <3>0, <3>1, <3>2, <3>3, <3>5
    <3>6. CASE old # {} /\ new = {}
      BY <3>0, <3>1, <3>2, <3>3, <3>6
    <3>7. CASE old # {} /\ new # {}
      BY <3>0, <3>1, <3>2, <3>3, <3>7
    <3> QED
      BY <3>4, <3>5, <3>6, <3>7
  <2> QED
    BY <2>1, <2>2, BeginStep
<1>5. CASE DeleteJob(c)
  <2> DEFINE del == Delete(old, Forever)
             first == IF old = {} THEN <<>> ELSE <<del>>
  <2>1. used' \subseteq Keys /\ Begin(c, "deleteJob", first \o <<DropJob>>)
    BY <1>1, <1>5 DEF DeleteJob
  <2>2. Good(first \o <<DropJob>>)
    <3>1. Good(<<DropJob>>) /\ Good(<<del, DropJob>>)
      BY <1>2, Shapes
    <3>0. del \in PlanStep /\ DropJob \in PlanStep /\ <<DropJob>> \in Seq(PlanStep)
      BY <1>2
    <3>2. <<>> \o <<DropJob>> = <<DropJob>> /\ <<del>> \o <<DropJob>> = <<del, DropJob>>
      BY <3>0, ConcatEmptySeq, Joined2
    <3>5. first = IF old = {} THEN <<>> ELSE <<del>>
      OBVIOUS
    <3> HIDE DEF first, old, del
    <3>3. CASE old = {}
      BY <3>5, <3>1, <3>2, <3>3
    <3>4. CASE old # {}
      BY <3>5, <3>1, <3>2, <3>4
    <3> QED
      BY <3>3, <3>4
  <2> QED
    BY <2>1, <2>2, BeginStep
<1> QED
  BY <1>3, <1>4, <1>5

LEMMA FlowRequests ==
  ASSUME IInv, NEW c \in Callers, NEW k \in Flows, NEW v \in Value,
         CreateFlow(c, k, v) \/ UpdateFlow(c, k, v) \/ DeleteFlow(c, k)
  PROVE  IInv'
<1>0. {k} \in SUBSET Keys /\ v \in Value /\ None \in Value
  BY DEF Keys, Value
<1>1. used \subseteq Keys
  BY DEF IInv, TypeOK
<1> DEFINE set(w, needs) == SetRows({k}, w, needs)
           reg == Register({k}, v, Forever)
           del == Delete({k}, Forever)
<1>2. /\ set(v, "nothing") \in PlanStep /\ set(v, "row") \in PlanStep
      /\ set(None, "nothing") \in PlanStep
      /\ set(v, "row").do # "batch" /\ reg \in PlanStep /\ del \in PlanStep
  BY <1>0, StepsAre
<1>3. CASE CreateFlow(c, k, v)
  <2>1. Good(<<set(v, "nothing"), reg>>)
    BY <1>2, Shapes
  <2>2. used' \subseteq Keys /\ Begin(c, "createFlow", <<set(v, "nothing"), reg>>)
    BY <1>0, <1>1, <1>3 DEF CreateFlow
  <2> QED
    BY <2>1, <2>2, BeginStep
<1>4. CASE UpdateFlow(c, k, v)
  <2>1. Good(<<set(v, "row"), del, reg>>)
    BY <1>2, Shapes
  <2>2. used' \subseteq Keys /\ Begin(c, "updateFlow", <<set(v, "row"), del, reg>>)
    BY <1>1, <1>4 DEF UpdateFlow
  <2> QED
    BY <2>1, <2>2, BeginStep
<1>5. CASE DeleteFlow(c, k)
  <2>1. Good(<<del, set(None, "nothing")>>)
    BY <1>2, Shapes
  <2>2. used' \subseteq Keys /\ Begin(c, "deleteFlow", <<del, set(None, "nothing")>>)
    BY <1>1, <1>5 DEF DeleteFlow
  <2> QED
    BY <2>1, <2>2, BeginStep
<1> QED
  BY <1>3, <1>4, <1>5

(* What a call that has begun and waits for no batch does next.            *)
LEMMA NextStep ==
  ASSUME IInv, NEW c \in Callers, NEW what, NextIs(c, what)
  PROVE  /\ joins[c] = NoBatch /\ plan[c] \in Seq(PlanStep) /\ plan[c] # <<>>
         /\ plan[c] # NotAsked /\ Head(plan[c]) = plan[c][1] /\ plan[c][1] \in PlanStep
         /\ plan[c][1].do = what /\ up
         /\ Tail(plan[c]) \in Seq(PlanStep) /\ Tail(plan[c]) # NotAsked
<1>1. joins[c] = NoBatch /\ plan[c] # <<>> /\ plan[c] # NotAsked /\ Head(plan[c]).do = what
  BY DEF NextIs
<1>2. plan[c] \in Seq(PlanStep) /\ up
  BY <1>1 DEF IInv, Planned
<1> QED
  BY <1>1, <1>2, HeadTail, AskedOnce

(* The plan of a call gets shorter, or the call is over.                   *)
LEMMA CallMovesOn ==
  ASSUME IInv, NEW c \in Callers, plan[c] \in Seq(PlanStep), plan[c] # <<>>,
         plan[c] # NotAsked, up, UNCHANGED <<up, worker>>,
         plan' = [plan EXCEPT ![c] = Tail(plan[c])] \/ plan' = [plan EXCEPT ![c] = <<>>],
         \A d \in Callers \ {c} : joins'[d] = joins[d], joins'[c] = NoBatch
  PROVE  /\ \A d \in Callers : Planned(d)'
         /\ plan' \in [Callers -> Seq(PlanStep) \cup {NotAsked}]
<1>1. Planned(c)
  BY DEF IInv
<1>2. Started(c, 1)' = Started(c, 1) /\ Started(c, 2)' = Started(c, 2)
  BY DEF Started
<1> DEFINE p == plan'[c]
<1>4. /\ Tail(plan[c]) \in Seq(PlanStep) /\ Tail(plan[c]) # NotAsked /\ <<>> # NotAsked
      /\ NoneLeft(plan[c]) => NoneLeft(Tail(plan[c]))
      /\ OneLeft(plan[c]) => OneLeft(Tail(plan[c]))
      /\ TwoLeft(plan[c]) => TwoLeft(Tail(plan[c]))
      /\ IsBatch(plan[c], 1) => /\ OneLeft(plan[c]) => NoneLeft(Tail(plan[c]))
                                /\ TwoLeft(plan[c]) => OneLeft(Tail(plan[c]))
      /\ NoneLeft(<<>>) /\ OneLeft(<<>>) /\ TwoLeft(<<>>)
  <2>1. \A i : ~IsBatch(<<>>, i)
    BY DEF IsBatch
  <2>2. NoneLeft(<<>>) /\ OneLeft(<<>>) /\ TwoLeft(<<>>)
    BY <2>1 DEF NoneLeft, OneLeft, TwoLeft
  <2>3. <<>> # NotAsked
    BY DEF NotAsked
  <2> QED
    BY <2>2, <2>3, HeadTail, AskedOnce
<1>5. p = Tail(plan[c]) \/ p = <<>>
  BY DEF IInv
<1>3. plan' \in [Callers -> Seq(PlanStep) \cup {NotAsked}]
  <2>1. <<>> \in Seq(PlanStep)
    OBVIOUS
  <2> DEFINE PlanType == Seq(PlanStep) \cup {NotAsked}
  <2>2. plan \in [Callers -> PlanType] /\ Tail(plan[c]) \in PlanType /\ <<>> \in PlanType
    BY <1>4, <2>1 DEF IInv
  <2> HIDE DEF PlanType
  <2>3. plan' \in [Callers -> PlanType]
    BY <2>2
  <2> QED
    BY <2>3 DEF PlanType
<1>8. ASSUME p \in Seq(PlanStep), p # NotAsked, TwoLeft(p), Started(c, 2) => Started(c, 1),
             Started(c, 1) => OneLeft(p), Started(c, 2) => NoneLeft(p)
      PROVE  Planned(c)'
  <2>1. up' /\ joins'[c] = NoBatch
    OBVIOUS
  <2>2. /\ TwoLeft(plan[c])' = TwoLeft(p) /\ OneLeft(plan[c])' = OneLeft(p)
        /\ NoneLeft(plan[c])' = NoneLeft(p)
    BY DEF TwoLeft, OneLeft, NoneLeft, IsBatch
  <2> HIDE DEF TwoLeft, OneLeft, NoneLeft
  <2> QED
    BY <1>2, <1>8, <2>1, <2>2 DEF Planned
<1>6. Planned(c)'
  <2>1. CASE p = Tail(plan[c])
    <3>1. TwoLeft(p) /\ p \in Seq(PlanStep) /\ p # NotAsked
      BY <1>1, <1>4, <2>1 DEF Planned
    <3>2. Started(c, 1) => OneLeft(p)
      BY <1>1, <1>4, <2>1 DEF Planned
    <3>3. Started(c, 2) => NoneLeft(p)
      BY <1>1, <1>4, <2>1 DEF Planned
    <3>4. Started(c, 2) => Started(c, 1)
      BY <1>1 DEF Planned
    <3> HIDE DEF p
    <3> QED
      BY <1>2, <1>8, <3>1, <3>2, <3>3, <3>4
  <2>2. CASE p = <<>>
    <3>0. <<>> \in Seq(PlanStep)
      OBVIOUS
    <3>1. TwoLeft(p) /\ OneLeft(p) /\ NoneLeft(p) /\ p \in Seq(PlanStep) /\ p # NotAsked
      BY <1>4, <2>2, <3>0
    <3>4. Started(c, 2) => Started(c, 1)
      BY <1>1 DEF Planned
    <3> HIDE DEF p
    <3>2. Started(c, 1) => OneLeft(p)
      BY <3>1
    <3>3. Started(c, 2) => NoneLeft(p)
      BY <3>1
    <3> QED
      BY <1>8, <3>1, <3>2, <3>3, <3>4
  <2> QED
    BY <1>5, <2>1, <2>2
<1>7. \A d \in Callers \ {c} : plan'[d] = plan[d] /\ joins'[d] = joins[d]
  BY DEF IInv
<1> QED
  BY <1>3, <1>6, <1>7, OtherPlansStay DEF IInv

LEMMA Commits ==
  ASSUME IInv, NEW c \in Callers, CommitRows(c) \/ CommitJob(c)
  PROVE  IInv'
<1>1. /\ UNCHANGED <<used, hub, up, joins, worker, crashes, undone>> /\ UNCHANGED lock
      /\ joins[c] = NoBatch
  BY DEF CommitRows, CommitJob, NextIs
<1>2. \E what : NextIs(c, what)
  BY DEF CommitRows, CommitJob
<1>3. plan' = [plan EXCEPT ![c] = Tail(plan[c])] \/ plan' = [plan EXCEPT ![c] = <<>>]
  BY DEF CommitRows, CommitJob
<1>4. job' \in {"new", "live", "deleted"} /\ rows' \in [Keys -> Value]
  <2>0. rows \in [Keys -> Value] /\ job \in {"new", "live", "deleted"} /\ None \in Value
    BY DEF IInv, TypeOK, Value
  <2>1. CASE CommitRows(c)
    <3>1. /\ NextIs(c, "commit") /\ job' = job
          /\ \/ rows' = rows
             \/ rows' = [k \in Keys |-> IF k \in Head(plan[c]).keys THEN Head(plan[c]).val
                                        ELSE rows[k]]
      BY <2>1 DEF CommitRows
    <3>2. Head(plan[c]).val \in Value
      BY <3>1, NextStep, StepFacts
    <3> QED
      BY <2>0, <3>1, <3>2
  <2>2. CASE CommitJob(c)
    BY <2>0, <2>2 DEF CommitJob
  <2> QED
    BY <2>1, <2>2
<1>5. TypeOK'
  BY <1>1, <1>4 DEF IInv, TypeOK, Value, lock
<1>6. /\ \A d \in Callers : Planned(d)'
      /\ plan' \in [Callers -> Seq(PlanStep) \cup {NotAsked}]
  BY <1>1, <1>2, <1>3, NextStep, CallMovesOn
<1> QED
  BY <1>1, <1>5, <1>6, LockStays, ReadStays DEF IInv

LEMMA Returns ==
  ASSUME IInv, NEW c \in Callers, BatchEnds(c) \/ JoinTimesOut(c)
  PROVE  IInv'
<1>1. /\ UNCHANGED <<table, hub, up, worker, crashes>> /\ UNCHANGED lock
      /\ joins[c] # NoBatch
      /\ joins' = [joins EXCEPT ![c] = NoBatch] /\ plan' = [plan EXCEPT ![c] = Tail(plan[c])]
      /\ undone' = undone \/ undone' = undone \cup worker[joins[c]].remove \cup worker[joins[c]].add
  BY DEF BatchEnds, JoinTimesOut, Return
<1>2. /\ plan[c] # <<>> /\ plan[c] # NotAsked /\ plan[c] \in Seq(PlanStep) /\ up
      /\ IsBatch(plan[c], 1) /\ TwoLeft(plan[c]) /\ Started(c, 1)
      /\ Started(c, 2) => OneLeft(plan[c])
  BY <1>1 DEF IInv, Planned
<1>3. joins \in [Callers -> Workers \cup {NoBatch}] /\ worker \in [Workers -> WorkerType]
      /\ undone \subseteq Keys
  BY WorkerIs DEF IInv, TypeOK
<1>4. TypeOK'
  <2>1. worker[joins[c]] \in WorkerType
    BY <1>1, <1>3
  <2>2. undone' \subseteq Keys
    BY <1>1, <1>3, <2>1 DEF WorkerType
  <2>3. joins' \in [Callers -> Workers \cup {NoBatch}]
    BY <1>1, <1>3
  <2> QED
    BY <1>1, <2>2, <2>3 DEF IInv, TypeOK, lock, table
<1>5. /\ \A d \in Callers \ {c} : joins'[d] = joins[d]
      /\ joins'[c] = NoBatch
  BY <1>1, <1>3
<1>6. /\ \A d \in Callers : Planned(d)'
      /\ plan' \in [Callers -> Seq(PlanStep) \cup {NotAsked}]
  BY <1>1, <1>2, <1>5, CallMovesOn
<1> QED
  BY <1>1, <1>4, <1>6, LockStays, ReadStays DEF IInv

(* A batch starts in a thread that nothing has used yet.                   *)
LEMMA Starts ==
  ASSUME IInv, NEW c \in Callers, StartBatch(c)
  PROVE  IInv'
<1> DEFINE n == IF worker[<<c, 1>>].at = "idle" THEN 1 ELSE 2
           step == Head(plan[c])
           r == [Idle EXCEPT !.at = "lock", !.remove = step.remove,
                             !.add = step.add, !.val = step.val, !.tries = 1]
           w == <<c, n>>
<1>1. /\ NextIs(c, "batch") /\ joins' = [joins EXCEPT ![c] = w]
      /\ worker' = [worker EXCEPT ![w] = r]
      /\ UNCHANGED <<table, hub, up, plan, crashes, undone>> /\ UNCHANGED lock
  BY DEF StartBatch
<1>2. /\ joins[c] = NoBatch /\ plan[c] \in Seq(PlanStep) /\ plan[c] # <<>> /\ plan[c] # NotAsked
      /\ step = plan[c][1] /\ step \in PlanStep /\ step.do = "batch" /\ up
  BY <1>1, NextStep
<1>3. r \in WorkerType /\ r.at = "lock"
  <2>1. step.remove \in SUBSET Keys /\ step.add \in SUBSET Keys /\ step.val \in Value
    BY <1>2, StepFacts
  <2>2. 1 \in 0 .. MaxAttempts
    BY LimitsAssumption
  <2> HIDE DEF step
  <2> QED
    BY <2>1, <2>2, IdleIs DEF WorkerType
<1>4. worker \in [Workers -> WorkerType] /\ joins \in [Callers -> Workers \cup {NoBatch}]
  BY WorkerIs DEF IInv, TypeOK
<1>5. IsBatch(plan[c], 1)
  BY <1>2, EmptySeq, LenProperties DEF IsBatch
<1>6. n \in {1, 2} /\ w \in Workers
  BY WorkerFacts
<1>7. worker[w].at = "idle" /\ (n = 2 => Started(c, 1)) /\ (n = 1 => ~Started(c, 2) /\ ~Started(c, 1))
      /\ TwoLeft(plan[c]) /\ (n = 2 => OneLeft(plan[c]))
  <2>1. Planned(c)
    BY DEF IInv
  <2>2. ~(Started(c, 1) /\ Started(c, 2))
    BY <1>2, <1>5, <2>1 DEF Planned, NoneLeft
  <2>3. n = 1 => ~Started(c, 1)
    BY DEF Started
  <2>4. n = 2 => Started(c, 1)
    BY DEF Started
  <2>5. worker[w].at = "idle"
    BY <1>6, <2>2, <2>3, <2>4 DEF Started
  <2> QED
    BY <1>2, <2>1, <2>2, <2>3, <2>4, <2>5 DEF Planned
<1> HIDE DEF n, step, r
<1>8. worker' \in [Workers -> WorkerType] /\ worker'[w] = r
      /\ \A v \in Workers \ {w} : worker'[v] = worker[v]
  BY <1>1, <1>3, <1>4, <1>6
<1>9. TypeOK'
  <2>1. joins' \in [Callers -> Workers \cup {NoBatch}]
    BY <1>1, <1>4, <1>6
  <2> QED
    BY <1>1, <1>8, <2>1 DEF IInv, TypeOK, table, lock, WorkerType, Value
<1>10. Planned(c)'
  <2>0. <<c, 1>> # <<c, 2>> /\ <<c, 1>> \in Workers /\ <<c, 2>> \in Workers
    <3>1. <<c, 1>> # <<c, 2>>
      OBVIOUS
    <3> QED
      BY <3>1 DEF Workers
  <2>1. Started(c, 1)' /\ (Started(c, 2)' <=> n = 2)
    <3>1. CASE n = 1
      <4>1. <<c, 1>> = w /\ <<c, 2>> # w /\ <<c, 2>> \in Workers
        BY <3>1, <2>0
      <4>2. worker'[<<c, 1>>].at = "lock" /\ worker'[<<c, 2>>] = worker[<<c, 2>>]
        BY <1>3, <1>8, <4>1
      <4> QED
        BY <1>7, <3>1, <4>2 DEF Started
    <3>2. CASE n = 2
      <4>1. <<c, 2>> = w /\ <<c, 1>> # w /\ <<c, 1>> \in Workers
        BY <3>2, <2>0
      <4>2. worker'[<<c, 2>>].at = "lock" /\ worker'[<<c, 1>>] = worker[<<c, 1>>]
        BY <1>3, <1>8, <4>1
      <4> QED
        BY <1>7, <3>2, <4>2 DEF Started
    <3> QED
      BY <1>6, <3>1, <3>2
  <2>2. joins'[c] = w /\ w # NoBatch /\ plan'[c] = plan[c] /\ up'
    BY <1>1, <1>2, <1>4, <1>6, WorkerFacts
  <2>3. /\ TwoLeft(plan[c])' = TwoLeft(plan[c]) /\ OneLeft(plan[c])' = OneLeft(plan[c])
        /\ IsBatch(plan[c], 1)' = IsBatch(plan[c], 1)
    BY <2>2 DEF TwoLeft, OneLeft, IsBatch
  <2> HIDE DEF w
  <2> QED
    BY <1>2, <1>5, <1>7, <2>1, <2>2, <2>3 DEF Planned
<1>11. \A d \in Callers : Planned(d)'
  <2>1. \A d \in Callers \ {c} : plan'[d] = plan[d] /\ joins'[d] = joins[d]
    BY <1>1, <1>4
  <2>2. \A d \in Callers \ {c}, m \in {1, 2} : worker'[<<d, m>>] = worker[<<d, m>>]
    BY <1>8, WorkerFacts
  <2> QED
    BY <1>1, <1>10, <2>1, <2>2, OtherPlansStay DEF IInv
<1>12. OneInside'
  <2>1. OneInside
    BY DEF IInv
  <2>2. \A v \in Workers : /\ worker'[v].at \in {"get", "put"} <=> worker[v].at \in {"get", "put"}
                           /\ worker'[v].at = "queued" <=> worker[v].at = "queued"
    BY <1>3, <1>7, <1>8
  <2>3. UNCHANGED <<holder, queue, woken, boundTo>>
    BY <1>1 DEF lock
  <2>4. boundTo \in Workers \cup {NoBatch}
    BY DEF IInv, TypeOK
  <2> QED
    BY <2>1, <2>2, <2>3, <2>4 DEF OneInside
<1>13. ReadIsCurrent'
  BY <1>1, <1>3, <1>8 DEF IInv, ReadIsCurrent
<1> QED
  BY <1>1, <1>9, <1>11, <1>12, <1>13 DEF IInv

(***************************************************************************)
(* The steps of a batch                                                    *)
(***************************************************************************)

(* What every step of a running batch keeps.                               *)
LEMMA BatchMoves ==
  ASSUME IInv, NEW w \in Workers, worker[w].at # "idle", NEW r \in WorkerType, r.at # "idle",
         worker' = [worker EXCEPT ![w] = r], UNCHANGED <<table, up, calls, crashes>>,
         hub' \in [Hooks -> Value], undone' \subseteq Keys,
         holder' \in Workers \cup {NoBatch}, boundTo' \in Workers \cup {NoBatch},
         queue' \in Seq(Workers), woken' \subseteq Workers
  PROVE  /\ TypeOK' /\ up' \in BOOLEAN
         /\ plan' \in [Callers -> Seq(PlanStep) \cup {NotAsked}]
         /\ \A c \in Callers : Planned(c)'
         /\ worker'[w] = r /\ \A v \in Workers \ {w} : worker'[v] = worker[v]
<1>1. worker \in [Workers -> WorkerType]
  BY WorkerIs DEF IInv
<1>2. worker' \in [Workers -> WorkerType] /\ worker'[w] = r
      /\ \A v \in Workers \ {w} : worker'[v] = worker[v]
  BY <1>1
<1>3. TypeOK'
  BY <1>2 DEF IInv, TypeOK, table, calls, WorkerType, Value
<1>4. \A c \in Callers : Planned(c)'
  BY <1>2, PlansStay DEF IInv, calls
<1> QED
  BY <1>2, <1>3, <1>4 DEF IInv, calls

LEMMA Moves ==
  ASSUME IInv, NEW w \in Workers
  PROVE  /\ worker[w] \in WorkerType /\ worker \in [Workers -> WorkerType] /\ undone \subseteq Keys
         /\ hub \in [Hooks -> Value] /\ holder \in Workers \cup {NoBatch}
         /\ boundTo \in Workers \cup {NoBatch} /\ queue \in Seq(Workers) /\ woken \subseteq Workers
         /\ OneInside
         /\ \A p \in {"lock", "queued", "get", "put", "over"} :
               [worker[w] EXCEPT !.at = p] \in WorkerType
<1>1. worker \in [Workers -> WorkerType] /\ worker[w] \in WorkerType
  BY WorkerIs DEF IInv
<1>2. \A p \in {"lock", "queued", "get", "put", "over"} :
         [worker[w] EXCEPT !.at = p] \in WorkerType
  BY <1>1 DEF WorkerType
<1> QED
  BY <1>1, <1>2 DEF IInv, TypeOK, Value

(* The change is done with or given up.                                    *)
LEMMA ChangeEnds ==
  ASSUME IInv, NEW w \in Workers, NEW given, NextChange(w, given)
  PROVE  /\ undone' \subseteq Keys
         /\ \E r \in WorkerType : /\ worker' = [worker EXCEPT ![w] = r]
                                  /\ r.at \in {"lock", "over"} /\ r.seen = Idle.seen
<1> DEFINE add == worker[w].add
           rest == IF add = {} THEN {} ELSE add \ {Lowest(add)}
           r == [worker[w] EXCEPT !.at = IF rest = {} THEN "over" ELSE "lock",
                                  !.remove = {}, !.add = rest, !.tries = 1, !.seen = Idle.seen]
<1>1. worker[w] \in WorkerType /\ worker \in [Workers -> WorkerType] /\ undone \subseteq Keys
  BY Moves
<1>2. add \subseteq Keys /\ worker[w].remove \subseteq Keys /\ rest \subseteq add
  BY <1>1 DEF WorkerType
<1>3. /\ worker' = [worker EXCEPT ![w] = r]
      /\ undone' = IF given THEN undone \cup worker[w].remove \cup (add \ rest) ELSE undone
  BY <1>1 DEF NextChange
<1>4. r \in WorkerType
  <2>1. 1 \in 0 .. MaxAttempts /\ rest \in SUBSET Keys /\ Idle.seen \in [Hooks -> Value]
    BY <1>2, IdleIs, LimitsAssumption
  <2> DEFINE p == IF rest = {} THEN "over" ELSE "lock"
  <2>2. p \in {"over", "lock"}
    OBVIOUS
  <2> HIDE DEF rest, p
  <2>3. [worker[w] EXCEPT !.at = p, !.remove = {}, !.add = rest, !.tries = 1,
                          !.seen = Idle.seen] \in WorkerType
    BY <1>1, <2>1, <2>2 DEF WorkerType
  <2> QED
    BY <2>3 DEF p
<1>5. r.at \in {"lock", "over"} /\ r.seen = Idle.seen
  BY <1>1 DEF WorkerType
<1>6. undone' \subseteq Keys
  BY <1>1, <1>2, <1>3
<1> QED
  BY <1>3, <1>4, <1>5, <1>6

(* The lock does not see a batch that neither takes nor leaves it.         *)
LEMMA LockKept ==
  ASSUME OneInside, NEW w \in Workers, NEW r, boundTo \in Workers \cup {NoBatch},
         worker'[w] = r, \A v \in Workers \ {w} : worker'[v] = worker[v], UNCHANGED lock,
         \/ worker[w].at = "lock" /\ r.at \in {"lock", "over"}
         \/ worker[w].at \in {"get", "put"} /\ r.at \in {"get", "put"}
  PROVE  OneInside'
<1>1. \A v \in Workers : /\ worker'[v].at \in {"get", "put"} <=> worker[v].at \in {"get", "put"}
                         /\ worker'[v].at = "queued" <=> worker[v].at = "queued"
  OBVIOUS
<1>2. UNCHANGED <<holder, queue, woken, boundTo>>
  BY DEF lock
<1> QED
  BY <1>1, <1>2 DEF OneInside

LEMMA LockReleased ==
  ASSUME OneInside, NEW w \in Workers, NEW r, boundTo \in Workers \cup {NoBatch},
         worker'[w] = r, \A v \in Workers \ {w} : worker'[v] = worker[v], Release,
         worker[w].at \in {"get", "put"}, r.at \in {"lock", "over"}
  PROVE  OneInside' /\ \A v \in Workers : worker'[v].at \notin {"get", "put"}
<1>1. \A v \in Workers : worker'[v].at \notin {"get", "put"}
  BY DEF OneInside
<1>2. /\ holder' = NoBatch /\ queue' = queue /\ boundTo' = boundTo
      /\ woken' = IF queue = <<>> THEN woken ELSE woken \cup {Head(queue)}
  BY DEF Release
<1>3. \A v \in Workers : worker'[v].at = "queued" <=> worker[v].at = "queued"
  OBVIOUS
<1>4. NoBatch \notin Workers
  BY WorkerFacts
<1>5. woken' \subseteq {boundTo'} /\ (woken' # {} => queue' # <<>> /\ holder' = NoBatch)
  <2>1. CASE queue = <<>>
    BY <1>2, <2>1 DEF OneInside
  <2>2. CASE queue # <<>>
    <3>1. Head(queue) = boundTo
      BY <2>2 DEF OneInside
    <3> QED
      BY <1>2, <2>2, <3>1 DEF OneInside
  <2> QED
    BY <2>1, <2>2
<1> QED
  BY <1>1, <1>2, <1>3, <1>4, <1>5 DEF OneInside

LEMMA Waits ==
  ASSUME IInv, NEW w \in Workers, Acquire(w) \/ Enqueue(w) \/ WakeUp(w) \/ GetList(w)
  PROVE  IInv'
<1> DEFINE r(p) == [worker[w] EXCEPT !.at = p]
<1>0. /\ worker[w] \in WorkerType /\ worker \in [Workers -> WorkerType] /\ undone \subseteq Keys
      /\ hub \in [Hooks -> Value] /\ holder \in Workers \cup {NoBatch}
      /\ boundTo \in Workers \cup {NoBatch} /\ queue \in Seq(Workers) /\ woken \subseteq Workers
      /\ OneInside /\ ReadIsCurrent /\ NoBatch \notin Workers
      /\ \A p \in {"lock", "queued", "get", "put", "over"} :
            [worker[w] EXCEPT !.at = p] \in WorkerType
  BY Moves, WorkerFacts DEF IInv
<1>1. CASE Acquire(w)
  <2>1. /\ worker[w].at = "lock" /\ holder = NoBatch /\ queue = <<>> /\ holder' = w
        /\ worker' = [worker EXCEPT ![w] = r("get")]
        /\ UNCHANGED <<table, hub, up, calls, crashes>>
        /\ UNCHANGED <<queue, woken, boundTo, undone>>
    BY <1>0, <1>1 DEF Acquire, At
  <2>2. r("get") \in WorkerType /\ r("get").at = "get"
    BY <1>0 DEF WorkerType
  <2> HIDE DEF r
  <2>3. /\ TypeOK' /\ up' \in BOOLEAN
        /\ plan' \in [Callers -> Seq(PlanStep) \cup {NotAsked}]
        /\ \A c \in Callers : Planned(c)'
        /\ worker'[w] = r("get") /\ \A v \in Workers \ {w} : worker'[v] = worker[v]
    BY <1>0, <2>1, <2>2, BatchMoves
  <2>4. OneInside'
    BY <1>0, <2>1, <2>2, <2>3 DEF OneInside
  <2>5. ReadIsCurrent'
    BY <1>0, <2>1, <2>2, <2>3 DEF ReadIsCurrent
  <2> QED
    BY <2>3, <2>4, <2>5 DEF IInv
<1>2. CASE Enqueue(w)
  <2>1. /\ worker[w].at = "lock" /\ boundTo \in {NoBatch, w} /\ boundTo' = w
        /\ queue' = Append(queue, w)
        /\ worker' = [worker EXCEPT ![w] = r("queued")]
        /\ UNCHANGED <<table, hub, up, calls, crashes>>
        /\ UNCHANGED <<holder, woken, undone>>
    BY <1>0, <1>2 DEF Enqueue, At
  <2>2. r("queued") \in WorkerType /\ r("queued").at = "queued"
    BY <1>0 DEF WorkerType
  <2> HIDE DEF r
  <2>3. queue = <<>> /\ queue' = <<w>> /\ woken = {}
    <3>1. queue = <<>>
      BY <1>0, <2>1 DEF OneInside
    <3> QED
      BY <1>0, <2>1, <3>1 DEF OneInside
  <2>4. queue' \in Seq(Workers)
    BY <2>3
  <2>5. /\ TypeOK' /\ up' \in BOOLEAN
        /\ plan' \in [Callers -> Seq(PlanStep) \cup {NotAsked}]
        /\ \A c \in Callers : Planned(c)'
        /\ worker'[w] = r("queued") /\ \A v \in Workers \ {w} : worker'[v] = worker[v]
    BY <1>0, <2>1, <2>2, <2>4, BatchMoves
  <2>6. OneInside'
    <3>1. \A v \in Workers : worker'[v].at \in {"get", "put"} <=> holder' = v
      BY <1>0, <2>1, <2>2, <2>5 DEF OneInside
    <3>2. \A v \in Workers : worker'[v].at = "queued" => queue' = <<v>>
      <4>1. \A v \in Workers \ {w} : worker[v].at # "queued"
        BY <1>0, <2>3 DEF OneInside
      <4> QED
        BY <2>3, <2>5, <4>1
    <3>3. <<w>> # <<>> /\ w # NoBatch
      BY <1>0
    <3>4. worker'[w].at = "queued" /\ boundTo' = w /\ queue' = <<w>> /\ woken' = {}
      BY <2>1, <2>2, <2>3, <2>5
    <3> QED
      BY <3>1, <3>2, <3>3, <3>4 DEF OneInside
  <2>7. ReadIsCurrent'
    BY <1>0, <2>1, <2>2, <2>5 DEF ReadIsCurrent
  <2> QED
    BY <2>5, <2>6, <2>7 DEF IInv
<1>3. CASE WakeUp(w)
  <2>0. PICK i \in DOMAIN queue : queue[i] = w /\ queue' = RemoveAt(queue, i)
    BY <1>3 DEF WakeUp
  <2>1. /\ worker[w].at = "queued" /\ w \in woken /\ holder' = w /\ woken' = woken \ {w}
        /\ worker' = [worker EXCEPT ![w] = r("get")]
        /\ UNCHANGED <<table, hub, up, calls, crashes>>
        /\ UNCHANGED <<boundTo, undone>>
    BY <1>0, <1>3 DEF WakeUp, At
  <2>2. r("get") \in WorkerType /\ r("get").at = "get"
    BY <1>0 DEF WorkerType
  <2>3. w = boundTo /\ queue = <<w>> /\ holder = NoBatch
    BY <1>0, <2>1 DEF OneInside
  <2>4. queue' = <<>>
    <3>1. i = 1 /\ Len(queue) = 1
      BY <2>0, <2>3
    <3>2. SubSeq(queue, 1, 0) = <<>> /\ SubSeq(queue, 2, 1) = <<>>
      BY <1>0, SubSeqEmpty
    <3>3. RemoveAt(queue, i) = <<>> \o <<>>
      BY <3>1, <3>2 DEF RemoveAt
    <3> QED
      BY <2>0, <3>3
  <2> HIDE DEF r
  <2>5. /\ TypeOK' /\ up' \in BOOLEAN
        /\ plan' \in [Callers -> Seq(PlanStep) \cup {NotAsked}]
        /\ \A c \in Callers : Planned(c)'
        /\ worker'[w] = r("get") /\ \A v \in Workers \ {w} : worker'[v] = worker[v]
    <3>1. <<>> \in Seq(Workers) /\ woken' \subseteq Workers
      BY <1>0, <2>1
    <3> QED
      BY <1>0, <2>1, <2>2, <2>4, <3>1, BatchMoves
  <2>6. OneInside'
    <3>1. \A v \in Workers : worker'[v].at \in {"get", "put"} <=> holder' = v
      BY <1>0, <2>1, <2>2, <2>3, <2>5 DEF OneInside
    <3>2. \A v \in Workers : worker'[v].at # "queued"
      <4> SUFFICES ASSUME NEW v \in Workers \ {w}, worker[v].at = "queued" PROVE FALSE
        BY <2>2, <2>5
      <4>1. queue = <<v>>
        BY <1>0 DEF OneInside
      <4>2. v = w
        BY <2>3, <4>1
      <4> QED
        BY <4>2
    <3>3. woken' = {}
      BY <1>0, <2>1, <2>3 DEF OneInside
    <3> QED
      BY <2>4, <3>1, <3>2, <3>3 DEF OneInside
  <2>7. ReadIsCurrent'
    BY <1>0, <2>1, <2>2, <2>5 DEF ReadIsCurrent
  <2> QED
    BY <2>5, <2>6, <2>7 DEF IInv
<1>4. CASE GetList(w)
  <2> DEFINE q == [worker[w] EXCEPT !.at = "put", !.seen = hub]
  <2>1. /\ worker[w].at = "get" /\ worker' = [worker EXCEPT ![w] = q]
        /\ UNCHANGED <<table, hub, up, calls, crashes>> /\ UNCHANGED lock
        /\ UNCHANGED <<holder, queue, woken, boundTo, undone>>
    BY <1>4 DEF GetList, At, lock
  <2>2. q \in WorkerType /\ q.at = "put" /\ q.seen = hub
    BY <1>0 DEF WorkerType
  <2> HIDE DEF q
  <2>3. /\ TypeOK' /\ up' \in BOOLEAN
        /\ plan' \in [Callers -> Seq(PlanStep) \cup {NotAsked}]
        /\ \A c \in Callers : Planned(c)'
        /\ worker'[w] = q /\ \A v \in Workers \ {w} : worker'[v] = worker[v]
    BY <1>0, <2>1, <2>2, BatchMoves
  <2>4. OneInside'
    BY <1>0, <2>1, <2>2, <2>3, LockKept
  <2>5. ReadIsCurrent'
    BY <1>0, <2>1, <2>2, <2>3 DEF ReadIsCurrent
  <2> QED
    BY <2>3, <2>4, <2>5 DEF IInv
<1> QED
  BY <1>1, <1>2, <1>3, <1>4

LEMMA Refused ==
  ASSUME IInv, NEW w \in Workers, WrongLoop(w)
  PROVE  IInv'
<1>1. /\ worker[w].at = "lock" /\ NextChange(w, TRUE)
      /\ UNCHANGED <<table, hub, up, calls, crashes>> /\ UNCHANGED lock
      /\ UNCHANGED <<holder, queue, woken, boundTo>>
  BY DEF WrongLoop, At, lock
<1>2. undone' \subseteq Keys
  BY <1>1, ChangeEnds
<1>3. PICK r \in WorkerType : worker' = [worker EXCEPT ![w] = r] /\ r.at \in {"lock", "over"}
  BY <1>1, ChangeEnds
<1>4. /\ TypeOK' /\ up' \in BOOLEAN
      /\ plan' \in [Callers -> Seq(PlanStep) \cup {NotAsked}]
      /\ \A c \in Callers : Planned(c)'
      /\ worker'[w] = r /\ \A v \in Workers \ {w} : worker'[v] = worker[v]
  BY <1>1, <1>2, <1>3, Moves, BatchMoves
<1>5. OneInside'
  BY <1>1, <1>3, <1>4, Moves, LockKept
<1>6. ReadIsCurrent'
  BY <1>1, <1>3, <1>4 DEF IInv, ReadIsCurrent
<1> QED
  BY <1>4, <1>5, <1>6 DEF IInv

(* A batch that is through with a change leaves the lock.                  *)
LEMMA LeavesLock ==
  ASSUME IInv, NEW w \in Workers, NEW r \in WorkerType, worker' = [worker EXCEPT ![w] = r],
         r.at \in {"lock", "over"}, worker[w].at \in {"get", "put"}, Release,
         undone' \subseteq Keys, hub' \in [Hooks -> Value], UNCHANGED <<table, up, calls, crashes>>
  PROVE  IInv'
<1>1. /\ holder' = NoBatch /\ queue' = queue /\ boundTo' = boundTo
      /\ woken' = IF queue = <<>> THEN woken ELSE woken \cup {Head(queue)}
  BY DEF Release
<1>2. woken' \subseteq Workers
  <2>1. queue # <<>> => Head(queue) \in Workers
    BY Moves, HeadTailProperties
  <2> QED
    BY <1>1, <2>1, Moves
<1>3. /\ TypeOK' /\ up' \in BOOLEAN
      /\ plan' \in [Callers -> Seq(PlanStep) \cup {NotAsked}]
      /\ \A c \in Callers : Planned(c)'
      /\ worker'[w] = r /\ \A v \in Workers \ {w} : worker'[v] = worker[v]
  BY <1>1, <1>2, Moves, BatchMoves
<1>4. OneInside' /\ \A v \in Workers : worker'[v].at \notin {"get", "put"}
  BY <1>3, Moves, LockReleased
<1>5. ReadIsCurrent'
  BY <1>4 DEF ReadIsCurrent
<1> QED
  BY <1>3, <1>4, <1>5 DEF IInv

LEMMA UpdatedIs ==
  ASSUME IInv, NEW w \in Workers
  PROVE  /\ Updated(w) \in [Hooks -> Value]
         /\ \A h \in Hooks : Updated(w)[h] # worker[w].seen[h]
                               => h \in worker[w].remove \cup worker[w].add
<1>1. worker[w] \in WorkerType
  BY Moves
<1>2. /\ worker[w].seen \in [Hooks -> Value] /\ worker[w].add \subseteq Keys
      /\ worker[w].val \in Value /\ None \in Value
  BY <1>1 DEF WorkerType, Value
<1>3. CASE worker[w].add = {}
  BY <1>2, <1>3 DEF Updated, Deleting
<1>4. CASE worker[w].add # {}
  <2>1. Lowest(worker[w].add) \in worker[w].add
    <3>1. worker[w].add \in SUBSET Nat
      BY <1>2, KeysAssumption DEF Hooks
    <3> QED
      BY <1>4, <3>1, LowestIs
  <2>2. Updated(w) = [worker[w].seen EXCEPT ![Lowest(worker[w].add)] = worker[w].val]
    BY <1>4 DEF Updated, Deleting
  <2> QED
    BY <1>2, <2>1, <2>2
<1> QED
  BY <1>3, <1>4

LEMMA Gets ==
  ASSUME IInv, NEW w \in Workers, GetFails(w) \/ GetRaises(w)
  PROVE  IInv'
<1>1. /\ worker[w].at = "get" /\ GetMayFail /\ hub' = hub
      /\ UNCHANGED <<table, up, calls, crashes>>
  BY DEF GetFails, GetRaises, At
<1>2. CASE NextChange(w, TRUE) /\ Release
  <2>1. undone' \subseteq Keys
    BY <1>2, ChangeEnds
  <2>2. PICK r \in WorkerType : worker' = [worker EXCEPT ![w] = r] /\ r.at \in {"lock", "over"}
    BY <1>2, ChangeEnds
  <2> QED
    BY <1>1, <1>2, <2>1, <2>2, Moves, LeavesLock
<1>3. CASE worker' = [worker EXCEPT ![w].at = "put"] /\ UNCHANGED <<lock, undone>>
  <2> DEFINE r == [worker[w] EXCEPT !.at = "put"]
  <2>1. r \in WorkerType /\ r.at = "put"
    BY Moves DEF WorkerType
  <2>2. worker' = [worker EXCEPT ![w] = r]
    BY <1>3
  <2>3. UNCHANGED <<holder, queue, woken, boundTo, undone>> /\ UNCHANGED lock
    BY <1>3 DEF lock
  <2> HIDE DEF r
  <2>4. /\ TypeOK' /\ up' \in BOOLEAN
        /\ plan' \in [Callers -> Seq(PlanStep) \cup {NotAsked}]
        /\ \A c \in Callers : Planned(c)'
        /\ worker'[w] = r /\ \A v \in Workers \ {w} : worker'[v] = worker[v]
    BY <1>1, <2>1, <2>2, <2>3, Moves, BatchMoves
  <2>5. OneInside'
    BY <1>1, <2>1, <2>3, <2>4, Moves, LockKept
  <2>6. ReadIsCurrent'
    BY <1>1 DEF ReadIsCurrent
  <2> QED
    BY <2>4, <2>5, <2>6 DEF IInv
<1> QED
  BY <1>2, <1>3 DEF GetFails, GetRaises

LEMMA Puts ==
  ASSUME IInv, NEW w \in Workers, PutList(w) \/ PutFails(w) \/ PutRaises(w)
  PROVE  IInv' /\ (hub' # hub => worker[w].at = "put" /\ worker'[w] # worker[w]
                                   /\ hub' = Updated(w))
<1>1. worker[w].at = "put" /\ UNCHANGED <<table, up, calls, crashes>> /\ Release
  BY DEF PutList, PutFails, PutRaises, At
<1>2. hub' \in {hub, Updated(w)}
  BY DEF PutList, PutFails, PutRaises
<1>3. hub' \in [Hooks -> Value]
  BY <1>2, Moves, UpdatedIs
<1>4. /\ undone' \subseteq Keys
      /\ \E r \in WorkerType : worker' = [worker EXCEPT ![w] = r] /\ r.at \in {"lock", "over"}
  <2>1. CASE \E given \in BOOLEAN : NextChange(w, given)
    BY <2>1, ChangeEnds
  <2>2. CASE /\ worker[w].tries < MaxAttempts /\ undone' = undone
             /\ worker' = [worker EXCEPT ![w] =
                              [@ EXCEPT !.at = "lock", !.tries = worker[w].tries + 1,
                                        !.seen = Idle.seen]]
    <3> DEFINE r == [worker[w] EXCEPT !.at = "lock", !.tries = worker[w].tries + 1,
                                      !.seen = Idle.seen]
    <3>0. worker[w] \in WorkerType /\ worker[w].tries \in 0 .. MaxAttempts
      BY Moves DEF WorkerType
    <3>1. worker[w].tries + 1 \in 0 .. MaxAttempts
      BY <2>2, <3>0, LimitsAssumption
    <3>2. r \in WorkerType /\ r.at = "lock"
      BY <3>0, <3>1, IdleIs DEF WorkerType
    <3>3. worker' = [worker EXCEPT ![w] = r]
      BY <2>2
    <3> HIDE DEF r
    <3> QED
      BY <2>2, <3>2, <3>3, Moves
  <2> QED
    BY <2>1, <2>2 DEF PutList, PutFails, PutRaises
<1>5. PICK r \in WorkerType : worker' = [worker EXCEPT ![w] = r] /\ r.at \in {"lock", "over"}
  BY <1>4
<1>6. IInv'
  BY <1>1, <1>3, <1>4, <1>5, LeavesLock
<1>7. worker'[w] # worker[w]
  BY <1>1, <1>5, Moves
<1> QED
  BY <1>1, <1>2, <1>6, <1>7

(***************************************************************************)
(* Crash and restart, the initial states, every step                       *)
(***************************************************************************)

LEMMA Crashes ==
  ASSUME IInv, Crash
  PROVE  IInv'
<1>1. /\ up' = FALSE /\ crashes < MaxCrashes /\ crashes' = crashes + 1
      /\ plan' = [c \in Callers |-> IF plan[c] = NotAsked THEN plan[c] ELSE <<>>]
      /\ joins' = [c \in Callers |-> NoBatch] /\ worker' = [w \in Workers |-> Idle]
      /\ holder' = NoBatch /\ queue' = <<>> /\ woken' = {} /\ boundTo' = NoBatch
      /\ undone' = undone \cup {k \in Keys : InWork(k)}
      /\ UNCHANGED <<job, rows, used, hub>>
  BY DEF Crash, table
<1>2. worker' \in [Workers -> WorkerType] /\ \A w \in Workers : worker'[w].at = "idle"
  BY <1>1, IdleIs
<1>3. plan' \in [Callers -> Seq(PlanStep) \cup {NotAsked}]
  <2>1. <<>> \in Seq(PlanStep)
    OBVIOUS
  <2> DEFINE PlanType == Seq(PlanStep) \cup {NotAsked}
  <2>2. \A c \in Callers : (IF plan[c] = NotAsked THEN plan[c] ELSE <<>>) \in PlanType
    BY <2>1
  <2> HIDE DEF PlanType
  <2>3. plan' \in [Callers -> PlanType]
    BY <1>1, <2>2
  <2> QED
    BY <2>3 DEF PlanType
<1>4. TypeOK'
  <2>1. crashes' \in 0 .. MaxCrashes
    BY <1>1, LimitsAssumption DEF IInv, TypeOK
  <2>2. undone' \subseteq Keys
    BY <1>1 DEF IInv, TypeOK
  <2>3. queue' \in Seq(Workers)
    BY <1>1
  <2>4. joins' \in [Callers -> Workers \cup {NoBatch}]
    BY <1>1
  <2> QED
    BY <1>1, <1>2, <2>1, <2>2, <2>3, <2>4 DEF IInv, TypeOK, WorkerType, Value
<1>5. ASSUME NEW c \in Callers PROVE Planned(c)'
  <2>1. ~Started(c, 1)' /\ ~Started(c, 2)' /\ joins'[c] = NoBatch /\ ~up'
    BY <1>1, <1>2, WorkerFacts DEF Started
  <2>2. plan'[c] = <<>> \/ plan'[c] = NotAsked
    BY <1>1
  <2>3. TwoLeft(plan[c])'
    <3>1. \A i : ~IsBatch(plan'[c], i)
      BY <2>2 DEF IsBatch, NotAsked
    <3> QED
      BY <3>1 DEF TwoLeft, IsBatch
  <2>4. plan'[c] = NotAsked \/ plan'[c] \in Seq(PlanStep)
    BY <1>3
  <2> QED
    BY <2>1, <2>2, <2>3, <2>4 DEF Planned
<1>6. OneInside'
  BY <1>1, <1>2, WorkerFacts DEF OneInside
<1>7. ReadIsCurrent'
  BY <1>2 DEF ReadIsCurrent
<1> QED
  BY <1>1, <1>3, <1>4, <1>5, <1>6, <1>7 DEF IInv

LEMMA CleansUp ==
  ASSUME IInv, CleanupStaleWebhooks
  PROVE  IInv'
<1>1. /\ ~up /\ up' = TRUE /\ UNCHANGED <<table, calls, worker, crashes>> /\ UNCHANGED lock
      /\ UNCHANGED <<plan, joins>>
      /\ \/ /\ hub' = [h \in Hooks |-> IF h \in Keys /\ rows[h] = None THEN None ELSE hub[h]]
            /\ undone' = {k \in undone : rows[k] # None}
         \/ UNCHANGED <<hub, undone>>
  BY DEF CleanupStaleWebhooks, calls
<1>2. \A w \in Workers : worker[w].at = "idle"
  <2>1. \A c \in Callers : ~Started(c, 1) /\ ~Started(c, 2)
    BY <1>1 DEF IInv, Planned
  <2> QED
    BY <2>1, WorkerFacts DEF Started
<1>3. hub' \in [Hooks -> Value] /\ undone' \subseteq Keys
  BY <1>1 DEF IInv, TypeOK, Value
<1>4. TypeOK'
  BY <1>1, <1>3 DEF IInv, TypeOK, table, calls, lock, Value
<1>5. ASSUME NEW c \in Callers PROVE Planned(c)'
  <2>1. Started(c, 1)' = Started(c, 1) /\ Started(c, 2)' = Started(c, 2)
    BY <1>1 DEF Started
  <2>2. Planned(c)
    BY DEF IInv
  <2>3. /\ TwoLeft(plan[c])' = TwoLeft(plan[c]) /\ OneLeft(plan[c])' = OneLeft(plan[c])
        /\ NoneLeft(plan[c])' = NoneLeft(plan[c]) /\ IsBatch(plan[c], 1)' = IsBatch(plan[c], 1)
    BY <1>1 DEF TwoLeft, OneLeft, NoneLeft, IsBatch
  <2> HIDE DEF Started
  <2> QED
    BY <1>1, <2>1, <2>2, <2>3 DEF Planned
<1>6. OneInside'
  BY <1>1, LockStays DEF IInv
<1>7. ReadIsCurrent'
  BY <1>1, <1>2 DEF ReadIsCurrent
<1> QED
  BY <1>1, <1>4, <1>5, <1>6, <1>7 DEF IInv

LEMMA Starting ==
  ASSUME Init
  PROVE  IInv
<1>1. /\ rows \in InitialTables /\ used = {k \in Keys : rows[k] # None}
      /\ job = IF \E e \in Events : rows[e] # None THEN "live" ELSE "new"
      /\ hub \in {[h \in Hooks |-> IF h \in Keys THEN rows[h] ELSE v] : v \in Values}
      /\ up = TRUE /\ plan = [c \in Callers |-> NotAsked]
      /\ joins = [c \in Callers |-> NoBatch] /\ worker = [w \in Workers |-> Idle]
      /\ holder = NoBatch /\ queue = <<>> /\ woken = {} /\ boundTo = NoBatch
      /\ crashes = 0 /\ undone = {}
  BY DEF Init
<1>2. rows \in [Keys -> Value] /\ hub \in [Hooks -> Value]
  <2>1. rows \in [Keys -> Value]
    BY <1>1, KeysAssumption DEF Value
  <2>2. PICK v \in Values : hub = [h \in Hooks |-> IF h \in Keys THEN rows[h] ELSE v]
    BY <1>1
  <2> QED
    BY <2>1, <2>2 DEF Value
<1>3. worker \in [Workers -> WorkerType] /\ \A w \in Workers : worker[w].at = "idle"
  BY <1>1, IdleIs
<1>4. plan \in [Callers -> Seq(PlanStep) \cup {NotAsked}]
  <2> DEFINE PlanType == Seq(PlanStep) \cup {NotAsked}
  <2>1. NotAsked \in PlanType
    OBVIOUS
  <2> HIDE DEF PlanType
  <2>2. plan \in [Callers -> PlanType]
    BY <1>1, <2>1
  <2> QED
    BY <2>2 DEF PlanType
<1>5. TypeOK
  <2>1. crashes \in 0 .. MaxCrashes
    BY <1>1, LimitsAssumption
  <2>2. job \in {"new", "live", "deleted"} /\ used \subseteq Keys
    BY <1>1
  <2>3. queue \in Seq(Workers) /\ joins \in [Callers -> Workers \cup {NoBatch}]
    BY <1>1
  <2> QED
    BY <1>1, <1>2, <1>3, <2>1, <2>2, <2>3 DEF TypeOK, WorkerType, Value
<1>6. ASSUME NEW c \in Callers PROVE Planned(c)
  <2>1. ~Started(c, 1) /\ ~Started(c, 2) /\ joins[c] = NoBatch /\ plan[c] = NotAsked
    BY <1>1, <1>3, WorkerFacts DEF Started
  <2>2. TwoLeft(plan[c])
    BY <2>1 DEF TwoLeft, IsBatch, NotAsked
  <2> QED
    BY <2>1, <2>2 DEF Planned
<1>7. OneInside
  BY <1>1, <1>3, WorkerFacts DEF OneInside
<1>8. ReadIsCurrent
  BY <1>3 DEF ReadIsCurrent
<1> QED
  BY <1>1, <1>4, <1>5, <1>6, <1>7, <1>8 DEF IInv

(* The list changes by the PUT of a batch, or while Chronos starts.        *)
LEMMA Step ==
  ASSUME IInv, [Next]_vars
  PROVE  /\ IInv'
         /\ hub' # hub =>
              \/ CleanupStaleWebhooks
              \/ \E w \in Workers : /\ worker[w].at = "put" /\ worker'[w] # worker[w]
                                    /\ hub' = Updated(w)
<1>1. ASSUME NEW c \in Callers, ApiCall(c) PROVE IInv' /\ hub' = hub
  <2>0. None \in Value /\ {} \in SUBSET Events /\ Values \subseteq Value
    BY DEF Value
  <2>1. CASE \E new \in SUBSET Events, v \in Values : CreateJob(c, new, v) \/ UpdateJob(c, new, v)
    <3>1. PICK new \in SUBSET Events, v \in Values : CreateJob(c, new, v) \/ UpdateJob(c, new, v)
      BY <2>1
    <3>2. hub' = hub
      BY <3>1 DEF CreateJob, UpdateJob, Begin
    <3> QED
      BY <3>1, <3>2, <2>0, JobRequests
  <2>2. CASE DeleteJob(c)
    <3>1. hub' = hub
      BY <2>2 DEF DeleteJob, Begin
    <3> QED
      BY <2>2, <3>1, <2>0, JobRequests
  <2>3. CASE \E k \in Flows, v \in Values : CreateFlow(c, k, v) \/ UpdateFlow(c, k, v)
    <3>1. PICK k \in Flows, v \in Values : CreateFlow(c, k, v) \/ UpdateFlow(c, k, v)
      BY <2>3
    <3>2. hub' = hub
      BY <3>1 DEF CreateFlow, UpdateFlow, Begin
    <3> QED
      BY <3>1, <3>2, <2>0, FlowRequests
  <2>4. CASE \E k \in Flows : DeleteFlow(c, k)
    <3>1. PICK k \in Flows : DeleteFlow(c, k)
      BY <2>4
    <3>2. hub' = hub
      BY <3>1 DEF DeleteFlow, Begin
    <3> QED
      BY <3>1, <3>2, <2>0, FlowRequests
  <2>5. CASE CommitRows(c) \/ CommitJob(c)
    BY <2>5, Commits DEF CommitRows, CommitJob
  <2>6. CASE StartBatch(c)
    BY <2>6, Starts DEF StartBatch
  <2>7. CASE BatchEnds(c) \/ JoinTimesOut(c)
    BY <2>7, Returns DEF BatchEnds, JoinTimesOut
  <2> QED
    BY <1>1, <2>1, <2>2, <2>3, <2>4, <2>5, <2>6, <2>7 DEF ApiCall
<1>2. ASSUME NEW w \in Workers, Batch(w)
      PROVE  IInv' /\ (hub' # hub => /\ worker[w].at = "put" /\ worker'[w] # worker[w]
                                     /\ hub' = Updated(w))
  <2>1. CASE Acquire(w) \/ Enqueue(w) \/ WakeUp(w) \/ GetList(w)
    <3>1. hub' = hub
      BY <2>1 DEF Acquire, Enqueue, WakeUp, GetList
    <3> QED
      BY <2>1, <3>1, Waits
  <2>2. CASE WrongLoop(w)
    <3>1. hub' = hub
      BY <2>2 DEF WrongLoop
    <3> QED
      BY <2>2, <3>1, Refused
  <2>3. CASE GetFails(w) \/ GetRaises(w)
    <3>1. hub' = hub
      BY <2>3 DEF GetFails, GetRaises
    <3> QED
      BY <2>3, <3>1, Gets
  <2>4. CASE PutList(w) \/ PutFails(w) \/ PutRaises(w)
    BY <2>4, Puts
  <2> QED
    BY <1>2, <2>1, <2>2, <2>3, <2>4 DEF Batch
<1>3. CASE Crash
  <2>1. hub' = hub
    BY <1>3 DEF Crash
  <2> QED
    BY <1>3, <2>1, Crashes
<1>4. CASE CleanupStaleWebhooks
  BY <1>4, CleansUp
<1>5. CASE UNCHANGED vars
  <2>1. /\ UNCHANGED <<job, rows, used, hub, up, plan, joins, worker, crashes, undone>>
        /\ UNCHANGED <<holder, queue, woken, boundTo>> /\ UNCHANGED lock
    BY <1>5 DEF vars, table, lock
  <2>2. TypeOK'
    BY <2>1 DEF IInv, TypeOK
  <2>3. \A c \in Callers : Planned(c)'
    BY <2>1, PlansStay DEF IInv
  <2> QED
    BY <2>1, <2>2, <2>3, LockStays, ReadStays DEF IInv
<1> QED
  BY <1>1, <1>2, <1>3, <1>4, <1>5 DEF Next

LEMMA Invariant == Spec => []IInv
<1>1. Init => IInv
  BY Starting
<1>2. IInv /\ [Next]_vars => IInv'
  BY Step
<1> QED
  BY <1>1, <1>2, PTL DEF Spec

(* The types of the state, of every batch and of the lock's queue: every   *)
(* thread has its own place in worker, however many a call starts.         *)
THEOREM TypeCorrect == Spec => []TypeOK
<1>1. IInv => TypeOK
  BY DEF IInv
<1> QED
  BY <1>1, Invariant, PTL

(* Between a GET and the PUT that answers it nobody else changes the list  *)
(* (_webhook_list_lock), so a PUT changes the one webhook it is about, for *)
(* any number of calls, webhooks and crashes - as long as no GET fails.    *)
THEOREM OthersStay ==
  ASSUME ~GetMayFail
  PROVE  Spec => OthersKept
<1> DEFINE Kept == \A h \in Hooks : hub'[h] # hub[h] =>
               \/ ~up /\ h \in Keys /\ rows[h] = None
               \/ \E w \in Workers : /\ worker[w].at = "put" /\ worker'[w] # worker[w]
                                     /\ h \in worker[w].remove \cup worker[w].add
<1>1. IInv /\ [Next]_vars => [Kept]_vars
  <2> SUFFICES ASSUME IInv, [Next]_vars, NEW h \in Hooks, hub'[h] # hub[h]
               PROVE  \/ ~up /\ h \in Keys /\ rows[h] = None
                      \/ \E w \in Workers : /\ worker[w].at = "put" /\ worker'[w] # worker[w]
                                            /\ h \in worker[w].remove \cup worker[w].add
    OBVIOUS
  <2>1. CASE CleanupStaleWebhooks
    BY <2>1 DEF CleanupStaleWebhooks
  <2>2. CASE \E w \in Workers : /\ worker[w].at = "put" /\ worker'[w] # worker[w]
                                /\ hub' = Updated(w)
    <3>1. PICK w \in Workers : worker[w].at = "put" /\ worker'[w] # worker[w] /\ hub' = Updated(w)
      BY <2>2
    <3>2. worker[w].seen = hub
      BY <3>1 DEF IInv, ReadIsCurrent
    <3>3. h \in worker[w].remove \cup worker[w].add
      BY <3>1, <3>2, UpdatedIs
    <3> QED
      BY <3>1, <3>3
  <2> QED
    BY <2>1, <2>2, Step
<1>2. OthersKept <=> [][Kept]_vars
  BY PTL DEF OthersKept
<1> QED
  BY <1>1, <1>2, Invariant, PTL DEF Spec

(***************************************************************************)
(* CoreHub follows the tables                                              *)
(***************************************************************************)

(* No two calls are about the same flow or both about the job.             *)
Handles(c) == EventsOf(c) # {}
Mine(c, k) == (k \in Flows /\ k \in Reach[c]) \/ (k \in Events /\ Handles(c))
Apart == \A c, d \in Callers : c # d =>
            Reach[c] \cap Reach[d] \cap Flows = {} /\ ~(Handles(c) /\ Handles(d))

(* What the steps of a plan make of webhook k, and of its row.             *)
NoStep == [do |-> "none"]
StepOf(p, i) == IF i \in DOMAIN p THEN p[i] ELSE NoStep
Asked(remove, add, v, k, h) == IF k \in add THEN v ELSE IF k \in remove THEN None ELSE h
HubStep(s, k, h) == IF s.do = "batch" THEN Asked(s.remove, s.add, s.val, k, h) ELSE h
RowStep(s, k, r) ==
  IF s.do = "commit" /\ k \in s.keys THEN s.val
  ELSE IF s.do = "dropJob" /\ k \in Events THEN None ELSE r

(* A plan has four steps at most.                                          *)
HubEnd(p, k, h) == HubStep(StepOf(p, 4), k, HubStep(StepOf(p, 3), k,
                     HubStep(StepOf(p, 2), k, HubStep(StepOf(p, 1), k, h))))
RowEnd(p, k, r) == RowStep(StepOf(p, 4), k, RowStep(StepOf(p, 3), k,
                     RowStep(StepOf(p, 2), k, RowStep(StepOf(p, 1), k, r))))

(* What is left of the batch that a call waits for, then of its plan.      *)
Pending(w, k, h) == Asked(worker[w].remove, worker[w].add, worker[w].val, k, h)
HubAfter(c, k) == IF joins[c] = NoBatch THEN HubEnd(plan[c], k, hub[k])
                  ELSE HubEnd(Tail(plan[c]), k, Pending(joins[c], k, hub[k]))
RowAfter(c, k) == RowEnd(plan[c], k, rows[k])

(* A step is about what its call is about, and its commit will not fail.   *)
Own(c, s) ==
  /\ s.do = "batch" => /\ s.remove = {} \/ s.add = {}
                       /\ \A k \in s.remove \cup s.add : Mine(c, k)
  /\ s.do = "commit" => /\ \A k \in s.keys : Mine(c, k)
                        /\ s.needs = "job" => Handles(c)
  /\ s.do \in {"insertJob", "dropJob"} => Handles(c)
Met(p, i) ==
  /\ p[i].do = "insertJob" => i = 1
  /\ p[i].do = "commit" /\ p[i].needs = "job" =>
        /\ job = "live" \/ (i # 1 /\ p[1].do = "insertJob")
        /\ \A j \in DOMAIN p : p[j].do # "dropJob"
  /\ p[i].do = "commit" /\ p[i].needs = "row" => i = 1 /\ \A k \in p[i].keys : rows[k] # None
Sound(c) ==
  /\ plan[c] # NotAsked => Len(plan[c]) <= 4
  /\ plan[c] # NotAsked => \A i \in DOMAIN plan[c] : Own(c, plan[c][i]) /\ Met(plan[c], i)

(* A batch nobody waits for has given up what it has not done.             *)
Keyed(w) == worker[w].remove \cup worker[w].add
Threads(c) ==
  /\ joins[c] # NoBatch => \E n \in {1, 2} : joins[c] = <<c, n>>
  /\ \A n \in {1, 2} : /\ worker[<<c, n>>].remove = {} \/ worker[<<c, n>>].add = {}
                       /\ \A k \in Keyed(<<c, n>>) : Mine(c, k)
                       /\ Over(<<c, n>>) => Keyed(<<c, n>>) = {}
                       /\ <<c, n>> # joins[c] => Keyed(<<c, n>>) \subseteq undone

(* What remains to be done gives CoreHub what the row will be.             *)
Agrees(k) == /\ \A c \in Callers : Mine(c, k) => HubAfter(c, k) = RowAfter(c, k)
             /\ (\A c \in Callers : ~Mine(c, k)) => hub[k] = rows[k]
Follows == /\ \A c \in Callers : Sound(c) /\ Threads(c)
           /\ \A k \in Keys : k \notin undone => Agrees(k)

LEMMA NotShared ==
  ASSUME Apart, NEW c \in Callers, NEW d \in Callers, c # d, NEW k \in Keys
  PROVE  ~(Mine(c, k) /\ Mine(d, k))
<1>1. ~(k \in Events /\ k \in Flows)
  BY KeysAssumption
<1>2. Reach[c] \cap Reach[d] \cap Flows = {} /\ ~(Handles(c) /\ Handles(d))
  BY DEF Apart
<1> HIDE DEF Handles
<1> QED
  BY <1>1, <1>2 DEF Mine

LEMMA NothingAsked ==
  ASSUME NEW k, NEW x
  PROVE  /\ HubEnd(<<>>, k, x) = x /\ RowEnd(<<>>, k, x) = x
         /\ HubEnd(NotAsked, k, x) = x /\ RowEnd(NotAsked, k, x) = x
         /\ HubStep(NoStep, k, x) = x /\ RowStep(NoStep, k, x) = x
<1> DEFINE request == [do |-> "request"]
<1>1. \A y : /\ HubStep(NoStep, k, y) = y /\ RowStep(NoStep, k, y) = y
             /\ HubStep(request, k, y) = y /\ RowStep(request, k, y) = y
  BY DEF HubStep, RowStep, NoStep
<1>2. \A i : StepOf(<<>>, i) = NoStep
  BY DEF StepOf
<1>3. /\ StepOf(NotAsked, 1) = request
      /\ \A i \in {2, 3, 4} : StepOf(NotAsked, i) = NoStep
  BY DEF StepOf, NotAsked
<1> HIDE DEF request
<1> QED
  BY <1>1, <1>2, <1>3 DEF HubEnd, RowEnd

(* The first step, then the others.                                        *)
LEMMA OneByOne ==
  ASSUME NEW p \in Seq(PlanStep), p # <<>>, Len(p) <= 4, NEW k, NEW x
  PROVE  /\ HubEnd(p, k, x) = HubEnd(Tail(p), k, HubStep(p[1], k, x))
         /\ RowEnd(p, k, x) = RowEnd(Tail(p), k, RowStep(p[1], k, x))
<1> DEFINE q == Tail(p)
<1>1. /\ Len(p) \in Nat \ {0} /\ q \in Seq(PlanStep) /\ Len(q) = Len(p) - 1
      /\ \A i \in 1 .. Len(q) : q[i] = p[i + 1]
      /\ DOMAIN p = 1 .. Len(p) /\ DOMAIN q = 1 .. Len(q)
  BY EmptySeq, HeadTailProperties, LenProperties
<1> HIDE DEF q
<1>2. /\ StepOf(p, 1) = p[1] /\ StepOf(q, 1) = StepOf(p, 2)
      /\ StepOf(q, 2) = StepOf(p, 3) /\ StepOf(q, 3) = StepOf(p, 4) /\ StepOf(q, 4) = NoStep
  BY <1>1 DEF StepOf
<1>3. \A y : HubStep(NoStep, k, y) = y /\ RowStep(NoStep, k, y) = y
  BY NothingAsked
<1>4. HubEnd(p, k, x) = HubEnd(q, k, HubStep(p[1], k, x))
  BY <1>2, <1>3 DEF HubEnd
<1>5. RowEnd(p, k, x) = RowEnd(q, k, RowStep(p[1], k, x))
  BY <1>2, <1>3 DEF RowEnd
<1> QED
  BY <1>4, <1>5 DEF q

LEMMA InOrder1 ==
  ASSUME NEW s, NEW k, NEW x, NEW y
  PROVE  /\ HubEnd(<<s>>, k, x)
              = HubStep(s, k, x)
         /\ RowEnd(<<s>>, k, y)
              = RowStep(s, k, y)
<1>1. /\ StepOf(<<s>>, 1) = s
      /\ StepOf(<<s>>, 2) = NoStep
      /\ StepOf(<<s>>, 3) = NoStep
      /\ StepOf(<<s>>, 4) = NoStep
  BY DEF StepOf
<1>2. \A z : HubStep(NoStep, k, z) = z /\ RowStep(NoStep, k, z) = z
  BY NothingAsked
<1> QED
  BY <1>1, <1>2 DEF HubEnd, RowEnd

LEMMA InOrder2 ==
  ASSUME NEW s, NEW t, NEW k, NEW x, NEW y
  PROVE  /\ HubEnd(<<s, t>>, k, x)
              = HubStep(t, k, HubStep(s, k, x))
         /\ RowEnd(<<s, t>>, k, y)
              = RowStep(t, k, RowStep(s, k, y))
<1>1. /\ StepOf(<<s, t>>, 1) = s
      /\ StepOf(<<s, t>>, 2) = t
      /\ StepOf(<<s, t>>, 3) = NoStep
      /\ StepOf(<<s, t>>, 4) = NoStep
  BY DEF StepOf
<1>2. \A z : HubStep(NoStep, k, z) = z /\ RowStep(NoStep, k, z) = z
  BY NothingAsked
<1> QED
  BY <1>1, <1>2 DEF HubEnd, RowEnd

LEMMA InOrder3 ==
  ASSUME NEW s, NEW t, NEW u, NEW k, NEW x, NEW y
  PROVE  /\ HubEnd(<<s, t, u>>, k, x)
              = HubStep(u, k, HubStep(t, k, HubStep(s, k, x)))
         /\ RowEnd(<<s, t, u>>, k, y)
              = RowStep(u, k, RowStep(t, k, RowStep(s, k, y)))
<1>1. /\ StepOf(<<s, t, u>>, 1) = s
      /\ StepOf(<<s, t, u>>, 2) = t
      /\ StepOf(<<s, t, u>>, 3) = u
      /\ StepOf(<<s, t, u>>, 4) = NoStep
  BY DEF StepOf
<1>2. \A z : HubStep(NoStep, k, z) = z /\ RowStep(NoStep, k, z) = z
  BY NothingAsked
<1> QED
  BY <1>1, <1>2 DEF HubEnd, RowEnd

LEMMA InOrder4 ==
  ASSUME NEW s, NEW t, NEW u, NEW v, NEW k, NEW x, NEW y
  PROVE  /\ HubEnd(<<s, t, u, v>>, k, x)
              = HubStep(v, k, HubStep(u, k, HubStep(t, k, HubStep(s, k, x))))
         /\ RowEnd(<<s, t, u, v>>, k, y)
              = RowStep(v, k, RowStep(u, k, RowStep(t, k, RowStep(s, k, y))))
<1>1. /\ StepOf(<<s, t, u, v>>, 1) = s
      /\ StepOf(<<s, t, u, v>>, 2) = t
      /\ StepOf(<<s, t, u, v>>, 3) = u
      /\ StepOf(<<s, t, u, v>>, 4) = v
  BY DEF StepOf
<1>2. \A z : HubStep(NoStep, k, z) = z /\ RowStep(NoStep, k, z) = z
  BY NothingAsked
<1> QED
  BY <1>1, <1>2 DEF HubEnd, RowEnd

(* When nothing is in work for k, CoreHub has what the row asks for.       *)
LEMMA Quiet ==
  ASSUME IInv, Follows, NEW k \in Keys, k \notin undone, ~InWork(k)
  PROVE  hub[k] = rows[k]
<1>1. Agrees(k)
  BY DEF Follows
<1>2. CASE \A c \in Callers : ~Mine(c, k)
  BY <1>1, <1>2 DEF Agrees
<1>3. CASE \E c \in Callers : Mine(c, k)
  <2>1. PICK c \in Callers : Mine(c, k)
    BY <1>3
  <2>2. HubAfter(c, k) = RowAfter(c, k) /\ Planned(c) /\ Sound(c) /\ Threads(c)
    BY <1>1, <2>1 DEF Agrees, Follows, IInv
  <2>3. CASE plan[c] = NotAsked
    <3>1. joins[c] = NoBatch
      BY <2>2, <2>3 DEF Planned
    <3> QED
      BY <2>2, <2>3, <3>1, NothingAsked DEF HubAfter, RowAfter
  <2>4. CASE plan[c] # NotAsked
    <3> DEFINE p == plan[c]
    <3>1. p \in Seq(PlanStep) /\ Len(p) <= 4
      BY <2>2, <2>4 DEF Planned, Sound
    <3>2. ASSUME NEW i, NEW x
          PROVE  HubStep(StepOf(p, i), k, x) = x /\ RowStep(StepOf(p, i), k, x) = x
      <4>1. CASE i \notin DOMAIN p
        BY <4>1, NothingAsked DEF StepOf
      <4>2. CASE i \in DOMAIN p
        <5>1. p[i].do = "batch" => k \notin p[i].remove /\ k \notin p[i].add
          BY <2>4, <4>2 DEF InWork
        <5>2. p[i].do = "commit" => k \notin p[i].keys
          BY <2>4, <4>2 DEF InWork
        <5>3. p[i].do = "dropJob" => k \notin Events
          BY <2>4, <4>2 DEF InWork
        <5>4. StepOf(p, i) = p[i]
          BY <4>2 DEF StepOf
        <5> HIDE DEF p
        <5> QED
          BY <5>1, <5>2, <5>3, <5>4 DEF HubStep, RowStep, Asked
      <4> QED
        BY <4>1, <4>2
    <3> HIDE DEF p
    <3>3. \A x : HubEnd(p, k, x) = x /\ RowEnd(p, k, x) = x
      BY <3>2 DEF HubEnd, RowEnd
    <3>4. CASE joins[c] = NoBatch
      BY <2>2, <3>3, <3>4 DEF HubAfter, RowAfter, p
    <3>5. CASE joins[c] # NoBatch
      <4>1. p # <<>> /\ IsBatch(p, 1)
        BY <2>2, <3>5 DEF Planned, p
      <4>2. \A x : HubEnd(Tail(p), k, HubStep(p[1], k, x)) = x
        BY <3>1, <3>3, <4>1, OneByOne
      <4>3. \A x : HubStep(p[1], k, x) = x
        <5>1. StepOf(p, 1) = p[1]
          BY <4>1 DEF StepOf, IsBatch
        <5> QED
          BY <3>2, <5>1
      <4>4. PICK n \in {1, 2} : joins[c] = <<c, n>>
        BY <2>2, <3>5 DEF Threads
      <4>5. k \notin Keyed(<<c, n>>)
        <5>1. CASE Over(<<c, n>>)
          BY <2>2, <5>1 DEF Threads
        <5>2. CASE ~Over(<<c, n>>)
          BY <5>2, WorkerFacts DEF InWork, Keyed
        <5> QED
          BY <5>1, <5>2
      <4>6. Pending(joins[c], k, hub[k]) = hub[k]
        BY <4>4, <4>5 DEF Pending, Asked, Keyed
      <4>7. HubAfter(c, k) = HubEnd(Tail(p), k, hub[k]) /\ RowAfter(c, k) = rows[k]
        BY <3>3, <3>5, <4>6 DEF HubAfter, RowAfter, p
      <4> QED
        BY <2>2, <4>2, <4>3, <4>7
    <3> QED
      BY <3>4, <3>5
  <2> QED
    BY <2>3, <2>4
<1> QED
  BY <1>2, <1>3

(* One call moves, or one of its batches: the others do not see it.        *)
LEMMA OneMoves ==
  ASSUME Apart, IInv, Follows, NEW c \in Callers, undone \subseteq undone',
         \A d \in Callers \ {c} : plan'[d] = plan[d] /\ joins'[d] = joins[d],
         \A d \in Callers \ {c}, n \in {1, 2} : worker'[<<d, n>>] = worker[<<d, n>>],
         \A k \in Keys : rows'[k] # rows[k] => Mine(c, k),
         \A k \in Keys : hub'[k] # hub[k] => Mine(c, k) \/ k \in undone',
         job' = job \/ Handles(c),
         Sound(c)', Threads(c)',
         \A k \in Keys : k \notin undone' /\ Mine(c, k) => (HubAfter(c, k) = RowAfter(c, k))'
  PROVE  Follows'
<1>1. ASSUME NEW d \in Callers \ {c} PROVE Threads(d)'
  <2>1. Threads(d) /\ joins'[d] = joins[d]
    BY DEF Follows
  <2>2. ASSUME NEW n \in {1, 2}
        PROVE  /\ Keyed(<<d, n>>)' = Keyed(<<d, n>>) /\ Over(<<d, n>>)' = Over(<<d, n>>)
               /\ worker'[<<d, n>>] = worker[<<d, n>>]
    BY DEF Keyed, Over
  <2> HIDE DEF Keyed, Over, Mine
  <2>3. ASSUME NEW n \in {1, 2}
        PROVE  (/\ worker[<<d, n>>].remove = {} \/ worker[<<d, n>>].add = {}
                /\ \A k \in Keyed(<<d, n>>) : Mine(d, k)
                /\ Over(<<d, n>>) => Keyed(<<d, n>>) = {}
                /\ <<d, n>> # joins[d] => Keyed(<<d, n>>) \subseteq undone)'
    <3>1. /\ worker[<<d, n>>].remove = {} \/ worker[<<d, n>>].add = {}
          /\ \A k \in Keyed(<<d, n>>) : Mine(d, k)
          /\ Over(<<d, n>>) => Keyed(<<d, n>>) = {}
          /\ <<d, n>> # joins[d] => Keyed(<<d, n>>) \subseteq undone
      BY <2>1 DEF Threads
    <3>2. (\A k \in Keyed(<<d, n>>) : Mine(d, k))'
      BY <2>2, <3>1 DEF Mine
    <3> QED
      BY <2>1, <2>2, <3>1, <3>2
  <2>4. (joins[d] # NoBatch => \E n \in {1, 2} : joins[d] = <<d, n>>)'
    BY <2>1 DEF Threads
  <2> QED
    BY <2>3, <2>4 DEF Threads
<1>2. ASSUME NEW d \in Callers \ {c} PROVE Sound(d)'
  <2>1. Sound(d) /\ plan'[d] = plan[d] /\ Planned(d)
    BY DEF Follows, IInv
  <2>2. PICK p : p = plan[d]
    OBVIOUS
  <2>3. CASE p = NotAsked
    BY <2>1, <2>2, <2>3 DEF Sound
  <2>4. CASE p # NotAsked
    <3> SUFFICES ASSUME NEW i \in DOMAIN p PROVE Own(d, p[i]) /\ Met(p, i)'
      BY <2>1, <2>2 DEF Sound, Own
    <3>1. Own(d, p[i]) /\ Met(p, i) /\ p \in Seq(PlanStep)
      BY <2>1, <2>2, <2>4 DEF Sound, Planned
    <3>2. p[i] \in PlanStep /\ (p[i].do = "commit" => p[i].keys \in SUBSET Keys)
      BY <3>1, StepFacts
    <3>3. p[i].do = "commit" => \A k \in p[i].keys : rows'[k] = rows[k]
      <4> SUFFICES ASSUME p[i].do = "commit", NEW k \in p[i].keys, rows'[k] # rows[k] PROVE FALSE
        OBVIOUS
      <4>1. k \in Keys /\ Mine(d, k)
        BY <3>1, <3>2 DEF Own
      <4>2. Mine(c, k)
        BY <4>1
      <4> QED
        BY <4>1, <4>2, NotShared
    <3>4. p[i].do = "commit" /\ p[i].needs = "job" => job' = job
      <4> SUFFICES ASSUME p[i].do = "commit", p[i].needs = "job", job' # job PROVE FALSE
        OBVIOUS
      <4>1. Handles(c) /\ Handles(d)
        BY <3>1 DEF Own
      <4> QED
        BY <4>1 DEF Apart
    <3> QED
      BY <3>1, <3>3, <3>4 DEF Met
  <2> QED
    BY <2>3, <2>4
<1>3. ASSUME NEW k \in Keys, k \notin undone', NEW d \in Callers \ {c}, Mine(d, k)
      PROVE  (HubAfter(d, k) = RowAfter(d, k))'
  <2>1. ~Mine(c, k)
    BY <1>3, NotShared
  <2>2. hub'[k] = hub[k] /\ rows'[k] = rows[k] /\ plan'[d] = plan[d] /\ joins'[d] = joins[d]
    BY <1>3, <2>1
  <2>3. HubAfter(d, k) = RowAfter(d, k) /\ Threads(d)
    BY <1>3 DEF Follows, Agrees
  <2>4. RowAfter(d, k)' = RowAfter(d, k)
    BY <2>2 DEF RowAfter, RowEnd, RowStep, StepOf
  <2>5. HubAfter(d, k)' = HubAfter(d, k)
    <3>1. CASE joins[d] = NoBatch
      BY <2>2, <3>1 DEF HubAfter, HubEnd, HubStep, StepOf, Asked
    <3>2. CASE joins[d] # NoBatch
      <4>1. PICK n \in {1, 2} : joins[d] = <<d, n>>
        BY <2>3, <3>2 DEF Threads
      <4>5. worker'[<<d, n>>] = worker[<<d, n>>] /\ joins'[d] = <<d, n>>
        BY <2>2, <4>1
      <4>2. Pending(joins[d], k, hub[k])' = Pending(joins[d], k, hub[k])
        BY <2>2, <4>1, <4>5 DEF Pending, Asked
      <4>3. HubAfter(d, k)' = HubEnd(Tail(plan'[d]), k, Pending(joins[d], k, hub[k])')
        BY <2>2, <3>2 DEF HubAfter, HubEnd, HubStep, StepOf, Asked, Pending
      <4>4. HubAfter(d, k) = HubEnd(Tail(plan[d]), k, Pending(joins[d], k, hub[k]))
        BY <3>2 DEF HubAfter
      <4> QED
        BY <2>2, <4>2, <4>3, <4>4
    <3> QED
      BY <3>1, <3>2
  <2> QED
    BY <2>3, <2>4, <2>5
<1>4. ASSUME NEW k \in Keys, k \notin undone', \A d \in Callers : ~Mine(d, k)
      PROVE  hub'[k] = rows'[k]
  <2>1. hub'[k] = hub[k] /\ rows'[k] = rows[k]
    BY <1>4
  <2> QED
    BY <1>4, <2>1 DEF Follows, Agrees
<1>5. ASSUME NEW k \in Keys, k \notin undone' PROVE Agrees(k)'
  <2>1. ASSUME NEW d \in Callers, Mine(d, k) PROVE (HubAfter(d, k) = RowAfter(d, k))'
    BY <1>3, <1>5, <2>1
  <2> QED
    BY <1>4, <1>5, <2>1 DEF Agrees, Mine, Handles, EventsOf
<1>6. \A d \in Callers : Sound(d)' /\ Threads(d)'
  BY <1>1, <1>2
<1> QED
  BY <1>5, <1>6 DEF Follows

(* A plan that gets shorter stays sound.                                   *)
LEMMA StaysSound ==
  ASSUME NEW c \in Callers, Sound(c), plan[c] \in Seq(PlanStep), plan[c] # <<>>,
         plan'[c] = Tail(plan[c]),
         \/ job' = job /\ plan[c][1].do # "insertJob"
         \/ job' = "live" /\ plan[c][1].do = "insertJob"
         \/ plan[c][1].do = "dropJob"
  PROVE  Sound(c)'
<1>1. PICK p : p = plan[c]
  OBVIOUS
<1>2. plan[c] # NotAsked
  BY AskedOnce
<1>3. /\ Len(p) \in Nat \ {0} /\ Tail(p) \in Seq(PlanStep) /\ Len(Tail(p)) = Len(p) - 1
      /\ \A i \in 1 .. Len(Tail(p)) : Tail(p)[i] = p[i + 1]
      /\ DOMAIN p = 1 .. Len(p) /\ DOMAIN Tail(p) = 1 .. Len(Tail(p))
  BY <1>1, EmptySeq, HeadTailProperties, LenProperties
<1>4. Len(p) <= 4 /\ \A i \in DOMAIN p : Own(c, p[i]) /\ Met(p, i)
  BY <1>1, <1>2 DEF Sound
<1>5. PICK q : q = Tail(p)
  OBVIOUS
<1>6. ASSUME NEW i \in DOMAIN q PROVE Own(c, q[i]) /\ Met(q, i)'
  <2>1. i \in Nat /\ i >= 1 /\ i + 1 \in DOMAIN p /\ q[i] = p[i + 1] /\ i + 1 # 1 /\ 1 \in DOMAIN p
    BY <1>3, <1>5
  <2>2. Own(c, p[i + 1]) /\ Met(p, i + 1)
    BY <1>4, <2>1
  <2>3. q[i].do # "insertJob"
    BY <2>1, <2>2 DEF Met
  <2>4. ~(q[i].do = "commit" /\ q[i].needs = "row")
    BY <2>1, <2>2 DEF Met
  <2>5. ASSUME q[i].do = "commit", q[i].needs = "job"
        PROVE  job' = "live" /\ \A j \in DOMAIN q : q[j].do # "dropJob"
    <3>1. /\ job = "live" \/ p[1].do = "insertJob"
          /\ \A j \in DOMAIN p : p[j].do # "dropJob"
      BY <2>1, <2>2, <2>5 DEF Met
    <3>2. job' = "live"
      BY <1>1, <2>1, <3>1
    <3>3. \A j \in DOMAIN q : j + 1 \in DOMAIN p /\ q[j] = p[j + 1]
      BY <1>3, <1>5
    <3> QED
      BY <3>1, <3>2, <3>3
  <2> QED
    BY <2>1, <2>2, <2>3, <2>4, <2>5 DEF Met
<1>7. plan'[c] = q /\ Len(q) <= 4
  BY <1>1, <1>3, <1>4, <1>5
<1> QED
  BY <1>6, <1>7 DEF Sound, Own

LEMMA ThreadsStay ==
  ASSUME NEW c \in Callers, Threads(c), undone \subseteq undone',
         \A n \in {1, 2} : worker'[<<c, n>>] = worker[<<c, n>>],
         joins'[c] = NoBatch,
         joins[c] # NoBatch => Keyed(joins[c]) \subseteq undone'
  PROVE  Threads(c)'
<1>1. ASSUME NEW n \in {1, 2}
      PROVE  /\ (worker[<<c, n>>].remove = {} \/ worker[<<c, n>>].add = {})'
             /\ (Over(<<c, n>>) => Keyed(<<c, n>>) = {})'
             /\ (Keyed(<<c, n>>) \subseteq undone)'
             /\ \A k \in Keyed(<<c, n>>)' : Mine(c, k)
  <2>1. Keyed(<<c, n>>)' = Keyed(<<c, n>>) /\ Over(<<c, n>>)' = Over(<<c, n>>)
        /\ worker'[<<c, n>>] = worker[<<c, n>>]
    BY DEF Keyed, Over
  <2>2. /\ worker[<<c, n>>].remove = {} \/ worker[<<c, n>>].add = {}
        /\ \A k \in Keyed(<<c, n>>) : Mine(c, k)
        /\ Over(<<c, n>>) => Keyed(<<c, n>>) = {}
        /\ <<c, n>> # joins[c] => Keyed(<<c, n>>) \subseteq undone
    BY DEF Threads
  <2> HIDE DEF Keyed, Over, Mine
  <2>3. Keyed(<<c, n>>) \subseteq undone'
    <3>1. CASE <<c, n>> = joins[c]
      BY <3>1, WorkerFacts
    <3> QED
      BY <2>2, <3>1
  <2> QED
    BY <2>1, <2>2, <2>3
<1> QED
  BY <1>1 DEF Threads, Mine, Handles, EventsOf

(***************************************************************************)
(* What CoreHub will have, along an API call                               *)
(***************************************************************************)

LEMMA Effects ==
  ASSUME NEW keys, NEW v, NEW x, NEW k, NEW wait, NEW needs
  PROVE  /\ HubStep(Register(keys, v, wait), k, x) = IF k \in keys THEN v ELSE x
         /\ RowStep(Register(keys, v, wait), k, x) = x
         /\ HubStep(Delete(keys, wait), k, x) = IF k \in keys THEN None ELSE x
         /\ RowStep(Delete(keys, wait), k, x) = x
         /\ HubStep(SetRows(keys, v, needs), k, x) = x
         /\ RowStep(SetRows(keys, v, needs), k, x) = IF k \in keys THEN v ELSE x
         /\ HubStep(InsertJob, k, x) = x /\ RowStep(InsertJob, k, x) = x
         /\ HubStep(DropJob, k, x) = x
         /\ RowStep(DropJob, k, x) = IF k \in Events THEN None ELSE x
<1>1. /\ HubStep(Register(keys, v, wait), k, x) = IF k \in keys THEN v ELSE x
      /\ RowStep(Register(keys, v, wait), k, x) = x
  BY DEF HubStep, RowStep, Asked, Register
<1>2. /\ HubStep(Delete(keys, wait), k, x) = IF k \in keys THEN None ELSE x
      /\ RowStep(Delete(keys, wait), k, x) = x
  BY DEF HubStep, RowStep, Asked, Delete
<1>3. /\ HubStep(SetRows(keys, v, needs), k, x) = x
      /\ RowStep(SetRows(keys, v, needs), k, x) = IF k \in keys THEN v ELSE x
  BY DEF HubStep, RowStep, SetRows
<1>4. /\ HubStep(InsertJob, k, x) = x /\ RowStep(InsertJob, k, x) = x
      /\ HubStep(DropJob, k, x) = x
      /\ RowStep(DropJob, k, x) = IF k \in Events THEN None ELSE x
  BY DEF HubStep, RowStep, InsertJob, DropJob
<1> QED
  BY <1>1, <1>2, <1>3, <1>4

(* A call that begins has a sound plan, and one that keeps CoreHub and the *)
(* tables together if they were.                                           *)
LEMMA BeginFollows ==
  ASSUME Apart, IInv, Follows, NEW c \in Callers, NEW kind, NEW steps,
         Begin(c, kind, steps), steps # NotAsked, Len(steps) <= 4,
         \A i \in DOMAIN steps : Own(c, steps[i]) /\ Met(steps, i),
         \A k \in Keys : hub[k] = rows[k] => HubEnd(steps, k, hub[k]) = RowEnd(steps, k, rows[k])
  PROVE  Follows'
<1>1. /\ plan' = [plan EXCEPT ![c] = steps] /\ plan[c] = NotAsked /\ plan'[c] = steps
      /\ UNCHANGED <<job, rows, hub, up, joins, worker, undone>>
  BY DEF Begin, IInv
<1>2. joins[c] = NoBatch /\ Threads(c)
  BY <1>1 DEF IInv, Planned, Follows
<1>3. Threads(c)'
  BY <1>1, <1>2, ThreadsStay
<1>4. Sound(c)'
  BY <1>1 DEF Sound, Met, Own, Mine, Handles, EventsOf
<1>5. ASSUME NEW k \in Keys, k \notin undone', Mine(c, k)
      PROVE  (HubAfter(c, k) = RowAfter(c, k))'
  <2>1. HubAfter(c, k) = RowAfter(c, k)
    BY <1>1, <1>5 DEF Follows, Agrees
  <2>2. hub[k] = rows[k]
    BY <1>1, <1>2, <2>1, NothingAsked DEF HubAfter, RowAfter
  <2>3. HubAfter(c, k)' = HubEnd(steps, k, hub[k])
    BY <1>1, <1>2 DEF HubAfter, HubEnd, HubStep, StepOf, Asked
  <2>4. RowAfter(c, k)' = RowEnd(steps, k, rows[k])
    BY <1>1 DEF RowAfter, RowEnd, RowStep, StepOf
  <2> QED
    BY <2>2, <2>3, <2>4
<1>6. \A d \in Callers \ {c} : plan'[d] = plan[d] /\ joins'[d] = joins[d]
  BY <1>1
<1> QED
  BY <1>1, <1>3, <1>4, <1>5, <1>6, OneMoves

(* Steps that need no more than a job that is there.                       *)
Plain(c, s) == /\ Own(c, s) /\ s.do \in {"batch", "commit"}
               /\ s.do = "commit" => s.needs # "row" /\ (s.needs = "job" => job = "live")

LEMMA PlainSteps ==
  ASSUME NEW c \in Callers, NEW p, \A i \in DOMAIN p : Plain(c, p[i])
  PROVE  \A i \in DOMAIN p : Own(c, p[i]) /\ Met(p, i)
  BY DEF Plain, Met

LEMMA PlainPlans ==
  ASSUME NEW c \in Callers, NEW s, NEW t, NEW u, NEW v,
         Plain(c, s), Plain(c, t), Plain(c, u), Plain(c, v)
  PROVE  /\ \A i \in DOMAIN <<s>> : Own(c, <<s>>[i]) /\ Met(<<s>>, i)
         /\ \A i \in DOMAIN <<s, t>> : Own(c, <<s, t>>[i]) /\ Met(<<s, t>>, i)
         /\ \A i \in DOMAIN <<s, t, u>> : Own(c, <<s, t, u>>[i]) /\ Met(<<s, t, u>>, i)
         /\ \A i \in DOMAIN <<s, t, u, v>> : Own(c, <<s, t, u, v>>[i]) /\ Met(<<s, t, u, v>>, i)
<1>1. /\ \A i \in DOMAIN <<s>> : Plain(c, <<s>>[i])
      /\ \A i \in DOMAIN <<s, t>> : Plain(c, <<s, t>>[i])
      /\ \A i \in DOMAIN <<s, t, u>> : Plain(c, <<s, t, u>>[i])
      /\ \A i \in DOMAIN <<s, t, u, v>> : Plain(c, <<s, t, u, v>>[i])
  OBVIOUS
<1> QED
  BY <1>1, PlainSteps

LEMMA NotARequest ==
  ASSUME NEW s \in PlanStep, NEW t \in PlanStep, NEW u \in PlanStep, NEW v \in PlanStep
  PROVE  /\ <<s>> # NotAsked /\ <<s, t>> # NotAsked /\ <<s, t, u>> # NotAsked
         /\ <<s, t, u, v>> # NotAsked
         /\ Len(<<s>>) <= 4 /\ Len(<<s, t>>) <= 4 /\ Len(<<s, t, u>>) <= 4
         /\ Len(<<s, t, u, v>>) <= 4
<1>1. <<s>> \in Seq(PlanStep) /\ <<s, t>> \in Seq(PlanStep) /\ <<s, t, u>> \in Seq(PlanStep)
      /\ <<s, t, u, v>> \in Seq(PlanStep)
  OBVIOUS
<1>2. <<s>> # NotAsked
  BY <1>1, AskedOnce
<1>3. <<s, t>> # NotAsked
  BY <1>1, AskedOnce
<1>4. <<s, t, u>> # NotAsked
  BY <1>1, AskedOnce
<1>5. <<s, t, u, v>> # NotAsked
  BY <1>1, AskedOnce
<1>6. /\ Len(<<s>>) <= 4 /\ Len(<<s, t>>) <= 4 /\ Len(<<s, t, u>>) <= 4
      /\ Len(<<s, t, u, v>>) <= 4
  OBVIOUS
<1> QED
  BY <1>2, <1>3, <1>4, <1>5, <1>6

LEMMA CreateFollows ==
  ASSUME Apart, IInv, Follows, NEW c \in Callers, NEW new \in SUBSET Events, NEW v \in Value,
         CreateJob(c, new, v)
  PROVE  Follows'
<1> DEFINE set == SetRows(new, v, "job")
           reg == Register(new, v, Joined)
           steps == <<InsertJob, set, reg>>
<1>1. Begin(c, "createJob", steps) /\ new # {} /\ new \subseteq EventsOf(c)
  BY DEF CreateJob
<1>2. Handles(c) /\ \A k \in new : Mine(c, k)
  BY <1>1 DEF Handles, Mine
<1>3. /\ InsertJob \in PlanStep /\ set \in PlanStep /\ reg \in PlanStep
  BY StepsAre DEF Keys, Value
<1>4. Own(c, InsertJob) /\ Own(c, set) /\ Own(c, reg)
  BY <1>2 DEF Own, InsertJob, SetRows, Register
<1>5. /\ InsertJob.do = "insertJob" /\ set.do = "commit" /\ set.needs = "job" /\ reg.do = "batch"
  BY DEF InsertJob, SetRows, Register
<1> HIDE DEF set, reg
<1>6. ASSUME NEW i \in DOMAIN steps PROVE Own(c, steps[i]) /\ Met(steps, i)
  <2>1. steps[1] = InsertJob /\ steps[2] = set /\ steps[3] = reg /\ DOMAIN steps = {1, 2, 3}
    OBVIOUS
  <2> HIDE DEF steps
  <2>2. CASE i = 1
    BY <1>4, <1>5, <2>1, <2>2 DEF Met
  <2>3. CASE i = 2
    BY <1>4, <1>5, <2>1, <2>3 DEF Met
  <2>4. CASE i = 3
    BY <1>4, <1>5, <2>1, <2>4 DEF Met
  <2> QED
    BY <2>1, <2>2, <2>3, <2>4
<1>7. ASSUME NEW k \in Keys, hub[k] = rows[k]
      PROVE  HubEnd(steps, k, hub[k]) = RowEnd(steps, k, rows[k])
  <2>1. \A x : /\ HubStep(InsertJob, k, x) = x /\ RowStep(InsertJob, k, x) = x
               /\ HubStep(set, k, x) = x /\ RowStep(set, k, x) = IF k \in new THEN v ELSE x
               /\ HubStep(reg, k, x) = (IF k \in new THEN v ELSE x) /\ RowStep(reg, k, x) = x
    BY Effects DEF set, reg
  <2>2. /\ HubEnd(steps, k, hub[k])
          = HubStep(reg, k, HubStep(set, k, HubStep(InsertJob, k, hub[k])))
       /\ RowEnd(steps, k, rows[k])
          = RowStep(reg, k, RowStep(set, k, RowStep(InsertJob, k, rows[k])))
    BY InOrder3
  <2> HIDE DEF steps
  <2> QED
    BY <1>7, <2>1, <2>2
<1>8. steps # NotAsked /\ Len(steps) <= 4
  BY <1>3, NotARequest
<1> QED
  BY <1>1, <1>6, <1>7, <1>8, BeginFollows

(* The plans of an update: with or without old events, new ones.           *)
LEMMA UpdatePlans ==
  ASSUME NEW new \in SUBSET Events, NEW v \in Value, NEW old \in SUBSET Events
  PROVE  (IF old = {} THEN <<>> ELSE <<Delete(old, Joined)>>) \o Replacement(new, v) =
           LET set   == SetRows(new, v, "job")
               reg   == Register(new, v, Joined)
               clear == SetRows(Events, None, "nothing")
               del   == Delete(old, Joined)
           IN  IF old = {}
                 THEN IF new = {} THEN <<clear>> ELSE <<clear, set, reg>>
                 ELSE IF new = {} THEN <<del, clear>> ELSE <<del, clear, set, reg>>
<1> DEFINE set   == SetRows(new, v, "job")
           reg   == Register(new, v, Joined)
           clear == SetRows(Events, None, "nothing")
           del   == Delete(old, Joined)
<1>1. set \in PlanStep /\ reg \in PlanStep /\ clear \in PlanStep /\ del \in PlanStep
  BY StepsAre DEF Keys, Value
<1>2. Replacement(new, v) = <<clear>> \o (IF new = {} THEN <<>> ELSE <<set, reg>>)
  BY DEF Replacement
<1> HIDE DEF set, reg, clear, del
<1>3. /\ <<clear>> \in Seq(PlanStep) /\ <<clear, set, reg>> \in Seq(PlanStep)
  BY <1>1
<1>4. /\ <<clear>> \o <<>> = <<clear>> /\ <<clear>> \o <<set, reg>> = <<clear, set, reg>>
      /\ <<>> \o <<clear>> = <<clear>> /\ <<>> \o <<clear, set, reg>> = <<clear, set, reg>>
      /\ <<del>> \o <<clear>> = <<del, clear>>
      /\ <<del>> \o <<clear, set, reg>> = <<del, clear, set, reg>>
  BY <1>1, <1>3, ConcatEmptySeq, Joined2, Joined3, Joined4
<1>5. (IF old = {} THEN <<>> ELSE <<del>>) \o Replacement(new, v) =
        IF old = {}
          THEN IF new = {} THEN <<clear>> ELSE <<clear, set, reg>>
          ELSE IF new = {} THEN <<del, clear>> ELSE <<del, clear, set, reg>>
  <2>1. CASE old = {} /\ new = {}
    BY <1>2, <1>4, <2>1
  <2>2. CASE old = {} /\ new # {}
    BY <1>2, <1>4, <2>2
  <2>3. CASE old # {} /\ new = {}
    BY <1>2, <1>4, <2>3
  <2>4. CASE old # {} /\ new # {}
    BY <1>2, <1>4, <2>4
  <2> QED
    BY <2>1, <2>2, <2>3, <2>4
<1> QED
  BY <1>5 DEF set, reg, clear, del

LEMMA UpdateFollows ==
  ASSUME Apart, IInv, Follows, NEW c \in Callers, NEW new \in SUBSET Events, NEW v \in Value,
         UpdateJob(c, new, v)
  PROVE  Follows'
<1> DEFINE first == IF RowsOf(Events) = {} THEN <<>> ELSE <<Delete(RowsOf(Events), Joined)>>
<1>1. Begin(c, "updateJob", first \o Replacement(new, v)) /\ job = "live" /\ EventsOf(c) # {}
  BY DEF UpdateJob
<1>2. PICK old : old = RowsOf(Events)
  OBVIOUS
<1>3. old \in SUBSET Events /\ \A k \in Events \ old : rows[k] = None
  BY <1>2 DEF RowsOf
<1>4. Handles(c) /\ \A k \in Events : Mine(c, k)
  BY <1>1 DEF Handles, Mine
<1> DEFINE set   == SetRows(new, v, "job")
           reg   == Register(new, v, Joined)
           clear == SetRows(Events, None, "nothing")
           del   == Delete(old, Joined)
<1>5. set \in PlanStep /\ reg \in PlanStep /\ clear \in PlanStep /\ del \in PlanStep
  BY <1>3, StepsAre DEF Keys, Value
<1>6. Plain(c, clear)
  BY <1>4 DEF Plain, Own, SetRows
<1>7. Plain(c, set) /\ Plain(c, reg)
  BY <1>1, <1>4 DEF Plain, Own, SetRows, Register
<1>8. Plain(c, del)
  BY <1>3, <1>4 DEF Plain, Own, Delete
<1>9. ASSUME NEW k, NEW x
      PROVE  /\ HubStep(set, k, x) = x /\ RowStep(set, k, x) = (IF k \in new THEN v ELSE x)
             /\ HubStep(reg, k, x) = (IF k \in new THEN v ELSE x) /\ RowStep(reg, k, x) = x
             /\ HubStep(clear, k, x) = x /\ RowStep(clear, k, x) = (IF k \in Events THEN None ELSE x)
             /\ HubStep(del, k, x) = (IF k \in old THEN None ELSE x) /\ RowStep(del, k, x) = x
  BY Effects
<1>10. first \o Replacement(new, v) =
         IF old = {}
           THEN IF new = {} THEN <<clear>> ELSE <<clear, set, reg>>
           ELSE IF new = {} THEN <<del, clear>> ELSE <<del, clear, set, reg>>
  BY <1>2, <1>3, UpdatePlans
<1> HIDE DEF set, reg, clear, del, first
<1>11. PICK steps : steps = first \o Replacement(new, v)
  OBVIOUS
<1>12. /\ \A i \in DOMAIN steps : Own(c, steps[i]) /\ Met(steps, i)
       /\ steps # NotAsked /\ Len(steps) <= 4
  <2>1. CASE steps = <<clear>>
    BY <1>5, <1>6, <2>1, PlainPlans, NotARequest
  <2>2. CASE steps = <<clear, set, reg>>
    BY <1>5, <1>6, <1>7, <2>2, PlainPlans, NotARequest
  <2>3. CASE steps = <<del, clear>>
    BY <1>5, <1>6, <1>8, <2>3, PlainPlans, NotARequest
  <2>4. CASE steps = <<del, clear, set, reg>>
    BY <1>5, <1>6, <1>7, <1>8, <2>4, PlainPlans, NotARequest
  <2> QED
    BY <1>10, <1>11, <2>1, <2>2, <2>3, <2>4
<1>13. ASSUME NEW k \in Keys, hub[k] = rows[k]
       PROVE  HubEnd(steps, k, hub[k]) = RowEnd(steps, k, rows[k])
  <2>1. k \in Events /\ k \notin old => rows[k] = None
    BY <1>3
  <2>2. CASE old = {} /\ new = {}
    <3>1. steps = <<clear>>
      BY <1>10, <1>11, <2>2
    <3>2. /\ HubEnd(steps, k, hub[k])
            = HubStep(clear, k, hub[k])
         /\ RowEnd(steps, k, rows[k])
            = RowStep(clear, k, rows[k])
      BY <3>1, InOrder1
    <3> QED
      BY <1>9, <1>13, <2>1, <2>2, <3>2
  <2>3. CASE old = {} /\ new # {}
    <3>1. steps = <<clear, set, reg>>
      BY <1>10, <1>11, <2>3
    <3>2. /\ HubEnd(steps, k, hub[k])
            = HubStep(reg, k, HubStep(set, k, HubStep(clear, k, hub[k])))
         /\ RowEnd(steps, k, rows[k])
            = RowStep(reg, k, RowStep(set, k, RowStep(clear, k, rows[k])))
      BY <3>1, InOrder3
    <3> QED
      BY <1>9, <1>13, <2>1, <2>3, <3>2
  <2>4. CASE old # {} /\ new = {}
    <3>1. steps = <<del, clear>>
      BY <1>10, <1>11, <2>4
    <3>2. /\ HubEnd(steps, k, hub[k])
            = HubStep(clear, k, HubStep(del, k, hub[k]))
         /\ RowEnd(steps, k, rows[k])
            = RowStep(clear, k, RowStep(del, k, rows[k]))
      BY <3>1, InOrder2
    <3> QED
      BY <1>3, <1>9, <1>13, <2>1, <3>2
  <2>5. CASE old # {} /\ new # {}
    <3>1. steps = <<del, clear, set, reg>>
      BY <1>10, <1>11, <2>5
    <3>2. /\ HubEnd(steps, k, hub[k])
            = HubStep(reg, k, HubStep(set, k, HubStep(clear, k, HubStep(del, k, hub[k]))))
         /\ RowEnd(steps, k, rows[k])
            = RowStep(reg, k, RowStep(set, k, RowStep(clear, k, RowStep(del, k, rows[k]))))
      BY <3>1, InOrder4
    <3> QED
      BY <1>3, <1>9, <1>13, <2>1, <3>2
  <2> QED
    BY <2>2, <2>3, <2>4, <2>5
<1> QED
  BY <1>1, <1>11, <1>12, <1>13, BeginFollows

LEMMA DeleteFollows ==
  ASSUME Apart, IInv, Follows, NEW c \in Callers, DeleteJob(c)
  PROVE  Follows'
<1> DEFINE first == IF RowsOf(Events) = {} THEN <<>> ELSE <<Delete(RowsOf(Events), Forever)>>
<1>1. Begin(c, "deleteJob", first \o <<DropJob>>) /\ EventsOf(c) # {}
  BY DEF DeleteJob
<1>2. PICK old : old = RowsOf(Events)
  OBVIOUS
<1>3. old \in SUBSET Events /\ \A k \in Events \ old : rows[k] = None
  BY <1>2 DEF RowsOf
<1>4. Handles(c) /\ \A k \in Events : Mine(c, k)
  BY <1>1 DEF Handles, Mine
<1> DEFINE del == Delete(old, Forever)
<1>5. del \in PlanStep /\ DropJob \in PlanStep /\ <<DropJob>> \in Seq(PlanStep)
  BY <1>3, StepsAre DEF Keys, Value
<1>6. /\ Own(c, del) /\ Own(c, DropJob) /\ del.do = "batch" /\ DropJob.do = "dropJob"
  BY <1>3, <1>4 DEF Own, Delete, DropJob
<1>7. ASSUME NEW k, NEW x
      PROVE  /\ HubStep(del, k, x) = (IF k \in old THEN None ELSE x) /\ RowStep(del, k, x) = x
             /\ HubStep(DropJob, k, x) = x
             /\ RowStep(DropJob, k, x) = (IF k \in Events THEN None ELSE x)
  BY Effects
<1>8. first = IF old = {} THEN <<>> ELSE <<del>>
  BY <1>2
<1> HIDE DEF del, first
<1>9. <<>> \o <<DropJob>> = <<DropJob>> /\ <<del>> \o <<DropJob>> = <<del, DropJob>>
  BY <1>5, ConcatEmptySeq, Joined2
<1>10. PICK steps : steps = first \o <<DropJob>>
  OBVIOUS
<1>11. (old = {} /\ steps = <<DropJob>>) \/ steps = <<del, DropJob>>
  BY <1>8, <1>9, <1>10
<1>12. steps # NotAsked /\ Len(steps) <= 4
  BY <1>5, <1>11, NotARequest
<1>13. \A i \in DOMAIN steps : Own(c, steps[i]) /\ Met(steps, i)
  <2>1. CASE steps = <<DropJob>>
    <3>1. DOMAIN steps = {1} /\ steps[1] = DropJob
      BY <2>1
    <3> QED
      BY <1>6, <3>1 DEF Met
  <2>2. CASE steps = <<del, DropJob>>
    <3>1. DOMAIN steps = {1, 2} /\ steps[1] = del /\ steps[2] = DropJob
      BY <2>2
    <3> QED
      BY <1>6, <3>1 DEF Met
  <2> QED
    BY <1>11, <2>1, <2>2
<1>14. ASSUME NEW k \in Keys, hub[k] = rows[k]
       PROVE  HubEnd(steps, k, hub[k]) = RowEnd(steps, k, rows[k])
  <2>1. k \in Events /\ k \notin old => rows[k] = None
    BY <1>3
  <2>2. CASE old = {} /\ steps = <<DropJob>>
    <3>1. /\ HubEnd(steps, k, hub[k])
            = HubStep(DropJob, k, hub[k])
         /\ RowEnd(steps, k, rows[k])
            = RowStep(DropJob, k, rows[k])
      BY <2>2, InOrder1
    <3> QED
      BY <1>7, <1>14, <2>1, <2>2, <3>1
  <2>3. CASE steps = <<del, DropJob>>
    <3>1. /\ HubEnd(steps, k, hub[k])
            = HubStep(DropJob, k, HubStep(del, k, hub[k]))
         /\ RowEnd(steps, k, rows[k])
            = RowStep(DropJob, k, RowStep(del, k, rows[k]))
      BY <2>3, InOrder2
    <3> QED
      BY <1>3, <1>7, <1>14, <2>1, <3>1
  <2> QED
    BY <1>11, <2>2, <2>3
<1> QED
  BY <1>1, <1>10, <1>12, <1>13, <1>14, BeginFollows

LEMMA FlowFollows ==
  ASSUME Apart, IInv, Follows, NEW c \in Callers, NEW k \in Flows, NEW v \in Value,
         CreateFlow(c, k, v) \/ UpdateFlow(c, k, v) \/ DeleteFlow(c, k)
  PROVE  Follows'
<1> DEFINE set(w, needs) == SetRows({k}, w, needs)
           reg == Register({k}, v, Forever)
           del == Delete({k}, Forever)
<1>1. k \in Reach[c] /\ Mine(c, k)
  BY DEF CreateFlow, UpdateFlow, DeleteFlow, Mine
<1>2. /\ set(v, "nothing") \in PlanStep /\ set(v, "row") \in PlanStep
      /\ set(None, "nothing") \in PlanStep /\ reg \in PlanStep /\ del \in PlanStep
  BY StepsAre DEF Keys, Value
<1>3. /\ Plain(c, set(v, "nothing")) /\ Plain(c, set(None, "nothing"))
      /\ Plain(c, reg) /\ Plain(c, del) /\ Own(c, set(v, "row"))
      /\ set(v, "row").do = "commit" /\ set(v, "row").needs = "row" /\ set(v, "row").keys = {k}
  BY <1>1 DEF Plain, Own, SetRows, Register, Delete
<1>4. ASSUME NEW l, NEW x, NEW w, NEW needs
      PROVE  /\ HubStep(set(w, needs), l, x) = x
             /\ RowStep(set(w, needs), l, x) = (IF l \in {k} THEN w ELSE x)
             /\ HubStep(reg, l, x) = (IF l \in {k} THEN v ELSE x) /\ RowStep(reg, l, x) = x
             /\ HubStep(del, l, x) = (IF l \in {k} THEN None ELSE x) /\ RowStep(del, l, x) = x
  BY Effects
<1> HIDE DEF set, reg, del
<1>5. CASE CreateFlow(c, k, v)
  <2> DEFINE steps == <<set(v, "nothing"), reg>>
  <2>1. Begin(c, "createFlow", steps)
    BY <1>5 DEF CreateFlow, set, reg
  <2>2. /\ \A i \in DOMAIN steps : Own(c, steps[i]) /\ Met(steps, i)
        /\ steps # NotAsked /\ Len(steps) <= 4
    BY <1>2, <1>3, PlainPlans, NotARequest
  <2>3. ASSUME NEW l \in Keys, hub[l] = rows[l]
        PROVE  HubEnd(steps, l, hub[l]) = RowEnd(steps, l, rows[l])
    <3>1. /\ HubEnd(steps, l, hub[l])
            = HubStep(reg, l, HubStep(set(v, "nothing"), l, hub[l]))
         /\ RowEnd(steps, l, rows[l])
            = RowStep(reg, l, RowStep(set(v, "nothing"), l, rows[l]))
      BY InOrder2
    <3> HIDE DEF steps
    <3> QED
      BY <1>4, <2>3, <3>1
  <2> HIDE DEF steps
  <2> QED
    BY <2>1, <2>2, <2>3, BeginFollows
<1>6. CASE UpdateFlow(c, k, v)
  <2> DEFINE steps == <<set(v, "row"), del, reg>>
  <2>1. Begin(c, "updateFlow", steps) /\ rows[k] # None
    BY <1>6 DEF UpdateFlow, set, reg, del
  <2>2. steps # NotAsked /\ Len(steps) <= 4
    BY <1>2, NotARequest
  <2>3. ASSUME NEW i \in DOMAIN steps PROVE Own(c, steps[i]) /\ Met(steps, i)
    <3>1. /\ DOMAIN steps = {1, 2, 3} /\ steps[1] = set(v, "row") /\ steps[2] = del
          /\ steps[3] = reg
      OBVIOUS
    <3>2. Own(c, del) /\ Own(c, reg) /\ del.do = "batch" /\ reg.do = "batch"
      BY <1>3 DEF Plain, del, reg, Delete, Register
    <3> HIDE DEF steps
    <3> QED
      BY <1>3, <2>1, <3>1, <3>2 DEF Met
  <2>4. ASSUME NEW l \in Keys, hub[l] = rows[l]
        PROVE  HubEnd(steps, l, hub[l]) = RowEnd(steps, l, rows[l])
    <3>1. /\ HubEnd(steps, l, hub[l])
            = HubStep(reg, l, HubStep(del, l, HubStep(set(v, "row"), l, hub[l])))
         /\ RowEnd(steps, l, rows[l])
            = RowStep(reg, l, RowStep(del, l, RowStep(set(v, "row"), l, rows[l])))
      BY InOrder3
    <3> HIDE DEF steps
    <3> QED
      BY <1>4, <2>4, <3>1
  <2> HIDE DEF steps
  <2> QED
    BY <2>1, <2>2, <2>3, <2>4, BeginFollows
<1>7. CASE DeleteFlow(c, k)
  <2> DEFINE steps == <<del, set(None, "nothing")>>
  <2>1. Begin(c, "deleteFlow", steps)
    BY <1>7 DEF DeleteFlow, set, del
  <2>2. /\ \A i \in DOMAIN steps : Own(c, steps[i]) /\ Met(steps, i)
        /\ steps # NotAsked /\ Len(steps) <= 4
    BY <1>2, <1>3, PlainPlans, NotARequest
  <2>3. ASSUME NEW l \in Keys, hub[l] = rows[l]
        PROVE  HubEnd(steps, l, hub[l]) = RowEnd(steps, l, rows[l])
    <3>1. /\ HubEnd(steps, l, hub[l])
            = HubStep(set(None, "nothing"), l, HubStep(del, l, hub[l]))
         /\ RowEnd(steps, l, rows[l])
            = RowStep(set(None, "nothing"), l, RowStep(del, l, rows[l]))
      BY InOrder2
    <3> HIDE DEF steps
    <3> QED
      BY <1>4, <2>3, <3>1
  <2> HIDE DEF steps
  <2> QED
    BY <2>1, <2>2, <2>3, BeginFollows
<1> QED
  BY <1>5, <1>6, <1>7

(* A commit does to the rows what the plan says: it never lacks its job or *)
(* its row.                                                                *)
LEMMA CommitFollows ==
  ASSUME Apart, IInv, Follows, NEW c \in Callers, CommitRows(c) \/ CommitJob(c)
  PROVE  Follows'
<1> DEFINE s == plan[c][1]
<1>1. /\ UNCHANGED <<hub, joins, worker, undone>> /\ joins[c] = NoBatch
      /\ \E what : NextIs(c, what)
  BY DEF CommitRows, CommitJob, NextIs
<1>2. /\ plan[c] \in Seq(PlanStep) /\ plan[c] # <<>> /\ plan[c] # NotAsked
      /\ Head(plan[c]) = s /\ s \in PlanStep /\ 1 \in DOMAIN plan[c]
  <2>1. /\ plan[c] \in Seq(PlanStep) /\ plan[c] # <<>> /\ plan[c] # NotAsked
        /\ Head(plan[c]) = s /\ s \in PlanStep
    BY <1>1, NextStep
  <2> QED
    BY <2>1, EmptySeq, LenProperties
<1>3. Sound(c) /\ Threads(c)
  BY DEF Follows
<1>4. Own(c, s) /\ Met(plan[c], 1) /\ Len(plan[c]) <= 4
  BY <1>2, <1>3 DEF Sound
<1>5. /\ plan' = [plan EXCEPT ![c] = Tail(plan[c])]
      /\ \A k \in Keys : rows'[k] = RowStep(s, k, rows[k])
      /\ \/ s.do = "commit" /\ job' = job
         \/ s.do = "insertJob" /\ job' = "live"
         \/ s.do = "dropJob"
  <2>1. CASE CommitRows(c)
    <3>1. s.do = "commit"
      BY <1>2, <2>1 DEF CommitRows, NextIs
    <3>2. ~(s.needs = "job" /\ job # "live") /\ ~(s.needs = "row" /\ \E k \in s.keys : rows[k] = None)
      BY <1>4, <3>1 DEF Met
    <3>3. /\ plan' = [plan EXCEPT ![c] = Tail(plan[c])] /\ job' = job
          /\ rows' = [k \in Keys |-> IF k \in s.keys THEN s.val ELSE rows[k]]
      BY <1>2, <2>1, <3>2 DEF CommitRows
    <3> HIDE DEF s
    <3> QED
      BY <3>1, <3>3 DEF RowStep
  <2>2. CASE CommitJob(c)
    <3>1. plan' = [plan EXCEPT ![c] = Tail(plan[c])]
      BY <2>2 DEF CommitJob
    <3>2. \/ s.do = "insertJob" /\ job' = "live" /\ rows' = rows
          \/ s.do = "dropJob" /\ rows' = [k \in Keys |-> IF k \in Events THEN None ELSE rows[k]]
      BY <1>2, <2>2 DEF CommitJob, NextIs
    <3> HIDE DEF s
    <3> QED
      BY <3>1, <3>2 DEF RowStep
  <2> QED
    BY <2>1, <2>2
<1>6. plan'[c] = Tail(plan[c]) /\ \A d \in Callers \ {c} : plan'[d] = plan[d]
  BY <1>5 DEF IInv
<1>7. Sound(c)'
  BY <1>2, <1>3, <1>5, <1>6, StaysSound
<1>8. Threads(c)'
  BY <1>1, <1>3, ThreadsStay
<1>9. \A k \in Keys : rows'[k] # rows[k] => Mine(c, k)
  <2> SUFFICES ASSUME NEW k \in Keys, rows'[k] # rows[k] PROVE Mine(c, k)
    OBVIOUS
  <2>1. (s.do = "commit" /\ k \in s.keys) \/ (s.do = "dropJob" /\ k \in Events)
    BY <1>5 DEF RowStep
  <2> QED
    BY <1>4, <2>1 DEF Own, Mine
<1>10. job' = job \/ Handles(c)
  BY <1>4, <1>5 DEF Own
<1>11. ASSUME NEW k \in Keys, k \notin undone', Mine(c, k)
       PROVE  (HubAfter(c, k) = RowAfter(c, k))'
  <2>1. HubAfter(c, k) = RowAfter(c, k)
    BY <1>1, <1>11 DEF Follows, Agrees
  <2>2. HubStep(s, k, hub[k]) = hub[k]
    BY <1>5 DEF HubStep
  <2>3. HubAfter(c, k) = HubEnd(Tail(plan[c]), k, hub[k])
    BY <1>1, <1>2, <1>4, <2>2, OneByOne DEF HubAfter
  <2>4. RowAfter(c, k) = RowEnd(Tail(plan[c]), k, rows'[k])
    BY <1>2, <1>4, <1>5, OneByOne DEF RowAfter
  <2>5. HubAfter(c, k)' = HubEnd(Tail(plan[c]), k, hub[k])
    BY <1>1, <1>6 DEF HubAfter, HubEnd, HubStep, StepOf, Asked
  <2>6. RowAfter(c, k)' = RowEnd(Tail(plan[c]), k, rows'[k])
    BY <1>6 DEF RowAfter, RowEnd, RowStep, StepOf
  <2> QED
    BY <2>1, <2>3, <2>4, <2>5, <2>6
<1> QED
  BY <1>1, <1>6, <1>7, <1>8, <1>9, <1>10, <1>11, OneMoves

(* The batch that starts has all of its step before it.                    *)
LEMMA StartFollows ==
  ASSUME Apart, IInv, Follows, NEW c \in Callers, StartBatch(c)
  PROVE  Follows'
<1> DEFINE s == plan[c][1]
           m == IF worker[<<c, 1>>].at = "idle" THEN 1 ELSE 2
           new == [Idle EXCEPT !.at = "lock", !.remove = s.remove, !.add = s.add,
                               !.val = s.val, !.tries = 1]
<1>1. UNCHANGED <<rows, job, hub, plan, undone>> /\ NextIs(c, "batch")
  BY DEF StartBatch, table
<1>2. /\ plan[c] \in Seq(PlanStep) /\ plan[c] # <<>> /\ plan[c] # NotAsked /\ joins[c] = NoBatch
      /\ Head(plan[c]) = s /\ s \in PlanStep /\ s.do = "batch" /\ 1 \in DOMAIN plan[c]
  <2>1. /\ plan[c] \in Seq(PlanStep) /\ plan[c] # <<>> /\ plan[c] # NotAsked /\ joins[c] = NoBatch
        /\ Head(plan[c]) = s /\ s \in PlanStep /\ s.do = "batch"
    BY <1>1, NextStep
  <2> QED
    BY <2>1, EmptySeq, LenProperties
<1>3. Sound(c) /\ Threads(c)
  BY DEF Follows
<1>4. Own(c, s) /\ Len(plan[c]) <= 4
  BY <1>2, <1>3 DEF Sound
<1>5. PICK n \in {1, 2} : n = m
  OBVIOUS
<1>6. /\ worker' = [worker EXCEPT ![<<c, n>>] = new]
      /\ joins' = [joins EXCEPT ![c] = <<c, n>>]
  BY <1>2, <1>5 DEF StartBatch
<1> HIDE DEF m
<1>7. worker \in [Workers -> WorkerType] /\ joins \in [Callers -> Workers \cup {NoBatch}]
      /\ NoBatch \notin Workers /\ <<c, 1>> \in Workers /\ <<c, 2>> \in Workers
  BY WorkerIs, WorkerFacts DEF IInv, TypeOK
<1>8. /\ new.remove = s.remove /\ new.add = s.add /\ new.val = s.val /\ new.at = "lock"
  BY DEF Idle
<1> HIDE DEF new
<1>9. /\ worker'[<<c, n>>] = new
      /\ \A v \in Workers \ {<<c, n>>} : worker'[v] = worker[v]
      /\ joins'[c] = <<c, n>> /\ joins'[c] # NoBatch
      /\ \A d \in Callers \ {c} : joins'[d] = joins[d]
  BY <1>6, <1>7
<1>10. Sound(c)'
  BY <1>1, <1>3 DEF Sound, Met, Own, Mine, Handles, EventsOf
<1>11. Threads(c)'
  <2>1. ASSUME NEW i \in {1, 2}
        PROVE  /\ (worker[<<c, i>>].remove = {} \/ worker[<<c, i>>].add = {})'
               /\ \A k \in Keyed(<<c, i>>)' : Mine(c, k)
               /\ (Over(<<c, i>>) => Keyed(<<c, i>>) = {})'
               /\ (<<c, i>> # joins[c] => Keyed(<<c, i>>) \subseteq undone)'
    <3>1. CASE i = n
      <4>1. worker'[<<c, i>>] = new /\ joins'[c] = <<c, i>>
        BY <1>9, <3>1
      <4> QED
        BY <1>2, <1>4, <1>8, <4>1 DEF Own, Keyed, Over
    <3>2. CASE i # n
      <4>1. worker'[<<c, i>>] = worker[<<c, i>>] /\ <<c, i>> # joins[c]
        BY <1>2, <1>7, <1>9, <3>2
      <4>2. Keyed(<<c, i>>)' = Keyed(<<c, i>>) /\ Over(<<c, i>>)' = Over(<<c, i>>)
        BY <4>1 DEF Keyed, Over
      <4>3. /\ worker[<<c, i>>].remove = {} \/ worker[<<c, i>>].add = {}
            /\ \A k \in Keyed(<<c, i>>) : Mine(c, k)
            /\ Over(<<c, i>>) => Keyed(<<c, i>>) = {}
            /\ Keyed(<<c, i>>) \subseteq undone
        BY <1>3, <4>1 DEF Threads
      <4> HIDE DEF Keyed, Over, Mine
      <4> QED
        BY <1>1, <4>1, <4>2, <4>3
    <3> QED
      BY <3>1, <3>2
  <2> QED
    BY <1>9, <2>1 DEF Threads, Mine, Handles, EventsOf
<1>12. ASSUME NEW k \in Keys, k \notin undone', Mine(c, k)
       PROVE  (HubAfter(c, k) = RowAfter(c, k))'
  <2>1. HubAfter(c, k) = RowAfter(c, k)
    BY <1>1, <1>12 DEF Follows, Agrees
  <2>2. HubAfter(c, k) = HubEnd(Tail(plan[c]), k, HubStep(s, k, hub[k]))
    BY <1>2, <1>4, OneByOne DEF HubAfter
  <2>3. Pending(joins[c], k, hub[k])' = HubStep(s, k, hub[k])
    BY <1>1, <1>2, <1>8, <1>9 DEF Pending, HubStep, Asked
  <2>4. HubAfter(c, k)' = HubEnd(Tail(plan[c]), k, Pending(joins[c], k, hub[k])')
    BY <1>1, <1>9 DEF HubAfter, HubEnd, HubStep, StepOf, Asked, Pending
  <2>5. RowAfter(c, k)' = RowAfter(c, k)
    BY <1>1 DEF RowAfter, RowEnd, RowStep, StepOf
  <2> QED
    BY <2>1, <2>2, <2>3, <2>4, <2>5
<1>13. \A d \in Callers \ {c}, i \in {1, 2} : worker'[<<d, i>>] = worker[<<d, i>>]
  BY <1>9, WorkerFacts
<1> QED
  BY <1>1, <1>9, <1>10, <1>11, <1>12, <1>13, OneMoves

(* A call goes on when its batch is over, or gives up what is left of it.  *)
LEMMA ReturnFollows ==
  ASSUME Apart, IInv, Follows, NEW c \in Callers, BatchEnds(c) \/ JoinTimesOut(c)
  PROVE  Follows'
<1>1. /\ UNCHANGED <<rows, job, hub, worker>> /\ joins[c] # NoBatch
      /\ joins' = [joins EXCEPT ![c] = NoBatch] /\ plan' = [plan EXCEPT ![c] = Tail(plan[c])]
  BY DEF BatchEnds, JoinTimesOut, Return, table
<1>2. /\ plan[c] # <<>> /\ plan[c] # NotAsked /\ plan[c] \in Seq(PlanStep)
      /\ 1 \in DOMAIN plan[c] /\ plan[c][1].do = "batch"
  BY <1>1 DEF IInv, Planned, IsBatch
<1>3. Sound(c) /\ Threads(c) /\ Len(plan[c]) <= 4
  BY <1>2 DEF Follows, Sound
<1>4. PICK n \in {1, 2} : joins[c] = <<c, n>>
  BY <1>1, <1>3 DEF Threads
<1>5. undone \subseteq undone' /\ Keyed(joins[c]) \subseteq undone'
  <2>1. CASE BatchEnds(c)
    <3>1. Over(<<c, n>>) /\ undone' = undone
      BY <1>4, <2>1 DEF BatchEnds, Over
    <3> QED
      BY <1>3, <1>4, <3>1 DEF Threads
  <2>2. CASE JoinTimesOut(c)
    BY <2>2 DEF JoinTimesOut, Keyed
  <2> QED
    BY <2>1, <2>2
<1>6. /\ joins'[c] = NoBatch /\ \A d \in Callers \ {c} : joins'[d] = joins[d]
      /\ plan'[c] = Tail(plan[c]) /\ \A d \in Callers \ {c} : plan'[d] = plan[d]
  BY <1>1 DEF IInv, TypeOK
<1>7. Sound(c)'
  BY <1>1, <1>2, <1>3, <1>6, StaysSound
<1>8. Threads(c)'
  BY <1>1, <1>3, <1>5, <1>6, ThreadsStay
<1>9. ASSUME NEW k \in Keys, k \notin undone', Mine(c, k)
      PROVE  (HubAfter(c, k) = RowAfter(c, k))'
  <2>1. HubAfter(c, k) = RowAfter(c, k)
    BY <1>5, <1>9 DEF Follows, Agrees
  <2>2. Pending(joins[c], k, hub[k]) = hub[k]
    BY <1>5, <1>9 DEF Pending, Asked, Keyed
  <2>3. HubAfter(c, k) = HubEnd(Tail(plan[c]), k, hub[k])
    BY <1>1, <2>2 DEF HubAfter
  <2>4. RowAfter(c, k) = RowEnd(Tail(plan[c]), k, rows[k])
    <3>1. RowStep(plan[c][1], k, rows[k]) = rows[k]
      BY <1>2 DEF RowStep
    <3> QED
      BY <1>2, <1>3, <3>1, OneByOne DEF RowAfter
  <2>5. HubAfter(c, k)' = HubEnd(Tail(plan[c]), k, hub'[k])
    BY <1>6 DEF HubAfter, HubEnd, HubStep, StepOf, Asked
  <2>6. RowAfter(c, k)' = RowEnd(Tail(plan[c]), k, rows'[k])
    BY <1>6 DEF RowAfter, RowEnd, RowStep, StepOf
  <2>7. rows'[k] = rows[k] /\ hub'[k] = hub[k]
    BY <1>1
  <2> QED
    BY <2>1, <2>3, <2>4, <2>5, <2>6, <2>7
<1> QED
  BY <1>1, <1>5, <1>6, <1>7, <1>8, <1>9, OneMoves

(***************************************************************************)
(* ... along a batch                                                       *)
(***************************************************************************)

(* What a batch still has to do and what it has done make up the same,     *)
(* unless it gave something up.                                            *)
Progress(w) ==
  /\ worker'[w].remove = {} \/ worker'[w].add = {}
  /\ Keyed(w)' \subseteq Keyed(w)
  /\ Over(w)' => Keyed(w)' = {}
  /\ undone \subseteq undone'
  /\ \A k \in Keys : hub'[k] # hub[k] => k \in Keyed(w)
  /\ \A k \in Keys : k \notin undone' => Pending(w, k, hub[k])' = Pending(w, k, hub[k])

LEMMA BatchKeys ==
  ASSUME IInv, Follows, NEW w \in Workers
  PROVE  /\ worker[w].remove = {} \/ worker[w].add = {}
         /\ worker[w].add \in SUBSET Nat
         /\ Over(w) => Keyed(w) = {}
<1>1. PICK c \in Callers, n \in {1, 2} : w = <<c, n>>
  BY WorkerFacts
<1>2. Threads(c)
  BY DEF Follows
<1>3. worker[w].add \in SUBSET Nat
  BY Moves, KeysAssumption DEF WorkerType, Hooks
<1> QED
  BY <1>1, <1>2, <1>3 DEF Threads

(* The change is done with, or given up.                                   *)
LEMMA ChangeFollows ==
  ASSUME IInv, Follows, NEW w \in Workers, NEW given \in BOOLEAN, NextChange(w, given),
         hub' = hub \/ hub' = Updated(w), worker[w].seen = hub \/ hub' = hub,
         ~given => worker[w].seen = hub /\ hub' = Updated(w)
  PROVE  Progress(w)
<1> DEFINE add == worker[w].add
           first == IF add = {} THEN {} ELSE {Lowest(add)}
           rest == IF add = {} THEN {} ELSE add \ {Lowest(add)}
<1>1. worker[w] \in WorkerType /\ worker \in [Workers -> WorkerType]
      /\ (worker[w].remove = {} \/ add = {}) /\ add \in SUBSET Nat
      /\ hub \in [Hooks -> Value]
  BY Moves, BatchKeys
<1>2. /\ worker'[w].remove = {} /\ worker'[w].add = rest /\ worker'[w].val = worker[w].val
      /\ worker'[w].at = IF rest = {} THEN "over" ELSE "lock"
      /\ undone' = IF given THEN undone \cup worker[w].remove \cup (add \ rest) ELSE undone
  BY <1>1 DEF NextChange, WorkerType
<1>3. first \subseteq add /\ add = first \cup rest
  BY <1>1, LowestIs
<1>4. add \ rest = first
  <2>1. rest \cap first = {}
    OBVIOUS
  <2> QED
    BY <1>3, <2>1
<1>5. ASSUME NEW k \in Keys, worker[w].seen = hub
      PROVE  Updated(w)[k] = IF k \in first THEN worker[w].val
                             ELSE IF k \in worker[w].remove THEN None ELSE hub[k]
  <2>1. k \in Hooks
    BY DEF Hooks
  <2>2. CASE add = {}
    BY <1>5, <2>1, <2>2 DEF Updated, Deleting
  <2>3. CASE add # {}
    <3>1. worker[w].remove = {} /\ Lowest(add) \in add
      BY <1>1, <2>3, LowestIs
    <3>2. Updated(w) = [hub EXCEPT ![Lowest(add)] = worker[w].val]
      BY <1>5, <2>3 DEF Updated, Deleting
    <3>3. Updated(w)[k] = IF k = Lowest(add) THEN worker[w].val ELSE hub[k]
      BY <1>1, <2>1, <3>2
    <3> QED
      BY <2>3, <3>1, <3>3
  <2> QED
    BY <2>2, <2>3
<1> HIDE DEF add, first, rest
<1>6. ASSUME NEW k \in Keys, hub'[k] # hub[k] PROVE k \in Keyed(w)
  <2>1. hub' = Updated(w) /\ worker[w].seen = hub
    BY <1>6
  <2> QED
    BY <1>3, <1>5, <1>6, <2>1 DEF Keyed, add
<1>7. ASSUME NEW k \in Keys, k \notin undone'
      PROVE  Pending(w, k, hub[k])' = Pending(w, k, hub[k])
  <2>1. Pending(w, k, hub[k])' = IF k \in rest THEN worker[w].val ELSE hub'[k]
    BY <1>2 DEF Pending, Asked
  <2>2. Pending(w, k, hub[k]) = IF k \in add THEN worker[w].val
                                ELSE IF k \in worker[w].remove THEN None ELSE hub[k]
    BY DEF Pending, Asked, add
  <2>3. CASE given
    <3>1. k \notin worker[w].remove /\ k \notin first
      BY <1>2, <1>4, <1>7, <2>3
    <3>2. hub'[k] = hub[k]
      BY <1>5, <3>1
    <3> QED
      BY <1>3, <2>1, <2>2, <3>1, <3>2
  <2>4. CASE ~given
    <3>1. hub'[k] = IF k \in first THEN worker[w].val
                    ELSE IF k \in worker[w].remove THEN None ELSE hub[k]
      BY <1>5, <2>4
    <3>2. k \in worker[w].remove => add = {}
      BY <1>1 DEF add
    <3> QED
      BY <1>3, <2>1, <2>2, <3>1, <3>2
  <2> QED
    BY <2>3, <2>4
<1>8. undone \subseteq undone'
  BY <1>2
<1>9. Keyed(w)' \subseteq Keyed(w) /\ (Over(w)' => Keyed(w)' = {})
  BY <1>2, <1>3 DEF Keyed, Over, add
<1> QED
  BY <1>2, <1>6, <1>7, <1>8, <1>9 DEF Progress

(* Of the steps of a batch a PUT alone changes the list, from what the     *)
(* batch has read under the lock.                                          *)
LEMMA BatchProgress ==
  ASSUME ~GetMayFail, IInv, Follows, NEW w \in Workers, Batch(w)
  PROVE  /\ Progress(w) /\ UNCHANGED <<table, calls>>
         /\ \A v \in Workers \ {w} : worker'[v] = worker[v]
<1>1. /\ worker[w] \in WorkerType /\ worker \in [Workers -> WorkerType]
      /\ (worker[w].remove = {} \/ worker[w].add = {}) /\ (Over(w) => Keyed(w) = {})
      /\ TRUE \in BOOLEAN /\ FALSE \in BOOLEAN
  BY Moves, BatchKeys
<1>2. ASSUME NEW r \in WorkerType, worker' = [worker EXCEPT ![w] = r], UNCHANGED <<hub, undone>>,
             r.remove = worker[w].remove, r.add = worker[w].add, r.val = worker[w].val,
             r.at \notin {"idle", "over"}
      PROVE  Progress(w) /\ \A v \in Workers \ {w} : worker'[v] = worker[v]
  <2>1. worker'[w] = r /\ \A v \in Workers \ {w} : worker'[v] = worker[v]
    BY <1>1, <1>2
  <2>2. Keyed(w)' = Keyed(w) /\ ~Over(w)'
    BY <1>2, <2>1 DEF Keyed, Over
  <2>3. \A k \in Keys : Pending(w, k, hub[k])' = Pending(w, k, hub[k])
    BY <1>2, <2>1 DEF Pending, Asked
  <2> QED
    BY <1>1, <1>2, <2>1, <2>2, <2>3 DEF Progress
<1>3. ASSUME NEW given, NextChange(w, given)
      PROVE  \A v \in Workers \ {w} : worker'[v] = worker[v]
  BY <1>1, <1>3 DEF NextChange
<1>4. CASE Acquire(w) \/ Enqueue(w) \/ WakeUp(w)
  <2>1. UNCHANGED <<table, calls, hub, undone>>
    BY <1>4 DEF Acquire, Enqueue, WakeUp
  <2>2. PICK p \in {"get", "queued"} : worker' = [worker EXCEPT ![w].at = p]
    BY <1>4 DEF Acquire, Enqueue, WakeUp
  <2>3. PICK r : r = [worker[w] EXCEPT !.at = p]
    OBVIOUS
  <2>4. /\ r \in WorkerType /\ r.remove = worker[w].remove /\ r.add = worker[w].add
        /\ r.val = worker[w].val /\ r.at = p
    BY <1>1, <2>3 DEF WorkerType
  <2>5. worker' = [worker EXCEPT ![w] = r]
    BY <2>2, <2>3
  <2> QED
    BY <1>2, <2>1, <2>4, <2>5
<1>5. CASE GetList(w)
  <2>1. UNCHANGED <<table, calls, hub, undone>>
    BY <1>5 DEF GetList
  <2>2. PICK r : r = [worker[w] EXCEPT !.at = "put", !.seen = hub]
    OBVIOUS
  <2>3. hub \in [Hooks -> Value]
    BY Moves
  <2>4. /\ r \in WorkerType /\ r.remove = worker[w].remove /\ r.add = worker[w].add
        /\ r.val = worker[w].val /\ r.at = "put"
    BY <1>1, <2>2, <2>3 DEF WorkerType
  <2>5. worker' = [worker EXCEPT ![w] = r]
    BY <1>5, <2>2 DEF GetList
  <2> QED
    BY <1>2, <2>1, <2>4, <2>5
<1>6. CASE WrongLoop(w)
  <2>1. NextChange(w, TRUE) /\ UNCHANGED <<table, calls, hub>>
    BY <1>6 DEF WrongLoop
  <2> QED
    BY <1>1, <1>3, <2>1, ChangeFollows
<1>7. CASE PutList(w)
  <2>1. /\ worker[w].at = "put" /\ NextChange(w, FALSE) /\ UNCHANGED <<table, calls>>
        /\ hub' = IF NothingToPut(w) THEN hub ELSE Updated(w)
    BY <1>7 DEF PutList, At
  <2>2. worker[w].seen = hub
    BY <2>1 DEF IInv, ReadIsCurrent
  <2>3. hub' = Updated(w)
    BY <2>1, <2>2 DEF NothingToPut
  <2> QED
    BY <1>1, <1>3, <2>1, <2>2, <2>3, ChangeFollows
<1>8. CASE PutFails(w)
  <2>1. worker[w].at = "put" /\ UNCHANGED <<table, calls, hub>>
    BY <1>8 DEF PutFails, At
  <2>2. CASE NextChange(w, TRUE)
    BY <1>1, <1>3, <2>1, <2>2, ChangeFollows
  <2>3. CASE /\ worker[w].tries < MaxAttempts /\ undone' = undone
             /\ worker' = [worker EXCEPT ![w] =
                              [@ EXCEPT !.at = "lock", !.tries = worker[w].tries + 1,
                                        !.seen = Idle.seen]]
    <3>1. PICK r : r = [worker[w] EXCEPT !.at = "lock", !.tries = worker[w].tries + 1,
                                         !.seen = Idle.seen]
      OBVIOUS
    <3>2. worker[w].tries + 1 \in 0 .. MaxAttempts
      BY <1>1, <2>3, LimitsAssumption DEF WorkerType
    <3>3. /\ r \in WorkerType /\ r.remove = worker[w].remove /\ r.add = worker[w].add
          /\ r.val = worker[w].val /\ r.at = "lock"
      BY <1>1, <3>1, <3>2, IdleIs DEF WorkerType
    <3>4. worker' = [worker EXCEPT ![w] = r]
      BY <2>3, <3>1
    <3> QED
      BY <1>2, <2>1, <2>3, <3>3, <3>4
  <2> QED
    BY <1>8, <2>2, <2>3 DEF PutFails
<1>9. CASE PutRaises(w)
  <2>1. /\ worker[w].at = "put" /\ NextChange(w, TRUE) /\ UNCHANGED <<table, calls>>
        /\ hub' = hub \/ hub' = Updated(w)
    BY <1>9 DEF PutRaises, At
  <2>2. worker[w].seen = hub
    BY <2>1 DEF IInv, ReadIsCurrent
  <2> QED
    BY <1>1, <1>3, <2>1, <2>2, ChangeFollows
<1>10. CASE GetFails(w) \/ GetRaises(w)
  BY <1>10 DEF GetFails, GetRaises
<1> QED
  BY <1>4, <1>5, <1>6, <1>7, <1>8, <1>9, <1>10 DEF Batch

LEMMA BatchFollows ==
  ASSUME ~GetMayFail, Apart, IInv, Follows, NEW w \in Workers, Batch(w)
  PROVE  Follows'
<1>1. PICK c \in Callers, n \in {1, 2} : w = <<c, n>>
  BY WorkerFacts
<1>2. /\ Progress(<<c, n>>) /\ UNCHANGED <<rows, job, plan, joins>>
      /\ \A v \in Workers \ {<<c, n>>} : worker'[v] = worker[v]
  BY <1>1, BatchProgress DEF table, calls
<1>3. Sound(c) /\ Threads(c)
  BY DEF Follows
<1>4. <<c, 1>> \in Workers /\ <<c, 2>> \in Workers /\ <<c, n>> \in Workers
  BY WorkerFacts
<1>5. Sound(c)'
  BY <1>2, <1>3 DEF Sound, Met, Own, Mine, Handles, EventsOf
<1>6. Threads(c)'
  <2>1. ASSUME NEW i \in {1, 2}
        PROVE  /\ (worker[<<c, i>>].remove = {} \/ worker[<<c, i>>].add = {})'
               /\ \A k \in Keyed(<<c, i>>)' : Mine(c, k)
               /\ (Over(<<c, i>>) => Keyed(<<c, i>>) = {})'
               /\ (<<c, i>> # joins[c] => Keyed(<<c, i>>) \subseteq undone)'
    <3>1. /\ worker[<<c, i>>].remove = {} \/ worker[<<c, i>>].add = {}
          /\ \A k \in Keyed(<<c, i>>) : Mine(c, k)
          /\ Over(<<c, i>>) => Keyed(<<c, i>>) = {}
          /\ <<c, i>> # joins[c] => Keyed(<<c, i>>) \subseteq undone
      BY <1>3 DEF Threads
    <3>2. CASE i = n
      <4>1. /\ (worker[<<c, i>>].remove = {} \/ worker[<<c, i>>].add = {})'
            /\ Keyed(<<c, i>>)' \subseteq Keyed(<<c, i>>)
            /\ (Over(<<c, i>>) => Keyed(<<c, i>>) = {})'
            /\ undone \subseteq undone'
        BY <1>2, <3>2 DEF Progress
      <4> HIDE DEF Keyed, Mine
      <4> QED
        BY <1>2, <3>1, <4>1
    <3>3. CASE i # n
      <4>1. worker'[<<c, i>>] = worker[<<c, i>>] /\ undone \subseteq undone'
        BY <1>2, <1>4, <3>3 DEF Progress
      <4>2. Keyed(<<c, i>>)' = Keyed(<<c, i>>) /\ Over(<<c, i>>)' = Over(<<c, i>>)
        BY <4>1 DEF Keyed, Over
      <4> HIDE DEF Keyed, Over, Mine
      <4> QED
        BY <1>2, <3>1, <4>1, <4>2
    <3> QED
      BY <3>2, <3>3
  <2>2. (joins[c] # NoBatch => \E i \in {1, 2} : joins[c] = <<c, i>>)'
    BY <1>2, <1>3 DEF Threads
  <2> QED
    BY <2>1, <2>2 DEF Threads, Mine, Handles, EventsOf
<1>7. ASSUME NEW k \in Keys, k \notin undone', Mine(c, k)
      PROVE  (HubAfter(c, k) = RowAfter(c, k))'
  <2>1. undone \subseteq undone'
    BY <1>2 DEF Progress
  <2>2. HubAfter(c, k) = RowAfter(c, k)
    BY <1>7, <2>1 DEF Follows, Agrees
  <2>3. RowAfter(c, k)' = RowAfter(c, k)
    BY <1>2 DEF RowAfter, RowEnd, RowStep, StepOf
  <2>4. <<c, n>> # joins[c] => hub'[k] = hub[k]
    BY <1>2, <1>3, <1>7, <2>1 DEF Threads, Progress
  <2>5. CASE joins[c] = NoBatch
    <3>1. hub'[k] = hub[k]
      BY <1>4, <2>4, <2>5, WorkerFacts
    <3>2. HubAfter(c, k)' = HubAfter(c, k)
      BY <1>2, <2>5, <3>1 DEF HubAfter, HubEnd, HubStep, StepOf, Asked
    <3> QED
      BY <2>2, <2>3, <3>2
  <2>6. CASE joins[c] # NoBatch
    <3>1. PICK i \in {1, 2} : joins[c] = <<c, i>>
      BY <1>3, <2>6 DEF Threads
    <3>2. Pending(<<c, i>>, k, hub[k])' = Pending(<<c, i>>, k, hub[k])
      <4>1. CASE i = n
        BY <1>2, <1>7, <4>1 DEF Progress
      <4>2. CASE i # n
        <5>1. worker'[<<c, i>>] = worker[<<c, i>>] /\ hub'[k] = hub[k]
          BY <1>2, <1>4, <2>4, <3>1, <4>2
        <5> QED
          BY <5>1 DEF Pending, Asked
      <4> QED
        BY <4>1, <4>2
    <3>3. HubAfter(c, k)' = HubEnd(Tail(plan[c]), k, Pending(<<c, i>>, k, hub[k])')
      BY <1>2, <2>6, <3>1 DEF HubAfter, HubEnd, HubStep, StepOf, Asked, Pending
    <3>4. HubAfter(c, k) = HubEnd(Tail(plan[c]), k, Pending(<<c, i>>, k, hub[k]))
      BY <2>6, <3>1 DEF HubAfter
    <3> QED
      BY <2>2, <2>3, <3>2, <3>3, <3>4
  <2> QED
    BY <2>5, <2>6
<1>8. \A d \in Callers \ {c}, i \in {1, 2} : worker'[<<d, i>>] = worker[<<d, i>>]
  BY <1>2, WorkerFacts
<1>9. \A k \in Keys : hub'[k] # hub[k] => Mine(c, k)
  BY <1>2, <1>3 DEF Progress, Threads
<1>10. undone \subseteq undone'
  BY <1>2 DEF Progress
<1> QED
  BY <1>2, <1>5, <1>6, <1>7, <1>8, <1>9, <1>10, OneMoves

(***************************************************************************)
(* ... and at every step                                                   *)
(***************************************************************************)

(* Nothing is in work: no call has begun and not returned, no batch runs.  *)
Rest == /\ \A c \in Callers : plan[c] \in {<<>>, NotAsked} /\ joins[c] = NoBatch
        /\ \A w \in Workers : Over(w) /\ Keyed(w) = {}
        /\ \A k \in Keys : k \notin undone => hub[k] = rows[k]

LEMMA AtRest == Rest => Follows
<1> SUFFICES ASSUME Rest PROVE Follows
  OBVIOUS
<1> USE DEF Rest
<1>1. ASSUME NEW c \in Callers PROVE Sound(c) /\ Threads(c)
  <2>1. Sound(c)
    <3>1. <<>> # NotAsked /\ Len(<<>>) = 0 /\ DOMAIN <<>> = {}
      BY DEF NotAsked
    <3> QED
      BY <3>1 DEF Sound
  <2>2. Threads(c)
    BY WorkerFacts DEF Threads, Keyed
  <2> QED
    BY <2>1, <2>2
<1>2. ASSUME NEW k \in Keys, k \notin undone PROVE Agrees(k)
  <2>1. ASSUME NEW c \in Callers PROVE HubAfter(c, k) = RowAfter(c, k)
    BY <1>2, NothingAsked DEF HubAfter, RowAfter
  <2> QED
    BY <1>2, <2>1 DEF Agrees
<1> QED
  BY <1>1, <1>2 DEF Follows

LEMMA AtRestNext == Rest' => Follows'
  BY AtRest, PTL

LEMMA CrashFollows ==
  ASSUME IInv, Follows, Crash
  PROVE  Follows'
<1>1. /\ plan' = [c \in Callers |-> IF plan[c] = NotAsked THEN plan[c] ELSE <<>>]
      /\ joins' = [c \in Callers |-> NoBatch] /\ worker' = [w \in Workers |-> Idle]
      /\ undone' = undone \cup {k \in Keys : InWork(k)}
      /\ UNCHANGED <<rows, hub>>
  BY DEF Crash, table
<1>2. (\A c \in Callers : plan[c] \in {<<>>, NotAsked} /\ joins[c] = NoBatch)'
  BY <1>1
<1>3. (\A w \in Workers : Over(w) /\ Keyed(w) = {})'
  BY <1>1 DEF Over, Keyed, Idle
<1>4. (\A k \in Keys : k \notin undone => hub[k] = rows[k])'
  BY <1>1, Quiet
<1> QED
  BY <1>2, <1>3, <1>4, AtRestNext DEF Rest

LEMMA CleanupFollows ==
  ASSUME IInv, Follows, CleanupStaleWebhooks
  PROVE  Follows'
<1>1. /\ ~up /\ UNCHANGED <<rows, plan, joins, worker>>
      /\ \/ /\ hub' = [h \in Hooks |-> IF h \in Keys /\ rows[h] = None THEN None ELSE hub[h]]
            /\ undone' = {k \in undone : rows[k] # None}
         \/ UNCHANGED <<hub, undone>>
  BY DEF CleanupStaleWebhooks, calls, table
<1>2. ASSUME NEW c \in Callers
      PROVE  /\ plan[c] \in {<<>>, NotAsked} /\ joins[c] = NoBatch
             /\ ~Started(c, 1) /\ ~Started(c, 2)
  <2>1. Planned(c) /\ plan[c] \in {<<>>, NotAsked} /\ ~Started(c, 1) /\ ~Started(c, 2)
    BY <1>1 DEF IInv, Planned
  <2>2. joins[c] = NoBatch
    BY <2>1 DEF Planned
  <2> QED
    BY <2>1, <2>2
<1>3. ASSUME NEW w \in Workers PROVE Over(w) /\ Keyed(w) = {}
  <2>1. Over(w)
    BY <1>2, WorkerFacts DEF Started, Over
  <2> QED
    BY <2>1, BatchKeys
<1>4. ASSUME NEW k \in Keys, k \notin undone' PROVE hub'[k] = rows'[k]
  <2>0. k \in Hooks
    BY DEF Hooks
  <2>1. k \notin undone => hub[k] = rows[k]
    <3> SUFFICES ASSUME k \notin undone PROVE hub[k] = rows[k]
      OBVIOUS
    <3>1. ~InWork(k)
      <4>1. \A c \in Callers : plan[c] # NotAsked => plan[c] = <<>>
        BY <1>2
      <4>2. \A c \in Callers : plan[c] # NotAsked => DOMAIN plan[c] = {}
        BY <4>1
      <4> QED
        BY <1>3, <4>2 DEF InWork
    <3> QED
      BY <3>1, Quiet
  <2> QED
    BY <1>1, <1>4, <2>0, <2>1
<1>5. (\A c \in Callers : plan[c] \in {<<>>, NotAsked} /\ joins[c] = NoBatch)'
  BY <1>1, <1>2
<1>6. (\A w \in Workers : Over(w) /\ Keyed(w) = {})'
  BY <1>1, <1>3 DEF Over, Keyed
<1> QED
  BY <1>4, <1>5, <1>6, AtRestNext DEF Rest

LEMMA StartingFollows ==
  ASSUME Init
  PROVE  Follows
<1>1. /\ plan = [c \in Callers |-> NotAsked] /\ joins = [c \in Callers |-> NoBatch]
      /\ worker = [w \in Workers |-> Idle]
      /\ hub \in {[h \in Hooks |-> IF h \in Keys THEN rows[h] ELSE v] : v \in Values}
  BY DEF Init
<1>2. \A k \in Keys : hub[k] = rows[k]
  BY <1>1 DEF Hooks
<1>3. \A w \in Workers : Over(w) /\ Keyed(w) = {}
  BY <1>1 DEF Over, Keyed, Idle
<1>4. \A c \in Callers : plan[c] \in {<<>>, NotAsked} /\ joins[c] = NoBatch
  BY <1>1
<1> QED
  BY <1>2, <1>3, <1>4, AtRest DEF Rest

LEMMA FollowsStep ==
  ASSUME ~GetMayFail, Apart, IInv, Follows, [Next]_vars
  PROVE  Follows'
<1>1. ASSUME NEW c \in Callers, ApiCall(c) PROVE Follows'
  <2>0. Values \subseteq Value /\ (Values # {} \/ None \in Value)
    BY DEF Value
  <2>1. ASSUME NEW new \in SUBSET Events, NEW v \in Value,
               CreateJob(c, new, v) \/ UpdateJob(c, new, v)
        PROVE  Follows'
    BY <2>1, CreateFollows, UpdateFollows
  <2>2. ASSUME NEW k \in Flows, NEW v \in Value, CreateFlow(c, k, v) \/ UpdateFlow(c, k, v)
        PROVE  Follows'
    BY <2>2, FlowFollows
  <2>3. ASSUME NEW k \in Flows, DeleteFlow(c, k) PROVE Follows'
    <3>1. None \in Value
      BY DEF Value
    <3> QED
      BY <2>3, <3>1, FlowFollows
  <2>4. CASE DeleteJob(c)
    BY <2>4, DeleteFollows
  <2>5. CASE CommitRows(c) \/ CommitJob(c)
    BY <2>5, CommitFollows
  <2>6. CASE StartBatch(c)
    BY <2>6, StartFollows
  <2>7. CASE BatchEnds(c) \/ JoinTimesOut(c)
    BY <2>7, ReturnFollows
  <2> QED
    BY <1>1, <2>0, <2>1, <2>2, <2>3, <2>4, <2>5, <2>6, <2>7 DEF ApiCall
<1>2. ASSUME NEW w \in Workers, Batch(w) PROVE Follows'
  BY <1>2, BatchFollows
<1>3. CASE Crash
  BY <1>3, CrashFollows
<1>4. CASE CleanupStaleWebhooks
  BY <1>4, CleanupFollows
<1>5. CASE UNCHANGED vars
  <2>1. UNCHANGED <<job, rows, hub, plan, joins, worker, undone>>
    BY <1>5 DEF vars, table, calls
  <2>2. \A c \in Callers : Sound(c)' = Sound(c) /\ Threads(c)' = Threads(c)
    BY <2>1 DEF Sound, Threads, Met, Own, Mine, Handles, EventsOf, Keyed, Over
  <2>3. \A k \in Keys : Agrees(k)' = Agrees(k)
    BY <2>1 DEF Agrees, HubAfter, RowAfter, HubEnd, RowEnd, HubStep, RowStep, StepOf, Asked,
                Pending, Mine, Handles, EventsOf
  <2> QED
    BY <2>1, <2>2, <2>3 DEF Follows
<1> QED
  BY <1>1, <1>2, <1>3, <1>4, <1>5 DEF Next

(* CoreHub holds the webhook that the row of an event or a flow asks for,  *)
(* whenever nobody works on it and no change to its webhook was refused,   *)
(* lost or abandoned: for any number of events and flows, batches that     *)
(* overlap, joins that time out, PUTs that fail and crashes between any    *)
(* two steps - as long as two calls are not about the same flow or both    *)
(* about the job (then the later commit may have the earlier webhook) and  *)
(* no GET fails (a failed GET is written back as an empty list).           *)
THEOREM HubFollows ==
  ASSUME ~GetMayFail, Apart
  PROVE  Spec => []HubFollowsTable
<1>1. Init => IInv /\ Follows
  BY Starting, StartingFollows
<1>2. IInv /\ Follows /\ [Next]_vars => (IInv /\ Follows)'
  BY Step, FollowsStep
<1>3. IInv /\ Follows => HubFollowsTable
  BY Quiet DEF HubFollowsTable
<1> QED
  BY <1>1, <1>2, <1>3, PTL DEF Spec
=============================================================================
