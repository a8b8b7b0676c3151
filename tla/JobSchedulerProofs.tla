------------------------- MODULE JobSchedulerProofs -------------------------
(***************************************************************************)
(* Theorems about JobScheduler, for every set of jobs and callers, every   *)
(* family of schedules (infinite ones included) and every value of the     *)
(* bounds:                                                                 *)
(*   - type correctness;                                                   *)
(*   - a committed execution is not planned again after a restart unless   *)
(*     two executions of its job overlapped;                               *)
(*   - next_run is never later than APScheduler's next fire, as long as no *)
(*     update changes a schedule;                                          *)
(*   - APScheduler holds the enabled jobs and fires no other, as long as   *)
(*     calls and FIRE_ONCE do not cross;                                   *)
(*   - no due fire of an enabled job is forgotten, through failures and    *)
(*     one crash.                                                          *)
(***************************************************************************)
EXTENDS JobScheduler, FiniteSetTheorems, WellFoundedInduction, TLAPS

(***************************************************************************)
(* Lemmas about the operators of MissedRuns                                *)
(***************************************************************************)

(* Latest and Earliest return an element of the set, or NoTime.            *)
LEMMA LatestMember == ASSUME NEW S PROVE Latest(S) \in S \cup {NoTime}
  BY DEF Latest

LEMMA EarliestMember == ASSUME NEW S PROVE Earliest(S) \in S \cup {NoTime}
  BY DEF Earliest

(* The next fire of a schedule is a time, or there is none.                *)
LEMMA NextFireType ==
  ASSUME NEW fires \in SUBSET Nat, NEW t
  PROVE  NextFire(fires, t) \in OptTime
  BY EarliestMember DEF NextFire, OptTime, Time

(* A scan finds a fire inside its interval, or nothing.                    *)
LEMMA ScanInside ==
  ASSUME NEW fires \in SUBSET Nat, NEW start, NEW t
  PROVE  \/ ScanFires(fires, start, t) = NoTime
         \/ /\ ScanFires(fires, start, t) \in Time
            /\ ScanFires(fires, start, t) <= t
<1> DEFINE due     == FiresIn(fires, start, t)
           stepped == {f \in due : Cardinality({g \in due : g <= f}) <= ScanLimit}
<1>1. ScanFires(fires, start, t) \in stepped \cup {NoTime}
  BY LatestMember DEF ScanFires
<1>2. \A f \in stepped : f \in Time /\ f <= t
  BY DEF FiresIn, Time
<1> QED
  BY <1>1, <1>2

(* What the catch-up replays is a fire that is due and later than the last *)
(* run on record: latest_missed_fire never returns a fire at or before     *)
(* last_run.                                                               *)
LEMMA MissedFireIsDueAndUnrun ==
  ASSUME NEW fires \in SUBSET Nat, NEW next \in OptTime, NEW last \in OptTime, NEW t \in Time,
         LatestMissedFire(fires, next, last, t) # NoTime
  PROVE  /\ LatestMissedFire(fires, next, last, t) \in Time
         /\ LatestMissedFire(fires, next, last, t) <= t
         /\ last # NoTime => last < LatestMissedFire(fires, next, last, t)
<1> DEFINE missed == ScanMissed(fires, next, t)
<1>1. missed = NoTime \/ (missed \in Time /\ missed <= t)
  BY ScanInside DEF ScanMissed
<1>2. /\ LatestMissedFire(fires, next, last, t) = missed
      /\ missed # NoTime
      /\ ~(last # NoTime /\ missed <= last)
  BY DEF LatestMissedFire
<1>3. last # NoTime => last \in Nat
  BY DEF OptTime, Time
<1> QED
  BY <1>1, <1>2, <1>3 DEF Time

(* A set of natural numbers has a least element.                           *)
LEMMA LeastFire ==
  ASSUME NEW S \in SUBSET Nat, S # {}
  PROVE  \E m \in S : \A f \in S : m <= f
<1> DEFINE R == {ss \in Nat \X Nat : ss[1] < ss[2]}
<1>1. IsWellFoundedOn(R, Nat)
  BY NatLessThanWellFounded DEF OpToRel
<1>2. PICK m \in S : \A f \in S : ~(<<f, m>> \in R)
  <2> HIDE DEF R
  <2> QED
    BY <1>1, WFMin
<1>3. ASSUME NEW f \in S PROVE m <= f
  <2>1. f \in Nat /\ m \in Nat /\ ~(<<f, m>> \in R)
    BY <1>2
  <2>2. ~(f < m)
    BY <2>1
  <2> QED
    BY <2>1, <2>2
<1> QED
  BY <1>3

(* A set of fire times that are all due has a latest one.                  *)
LEMMA GreatestFire ==
  ASSUME NEW S \in SUBSET Nat, S # {}, NEW t \in Nat, \A f \in S : f <= t
  PROVE  Latest(S) \in S /\ \A f \in S : f <= Latest(S)
<1> DEFINE D == {t - f : f \in S}
<1>1. D \in SUBSET Nat /\ D # {}
  <2>1. ASSUME NEW f \in S PROVE t - f \in Nat
    <3>1. f \in Nat /\ f <= t
      OBVIOUS
    <3> QED
      BY <3>1
  <2> QED
    BY <2>1
<1>2. PICK d \in D : \A e \in D : d <= e
  <2> HIDE DEF D
  <2> QED
    BY <1>1, LeastFire
<1>3. PICK m \in S : d = t - m
  OBVIOUS
<1>4. ASSUME NEW f \in S PROVE f <= m
  <2>1. t - m <= t - f
    BY <1>2, <1>3
  <2>2. f \in Nat /\ m \in Nat
    OBVIOUS
  <2> QED
    BY <2>1, <2>2
<1> QED
  BY <1>4 DEF Latest

(* The next fire is the earliest fire after t; there is none only when no  *)
(* fire is after t.                                                        *)
LEMMA NextFireEarliest ==
  ASSUME NEW fires \in SUBSET Nat, NEW t
  PROVE  \/ NextFire(fires, t) = NoTime /\ \A f \in fires : ~(f > t)
         \/ /\ NextFire(fires, t) \in fires
            /\ NextFire(fires, t) # NoTime
            /\ NextFire(fires, t) > t
            /\ \A f \in fires : f > t => NextFire(fires, t) <= f
<1> DEFINE S == {f \in fires : f > t}
<1>1. CASE S = {}
  BY <1>1 DEF NextFire, Earliest
<1>2. CASE S # {}
  <2>1. PICK m \in S : \A f \in S : m <= f
    BY <1>2, LeastFire
  <2>2. Earliest(S) \in S /\ \A f \in S : Earliest(S) <= f
    BY <2>1 DEF Earliest
  <2>3. Earliest(S) \in Nat /\ Earliest(S) \in fires /\ Earliest(S) > t
    BY <2>2
  <2>4. Earliest(S) # NoTime
    BY <2>3, NoTimeAssumption
  <2> QED
    BY <2>2, <2>3, <2>4 DEF NextFire
<1> QED
  BY <1>1, <1>2

(* APScheduler's wake-up serves the latest due fire, and the next fire it  *)
(* computes is the first one after this moment.                            *)
LEMMA CoalescedFire ==
  ASSUME NEW fires \in SUBSET Nat, NEW t \in Nat, NEW n \in fires, n <= t
  PROVE  LET f == Latest(FiresIn(fires, n, t))
         IN  /\ f \in fires /\ n <= f /\ f <= t
             /\ \A g \in fires : g <= t => g <= f
             /\ NextFire(fires, f) = NextFire(fires, t)
<1> DEFINE due == FiresIn(fires, n, t)
           f   == Latest(due)
<1>1. due \in SUBSET Nat /\ n \in due /\ \A g \in due : g <= t
  <2>1. n \in Nat /\ n <= n
    OBVIOUS
  <2> QED
    BY <2>1 DEF FiresIn
<1>2. f \in due /\ \A g \in due : g <= f
  <2> HIDE DEF due
  <2> QED
    BY <1>1, GreatestFire
<1>3. f \in fires /\ n <= f /\ f <= t /\ f \in Nat /\ n \in Nat
  BY <1>1, <1>2 DEF FiresIn
<1>4. ASSUME NEW g \in fires, g <= t PROVE g <= f
  <2>1. g \in Nat
    OBVIOUS
  <2>2. CASE n <= g
    BY <1>2, <1>4, <2>2 DEF FiresIn
  <2>3. CASE ~(n <= g)
    BY <1>3, <2>1, <2>3
  <2> QED
    BY <2>2, <2>3
<1>5. {g \in fires : g > f} = {g \in fires : g > t}
  <2>1. ASSUME NEW g \in fires PROVE g > f <=> g > t
    <3>1. g \in Nat
      OBVIOUS
    <3> HIDE DEF f
    <3> QED
      BY <1>3, <1>4, <3>1
  <2> QED
    BY <2>1
<1> QED
  BY <1>3, <1>4, <1>5 DEF NextFire

(* Only finitely many fire times are due.                                  *)
LEMMA FiresInFinite ==
  ASSUME NEW fires \in SUBSET Nat, NEW s \in Int, NEW t \in Nat
  PROVE  IsFiniteSet(FiresIn(fires, s, t))
<1>1. FiresIn(fires, s, t) \subseteq 0..t
  <2> SUFFICES ASSUME NEW f \in FiresIn(fires, s, t) PROVE f \in 0..t
    OBVIOUS
  <2>1. f \in Nat /\ f <= t
    BY DEF FiresIn
  <2> QED
    BY <2>1
<1>2. IsFiniteSet(0..t)
  BY FS_Interval
<1> QED
  BY <1>1, <1>2, FS_Subset

(* A scan that is not cut short finds the latest fire of its interval.     *)
LEMMA UncutScan ==
  ASSUME NEW fires \in SUBSET Nat, NEW s \in Int, NEW t \in Nat,
         Cardinality(FiresIn(fires, s, t)) <= ScanLimit
  PROVE  ScanFires(fires, s, t) = Latest(FiresIn(fires, s, t))
<1> DEFINE due == FiresIn(fires, s, t)
<1>1. IsFiniteSet(due)
  BY FiresInFinite
<1>2. ASSUME NEW f \in due PROVE Cardinality({g \in due : g <= f}) <= ScanLimit
  <2> DEFINE upTo == {g \in due : g <= f}
  <2>1. IsFiniteSet(upTo) /\ Cardinality(upTo) <= Cardinality(due)
    BY <1>1, FS_Subset
  <2>2. Cardinality(upTo) \in Nat /\ Cardinality(due) \in Nat
    BY <1>1, <2>1, FS_CardinalityType
  <2>3. ScanLimit \in Nat
    BY LimitAssumption
  <2> HIDE DEF due, upTo
  <2> QED
    BY <2>1, <2>2, <2>3 DEF due, upTo
<1>3. {f \in due : Cardinality({g \in due : g <= f}) <= ScanLimit} = due
  BY <1>2
<1> QED
  BY <1>3 DEF ScanFires

(* The latest of the fire times is the one at or after all of them.        *)
LEMMA LatestIs ==
  ASSUME NEW S \in SUBSET Nat, NEW m \in S, \A f \in S : f <= m
  PROVE  Latest(S) = m
<1>1. Latest(S) \in S /\ \A f \in S : f <= Latest(S)
  BY DEF Latest
<1>2. Latest(S) <= m /\ m <= Latest(S) /\ Latest(S) \in Nat /\ m \in Nat
  BY <1>1
<1> QED
  BY <1>2

(* A scan that starts at or before the latest due fire finds it.           *)
LEMMA ScanFindsLatest ==
  ASSUME NEW fires \in SUBSET Nat, NEW s \in Int, NEW t \in Nat,
         NEW f \in fires, s <= f, f <= t, \A g \in fires : g <= t => g <= f,
         NEW u \in Int, u <= s, Cardinality(FiresIn(fires, u, t)) <= ScanLimit
  PROVE  ScanFires(fires, s, t) = f
<1> DEFINE due  == FiresIn(fires, s, t)
           more == FiresIn(fires, u, t)
<1>1. due \in SUBSET more
  <2> SUFFICES ASSUME NEW g \in due PROVE g \in more
    OBVIOUS
  <2>1. g \in fires /\ g \in Nat /\ s <= g /\ g <= t
    BY DEF FiresIn
  <2>2. u <= g
    BY <2>1
  <2> QED
    BY <2>1, <2>2 DEF FiresIn
<1>2. Cardinality(due) <= ScanLimit
  <2>1. IsFiniteSet(more)
    BY FiresInFinite
  <2>2. IsFiniteSet(due) /\ Cardinality(due) <= Cardinality(more)
    BY <1>1, <2>1, FS_Subset
  <2>3. Cardinality(due) \in Nat /\ Cardinality(more) \in Nat /\ ScanLimit \in Nat
    BY <2>1, <2>2, FS_CardinalityType, LimitAssumption
  <2> HIDE DEF due, more
  <2> QED
    BY <2>2, <2>3 DEF more
<1>3. ScanFires(fires, s, t) = Latest(due)
  BY <1>2, UncutScan
<1>4. due \in SUBSET Nat /\ f \in due /\ \A g \in due : g <= f
  BY DEF FiresIn
<1> HIDE DEF due
<1> QED
  BY <1>3, <1>4, LatestIs

(* The planner finds the latest due fire f when next_run shows it and      *)
(* last_run does not, unless f is beyond the age limit.                    *)
LEMMA PlannerFindsLatest ==
  ASSUME NEW fires \in SUBSET Nat, NEW n \in Nat, NEW last \in OptTime, NEW t \in Nat,
         NEW f \in fires, n <= f, f <= t, \A g \in fires : g <= t => g <= f,
         last = NoTime \/ last < f,
         Cardinality(FiresIn(fires, t - Grace, t)) <= ScanLimit,
         NEW j,
         j \in ExitJobs => Cardinality(FiresIn(fires, 0, t)) <= ScanLimit
  PROVE  \/ /\ LatestMissedFire(fires, n, last, t) = f
            /\ Replayable(f, j \in ExitJobs, t)
         \/ t - f > Grace /\ j \notin ExitJobs
<1> DEFINE start == t - Grace
<1>1. f \in Nat /\ start \in Int /\ Grace \in Nat /\ f # NoTime /\ n # NoTime
  BY GraceAssumption, NoTimeAssumption
<1>2. ASSUME ScanMissed(fires, n, t) = f PROVE LatestMissedFire(fires, n, last, t) = f
  <2>1. ~(n > t) /\ ~(last # NoTime /\ f <= last)
    BY <1>1 DEF OptTime, Time
  <2> QED
    BY <1>1, <1>2, <2>1 DEF LatestMissedFire
<1>3. CASE start <= f
  <2>1. ScanMissed(fires, n, t) = f
    <3>1. CASE n < start
      <4>1. ScanFires(fires, start, t) = f
        <5>1. start <= start
          BY <1>1
        <5> QED
          BY <1>1, <1>3, <5>1, ScanFindsLatest
      <4> QED
        BY <1>1, <3>1, <4>1 DEF ScanMissed
    <3>2. CASE ~(n < start)
      <4>1. start <= n
        BY <1>1, <3>2
      <4>2. ScanFires(fires, n, t) = f
        BY <1>1, <4>1, ScanFindsLatest
      <4> QED
        BY <1>1, <3>2, <4>2 DEF ScanMissed
    <3> QED
      BY <3>1, <3>2
  <2>2. Replayable(f, j \in ExitJobs, t)
    BY <1>1, <1>3 DEF Replayable
  <2> QED
    BY <1>2, <2>1, <2>2
<1>4. CASE ~(start <= f) /\ j \in ExitJobs
  <2>1. n < start
    BY <1>1, <1>4
  <2>2. ScanFires(fires, start, t) = NoTime
    <3>1. FiresIn(fires, start, t) = {}
      <4> SUFFICES ASSUME NEW g \in fires, start <= g, g <= t PROVE FALSE
        BY DEF FiresIn
      <4>1. g <= f /\ g \in Nat
        OBVIOUS
      <4> QED
        BY <1>1, <1>4, <4>1
    <3> QED
      BY <3>1, LatestMember DEF ScanFires
  <2>3. ScanFires(fires, n, t) = f
    <3>1. 0 \in Int /\ 0 <= n
      OBVIOUS
    <3> QED
      BY <1>1, <1>4, <3>1, ScanFindsLatest
  <2>4. ScanMissed(fires, n, t) = f
    BY <2>1, <2>2, <2>3 DEF ScanMissed
  <2>5. Replayable(f, j \in ExitJobs, t)
    BY <1>1, <1>4 DEF Replayable
  <2> QED
    BY <1>2, <2>4, <2>5
<1>5. CASE ~(start <= f) /\ j \notin ExitJobs
  BY <1>1, <1>5
<1> QED
  BY <1>3, <1>4, <1>5

(***************************************************************************)
(* Type correctness                                                        *)
(***************************************************************************)

LEMMA RunTyping ==
  /\ \A r \in Runs : KindOf(r) \in Kinds /\ JobOf(r) \in Jobs /\ r = <<KindOf(r), JobOf(r)>>
  /\ \A k \in Kinds, j \in Jobs : /\ <<k, j>> \in Runs
                                  /\ KindOf(<<k, j>>) = k
                                  /\ JobOf(<<k, j>>) = j
  BY DEF Runs, KindOf, JobOf

LEMMA FireTimesType == \A cr \in Crons : FireTimes[cr] \in SUBSET Nat
  BY CronsAssumption

LEMMA AddType ==
  ASSUME TypeOK, NEW j \in Jobs, NEW cr \in Crons, AddToScheduler(j, cr)
  PROVE  /\ trigger'  \in [Jobs -> Crons \cup {NoCron}]
         /\ nextFire' \in [Jobs -> OptTime]
<1>1. NextFire(FireTimes[cr], now) \in OptTime
  BY NextFireType, FireTimesType
<1> QED
  BY <1>1 DEF TypeOK, AddToScheduler

LEMMA RemoveType ==
  ASSUME TypeOK, NEW j \in Jobs, RemoveFromScheduler(j)
  PROVE  /\ trigger'  \in [Jobs -> Crons \cup {NoCron}]
         /\ nextFire' \in [Jobs -> OptTime]
  BY DEF TypeOK, RemoveFromScheduler, OptTime

ExecType == /\ stage    \in [Runs -> Stages]
            /\ fireOf   \in [Runs -> OptTime]
            /\ startOf  \in [Runs -> OptTime]
            /\ seenNext \in [Runs -> OptTime]

LEMMA EndType ==
  ASSUME TypeOK, NEW r \in Runs, End(r)
  PROVE  ExecType'
  BY DEF TypeOK, ExecType, End, Stages, OptTime

LEMMA SubmitType ==
  ASSUME TypeOK, NEW r \in Runs, NEW f \in OptTime, Submit(r, f)
  PROVE  ExecType'
  BY DEF TypeOK, ExecType, Submit, Stages

LEMMA GiveUpType ==
  ASSUME TypeOK, NEW r \in Runs, GiveUp(r)
  PROVE  dropped' \in [Jobs -> SUBSET OptTime]
  BY RunTyping DEF TypeOK, GiveUp

LEMMA LeaveType ==
  ASSUME TypeOK, NEW c \in Clients, Leave(c)
  PROVE  call' \in [Clients -> Calls]
  BY DEF TypeOK, Leave, Calls

LEMMA EnterType ==
  ASSUME TypeOK, NEW c \in Clients, NEW at \in CallAt, NEW j \in Jobs,
         NEW cr \in Crons, NEW on \in BOOLEAN, NEW was \in BOOLEAN,
         Enter(c, at, j, cr, on, was)
  PROVE  call' \in [Clients -> Calls]
  BY DEF TypeOK, Enter, Calls

(* A caller inside a call carries a job, and the values it read.           *)
LEMMA CallTyping ==
  ASSUME TypeOK, NEW c \in Clients, call[c].at # "idle"
  PROVE  /\ call[c] \in [at : CallAt, job : Jobs, cron : Crons,
                         on : BOOLEAN, was : BOOLEAN]
         /\ call[c].job \in Jobs /\ call[c].on \in BOOLEAN
         /\ call[c].cron \in Crons
<1>1. call[c] \in Calls
  BY DEF TypeOK
<1>2. IdleCall.at = "idle"
  BY DEF IdleCall
<1> QED
  BY <1>1, <1>2 DEF Calls

(* What the plan of a restart contains.                                    *)
LEMMA PlanSound ==
  ASSUME TypeOK, NEW p \in PlanMissedRuns(EnabledJobs)
  PROVE  /\ p \in MissedRun
         /\ p.fire <= now
         /\ lastRun[p.job] # NoTime => lastRun[p.job] < p.fire
<1>1. PICK j \in EnabledJobs :
        /\ Replayable(MissedOf(j), j \in ExitJobs, now)
        /\ p = [job |-> j, fire |-> MissedOf(j)]
  BY DEF PlanMissedRuns
<1>2. /\ j \in Jobs
      /\ FireTimes[cron[j]] \in SUBSET Nat
      /\ nextRun[j] \in OptTime /\ lastRun[j] \in OptTime /\ now \in Time
  BY FireTimesType DEF TypeOK, EnabledJobs
<1>3. MissedOf(j) # NoTime
  BY <1>1 DEF Replayable
<1>4. /\ MissedOf(j) \in Time
      /\ MissedOf(j) <= now
      /\ lastRun[j] # NoTime => lastRun[j] < MissedOf(j)
  BY <1>2, <1>3, MissedFireIsDueAndUnrun DEF MissedOf
<1>5. p.job = j /\ p.fire = MissedOf(j)
  BY <1>1
<1> QED
  BY <1>1, <1>2, <1>4, <1>5 DEF MissedRun

LEMMA InitType == Init => TypeOK
<1> SUFFICES ASSUME Init PROVE TypeOK
  OBVIOUS
<1>1. NextFire(FireTimes[InitialCron], 0) \in OptTime
  BY NextFireType, FireTimesType, CronsAssumption
<1>2. InitialCron \in Crons
  BY CronsAssumption
<1>3. /\ status \in [Jobs -> {"new", "live", "deleted"}]
      /\ enabled \in [Jobs -> BOOLEAN]
      /\ cron \in [Jobs -> Crons]
      /\ nextRun \in [Jobs -> OptTime] /\ lastRun \in [Jobs -> OptTime]
      /\ trigger \in [Jobs -> Crons \cup {NoCron}] /\ nextFire \in [Jobs -> OptTime]
  BY <1>1, <1>2 DEF Init, OptTime
<1>4. ExecType
  BY DEF Init, ExecType, Stages, OptTime
<1>5. call \in [Clients -> Calls]
  BY DEF Init, Calls
<1> QED
  BY <1>3, <1>4, <1>5 DEF Init, TypeOK, ExecType, Time

(* Every action keeps the types; one step per action.                      *)
LEMMA TypeStep == TypeOK /\ [Next]_vars => TypeOK'
<1> SUFFICES ASSUME TypeOK, [Next]_vars PROVE TypeOK'
  OBVIOUS
<1> USE DEF table, memory, exec, boot, env, history
<1>1. CASE Tick
  <2>1. \A j \in Jobs : Passing(j) \in SUBSET Time
    BY DEF TypeOK, Passing, Time
  <2>2. /\ suppressed' \in [Jobs -> SUBSET Time]
        /\ starting' \in [Jobs -> SUBSET Time]
    BY <1>1, <2>1 DEF TypeOK, Tick
  <2> QED
    BY <1>1, <2>2 DEF TypeOK, Tick, Time
<1>2. CASE Crash
  <2>1. ExecType'
    BY <1>2 DEF Crash, ExecType, Stages, OptTime
  <2>2. call' \in [Clients -> Calls]
    BY <1>2 DEF Crash, Calls
  <2> QED
    BY <1>2, <2>1, <2>2 DEF TypeOK, Crash, ExecType, OptTime
<1>3. CASE StartUp
  <2>1. catchup' \subseteq MissedRun
    BY <1>3, PlanSound DEF StartUp
  <2> QED
    BY <1>3, <2>1 DEF TypeOK, StartUp, EnabledJobs
<1>4. ASSUME NEW j \in Jobs, LoadJob(j) PROVE TypeOK'
  <2>1. CASE cron[j] \in BadCrons
    BY <1>4, <2>1 DEF TypeOK, LoadJob
  <2>2. CASE cron[j] \notin BadCrons
    <3>1. cron[j] \in Crons
      BY DEF TypeOK
    <3>2. AddToScheduler(j, cron[j])
      BY <1>4, <2>2 DEF LoadJob
    <3>3. /\ trigger'  \in [Jobs -> Crons \cup {NoCron}]
          /\ nextFire' \in [Jobs -> OptTime]
      BY <3>1, <3>2, AddType
    <3>4. nextRun' \in [Jobs -> OptTime]
      <4>1. nextFire'[j] \in OptTime /\ nextRun[j] \in OptTime
        BY <3>3 DEF TypeOK
      <4>2. PICK v \in OptTime : nextRun' = [nextRun EXCEPT ![j] = v]
        BY <1>4, <2>2, <4>1 DEF LoadJob
      <4> QED
        BY <4>2 DEF TypeOK
    <3> QED
      BY <1>4, <3>3, <3>4 DEF TypeOK, LoadJob
  <2> QED
    BY <2>1, <2>2
<1>5. CASE Ready
  BY <1>5 DEF TypeOK, Ready
<1>6. ASSUME NEW c \in Clients, ApiCall(c) PROVE TypeOK'
  <2>1. ASSUME NEW j \in Jobs, NEW cr \in Crons, NEW on \in BOOLEAN, CreateRow(c, j, cr, on)
        PROVE  TypeOK'
    <3>1. NextFire(FireTimes[cr], now) \in OptTime
      BY NextFireType, FireTimesType
    <3>2. call' \in [Clients -> Calls]
      <4>1. CASE on
        <5>1. Enter(c, "createSchedule", j, cr, on, FALSE)
          BY <2>1, <4>1 DEF CreateRow
        <5> QED
          BY <5>1, EnterType DEF CallAt
      <4>2. CASE ~on
        BY <2>1, <4>2 DEF CreateRow, TypeOK
      <4> QED
        BY <4>1, <4>2
    <3> QED
      BY <2>1, <3>1, <3>2 DEF TypeOK, CreateRow
  <2>2. CASE CreateSchedule(c)
    <3>1. call[c].job \in Jobs /\ call[c].cron \in Crons
      BY <2>2, CallTyping DEF CreateSchedule
    <3>2. /\ trigger'  \in [Jobs -> Crons \cup {NoCron}]
          /\ nextFire' \in [Jobs -> OptTime]
      <4>1. CASE call[c].cron \in BadCrons
        BY <2>2, <4>1 DEF CreateSchedule, TypeOK
      <4>2. CASE call[c].cron \notin BadCrons
        BY <2>2, <3>1, <4>2, AddType DEF CreateSchedule
      <4> QED
        BY <4>1, <4>2
    <3>3. call' \in [Clients -> Calls]
      BY <2>2, LeaveType DEF CreateSchedule
    <3> QED
      BY <2>2, <3>2, <3>3 DEF TypeOK, CreateSchedule
  <2>3. ASSUME NEW j \in Jobs, NEW cr \in Crons \cup {NoCron}, NEW on \in BOOLEAN,
               UpdateRow(c, j, cr, on)
        PROVE  TypeOK'
    <3> DEFINE newCron == IF cr = NoCron THEN cron[j] ELSE cr
    <3>1. newCron \in Crons
      BY DEF TypeOK
    <3>2. cr # NoCron => NextFire(FireTimes[cr], now) \in OptTime
      BY NextFireType, FireTimesType
    <3>3. nextRun' \in [Jobs -> OptTime]
      BY <2>3, <3>2 DEF TypeOK, UpdateRow
    <3>4. call' \in [Clients -> Calls]
      <4>1. Enter(c, "updateSync", j, newCron, on, FALSE)
        BY <2>3 DEF UpdateRow
      <4> QED
        BY <3>1, <4>1, EnterType DEF CallAt
    <3> QED
      BY <2>3, <3>1, <3>3, <3>4 DEF TypeOK, UpdateRow
  <2>4. CASE UpdateSync(c)
    <3>1. call[c].job \in Jobs /\ call[c].cron \in Crons
      BY <2>4, CallTyping DEF UpdateSync
    <3>2. /\ trigger'  \in [Jobs -> Crons \cup {NoCron}]
          /\ nextFire' \in [Jobs -> OptTime]
      <4>1. CASE call[c].on /\ call[c].cron \notin BadCrons
        BY <2>4, <3>1, <4>1, AddType DEF UpdateSync
      <4>2. CASE ~(call[c].on /\ call[c].cron \notin BadCrons)
        BY <2>4, <3>1, <4>2, RemoveType DEF UpdateSync
      <4> QED
        BY <4>1, <4>2
    <3>3. call' \in [Clients -> Calls]
      BY <2>4, LeaveType DEF UpdateSync
    <3> QED
      BY <2>4, <3>2, <3>3 DEF TypeOK, UpdateSync
  <2>5. ASSUME NEW j \in Jobs, NEW on \in BOOLEAN, ToggleRead(c, j, on)
        PROVE  TypeOK'
    <3>1. cron[j] \in Crons /\ enabled[j] \in BOOLEAN
      BY DEF TypeOK
    <3>2. call' \in [Clients -> Calls]
      BY <2>5, <3>1, EnterType DEF ToggleRead, CallAt
    <3> QED
      BY <2>5, <3>2 DEF TypeOK, ToggleRead
  <2>6. CASE ToggleSchedule(c)
    <3>1. call[c] \in [at : CallAt, job : Jobs, cron : Crons, on : BOOLEAN, was : BOOLEAN]
      BY <2>6, CallTyping DEF ToggleSchedule
    <3>2. CASE call[c].on /\ call[c].cron \in BadCrons
      <4>1. Leave(c) /\ UNCHANGED memory
        BY <2>6, <3>2 DEF ToggleSchedule
      <4>2. call' \in [Clients -> Calls]
        BY <4>1, LeaveType
      <4> QED
        BY <2>6, <4>1, <4>2 DEF TypeOK, ToggleSchedule
    <3>3. CASE ~(call[c].on /\ call[c].cron \in BadCrons)
      <4>1. call' = [call EXCEPT ![c].at = "toggleCommit"]
        BY <2>6, <3>3 DEF ToggleSchedule
      <4>2. call' \in [Clients -> Calls]
        BY <3>1, <4>1 DEF TypeOK, Calls, CallAt
      <4>3. /\ trigger'  \in [Jobs -> Crons \cup {NoCron}]
            /\ nextFire' \in [Jobs -> OptTime]
        BY <2>6, <3>1, <3>3, AddType, RemoveType DEF ToggleSchedule
      <4> QED
        BY <2>6, <4>2, <4>3 DEF TypeOK, ToggleSchedule
    <3> QED
      BY <3>2, <3>3
  <2>7. CASE ToggleCommit(c)
    <3>1. call[c].on \in BOOLEAN
      BY <2>7, CallTyping DEF ToggleCommit
    <3>2. call' \in [Clients -> Calls]
      BY <2>7, LeaveType DEF ToggleCommit
    <3>3. enabled' \in [Jobs -> BOOLEAN]
      BY <2>7, <3>1 DEF TypeOK, ToggleCommit
    <3> QED
      BY <2>7, <3>2, <3>3 DEF TypeOK, ToggleCommit
  <2>8. ASSUME NEW j \in Jobs, DeleteRead(c, j) PROVE TypeOK'
    <3>1. call' \in [Clients -> Calls]
      <4>1. cron[j] \in Crons
        BY DEF TypeOK
      <4> QED
        BY <2>8, <4>1, EnterType DEF DeleteRead, CallAt
    <3> QED
      BY <2>8, <3>1 DEF TypeOK, DeleteRead
  <2>9. CASE DeleteUnschedule(c)
    <3>1. call[c] \in [at : CallAt, job : Jobs, cron : Crons, on : BOOLEAN, was : BOOLEAN]
      BY <2>9, CallTyping DEF DeleteUnschedule
    <3>2. call' \in [Clients -> Calls]
      BY <2>9, <3>1 DEF TypeOK, DeleteUnschedule, Calls, CallAt
    <3>3. /\ trigger'  \in [Jobs -> Crons \cup {NoCron}]
          /\ nextFire' \in [Jobs -> OptTime]
      BY <2>9, <3>1, RemoveType DEF DeleteUnschedule
    <3> QED
      BY <2>9, <3>2, <3>3 DEF TypeOK, DeleteUnschedule
  <2>10. CASE DeleteCommit(c)
    <3>1. call' \in [Clients -> Calls]
      BY <2>10, LeaveType DEF DeleteCommit
    <3> QED
      BY <2>10, <3>1 DEF TypeOK, DeleteCommit
  <2> QED
    BY <1>6, <2>1, <2>2, <2>3, <2>4, <2>5, <2>6, <2>7, <2>8, <2>9, <2>10 DEF ApiCall
<1>7. ASSUME NEW j \in Jobs, Fire(j) PROVE TypeOK'
  <2> DEFINE r   == <<"scheduled", j>>
             due == FiresIn(FireTimes[trigger[j]], nextFire[j], now)
             f   == Latest(due)
  <2>1. r \in Runs /\ trigger[j] \in Crons
    BY <1>7 DEF Fire, Scheduled, TypeOK, Runs, Kinds
  <2>2. FireTimes[trigger[j]] \in SUBSET Nat
    BY <2>1, FireTimesType
  <2>3. f \in OptTime
    <3>1. due \in SUBSET Time
      BY <2>2 DEF FiresIn, Time
    <3> QED
      BY <3>1, LatestMember DEF OptTime
  <2>4. nextFire' \in [Jobs -> OptTime]
    <3>1. NextFire(FireTimes[trigger[j]], f) \in OptTime
      BY <2>2, NextFireType
    <3> QED
      BY <1>7, <3>1 DEF Fire, TypeOK
  <2>5. CASE stage[r] = "idle"
    <3>1. ExecType'
      BY <1>7, <2>1, <2>3, <2>5, SubmitType DEF Fire
    <3> QED
      BY <1>7, <2>4, <2>5, <3>1 DEF Fire, TypeOK, ExecType
  <2>6. CASE stage[r] # "idle"
    <3>1. dropped' \in [Jobs -> SUBSET OptTime]
      BY <1>7, <2>3, <2>6 DEF Fire, TypeOK
    <3> QED
      BY <1>7, <2>4, <2>6, <3>1 DEF Fire, TypeOK
  <2> QED
    BY <2>5, <2>6
<1>8. ASSUME NEW j \in Jobs, RunNow(j) PROVE TypeOK'
  <2>1. ExecType'
    BY <1>8, SubmitType DEF RunNow, Runs, Kinds, OptTime
  <2> QED
    BY <1>8, <2>1 DEF RunNow, TypeOK, ExecType
<1>9. ASSUME NEW p \in catchup, StartReplay(p) PROVE TypeOK'
  <2>1. p.job \in Jobs /\ p.fire \in OptTime
    BY DEF TypeOK, MissedRun, OptTime
  <2>2. ExecType'
    BY <1>9, <2>1, SubmitType DEF StartReplay, Runs, Kinds
  <2> QED
    BY <1>9, <2>2 DEF StartReplay, TypeOK, ExecType
<1>10. ASSUME NEW r \in Runs, Execution(r) PROVE TypeOK'
  <2>0. JobOf(r) \in Jobs
    BY RunTyping
  <2>1. CASE Misfire(r)
    <3>1. ExecType' /\ dropped' \in [Jobs -> SUBSET OptTime]
      BY <2>1, EndType, GiveUpType DEF Misfire
    <3> QED
      BY <2>1, <3>1 DEF Misfire, TypeOK, ExecType
  <2>2. CASE Begin(r)
    <3>1. CASE Live(JobOf(r))
      <4>1. /\ stage' = [stage EXCEPT ![r] = "running"]
            /\ startOf' = [startOf EXCEPT ![r] = now]
            /\ UNCHANGED <<fireOf, seenNext, dropped>>
        BY <2>2, <3>1 DEF Begin
      <4>2. ExecType'
        BY <4>1 DEF TypeOK, ExecType, Stages, OptTime
      <4>3. overlapped' \in [Jobs -> BOOLEAN]
        BY <2>0, <2>2, <3>1 DEF Begin, TypeOK
      <4> QED
        BY <2>2, <4>1, <4>2, <4>3 DEF Begin, TypeOK, ExecType
    <3>2. CASE ~Live(JobOf(r))
      <4>1. ExecType' /\ dropped' \in [Jobs -> SUBSET OptTime] /\ UNCHANGED overlapped
        BY <2>2, <3>2, EndType, GiveUpType DEF Begin
      <4> QED
        BY <2>2, <4>1 DEF Begin, TypeOK, ExecType
    <3> QED
      BY <3>1, <3>2
  <2>3. CASE Commit(r)
    <3>1. startOf[r] \in OptTime /\ fireOf[r] \in OptTime
      BY DEF TypeOK
    <3>2. lastRun' \in [Jobs -> OptTime]
      BY <2>3, <3>1 DEF Commit, TypeOK
    <3>3. CASE KindOf(r) = "manual"
      <4>1. ExecType' /\ UNCHANGED done
        BY <2>3, <3>3, EndType DEF Commit
      <4> QED
        BY <2>3, <3>2, <4>1 DEF Commit, TypeOK, ExecType
    <3>4. CASE KindOf(r) # "manual"
      <4>1. /\ stage' = [stage EXCEPT ![r] = "returned"]
            /\ done' = [done EXCEPT ![JobOf(r)] = @ \cup {fireOf[r]}]
            /\ UNCHANGED <<fireOf, startOf, seenNext>>
        BY <2>3, <3>4 DEF Commit
      <4>2. ExecType'
        BY <4>1 DEF TypeOK, ExecType, Stages
      <4>3. done' \in [Jobs -> SUBSET OptTime]
        BY <2>0, <3>1, <4>1 DEF TypeOK
      <4> QED
        BY <2>3, <3>2, <4>2, <4>3 DEF Commit, TypeOK, ExecType
    <3> QED
      BY <3>3, <3>4
  <2>4. CASE FailCommit(r)
    <3>1. ExecType' /\ dropped' \in [Jobs -> SUBSET OptTime]
      BY <2>4, EndType, GiveUpType DEF FailCommit
    <3> QED
      BY <2>4, <3>1 DEF FailCommit, TypeOK, ExecType
  <2>5. CASE ReadNext(r)
    <3>1. nextFire[JobOf(r)] \in OptTime
      BY <2>0 DEF TypeOK
    <3>2. ExecType'
      BY <2>5, <3>1 DEF ReadNext, TypeOK, ExecType, Stages
    <3> QED
      BY <2>5, <3>2 DEF ReadNext, TypeOK, ExecType
  <2>6. CASE SaveNext(r)
    <3>1. seenNext[r] \in OptTime
      BY DEF TypeOK
    <3>2. nextRun' \in [Jobs -> OptTime]
      BY <2>6, <3>1 DEF SaveNext, TypeOK
    <3>3. ExecType'
      <4>1. CASE End(r)
        BY <4>1, EndType
      <4>2. CASE /\ stage' = [stage EXCEPT ![r] = "disable"]
                 /\ UNCHANGED <<fireOf, startOf, seenNext>>
        BY <4>2 DEF TypeOK, ExecType, Stages
      <4> QED
        BY <2>6, <4>1, <4>2 DEF SaveNext
    <3> QED
      BY <2>6, <3>2, <3>3 DEF SaveNext, TypeOK, ExecType
  <2>7. CASE DisableOnce(r)
    <3>1. CASE Live(JobOf(r))
      <4>1. ExecType' /\ enabled' \in [Jobs -> BOOLEAN]
        BY <2>7, <3>1 DEF DisableOnce, TypeOK, ExecType, Stages
      <4> QED
        BY <2>7, <4>1 DEF DisableOnce, TypeOK, ExecType
    <3>2. CASE ~Live(JobOf(r))
      <4>1. ExecType' /\ UNCHANGED enabled
        BY <2>7, <3>2, EndType DEF DisableOnce
      <4> QED
        BY <2>7, <4>1 DEF DisableOnce, TypeOK, ExecType
    <3> QED
      BY <3>1, <3>2
  <2>8. CASE RemoveOnce(r)
    <3>1. ExecType'
      BY <2>8, EndType DEF RemoveOnce
    <3>2. /\ trigger'  \in [Jobs -> Crons \cup {NoCron}]
          /\ nextFire' \in [Jobs -> OptTime]
      BY <2>0, <2>8, RemoveType DEF RemoveOnce
    <3> QED
      BY <2>8, <3>1, <3>2 DEF RemoveOnce, TypeOK, ExecType
  <2> QED
    BY <1>10, <2>1, <2>2, <2>3, <2>4, <2>5, <2>6, <2>7, <2>8 DEF Execution
<1>11. CASE UNCHANGED vars
  BY <1>11 DEF vars, TypeOK
<1> QED
  BY <1>1, <1>2, <1>3, <1>4, <1>5, <1>6, <1>7, <1>8, <1>9, <1>10, <1>11 DEF Next, Startup

(* The types of every variable, for every instance.                        *)
THEOREM TypeCorrect == Spec => []TypeOK
  BY InitType, TypeStep, PTL DEF Spec

(***************************************************************************)
(* The catch-up never repeats a committed execution                        *)
(***************************************************************************)

(* The actions that start nothing, commit nothing and plan nothing: they   *)
(* may end executions and let time pass.                                   *)
NothingStarts ==
  /\ now' \in Time /\ now <= now'
  /\ catchup' \subseteq catchup
  /\ UNCHANGED <<lastRun, done, overlapped>>
  /\ \A q \in Runs : stage'[q] \in {"submitted", "running"} =>
        stage'[q] = stage[q] /\ fireOf'[q] = fireOf[q] /\ startOf'[q] = startOf[q]

LEMMA NothingStartsStep ==
  ASSUME TypeOK, CatchupInv, NothingStarts
  PROVE  CatchupInv'
<1>1. now \in Nat /\ now' \in Nat /\ now <= now'
  BY DEF TypeOK, NothingStarts, Time
<1>2. \A p \in catchup : p.fire \in Nat
  BY DEF TypeOK, MissedRun, Time
<1>3. \A j \in Jobs : lastRun[j] # NoTime => lastRun[j] \in Nat
  BY DEF TypeOK, OptTime, Time
<1>4. \A r \in Runs : /\ fireOf[r] # NoTime => fireOf[r] \in Nat
                      /\ startOf[r] # NoTime => startOf[r] \in Nat
  BY DEF TypeOK, OptTime, Time
<1>5. InThePast'
  BY <1>1, <1>2, <1>3, <1>4 DEF CatchupInv, InThePast, NothingStarts
<1>6. LastRunCovers'
  BY RunTyping DEF CatchupInv, LastRunCovers, NothingStarts
<1> QED
  BY <1>5, <1>6 DEF CatchupInv

LEMMA EndStartsNothing ==
  ASSUME TypeOK, NEW r \in Runs, End(r),
         UNCHANGED <<lastRun, done, overlapped, now, catchup>>
  PROVE  NothingStarts
  BY DEF TypeOK, End, NothingStarts, Time

(* An execution of a fire already due is submitted.                        *)
LEMMA SubmitStep ==
  ASSUME TypeOK, CatchupInv, NEW r \in Runs, NEW f \in OptTime, Submit(r, f),
         f # NoTime => f <= now,
         catchup' \subseteq catchup, UNCHANGED <<lastRun, done, overlapped, now>>
  PROVE  CatchupInv'
<1>1. /\ stage'[r] = "submitted" /\ fireOf'[r] = f
      /\ \A q \in Runs \ {r} : stage'[q] = stage[q] /\ fireOf'[q] = fireOf[q]
      /\ startOf' = startOf
  BY DEF Submit, TypeOK
<1>2. InThePast'
  BY <1>1 DEF CatchupInv, InThePast
<1>3. \A q \in Runs : stage'[q] = "running" => stage[q] = "running"
  BY <1>1
<1>4. LastRunCovers'
  BY <1>1, <1>3, RunTyping DEF CatchupInv, LastRunCovers
<1> QED
  BY <1>2, <1>4 DEF CatchupInv

LEMMA BeginStep ==
  ASSUME TypeOK, CatchupInv, NEW r \in Runs, Begin(r)
  PROVE  CatchupInv'
<1> DEFINE j == JobOf(r)
<1>0. j \in Jobs /\ now \in Nat
  BY RunTyping DEF TypeOK, Time
<1>u. UNCHANGED <<lastRun, done, catchup, now>>
  BY DEF Begin, table, memory, boot, env
<1>1. CASE ~Live(j)
  BY <1>1, <1>u, EndStartsNothing, NothingStartsStep DEF Begin
<1>2. CASE Live(j)
  <2>1. /\ stage[r] = "submitted"
        /\ stage' = [stage EXCEPT ![r] = "running"]
        /\ startOf' = [startOf EXCEPT ![r] = now]
        /\ fireOf' = fireOf
        /\ overlapped' = [overlapped EXCEPT ![j] =
              @ \/ \E k \in Kinds : stage[<<k, j>>] = "running"]
    BY <1>2 DEF Begin
  <2>2. /\ stage'[r] = "running" /\ startOf'[r] = now
        /\ \A q \in Runs \ {r} : stage'[q] = stage[q] /\ startOf'[q] = startOf[q]
    BY <2>1 DEF TypeOK
  <2>3. \A i \in Jobs : overlapped[i] => overlapped'[i]
    BY <1>0, <2>1 DEF TypeOK
  <2>4. \A q \in Runs : JobOf(q) = j /\ stage[q] = "running" => overlapped'[j]
    <3> SUFFICES ASSUME NEW q \in Runs, JobOf(q) = j, stage[q] = "running"
                 PROVE  overlapped'[j]
      OBVIOUS
    <3>1. KindOf(q) \in Kinds /\ q = <<KindOf(q), j>>
      BY RunTyping
    <3> QED
      BY <1>0, <2>1, <3>1 DEF TypeOK
  <2>5. /\ \A q \in Runs : stage'[q] = "submitted" =>
             q # r /\ stage[q] = "submitted"
        /\ \A q \in Runs \ {r} : stage'[q] = "running" => stage[q] = "running"
    BY <2>2
  <2>6. fireOf[r] # NoTime => fireOf[r] <= now
    BY <2>1 DEF CatchupInv, InThePast
  <2>7. now # NoTime /\ now <= now
    BY <1>0, NoTimeAssumption
  <2>8. InThePast'
    BY <1>u, <2>1, <2>2, <2>5, <2>6, <2>7 DEF CatchupInv, InThePast
  <2>9. lastRun[j] = NoTime \/ lastRun[j] <= now
    BY <1>0 DEF CatchupInv, InThePast
  <2>10. \A i \in Jobs : \A f \in done'[i] :
           ~overlapped'[i] /\ f # NoTime => lastRun'[i] # NoTime /\ f <= lastRun'[i]
    BY <1>u, <2>3 DEF CatchupInv, LastRunCovers
  <2>11. \A q \in Runs : stage'[q] = "running" /\ ~overlapped'[JobOf(q)] =>
           lastRun'[JobOf(q)] = NoTime \/ lastRun'[JobOf(q)] <= startOf'[q]
    <3> SUFFICES ASSUME NEW q \in Runs, stage'[q] = "running", ~overlapped'[JobOf(q)]
                 PROVE  lastRun'[JobOf(q)] = NoTime \/ lastRun'[JobOf(q)] <= startOf'[q]
      OBVIOUS
    <3>1. CASE q = r
      BY <3>1, <1>u, <2>2, <2>9
    <3>2. CASE q # r
      BY <3>2, <1>u, <2>2, <2>3, <2>5, RunTyping DEF CatchupInv, LastRunCovers
    <3> QED
      BY <3>1, <3>2
  <2>12. \A q, s \in Runs :
           /\ stage'[q] = "running" /\ stage'[s] = "running"
           /\ JobOf(q) = JobOf(s) /\ ~overlapped'[JobOf(q)]
           => q = s
    <3> SUFFICES ASSUME NEW q \in Runs, NEW s \in Runs,
                        stage'[q] = "running", stage'[s] = "running",
                        JobOf(q) = JobOf(s), ~overlapped'[JobOf(q)]
                 PROVE  q = s
      OBVIOUS
    <3>1. CASE q # r /\ s # r
      <4>1. stage[q] = "running" /\ stage[s] = "running" /\ ~overlapped[JobOf(q)]
        BY <3>1, <2>3, <2>5, RunTyping
      <4> QED
        BY <4>1 DEF CatchupInv, LastRunCovers
    <3>2. CASE q = r
      BY <3>2, <2>4, <2>5
    <3>3. CASE s = r
      BY <3>3, <2>4, <2>5
    <3> QED
      BY <3>1, <3>2, <3>3
  <2>13. LastRunCovers'
    BY <2>10, <2>11, <2>12 DEF LastRunCovers
  <2> QED
    BY <2>8, <2>13 DEF CatchupInv
<1> QED
  BY <1>1, <1>2

(* A commit moves last_run to the start of the execution: not back, unless *)
(* executions overlapped, and at or after the fire it served.              *)
LEMMA CommitStep ==
  ASSUME TypeOK, CatchupInv, NEW r \in Runs, Commit(r)
  PROVE  CatchupInv'
<1> DEFINE j == JobOf(r)
<1>0. j \in Jobs /\ now \in Nat
  BY RunTyping DEF TypeOK, Time
<1>1. /\ stage[r] = "running"
      /\ lastRun' = [lastRun EXCEPT ![j] = startOf[r]]
      /\ UNCHANGED <<overlapped, catchup, now>>
  BY DEF Commit, memory, boot, env
<1>2. /\ lastRun'[j] = startOf[r]
      /\ \A i \in Jobs \ {j} : lastRun'[i] = lastRun[i]
  BY <1>0, <1>1 DEF TypeOK
<1>3. /\ startOf[r] # NoTime /\ startOf[r] \in Nat /\ startOf[r] <= now
      /\ fireOf[r] # NoTime => fireOf[r] \in Nat /\ fireOf[r] <= startOf[r]
  BY <1>1 DEF CatchupInv, InThePast, TypeOK, OptTime, Time
<1>4. /\ stage'[r] \notin {"submitted", "running"}
      /\ \A q \in Runs \ {r} : /\ stage'[q] = stage[q] /\ fireOf'[q] = fireOf[q]
                                /\ startOf'[q] = startOf[q]
  <2>1. CASE KindOf(r) = "manual"
    BY <2>1 DEF Commit, End, TypeOK
  <2>2. CASE KindOf(r) # "manual"
    BY <2>2 DEF Commit, TypeOK
  <2> QED
    BY <2>1, <2>2
<1>5. /\ done'[j] \subseteq done[j] \cup {fireOf[r]}
      /\ \A i \in Jobs \ {j} : done'[i] = done[i]
  BY <1>0 DEF Commit, TypeOK
<1>6. InThePast'
  BY <1>1, <1>2, <1>3, <1>4 DEF CatchupInv, InThePast
<1>7. \A i \in Jobs : \A f \in done'[i] :
        ~overlapped'[i] /\ f # NoTime => lastRun'[i] # NoTime /\ f <= lastRun'[i]
  <2> SUFFICES ASSUME NEW i \in Jobs, NEW f \in done'[i], ~overlapped[i], f # NoTime
               PROVE  lastRun'[i] # NoTime /\ f <= lastRun'[i]
    BY <1>1
  <2>1. CASE i # j
    BY <2>1, <1>2, <1>5 DEF CatchupInv, LastRunCovers
  <2>2. CASE i = j /\ f = fireOf[r]
    BY <2>2, <1>2, <1>3
  <2>3. CASE i = j /\ f \in done[j]
    <3>1. /\ lastRun[j] # NoTime /\ f <= lastRun[j]
          /\ lastRun[j] <= startOf[r]
      BY <2>3, <1>0, <1>1 DEF CatchupInv, LastRunCovers
    <3>2. f \in Nat /\ lastRun[j] \in Nat
      BY <2>3, <3>1, <1>0 DEF TypeOK, OptTime, Time
    <3> QED
      BY <2>3, <3>1, <3>2, <1>2, <1>3
  <2> QED
    BY <2>1, <2>2, <2>3, <1>5
<1>8. \A q \in Runs : stage'[q] = "running" /\ ~overlapped'[JobOf(q)] =>
        /\ q # r /\ stage[q] = "running" /\ ~overlapped[JobOf(q)]
        /\ JobOf(q) # j
  BY <1>1, <1>4 DEF CatchupInv, LastRunCovers
<1>9. LastRunCovers'
  BY <1>2, <1>4, <1>7, <1>8, RunTyping DEF CatchupInv, LastRunCovers
<1> QED
  BY <1>6, <1>9 DEF CatchupInv

LEMMA CatchupInit == Init => CatchupInv
<1> SUFFICES ASSUME Init PROVE CatchupInv
  OBVIOUS
<1> USE DEF Init
<1>1. InThePast
  BY DEF InThePast
<1>2. LastRunCovers
  BY RunTyping DEF LastRunCovers
<1> QED
  BY <1>1, <1>2 DEF CatchupInv

LEMMA CatchupStep == TypeOK /\ CatchupInv /\ [Next]_vars => CatchupInv'
<1> SUFFICES ASSUME TypeOK, CatchupInv, [Next]_vars PROVE CatchupInv'
  OBVIOUS
<1> USE DEF table, memory, exec, boot, env, history
<1>0. now \in Time /\ now <= now
  BY DEF TypeOK, Time
<1>1. CASE Tick
  BY <1>1, NothingStartsStep DEF Tick, NothingStarts, TypeOK, Time
<1>2. CASE Crash
  BY <1>0, <1>2, NothingStartsStep DEF Crash, NothingStarts
<1>3. CASE StartUp
  <2>1. \A p \in catchup' : p.fire <= now
    BY <1>3, PlanSound DEF StartUp
  <2>2. InThePast'
    BY <1>3, <2>1 DEF StartUp, CatchupInv, InThePast
  <2>3. LastRunCovers'
    BY <1>3 DEF StartUp, CatchupInv, LastRunCovers
  <2> QED
    BY <2>2, <2>3 DEF CatchupInv
<1>4. ASSUME NEW j \in Jobs, LoadJob(j) PROVE CatchupInv'
  BY <1>0, <1>4, NothingStartsStep DEF LoadJob, NothingStarts
<1>5. CASE Ready
  BY <1>0, <1>5, NothingStartsStep DEF Ready, NothingStarts
<1>6. ASSUME NEW c \in Clients, ApiCall(c) PROVE CatchupInv'
  <2>1. UNCHANGED <<exec, lastRun, done, overlapped, now, catchup>>
    BY <1>6 DEF ApiCall, CreateRow, CreateSchedule, UpdateRow, UpdateSync, ToggleRead,
                ToggleSchedule, ToggleCommit, DeleteRead, DeleteUnschedule, DeleteCommit
  <2> QED
    BY <1>0, <2>1, NothingStartsStep DEF NothingStarts
<1>7. ASSUME NEW j \in Jobs, Fire(j) PROVE CatchupInv'
  <2> DEFINE r   == <<"scheduled", j>>
             due == FiresIn(FireTimes[trigger[j]], nextFire[j], now)
             f   == Latest(due)
  <2>1. r \in Runs /\ FireTimes[trigger[j]] \in SUBSET Nat
    BY <1>7, FireTimesType DEF Fire, Scheduled, TypeOK, Runs, Kinds
  <2>2. f \in OptTime /\ (f # NoTime => f <= now)
    <3>1. \A g \in due : g \in Time /\ g <= now
      BY <2>1 DEF FiresIn, Time
    <3> QED
      BY <3>1, LatestMember DEF OptTime
  <2>3. UNCHANGED <<lastRun, done, overlapped, now, catchup>>
    BY <1>7 DEF Fire
  <2>4. CASE stage[r] = "idle"
    BY <1>7, <2>1, <2>2, <2>3, <2>4, SubmitStep DEF Fire
  <2>5. CASE stage[r] # "idle"
    BY <1>0, <1>7, <2>3, <2>5, NothingStartsStep DEF Fire, NothingStarts
  <2> QED
    BY <2>4, <2>5
<1>8. ASSUME NEW j \in Jobs, RunNow(j) PROVE CatchupInv'
  BY <1>8, SubmitStep DEF RunNow, Runs, Kinds, OptTime
<1>9. ASSUME NEW p \in catchup, StartReplay(p) PROVE CatchupInv'
  <2>1. p.job \in Jobs /\ p.fire \in OptTime /\ p.fire <= now
    BY DEF TypeOK, MissedRun, OptTime, CatchupInv, InThePast
  <2>2. <<"replay", p.job>> \in Runs
    BY <2>1 DEF Runs, Kinds
  <2> QED
    BY <1>9, <2>1, <2>2, SubmitStep DEF StartReplay
<1>10. ASSUME NEW r \in Runs, Execution(r) PROVE CatchupInv'
  <2>1. CASE Misfire(r)
    BY <2>1, EndStartsNothing, NothingStartsStep DEF Misfire
  <2>2. CASE Begin(r)
    BY <2>2, BeginStep
  <2>3. CASE Commit(r)
    BY <2>3, CommitStep
  <2>4. CASE FailCommit(r)
    BY <2>4, EndStartsNothing, NothingStartsStep DEF FailCommit
  <2>5. CASE ReadNext(r)
    BY <1>0, <2>5, NothingStartsStep DEF ReadNext, NothingStarts, TypeOK
  <2>6. CASE SaveNext(r)
    <3>1. CASE End(r)
      BY <2>6, <3>1, EndStartsNothing, NothingStartsStep DEF SaveNext
    <3>2. CASE /\ stage' = [stage EXCEPT ![r] = "disable"]
               /\ UNCHANGED <<fireOf, startOf, seenNext>>
      BY <1>0, <2>6, <3>2, NothingStartsStep DEF SaveNext, NothingStarts, TypeOK
    <3> QED
      BY <2>6, <3>1, <3>2 DEF SaveNext
  <2>7. CASE DisableOnce(r)
    <3>1. CASE Live(JobOf(r))
      BY <1>0, <2>7, <3>1, NothingStartsStep DEF DisableOnce, NothingStarts, TypeOK
    <3>2. CASE ~Live(JobOf(r))
      BY <2>7, <3>2, EndStartsNothing, NothingStartsStep DEF DisableOnce
    <3> QED
      BY <3>1, <3>2
  <2>8. CASE RemoveOnce(r)
    BY <2>8, EndStartsNothing, NothingStartsStep DEF RemoveOnce
  <2> QED
    BY <1>10, <2>1, <2>2, <2>3, <2>4, <2>5, <2>6, <2>7, <2>8 DEF Execution
<1>11. CASE UNCHANGED vars
  BY <1>0, <1>11, NothingStartsStep DEF vars, NothingStarts
<1> QED
  BY <1>1, <1>2, <1>3, <1>4, <1>5, <1>6, <1>7, <1>8, <1>9, <1>10, <1>11 DEF Next, Startup

(* While the executions of a job exclude each other, its last_run is at or *)
(* after every fire that was executed, and what is in flight lies in the   *)
(* past.                                                                   *)
THEOREM CatchupInvariant == Spec => []CatchupInv
  BY InitType, TypeStep, CatchupInit, CatchupStep, PTL DEF Spec

(* What a step adds to the catch-up plan, it adds while the process        *)
(* starts, and last_run is older than it.                                  *)
LEMMA PlanStep ==
  TypeOK /\ CatchupInv /\ [Next]_vars =>
    \A p \in catchup' \ catchup : p.fire \in done[p.job] => overlapped[p.job]
<1> SUFFICES ASSUME TypeOK, CatchupInv, [Next]_vars,
                    NEW p \in catchup' \ catchup, p.fire \in done[p.job]
             PROVE  overlapped[p.job]
  OBVIOUS
<1> USE DEF table, memory, exec, boot, env, history
<1>1. CASE StartUp
  <2>1. /\ p \in MissedRun
        /\ lastRun[p.job] # NoTime => lastRun[p.job] < p.fire
    BY <1>1, PlanSound DEF StartUp
  <2>2. p.job \in Jobs /\ p.fire \in Nat /\ p.fire # NoTime
    BY <2>1, NoTimeAssumption DEF MissedRun, Time
  <2>3. ~overlapped[p.job] => lastRun[p.job] # NoTime /\ p.fire <= lastRun[p.job]
    BY <2>2 DEF CatchupInv, LastRunCovers
  <2>4. lastRun[p.job] # NoTime => lastRun[p.job] \in Nat
    BY <2>2 DEF TypeOK, OptTime, Time
  <2> QED
    BY <2>1, <2>2, <2>3, <2>4
<1>2. ~StartUp => catchup' \subseteq catchup
  <2>1. CASE Tick \/ Crash \/ UNCHANGED vars
    BY <2>1 DEF Tick, Crash, vars
  <2>2. ASSUME NEW j \in Jobs, LoadJob(j) \/ Fire(j) \/ RunNow(j)
        PROVE  catchup' \subseteq catchup
    BY <2>2 DEF LoadJob, Fire, RunNow
  <2>3. CASE Ready
    BY <2>3 DEF Ready
  <2>4. ASSUME NEW c \in Clients, ApiCall(c) PROVE catchup' \subseteq catchup
    BY <2>4 DEF ApiCall, CreateRow, CreateSchedule, UpdateRow, UpdateSync, ToggleRead,
                ToggleSchedule, ToggleCommit, DeleteRead, DeleteUnschedule, DeleteCommit
  <2>5. ASSUME NEW q \in catchup, StartReplay(q) PROVE catchup' \subseteq catchup
    BY <2>5 DEF StartReplay
  <2>6. ASSUME NEW r \in Runs, Execution(r) PROVE catchup' \subseteq catchup
    BY <2>6 DEF Execution, Misfire, Begin, Commit, FailCommit, ReadNext, SaveNext,
                DisableOnce, RemoveOnce
  <2> QED
    BY <2>1, <2>2, <2>3, <2>4, <2>5, <2>6 DEF Next, Startup
<1> QED
  BY <1>1, <1>2

(* A fire whose execution committed is not planned again after a restart,  *)
(* unless two executions of its job ran at the same time.                  *)
THEOREM NoCommittedFireReplayed == Spec => CommittedFireNotReplayed
<1>1. TypeOK /\ CatchupInv /\ [Next]_vars =>
        [\A p \in catchup' \ catchup : p.fire \in done[p.job] => overlapped[p.job]]_vars
  BY PlanStep
<1> QED
  BY <1>1, TypeCorrect, CatchupInvariant, PTL DEF Spec, CommittedFireNotReplayed

(***************************************************************************)
(* The evidence in the table                                               *)
(***************************************************************************)

(* Nobody changes the schedule of a job: a call works with the schedule    *)
(* the row has.                                                            *)
CallEvidence(c) ==
  call[c].at # "idle" =>
    /\ call[c].at # "updateSync"
    /\ status[call[c].job] # "new"
    /\ call[c].cron = cron[call[c].job]

(* What is stored for job j (next_run), what an execution has read and     *)
(* will store, and APScheduler's next fire: none is later than the next    *)
(* fire, or than a fire that is still to come.                             *)
NotYetCreated(j) ==
  /\ trigger[j] = NoCron /\ nextFire[j] = NoTime
  /\ \A k \in Kinds : seenNext[<<k, j>>] = NoTime

StoredBefore(j, f) ==
  /\ nextRun[j] # NoTime /\ nextRun[j] <= f
  /\ \A k \in Kinds : seenNext[<<k, j>>] # NoTime => seenNext[<<k, j>>] <= f

JobEvidence(j) ==
  /\ status[j] = "new" => NotYetCreated(j)
  /\ status[j] # "new" =>
       /\ Scheduled(j) => trigger[j] = cron[j]
       /\ nextFire[j] # NoTime =>
            /\ Scheduled(j) /\ nextFire[j] \in FireTimes[cron[j]] /\ nextFire[j] > 0
            /\ StoredBefore(j, nextFire[j])
       /\ \A f \in FireTimes[cron[j]] : f > now =>
            /\ StoredBefore(j, f)
            /\ Scheduled(j) => nextFire[j] # NoTime /\ nextFire[j] <= f

EvidenceInv ==
  /\ \A c \in Clients : CallEvidence(c)
  /\ \A j \in Jobs : JobEvidence(j)

(* The values of job j that the evidence is made of are those before the   *)
(* step, except that the job may have left APScheduler, an execution may   *)
(* have ended, and time may have passed.                                   *)
EvidenceKept(j) ==
  /\ status'[j] = "new" <=> status[j] = "new"
  /\ cron'[j] = cron[j] /\ nextRun'[j] = nextRun[j]
  /\ \/ trigger'[j] = trigger[j] /\ nextFire'[j] = nextFire[j]
     \/ trigger'[j] = NoCron /\ nextFire'[j] = NoTime
  /\ now' \in Nat /\ now <= now'
  /\ \A k \in Kinds : seenNext'[<<k, j>>] \in {seenNext[<<k, j>>], NoTime}

(* The types of what is known of job j.                                    *)
LEMMA JobTyping ==
  ASSUME TypeOK, NEW j \in Jobs
  PROVE  /\ cron[j] \in Crons /\ FireTimes[cron[j]] \in SUBSET Nat
         /\ nextRun[j] # NoTime => nextRun[j] \in Nat
         /\ lastRun[j] # NoTime => lastRun[j] \in Nat
         /\ nextFire[j] # NoTime => nextFire[j] \in Nat
         /\ \A k \in Kinds : seenNext[<<k, j>>] # NoTime => seenNext[<<k, j>>] \in Nat
         /\ now \in Nat
  BY FireTimesType, RunTyping DEF TypeOK, OptTime, Time

(* Then the evidence stays.                                                *)
LEMMA EvidenceKeptStep ==
  ASSUME TypeOK, NEW j \in Jobs, JobEvidence(j), EvidenceKept(j)
  PROVE  JobEvidence(j)'
<1>1. now \in Nat /\ now' \in Nat /\ now <= now' /\ cron'[j] = cron[j]
      /\ FireTimes[cron[j]] \in SUBSET Nat
  BY JobTyping DEF EvidenceKept
<1>2. \A f : StoredBefore(j, f) => StoredBefore(j, f)'
  BY DEF StoredBefore, EvidenceKept
<1>3. \A f \in FireTimes[cron[j]] : f > now' => f > now
  BY <1>1
<1>4. CASE status[j] = "new"
  BY <1>4 DEF JobEvidence, NotYetCreated, EvidenceKept, Scheduled
<1>5. CASE status[j] # "new"
  <2>1. status'[j] # "new"
    BY <1>5 DEF EvidenceKept
  <2>2. Scheduled(j)' => trigger'[j] = cron'[j]
    BY <1>5 DEF JobEvidence, EvidenceKept, Scheduled
  <2>3. nextFire'[j] # NoTime =>
          /\ Scheduled(j)' /\ nextFire'[j] \in FireTimes[cron'[j]] /\ nextFire'[j] > 0
          /\ StoredBefore(j, nextFire[j])'
    BY <1>2, <1>5 DEF JobEvidence, EvidenceKept, Scheduled
  <2>4. ASSUME NEW f \in FireTimes[cron'[j]], f > now'
        PROVE  /\ StoredBefore(j, f)'
               /\ Scheduled(j)' => nextFire'[j] # NoTime /\ nextFire'[j] <= f
    <3>1. f \in FireTimes[cron[j]] /\ f > now
      BY <1>1, <1>3, <2>4
    <3> QED
      BY <1>2, <1>5, <3>1 DEF JobEvidence, EvidenceKept, Scheduled
  <2> QED
    BY <2>1, <2>2, <2>3, <2>4 DEF JobEvidence
<1> QED
  BY <1>4, <1>5

(* Job j gets the next fire of the schedule in its row; what is stored may *)
(* become that fire.                                                       *)
LEMMA EvidenceScheduled ==
  ASSUME TypeOK, NEW j \in Jobs, JobEvidence(j), status[j] # "new",
         status'[j] = status[j], cron'[j] = cron[j], now' = now,
         trigger'[j] = cron[j], nextFire'[j] = NextFire(FireTimes[cron[j]], now),
         nextRun'[j] = nextRun[j] \/ (nextRun'[j] = nextFire'[j] /\ nextFire'[j] # NoTime),
         \A k \in Kinds : seenNext'[<<k, j>>] = seenNext[<<k, j>>]
  PROVE  JobEvidence(j)'
<1> DEFINE fires == FireTimes[cron[j]]
           n     == NextFire(fires, now)
<1>1. fires \in SUBSET Nat /\ now \in Nat /\ cron[j] # NoCron
  BY JobTyping, CronsAssumption
<1>2. \/ n = NoTime /\ \A f \in fires : ~(f > now)
      \/ n \in fires /\ n # NoTime /\ n > now /\ \A f \in fires : f > now => n <= f
  BY <1>1, NextFireEarliest
<1>n. nextFire'[j] = n
  OBVIOUS
<1> HIDE DEF n
<1>3. \A f \in fires : f > now => StoredBefore(j, f)
  BY DEF JobEvidence
<1>4. \A f \in fires : f > now => StoredBefore(j, f)'
  BY <1>n, <1>2, <1>3 DEF StoredBefore
<1>5. Scheduled(j)' /\ status'[j] # "new"
  BY <1>1 DEF Scheduled
<1>6. n # NoTime => n > 0 /\ n \in Nat
  BY <1>1, <1>2
<1> QED
  BY <1>n, <1>2, <1>4, <1>5, <1>6 DEF JobEvidence

LEMMA EvidenceInit == Init => EvidenceInv
<1> SUFFICES ASSUME Init PROVE EvidenceInv
  OBVIOUS
<1>1. ASSUME NEW c \in Clients PROVE CallEvidence(c)
  BY <1>1 DEF Init, IdleCall, CallEvidence
<1>2. ASSUME NEW j \in Jobs PROVE JobEvidence(j)
  <2>1. \A k \in Kinds : seenNext[<<k, j>>] = NoTime
    BY RunTyping DEF Init
  <2>2. CASE j \notin InitialJobs
    BY <2>1, <2>2 DEF Init, JobEvidence, NotYetCreated
  <2>3. CASE j \in InitialJobs
    <3> DEFINE n == NextFire(FireTimes[InitialCron], 0)
    <3>1. FireTimes[InitialCron] \in SUBSET Nat /\ InitialCron # NoCron
      BY CronsAssumption
    <3>2. \/ n = NoTime /\ \A f \in FireTimes[InitialCron] : ~(f > 0)
          \/ /\ n \in FireTimes[InitialCron] /\ n # NoTime /\ n > 0
             /\ \A f \in FireTimes[InitialCron] : f > 0 => n <= f
      BY <3>1, NextFireEarliest
    <3>3. /\ status[j] = "live" /\ cron[j] = InitialCron /\ trigger[j] = InitialCron
          /\ nextRun[j] = n /\ nextFire[j] = n /\ now = 0
      BY <2>3 DEF Init
    <3>4. n # NoTime => n \in Nat
      BY <3>1, <3>2
    <3> HIDE DEF n
    <3> QED
      BY <2>1, <3>1, <3>2, <3>3, <3>4 DEF JobEvidence, StoredBefore, Scheduled
  <2> QED
    BY <2>2, <2>3
<1> QED
  BY <1>1, <1>2 DEF EvidenceInv

(* The schedule a call works with stays the one in the row.                *)
CallsKept ==
  \A c \in Clients : call'[c].at # "idle" =>
    \/ /\ call[c].at # "idle" /\ call'[c].at # "updateSync"
       /\ call'[c].job = call[c].job /\ call'[c].cron = call[c].cron
       /\ status[call[c].job] # "new" =>
            status'[call[c].job] # "new" /\ cron'[call[c].job] = cron[call[c].job]
    \/ /\ call'[c].at # "updateSync"
       /\ status'[call'[c].job] # "new" /\ call'[c].cron = cron'[call'[c].job]

LEMMA CallsKeptStep ==
  ASSUME \A c \in Clients : CallEvidence(c), CallsKept
  PROVE  \A c \in Clients : CallEvidence(c)'
  BY DEF CallEvidence, CallsKept

(* An update may change the schedule between the moment an execution reads *)
(* next_run_time and the moment it stores it.  Without updates none does.  *)
NoUpdates == "update" \notin Operations

(* Leaving a call keeps the other calls.                                   *)
LEMMA LeaveKept ==
  ASSUME TypeOK, EvidenceInv, NEW c \in Clients, Leave(c), UNCHANGED cron,
         \A j \in Jobs : status[j] # "new" => status'[j] # "new"
  PROVE  CallsKept
<1>1. ASSUME NEW d \in Clients, call'[d].at # "idle"
      PROVE  d # c /\ call'[d] = call[d]
  BY <1>1 DEF Leave, TypeOK, IdleCall
<1>2. \A d \in Clients : call[d].at # "idle" => call[d].job \in Jobs /\ call[d].at # "updateSync"
  BY CallTyping DEF EvidenceInv, CallEvidence
<1> QED
  BY <1>1, <1>2 DEF CallsKept

LEMMA EnterKept ==
  ASSUME TypeOK, EvidenceInv, NEW c \in Clients, NEW at \in CallAt, at # "updateSync",
         NEW j \in Jobs, NEW on, NEW was,
         Enter(c, at, j, cron'[j], on, was), status'[j] # "new",
         \A i \in Jobs : status[i] # "new" => status'[i] # "new" /\ cron'[i] = cron[i]
  PROVE  CallsKept
<1>1. ASSUME NEW d \in Clients
      PROVE  \/ call'[d] = call[d]
             \/ call'[d].at = at /\ call'[d].job = j /\ call'[d].cron = cron'[j]
  BY <1>1 DEF Enter, TypeOK
<1>2. \A d \in Clients : call[d].at # "idle" => call[d].job \in Jobs /\ call[d].at # "updateSync"
  BY CallTyping DEF EvidenceInv, CallEvidence
<1> QED
  BY <1>1, <1>2 DEF CallsKept

LEMMA EvidenceCallStep ==
  ASSUME TypeOK, EvidenceInv, NoUpdates, NEW c \in Clients, ApiCall(c)
  PROVE  EvidenceInv'
<1> USE DEF table, memory, exec, boot, env, history
<1>0. now \in Nat /\ now <= now
  BY DEF TypeOK, Time
<1>1. ASSUME NEW j \in Jobs, NEW cr \in Crons, NEW on \in BOOLEAN, CreateRow(c, j, cr, on)
      PROVE  EvidenceInv'
  <2>1. /\ status[j] = "new" /\ status'[j] # "new" /\ cron'[j] = cr
        /\ nextRun'[j] = NextFire(FireTimes[cr], now)
        /\ \A i \in Jobs \ {j} : /\ status'[i] = status[i] /\ cron'[i] = cron[i]
                                  /\ nextRun'[i] = nextRun[i]
        /\ UNCHANGED <<memory, exec, now>>
    BY <1>1 DEF CreateRow, TypeOK
  <2>2. CallsKept
    <3>1. CASE on
      <4>1. Enter(c, "createSchedule", j, cron'[j], on, FALSE)
        BY <1>1, <2>1, <3>1 DEF CreateRow
      <4> QED
        BY <2>1, <4>1, EnterKept DEF CallAt
    <3>2. CASE ~on
      <4>1. call' = call
        BY <1>1, <3>2 DEF CreateRow
      <4>2. \A d \in Clients : call[d].at # "idle" =>
              call[d].job \in Jobs /\ call[d].at # "updateSync"
        BY CallTyping DEF EvidenceInv, CallEvidence
      <4> QED
        BY <2>1, <4>1, <4>2 DEF CallsKept
    <3> QED
      BY <3>1, <3>2
  <2>3. JobEvidence(j)'
    <3>1. FireTimes[cr] \in SUBSET Nat
      BY FireTimesType
    <3>2. NotYetCreated(j)
      BY <2>1 DEF EvidenceInv, JobEvidence
    <3>3. \/ nextRun'[j] = NoTime /\ \A f \in FireTimes[cr] : ~(f > now)
          \/ /\ nextRun'[j] # NoTime
             /\ \A f \in FireTimes[cr] : f > now => nextRun'[j] <= f
      BY <2>1, <3>1, NextFireEarliest
    <3> QED
      BY <2>1, <3>2, <3>3 DEF JobEvidence, NotYetCreated, StoredBefore, Scheduled
  <2>4. ASSUME NEW i \in Jobs \ {j} PROVE JobEvidence(i)'
    <3>1. EvidenceKept(i)
      BY <1>0, <2>1 DEF EvidenceKept
    <3> QED
      BY <3>1, EvidenceKeptStep DEF EvidenceInv
  <2> QED
    BY <2>2, <2>3, <2>4, CallsKeptStep DEF EvidenceInv
<1>2. ASSUME NEW j \in Jobs, NEW cr, NEW on, UpdateRow(c, j, cr, on) PROVE EvidenceInv'
  BY <1>2 DEF UpdateRow, Free, NoUpdates
<1>3. CASE UpdateSync(c)
  BY <1>3 DEF UpdateSync, EvidenceInv, CallEvidence
<1>4. ASSUME NEW j \in Jobs, AddToScheduler(j, cron[j]), status[j] # "new",
             CallsKept, UNCHANGED <<table, exec, now>>
      PROVE  EvidenceInv'
  <2>1. /\ trigger'[j] = cron[j] /\ nextFire'[j] = NextFire(FireTimes[cron[j]], now)
        /\ \A i \in Jobs \ {j} : trigger'[i] = trigger[i] /\ nextFire'[i] = nextFire[i]
    BY <1>4 DEF AddToScheduler, TypeOK
  <2>2. JobEvidence(j)'
    BY <1>4, <2>1, EvidenceScheduled DEF EvidenceInv
  <2>3. ASSUME NEW i \in Jobs \ {j} PROVE JobEvidence(i)'
    <3>1. EvidenceKept(i)
      BY <1>0, <1>4, <2>1 DEF EvidenceKept
    <3> QED
      BY <3>1, EvidenceKeptStep DEF EvidenceInv
  <2> QED
    BY <1>4, <2>2, <2>3, CallsKeptStep DEF EvidenceInv
<1>5. ASSUME NEW j \in Jobs, RemoveFromScheduler(j) \/ UNCHANGED memory,
             CallsKept, UNCHANGED <<cron, nextRun, exec, now>>,
             \A i \in Jobs : status'[i] = "new" <=> status[i] = "new"
      PROVE  EvidenceInv'
  <2>1. ASSUME NEW i \in Jobs PROVE JobEvidence(i)'
    <3>1. \/ trigger'[i] = trigger[i] /\ nextFire'[i] = nextFire[i]
          \/ trigger'[i] = NoCron /\ nextFire'[i] = NoTime
      BY <1>5 DEF RemoveFromScheduler, TypeOK
    <3>2. EvidenceKept(i)
      BY <1>0, <1>5, <3>1 DEF EvidenceKept
    <3> QED
      BY <3>2, EvidenceKeptStep DEF EvidenceInv
  <2> QED
    BY <1>5, <2>1, CallsKeptStep DEF EvidenceInv
<1>6. ASSUME call[c].at # "idle"
      PROVE  /\ call[c].job \in Jobs /\ status[call[c].job] # "new"
             /\ call[c].cron = cron[call[c].job]
  BY <1>6, CallTyping DEF EvidenceInv, CallEvidence
<1>7. ASSUME NEW at \in CallAt, at # "updateSync", call[c].at # "idle",
             call' = [call EXCEPT ![c].at = at], UNCHANGED table
      PROVE  CallsKept
  <2>1. /\ call'[c].at = at /\ call'[c].job = call[c].job /\ call'[c].cron = call[c].cron
        /\ \A d \in Clients \ {c} : call'[d] = call[d]
    <3>1. call[c] \in [at : CallAt, job : Jobs, cron : Crons, on : BOOLEAN, was : BOOLEAN]
      BY <1>7, CallTyping
    <3> QED
      BY <1>7, <3>1 DEF TypeOK
  <2> QED
    BY <1>7, <2>1 DEF CallsKept, EvidenceInv, CallEvidence
<1>8. CASE CreateSchedule(c)
  <2>1. CallsKept /\ UNCHANGED <<table, exec, now>>
    BY <1>8, LeaveKept DEF CreateSchedule
  <2>2. CASE call[c].cron \in BadCrons
    BY <1>5, <1>6, <1>8, <2>1, <2>2 DEF CreateSchedule
  <2>3. CASE call[c].cron \notin BadCrons
    BY <1>4, <1>6, <1>8, <2>1, <2>3 DEF CreateSchedule
  <2> QED
    BY <2>2, <2>3
<1>9. ASSUME NEW j \in Jobs, NEW on \in BOOLEAN, ToggleRead(c, j, on) PROVE EvidenceInv'
  <2>1. CallsKept
    BY <1>9, EnterKept DEF ToggleRead, CallAt, Live
  <2> QED
    BY <1>5, <1>9, <2>1 DEF ToggleRead
<1>10. CASE ToggleSchedule(c)
  <2>1. call[c].at # "idle" /\ UNCHANGED <<table, exec, now>>
    BY <1>10 DEF ToggleSchedule
  <2>2. CASE call[c].on /\ call[c].cron \in BadCrons
    <3>1. CallsKept /\ UNCHANGED memory
      BY <1>10, <2>1, <2>2, LeaveKept DEF ToggleSchedule
    <3> QED
      BY <1>5, <1>6, <2>1, <3>1
  <2>3. CASE ~(call[c].on /\ call[c].cron \in BadCrons)
    <3>1. CallsKept
      BY <1>7, <1>10, <2>1, <2>3 DEF ToggleSchedule, CallAt
    <3>2. CASE call[c].on
      BY <1>4, <1>6, <1>10, <2>1, <2>3, <3>1, <3>2 DEF ToggleSchedule
    <3>3. CASE ~call[c].on
      BY <1>5, <1>6, <1>10, <2>1, <2>3, <3>1, <3>3 DEF ToggleSchedule
    <3> QED
      BY <3>2, <3>3
  <2> QED
    BY <2>2, <2>3
<1>11. CASE ToggleCommit(c)
  <2>1. CallsKept /\ UNCHANGED <<status, cron, nextRun, memory, exec, now>>
    BY <1>11, LeaveKept DEF ToggleCommit
  <2> QED
    BY <1>5, <1>6, <1>11, <2>1 DEF ToggleCommit
<1>12. ASSUME NEW j \in Jobs, DeleteRead(c, j) PROVE EvidenceInv'
  <2>1. CallsKept
    BY <1>12, EnterKept DEF DeleteRead, CallAt, Live
  <2> QED
    BY <1>5, <1>12, <2>1 DEF DeleteRead
<1>13. CASE DeleteUnschedule(c)
  <2>1. CallsKept
    BY <1>7, <1>13 DEF DeleteUnschedule, CallAt
  <2> QED
    BY <1>5, <1>6, <1>13, <2>1 DEF DeleteUnschedule
<1>14. CASE DeleteCommit(c)
  <2>1. \A i \in Jobs : status'[i] = "new" <=> status[i] = "new"
    BY <1>6, <1>14 DEF DeleteCommit, TypeOK
  <2>2. CallsKept
    BY <1>14, <2>1, LeaveKept DEF DeleteCommit
  <2> QED
    BY <1>5, <1>6, <1>14, <2>1, <2>2 DEF DeleteCommit
<1> QED
  BY <1>1, <1>2, <1>3, <1>8, <1>9, <1>10, <1>11, <1>12, <1>13, <1>14 DEF ApiCall

(* An execution that only ends, or goes on without reading or storing.     *)
LEMMA EvidenceUntouched ==
  ASSUME TypeOK, EvidenceInv, UNCHANGED <<status, cron, nextRun, memory, call, now>>,
         \A r \in Runs : seenNext'[r] \in {seenNext[r], NoTime}
  PROVE  EvidenceInv'
<1>1. now \in Nat /\ now <= now
  BY DEF TypeOK, Time
<1>2. \A j \in Jobs : EvidenceKept(j)
  BY <1>1, RunTyping DEF EvidenceKept, memory
<1>3. \A c \in Clients : CallEvidence(c)'
  BY DEF EvidenceInv, CallEvidence
<1> QED
  BY <1>2, <1>3, EvidenceKeptStep DEF EvidenceInv

LEMMA EndForgets ==
  ASSUME TypeOK, NEW r \in Runs, End(r)
  PROVE  \A q \in Runs : seenNext'[q] \in {seenNext[q], NoTime}
  BY DEF TypeOK, End

LEMMA EvidenceExecutionStep ==
  ASSUME TypeOK, EvidenceInv, NEW r \in Runs, Execution(r)
  PROVE  EvidenceInv'
<1> USE DEF table, memory, exec, boot, env, history
<1> DEFINE j == JobOf(r)
           k == KindOf(r)
<1>0. j \in Jobs /\ k \in Kinds /\ r = <<k, j>> /\ now \in Nat /\ now <= now
  BY RunTyping DEF TypeOK, Time
<1> HIDE DEF j, k
<1>1. CASE Misfire(r) \/ FailCommit(r)
  BY <1>1, EndForgets, EvidenceUntouched DEF Misfire, FailCommit
<1>2. CASE Begin(r)
  <2>1. \A q \in Runs : seenNext'[q] \in {seenNext[q], NoTime}
    BY <1>2, EndForgets DEF Begin
  <2> QED
    BY <1>2, <2>1, EvidenceUntouched DEF Begin
<1>3. CASE Commit(r)
  <2>1. \A q \in Runs : seenNext'[q] \in {seenNext[q], NoTime}
    BY <1>3, EndForgets DEF Commit
  <2> QED
    BY <1>3, <2>1, EvidenceUntouched DEF Commit
<1>4. CASE ReadNext(r)
  <2>1. /\ seenNext'[<<k, j>>] = nextFire[j]
        /\ \A q \in Runs \ {r} : seenNext'[q] = seenNext[q]
        /\ UNCHANGED <<status, cron, nextRun, memory, call, now>>
    BY <1>0, <1>4 DEF ReadNext, TypeOK, j
  <2>2. \A c \in Clients : CallEvidence(c)'
    BY <2>1 DEF EvidenceInv, CallEvidence
  <2>3. ASSUME NEW i \in Jobs \ {j} PROVE JobEvidence(i)'
    <3>1. \A h \in Kinds : seenNext'[<<h, i>>] = seenNext[<<h, i>>]
      BY <1>0, <2>1, RunTyping
    <3>2. EvidenceKept(i)
      BY <1>0, <2>1, <3>1 DEF EvidenceKept
    <3> QED
      BY <3>2, EvidenceKeptStep DEF EvidenceInv
  <2>4. JobEvidence(j)'
    <3>1. \A h \in Kinds : seenNext'[<<h, j>>] = seenNext[<<h, j>>] \/ seenNext'[<<h, j>>] = nextFire[j]
      BY <1>0, <2>1, RunTyping
    <3>2. CASE nextFire[j] = NoTime
      <4>1. EvidenceKept(j)
        BY <1>0, <2>1, <3>1, <3>2 DEF EvidenceKept
      <4> QED
        BY <1>0, <4>1, EvidenceKeptStep DEF EvidenceInv
    <3>3. CASE nextFire[j] # NoTime
      <4>1. JobEvidence(j) /\ nextFire[j] \in Nat /\ nextFire[j] <= nextFire[j]
        BY <1>0, <3>3, JobTyping DEF EvidenceInv
      <4>2. ASSUME NEW f, StoredBefore(j, f), nextFire[j] <= f PROVE StoredBefore(j, f)'
        BY <2>1, <3>1, <4>2 DEF StoredBefore
      <4>3. Scheduled(j) /\ status[j] # "new" /\ nextFire[j] \in FireTimes[cron[j]]
            /\ nextFire[j] > 0 /\ trigger[j] = cron[j] /\ StoredBefore(j, nextFire[j])
        BY <3>3, <4>1 DEF JobEvidence, NotYetCreated
      <4>4. \A f \in FireTimes[cron[j]] : f > now => StoredBefore(j, f) /\ nextFire[j] <= f
        BY <4>1, <4>3 DEF JobEvidence
      <4> QED
        BY <2>1, <3>3, <4>1, <4>2, <4>3, <4>4 DEF JobEvidence, Scheduled
    <3> QED
      BY <3>2, <3>3
  <2> QED
    BY <2>2, <2>3, <2>4 DEF EvidenceInv
<1>5. CASE SaveNext(r)
  <2>1. /\ \A i \in Jobs \ {j} : nextRun'[i] = nextRun[i]
        /\ nextRun'[j] = nextRun[j] \/ (Live(j) /\ seenNext[r] # NoTime /\ nextRun'[j] = seenNext[r])
        /\ UNCHANGED <<status, cron, memory, call, now>>
    BY <1>0, <1>5 DEF SaveNext, TypeOK, j
  <2>2. \A q \in Runs : seenNext'[q] \in {seenNext[q], NoTime}
    BY <1>5, EndForgets DEF SaveNext
  <2>3. \A i \in Jobs : \A h \in Kinds : seenNext'[<<h, i>>] \in {seenNext[<<h, i>>], NoTime}
    BY <2>2, RunTyping
  <2>4. \A c \in Clients : CallEvidence(c)'
    BY <2>1 DEF EvidenceInv, CallEvidence
  <2>5. ASSUME NEW i \in Jobs \ {j} PROVE JobEvidence(i)'
    <3>1. EvidenceKept(i)
      BY <1>0, <2>1, <2>3 DEF EvidenceKept
    <3> QED
      BY <3>1, EvidenceKeptStep DEF EvidenceInv
  <2>6. JobEvidence(j)'
    <3>1. CASE nextRun'[j] = nextRun[j]
      <4>1. EvidenceKept(j)
        BY <1>0, <2>1, <2>3, <3>1 DEF EvidenceKept
      <4> QED
        BY <1>0, <4>1, EvidenceKeptStep DEF EvidenceInv
    <3>2. CASE nextRun'[j] # nextRun[j]
      <4>1. Live(j) /\ seenNext[<<k, j>>] # NoTime /\ nextRun'[j] = seenNext[<<k, j>>]
        BY <1>0, <2>1, <3>2
      <4>2. ASSUME NEW f, StoredBefore(j, f) PROVE StoredBefore(j, f)'
        BY <1>0, <2>3, <4>1, <4>2 DEF StoredBefore
      <4>3. JobEvidence(j) /\ status[j] # "new"
        BY <1>0, <4>1 DEF EvidenceInv, Live
      <4> QED
        BY <2>1, <4>2, <4>3 DEF JobEvidence, Scheduled
    <3> QED
      BY <3>1, <3>2
  <2> QED
    BY <2>4, <2>5, <2>6 DEF EvidenceInv
<1>6. CASE DisableOnce(r)
  <2>1. \A q \in Runs : seenNext'[q] \in {seenNext[q], NoTime}
    BY <1>6, EndForgets DEF DisableOnce
  <2> QED
    BY <1>6, <2>1, EvidenceUntouched DEF DisableOnce
<1>7. CASE RemoveOnce(r)
  <2>1. \A i \in Jobs : /\ \/ trigger'[i] = trigger[i] /\ nextFire'[i] = nextFire[i]
                           \/ trigger'[i] = NoCron /\ nextFire'[i] = NoTime
                        /\ \A h \in Kinds : seenNext'[<<h, i>>] \in {seenNext[<<h, i>>], NoTime}
    BY <1>7, EndForgets, RunTyping DEF RemoveOnce, RemoveFromScheduler, TypeOK
  <2>2. \A i \in Jobs : EvidenceKept(i)
    BY <1>0, <1>7, <2>1 DEF EvidenceKept, RemoveOnce
  <2>3. \A c \in Clients : CallEvidence(c)'
    BY <1>7 DEF RemoveOnce, EvidenceInv, CallEvidence
  <2> QED
    BY <2>2, <2>3, EvidenceKeptStep DEF EvidenceInv
<1> QED
  BY <1>1, <1>2, <1>3, <1>4, <1>5, <1>6, <1>7 DEF Execution

(* Startup loads jobs that have a row.                                     *)
LoadsRows == \A j \in toLoad : status[j] # "new"

LEMMA LoadsRowsStep == TypeOK /\ LoadsRows /\ [Next]_vars => LoadsRows'
<1> SUFFICES ASSUME TypeOK, LoadsRows, [Next]_vars PROVE LoadsRows'
  OBVIOUS
<1> USE DEF table, memory, exec, boot, env, history
<1>1. CASE StartUp
  BY <1>1 DEF StartUp, LoadsRows, EnabledJobs, Live
<1>2. CASE Tick \/ Crash \/ Ready \/ UNCHANGED vars
  BY <1>2 DEF Tick, Crash, Ready, vars, LoadsRows
<1>3. ASSUME NEW j \in Jobs, LoadJob(j) \/ Fire(j) \/ RunNow(j) PROVE LoadsRows'
  BY <1>3 DEF LoadJob, Fire, RunNow, LoadsRows
<1>4. ASSUME NEW c \in Clients, ApiCall(c) PROVE LoadsRows'
  <2>1. UNCHANGED toLoad
    BY <1>4 DEF ApiCall, CreateRow, CreateSchedule, UpdateRow, UpdateSync, ToggleRead,
                ToggleSchedule, ToggleCommit, DeleteRead, DeleteUnschedule, DeleteCommit
  <2>2. ASSUME NEW j \in Jobs, status[j] # "new" PROVE status'[j] # "new"
    BY <1>4, <2>2 DEF ApiCall, CreateRow, CreateSchedule, UpdateRow, UpdateSync, ToggleRead,
                ToggleSchedule, ToggleCommit, DeleteRead, DeleteUnschedule, DeleteCommit,
                TypeOK
  <2> QED
    BY <2>1, <2>2 DEF LoadsRows, TypeOK
<1>5. ASSUME NEW p \in catchup, StartReplay(p) PROVE LoadsRows'
  BY <1>5 DEF StartReplay, LoadsRows
<1>6. ASSUME NEW r \in Runs, Execution(r) PROVE LoadsRows'
  BY <1>6 DEF Execution, Misfire, Begin, Commit, FailCommit, ReadNext, SaveNext,
              DisableOnce, RemoveOnce, LoadsRows
<1> QED
  BY <1>1, <1>2, <1>3, <1>4, <1>5, <1>6 DEF Next, Startup

LEMMA EvidenceStep ==
  TypeOK /\ LoadsRows /\ EvidenceInv /\ NoUpdates /\ [Next]_vars => EvidenceInv'
<1> SUFFICES ASSUME TypeOK, LoadsRows, EvidenceInv, NoUpdates, [Next]_vars PROVE EvidenceInv'
  OBVIOUS
<1> USE DEF table, memory, exec, boot, env, history
<1>0. now \in Nat /\ now <= now
  BY DEF TypeOK, Time
<1>1. CASE Tick
  <2>1. now' \in Nat /\ now <= now'
    BY <1>0, <1>1 DEF Tick
  <2>2. \A j \in Jobs : EvidenceKept(j)
    BY <1>1, <2>1 DEF Tick, EvidenceKept
  <2>3. \A c \in Clients : CallEvidence(c)'
    BY <1>1 DEF Tick, EvidenceInv, CallEvidence
  <2> QED
    BY <2>2, <2>3, EvidenceKeptStep DEF EvidenceInv
<1>2. CASE Crash
  <2>1. \A j \in Jobs : EvidenceKept(j)
    BY <1>0, <1>2, RunTyping DEF Crash, EvidenceKept
  <2>2. \A c \in Clients : CallEvidence(c)'
    BY <1>2 DEF Crash, CallEvidence, IdleCall
  <2> QED
    BY <2>1, <2>2, EvidenceKeptStep DEF EvidenceInv
<1>3. CASE StartUp \/ Ready
  BY <1>3, EvidenceUntouched DEF StartUp, Ready
<1>4. ASSUME NEW j \in Jobs, LoadJob(j) PROVE EvidenceInv'
  <2>1. CASE cron[j] \in BadCrons
    BY <1>4, <2>1, EvidenceUntouched DEF LoadJob
  <2>2. CASE cron[j] \notin BadCrons
    <3>1. status[j] # "new"
      BY <1>4 DEF LoadJob, LoadsRows
    <3>2. /\ trigger'[j] = cron[j] /\ nextFire'[j] = NextFire(FireTimes[cron[j]], now)
          /\ nextRun'[j] = IF nextFire'[j] # NoTime THEN nextFire'[j] ELSE nextRun[j]
          /\ \A i \in Jobs \ {j} : /\ trigger'[i] = trigger[i] /\ nextFire'[i] = nextFire[i]
                                    /\ nextRun'[i] = nextRun[i]
          /\ UNCHANGED <<status, cron, seenNext, now, call>>
      BY <1>4, <2>2 DEF LoadJob, AddToScheduler, TypeOK
    <3>3. JobEvidence(j)'
      BY <3>1, <3>2, EvidenceScheduled DEF EvidenceInv
    <3>4. \A i \in Jobs \ {j} : EvidenceKept(i)
      BY <1>0, <3>2 DEF EvidenceKept
    <3>5. \A c \in Clients : CallEvidence(c)'
      BY <3>2 DEF EvidenceInv, CallEvidence
    <3> QED
      BY <3>3, <3>4, <3>5, EvidenceKeptStep DEF EvidenceInv
  <2> QED
    BY <2>1, <2>2
<1>6. ASSUME NEW c \in Clients, ApiCall(c) PROVE EvidenceInv'
  BY <1>6, EvidenceCallStep
<1>7. ASSUME NEW j \in Jobs, Fire(j) PROVE EvidenceInv'
  <2> DEFINE f == Latest(FiresIn(FireTimes[trigger[j]], nextFire[j], now))
  <2>1. /\ status[j] # "new" /\ trigger[j] = cron[j]
        /\ nextFire[j] \in FireTimes[cron[j]] /\ nextFire[j] <= now
    BY <1>7 DEF Fire, EvidenceInv, JobEvidence, NotYetCreated
  <2>2. NextFire(FireTimes[cron[j]], f) = NextFire(FireTimes[cron[j]], now)
    BY <1>0, <2>1, JobTyping, CoalescedFire
  <2>3. /\ nextFire'[j] = NextFire(FireTimes[cron[j]], now)
        /\ \A i \in Jobs \ {j} : nextFire'[i] = nextFire[i]
        /\ UNCHANGED <<table, trigger, call, now, seenNext>>
    BY <1>7, <2>1, <2>2 DEF Fire, TypeOK, Submit
  <2>4. JobEvidence(j)'
    BY <2>1, <2>3, EvidenceScheduled DEF EvidenceInv
  <2>5. \A i \in Jobs \ {j} : EvidenceKept(i)
    BY <1>0, <2>3 DEF EvidenceKept
  <2>6. \A c \in Clients : CallEvidence(c)'
    BY <2>3 DEF EvidenceInv, CallEvidence
  <2> QED
    BY <2>4, <2>5, <2>6, EvidenceKeptStep DEF EvidenceInv
<1>8. ASSUME NEW j \in Jobs, RunNow(j) PROVE EvidenceInv'
  BY <1>8, EvidenceUntouched DEF RunNow, Submit
<1>9. ASSUME NEW p \in catchup, StartReplay(p) PROVE EvidenceInv'
  BY <1>9, EvidenceUntouched DEF StartReplay, Submit
<1>10. ASSUME NEW r \in Runs, Execution(r) PROVE EvidenceInv'
  BY <1>10, EvidenceExecutionStep
<1>11. CASE UNCHANGED vars
  BY <1>11, EvidenceUntouched DEF vars
<1> QED
  BY <1>1, <1>2, <1>3, <1>4, <1>6, <1>7, <1>8, <1>9, <1>10, <1>11 DEF Next, Startup

(* As long as no update changes a schedule, the stored next_run is never   *)
(* later than APScheduler's next fire, whatever the executions, calls and  *)
(* crashes that store it or read it: _execute_job may store a next_run     *)
(* that is behind, never one that would hide a fire from the next start.   *)
THEOREM NextRunNotAhead ==
  ASSUME NoUpdates
  PROVE  Spec => []EvidenceNotAhead
<1>1. Init => LoadsRows
  BY DEF Init, LoadsRows
<1>2. TypeOK /\ EvidenceInv => EvidenceNotAhead
  BY DEF EvidenceInv, JobEvidence, StoredBefore, EvidenceNotAhead, Live
<1>3. TypeOK /\ LoadsRows /\ EvidenceInv /\ [Next]_vars => EvidenceInv'
  BY EvidenceStep
<1> QED
  BY <1>1, <1>2, <1>3, InitType, TypeStep, LoadsRowsStep, EvidenceInit, PTL DEF Spec

(***************************************************************************)
(* APScheduler follows the table                                           *)
(***************************************************************************)

(* Either the API is used for nothing but run-now, or one caller uses it,  *)
(* one call after the other, its commits succeed and no execution disables *)
(* its own job.  Otherwise two calls, or a call and FIRE_ONCE, may leave   *)
(* the two apart: toggle and delete change APScheduler and the row in two  *)
(* steps.                                                                  *)
OnlyRunNow  == Operations \subseteq {"run"}
OneCaller   == (\A c, d \in Clients : c = d) /\ ~FireOnce /\ ~CommitMayFail
Undisturbed == OnlyRunNow \/ OneCaller

Expected(j) == IF Live(j) /\ enabled[j] /\ cron[j] \notin BadCrons THEN cron[j] ELSE NoCron

Untouched(j) == \A c \in Clients : call[c].at # "idle" => call[c].job # j

AllIdle == /\ \A r \in Runs : stage[r] = "idle"
           /\ \A c \in Clients : call[c].at = "idle"

(* Where a call that has changed one of the two and not yet the other      *)
(* stands.                                                                 *)
CallAgrees(c) ==
  LET j == call[c].job IN
  call[c].at # "idle" =>
    /\ Live(j) /\ call[c].cron = cron[j]
    /\ call[c].at = "createSchedule" => enabled[j] /\ trigger[j] = NoCron
    /\ call[c].at = "updateSync" => enabled[j] = call[c].on
    /\ call[c].at = "toggleSchedule" => call[c].was = enabled[j] /\ trigger[j] = Expected(j)
    /\ call[c].at = "toggleCommit" =>
         /\ call[c].was = enabled[j]
         /\ call[c].on => cron[j] \notin BadCrons /\ trigger[j] = cron[j]
         /\ ~call[c].on => trigger[j] = NoCron
    /\ call[c].at = "deleteUnschedule" => trigger[j] = Expected(j)
    /\ call[c].at = "deleteCommit" => trigger[j] = NoCron

DownAgrees == proc = "down" => AllIdle /\ \A j \in Jobs : trigger[j] = NoCron

LoadingAgrees ==
  proc = "loading" =>
    /\ AllIdle /\ toLoad \subseteq EnabledJobs
    /\ \A j \in Jobs : trigger[j] = IF j \in toLoad THEN NoCron ELSE Expected(j)

UpAgrees ==
  proc = "up" => \A j \in Jobs :
    Untouched(j) /\ (\A k \in Kinds : stage[<<k, j>>] # "remove") => trigger[j] = Expected(j)

OnceAgrees ==
  \A r \in Runs : /\ stage[r] \in {"disable", "remove"} => FireOnce
                  /\ stage[r] = "remove" => ~enabled[JobOf(r)]

SchedInv ==
  /\ DownAgrees /\ LoadingAgrees /\ UpAgrees /\ OnceAgrees
  /\ \A c \in Clients : CallAgrees(c)
  /\ \A j \in Jobs : Scheduled(j) => Live(j)
  /\ OnlyRunNow => \A c \in Clients : call[c].at = "idle"

LEMMA SchedInit == Init => SchedInv
<1> SUFFICES ASSUME Init PROVE SchedInv
  OBVIOUS
<1>1. /\ proc = "up" /\ \A r \in Runs : stage[r] = "idle"
      /\ \A c \in Clients : call[c].at = "idle"
  BY DEF Init, IdleCall
<1>2. InitialCron \in Crons /\ InitialCron # NoCron /\ InitialCron \notin BadCrons
  BY CronsAssumption
<1>3. \A j \in Jobs : trigger[j] = Expected(j) /\ (Scheduled(j) => Live(j))
  BY <1>2 DEF Init, Expected, Live, Scheduled
<1> QED
  BY <1>1, <1>3 DEF SchedInv, DownAgrees, LoadingAgrees, UpAgrees, OnceAgrees, CallAgrees

(* Executions go on, and neither the table, nor APScheduler, nor a call    *)
(* changes.                                                                *)
SchedKept ==
  /\ UNCHANGED <<status, enabled, cron, trigger, proc, toLoad, call>>
  /\ \A r \in Runs : stage'[r] # stage[r] =>
       /\ proc = "up"
       /\ stage[r] # "remove" /\ stage'[r] # "remove"
       /\ stage'[r] = "disable" => FireOnce

LEMMA SchedKeptStep ==
  ASSUME TypeOK, SchedInv, SchedKept
  PROVE  SchedInv'
<1>0. \A j \in Jobs : Expected(j)' = Expected(j)
  BY DEF SchedKept, Expected, Live
<1>1. \A c \in Clients : CallAgrees(c)'
  <2>1. ASSUME NEW c \in Clients, call[c].at # "idle" PROVE call[c].job \in Jobs
    BY <2>1, CallTyping
  <2> QED
    BY <1>0, <2>1 DEF SchedInv, CallAgrees, SchedKept, Live
<1>2. DownAgrees' /\ LoadingAgrees'
  BY <1>0 DEF SchedInv, DownAgrees, LoadingAgrees, AllIdle, EnabledJobs, Live, SchedKept
<1>3. UpAgrees'
  BY <1>0, RunTyping DEF SchedInv, UpAgrees, Untouched, SchedKept
<1>4. OnceAgrees'
  BY DEF SchedInv, OnceAgrees, SchedKept
<1> QED
  BY <1>1, <1>2, <1>3, <1>4 DEF SchedInv, SchedKept, Scheduled, Live

(* An execution under way means that the process is up.                    *)
LEMMA BusyMeansUp ==
  ASSUME TypeOK, SchedInv
  PROVE  /\ \A r \in Runs : stage[r] # "idle" => proc = "up"
         /\ \A c \in Clients : call[c].at # "idle" => proc = "up"
  BY DEF SchedInv, DownAgrees, LoadingAgrees, AllIdle, TypeOK

LEMMA EndSchedKept ==
  ASSUME TypeOK, SchedInv, NEW r \in Runs, End(r), stage[r] \notin {"idle", "remove"},
         UNCHANGED <<status, enabled, cron, trigger, proc, toLoad, call>>
  PROVE  SchedKept
<1>1. /\ stage'[r] = "idle"
      /\ \A q \in Runs \ {r} : stage'[q] = stage[q]
  BY DEF End, TypeOK
<1> QED
  BY <1>1, BusyMeansUp DEF SchedKept

(* Executions touch neither, except where FIRE_ONCE disables the job.      *)
LEMMA SchedExecutionStep ==
  ASSUME TypeOK, SchedInv, Undisturbed, NEW r \in Runs, Execution(r)
  PROVE  SchedInv'
<1> USE DEF table, memory, exec, boot, env, history
<1> DEFINE j == JobOf(r)
<1>0. j \in Jobs
  BY RunTyping
<1>1. CASE Misfire(r) \/ FailCommit(r)
  BY <1>1, EndSchedKept, SchedKeptStep DEF Misfire, FailCommit
<1>m. ASSUME NEW to \in {"running", "returned", "refresh", "disable"},
             to = "disable" => FireOnce,
             stage[r] \in {"submitted", "running", "returned", "refresh"},
             stage' = [stage EXCEPT ![r] = to],
             UNCHANGED <<status, enabled, cron, trigger, proc, toLoad, call>>
      PROVE  SchedKept
  <2>1. /\ stage'[r] = to
        /\ \A q \in Runs \ {r} : stage'[q] = stage[q]
    BY <1>m DEF TypeOK
  <2> QED
    BY <1>m, <2>1, BusyMeansUp DEF SchedKept
<1>2. CASE Begin(r)
  <2>1. SchedKept
    BY <1>2, <1>m, EndSchedKept DEF Begin
  <2> QED
    BY <2>1, SchedKeptStep
<1>3. CASE Commit(r)
  <2>1. SchedKept
    BY <1>3, <1>m, EndSchedKept DEF Commit
  <2> QED
    BY <2>1, SchedKeptStep
<1>4. CASE ReadNext(r)
  <2>1. SchedKept
    BY <1>4, <1>m DEF ReadNext
  <2> QED
    BY <2>1, SchedKeptStep
<1>5. CASE SaveNext(r)
  <2>1. SchedKept
    BY <1>5, <1>m, EndSchedKept DEF SaveNext
  <2> QED
    BY <2>1, SchedKeptStep
<1>once. ASSUME stage[r] \in {"disable", "remove"}
         PROVE  /\ FireOnce /\ OnlyRunNow /\ proc = "up"
                /\ \A c \in Clients : call[c].at = "idle"
  BY <1>once, BusyMeansUp DEF SchedInv, OnceAgrees, Undisturbed, OneCaller
<1>6. CASE DisableOnce(r)
  <2>1. CASE ~Live(j)
    BY <1>6, <2>1, EndSchedKept, SchedKeptStep DEF DisableOnce
  <2>2. CASE Live(j)
    <3>1. /\ stage[r] = "disable" /\ stage'[r] = "remove" /\ enabled'[j] = FALSE
          /\ \A q \in Runs \ {r} : stage'[q] = stage[q]
          /\ \A i \in Jobs \ {j} : enabled'[i] = enabled[i]
          /\ UNCHANGED <<status, cron, trigger, proc, toLoad, call>>
      BY <1>0, <1>6, <2>2 DEF DisableOnce, TypeOK
    <3>2. \A i \in Jobs \ {j} : Expected(i)' = Expected(i)
      BY <3>1 DEF Expected, Live
    <3>3. \A c \in Clients : CallAgrees(c)'
      BY <1>once, <3>1 DEF CallAgrees
    <3>4. proc' = "up"
      BY <1>once, <3>1
    <3>5. UpAgrees'
      <4> SUFFICES ASSUME NEW i \in Jobs, \A k \in Kinds : stage'[<<k, i>>] # "remove",
                          Untouched(i)'
                   PROVE  trigger'[i] = Expected(i)'
        BY DEF UpAgrees
      <4>1. i # j
        BY <3>1, RunTyping
      <4>2. \A k \in Kinds : stage[<<k, i>>] # "remove"
        BY <3>1, <4>1, RunTyping
      <4> QED
        BY <3>1, <3>2, <3>4, <4>1, <4>2 DEF SchedInv, UpAgrees, Untouched
    <3>6. OnceAgrees'
      <4>1. \A q \in Runs : stage'[q] = "remove" => ~enabled'[JobOf(q)]
        BY <1>0, <3>1, RunTyping DEF SchedInv, OnceAgrees
      <4> QED
        BY <1>once, <3>1, <4>1 DEF OnceAgrees
    <3> QED
      BY <1>once, <3>1, <3>3, <3>4, <3>5, <3>6
         DEF SchedInv, DownAgrees, LoadingAgrees, Scheduled, Live
  <2> QED
    BY <2>1, <2>2
<1>7. CASE RemoveOnce(r)
  <2>1. /\ stage[r] = "remove" /\ stage'[r] = "idle" /\ trigger'[j] = NoCron
        /\ \A q \in Runs \ {r} : stage'[q] = stage[q]
        /\ \A i \in Jobs \ {j} : trigger'[i] = trigger[i]
        /\ UNCHANGED <<status, enabled, cron, proc, toLoad, call>>
    BY <1>0, <1>7 DEF RemoveOnce, RemoveFromScheduler, End, TypeOK
  <2>2. \A i \in Jobs : Expected(i)' = Expected(i)
    BY <2>1 DEF Expected, Live
  <2>3. \A c \in Clients : CallAgrees(c)'
    BY <1>once, <2>1 DEF CallAgrees
  <2>4. Expected(j) = NoCron /\ proc' = "up"
    BY <1>once, <2>1 DEF SchedInv, OnceAgrees, Expected
  <2>5. UpAgrees'
    <3> SUFFICES ASSUME NEW i \in Jobs, i # j, \A k \in Kinds : stage'[<<k, i>>] # "remove",
                        Untouched(i)'
                 PROVE  trigger'[i] = Expected(i)'
      BY <1>0, <2>1, <2>2, <2>4 DEF UpAgrees
    <3>1. \A k \in Kinds : stage[<<k, i>>] # "remove"
      BY <2>1, RunTyping
    <3> QED
      BY <2>1, <2>2, <2>4, <3>1 DEF SchedInv, UpAgrees, Untouched
  <2>6. OnceAgrees'
    BY <2>1 DEF SchedInv, OnceAgrees
  <2>7. \A i \in Jobs : Scheduled(i)' => Live(i)'
    BY <2>1 DEF SchedInv, Scheduled, Live
  <2> QED
    BY <1>once, <2>1, <2>3, <2>4, <2>5, <2>6, <2>7 DEF SchedInv, DownAgrees, LoadingAgrees
<1> QED
  BY <1>1, <1>2, <1>3, <1>4, <1>5, <1>6, <1>7 DEF Execution

(* The only caller leaves or goes on with its call on job j, and the other *)
(* jobs keep what they had.                                                *)
OthersKept(j) ==
  /\ \A i \in Jobs \ {j} : /\ status'[i] = status[i] /\ enabled'[i] = enabled[i]
                           /\ cron'[i] = cron[i] /\ trigger'[i] = trigger[i]
  /\ UNCHANGED <<proc, toLoad, stage>>

LEMMA OneCallerStep ==
  ASSUME TypeOK, SchedInv, OneCaller, ~OnlyRunNow, NEW c \in Clients, NEW j \in Jobs,
         proc = "up", OthersKept(j), call[c].at = "idle" \/ call[c].job = j,
         call'[c].at = "idle" \/ call'[c].job = j,
         call'[c].at = "idle" => trigger'[j] = Expected(j)',
         CallAgrees(c)', Scheduled(j)' => Live(j)'
  PROVE  SchedInv'
<1>1. \A d \in Clients : d = c
  BY DEF OneCaller
<1>2. \A i \in Jobs \ {j} : Expected(i)' = Expected(i) /\ trigger'[i] = trigger[i]
  BY DEF OthersKept, Expected, Live
<1>3. \A r \in Runs : stage[r] \notin {"disable", "remove"} /\ stage'[r] = stage[r]
  BY DEF SchedInv, OnceAgrees, OneCaller, OthersKept
<1>4. UpAgrees'
  <2> SUFFICES ASSUME NEW i \in Jobs, Untouched(i)' PROVE trigger'[i] = Expected(i)'
    BY DEF UpAgrees
  <2>1. CASE i = j
    BY <2>1 DEF Untouched
  <2>2. CASE i # j
    <3>1. Untouched(i)
      BY <1>1, <2>2 DEF Untouched
    <3> QED
      BY <1>2, <1>3, <2>2, <3>1, RunTyping DEF SchedInv, UpAgrees
  <2> QED
    BY <2>1, <2>2
<1>5. \A i \in Jobs : Scheduled(i)' => Live(i)'
  BY DEF SchedInv, OthersKept, Scheduled, Live
<1>6. proc' = "up" /\ OnceAgrees'
  BY <1>3 DEF OthersKept, OnceAgrees
<1> QED
  BY <1>1, <1>4, <1>5, <1>6 DEF SchedInv, DownAgrees, LoadingAgrees

(* Where APScheduler stands when the caller is free.                       *)
LEMMA FreeAgrees ==
  ASSUME TypeOK, SchedInv, OneCaller, NEW c \in Clients, NEW op, Free(c, op), NEW j \in Jobs
  PROVE  /\ proc = "up" /\ call[c].at = "idle"
         /\ trigger[j] = Expected(j)
<1>1. proc = "up" /\ call[c].at = "idle" /\ \A d \in Clients : d = c
  BY DEF Free, IdleCall, OneCaller
<1>2. \A k \in Kinds : stage[<<k, j>>] # "remove"
  BY RunTyping DEF SchedInv, OnceAgrees, OneCaller
<1> QED
  BY <1>1, <1>2 DEF SchedInv, UpAgrees, Untouched

(* What the caller holds after it entered a call, and after it left.       *)
LEMMA EnterCall ==
  ASSUME TypeOK, NEW c \in Clients, NEW at, NEW j, NEW cr, NEW on, NEW was,
         Enter(c, at, j, cr, on, was)
  PROVE  call'[c] = [at |-> at, job |-> j, cron |-> cr, on |-> on, was |-> was]
  BY DEF Enter, TypeOK

LEMMA LeaveCall ==
  ASSUME TypeOK, NEW c \in Clients, Leave(c)
  PROVE  call'[c] = IdleCall /\ call'[c].at = "idle" /\ CallAgrees(c)'
  BY DEF Leave, TypeOK, IdleCall, CallAgrees

LEMMA AdvanceCall ==
  ASSUME TypeOK, NEW c \in Clients, NEW at, call[c].at # "idle",
         call' = [call EXCEPT ![c].at = at]
  PROVE  /\ call'[c].at = at /\ call'[c].job = call[c].job /\ call'[c].cron = call[c].cron
         /\ call'[c].on = call[c].on /\ call'[c].was = call[c].was
<1>1. call[c] \in [at : CallAt, job : Jobs, cron : Crons, on : BOOLEAN, was : BOOLEAN]
  BY CallTyping
<1> QED
  BY <1>1 DEF TypeOK

(* Every call of the only caller leaves APScheduler where the row, or the  *)
(* step of the call still to come, expects it.                             *)
LEMMA SchedCallStep ==
  ASSUME TypeOK, SchedInv, Undisturbed, NEW c \in Clients, ApiCall(c)
  PROVE  SchedInv'
<1> USE DEF table, memory, exec, boot, env, history
<1>1. ~OnlyRunNow /\ OneCaller
  <2>1. CASE OnlyRunNow
    <3>1. call[c].at = "idle" /\ Operations \subseteq {"run"}
      BY <2>1 DEF SchedInv, OnlyRunNow
    <3> QED
      BY <3>1 DEF ApiCall, CreateRow, CreateSchedule, UpdateRow, UpdateSync, ToggleRead,
                  ToggleSchedule, ToggleCommit, DeleteRead, DeleteUnschedule, DeleteCommit,
                  Free
  <2> QED
    BY <2>1 DEF Undisturbed
<1>2. ASSUME NEW i, i = call[c].job, call[c].at # "idle"
      PROVE  /\ i \in Jobs /\ Live(i) /\ call[c].cron = cron[i] /\ proc = "up"
             /\ call[c].on \in BOOLEAN /\ call[c].cron # NoCron
  BY <1>2, CallTyping, BusyMeansUp, CronsAssumption DEF SchedInv, CallAgrees
<1>3. ASSUME NEW j \in Jobs, NEW cr \in Crons, NEW on \in BOOLEAN, CreateRow(c, j, cr, on)
      PROVE  SchedInv'
  <2>1. /\ proc = "up" /\ call[c].at = "idle" /\ trigger[j] = NoCron
    BY <1>1, <1>3, FreeAgrees DEF CreateRow, Expected, Live
  <2>2. /\ status'[j] = "live" /\ cron'[j] = cr /\ enabled'[j] = on /\ trigger' = trigger
        /\ OthersKept(j)
    BY <1>3 DEF CreateRow, OthersKept, TypeOK
  <2>3. CASE on
    <3>1. /\ call'[c].at = "createSchedule" /\ call'[c].job = j /\ call'[c].cron = cr
      <4>1. IF on THEN Enter(c, "createSchedule", j, cr, on, FALSE) ELSE UNCHANGED call
        BY <1>3 DEF CreateRow
      <4>2. Enter(c, "createSchedule", j, cr, on, FALSE)
        BY <2>3, <4>1
      <4> QED
        BY <4>2 DEF Enter, TypeOK
    <3>2. CallAgrees(c)'
      BY <2>1, <2>2, <2>3, <3>1 DEF CallAgrees, Live
    <3> QED
      BY <1>1, <2>1, <2>2, <3>1, <3>2, OneCallerStep DEF Live
  <2>4. CASE ~on
    <3>1. call' = call
      BY <1>3, <2>4 DEF CreateRow
    <3>2. CallAgrees(c)' /\ trigger'[j] = Expected(j)'
      BY <2>1, <2>2, <2>4, <3>1 DEF CallAgrees, Expected
    <3> QED
      BY <1>1, <2>1, <2>2, <3>1, <3>2, OneCallerStep DEF Live
  <2> QED
    BY <2>3, <2>4
<1>4. CASE CreateSchedule(c)
  <2>0. PICK i \in Jobs : i = call[c].job /\ call[c].at # "idle"
    BY <1>4, CallTyping DEF CreateSchedule
  <2>1. call[c].at = "createSchedule" /\ enabled[i] /\ trigger[i] = NoCron
    BY <1>4, <2>0 DEF CreateSchedule, SchedInv, CallAgrees
  <2>2. /\ OthersKept(i) /\ UNCHANGED table
        /\ trigger'[i] = IF cron[i] \in BadCrons THEN NoCron ELSE cron[i]
    BY <1>2, <2>0, <1>4, <2>1 DEF CreateSchedule, OthersKept, AddToScheduler, TypeOK
  <2>3. trigger'[i] = Expected(i)' /\ Live(i)'
    BY <1>2, <2>0, <2>1, <2>2 DEF Expected, Live
  <2>4. call'[c].at = "idle" /\ CallAgrees(c)'
    BY <1>4, LeaveCall DEF CreateSchedule
  <2> QED
    BY <1>1, <1>2, <2>0, <2>1, <2>2, <2>3, <2>4, OneCallerStep
<1>5. ASSUME NEW j \in Jobs, NEW cr \in Crons \cup {NoCron}, NEW on \in BOOLEAN,
             UpdateRow(c, j, cr, on)
      PROVE  SchedInv'
  <2>1. proc = "up" /\ call[c].at = "idle" /\ Live(j)
    BY <1>1, <1>5, FreeAgrees DEF UpdateRow
  <2>2. /\ enabled'[j] = on /\ OthersKept(j) /\ Live(j)'
        /\ cron'[j] = IF cr = NoCron THEN cron[j] ELSE cr
    BY <1>5, <2>1 DEF UpdateRow, OthersKept, TypeOK, Live
  <2>3. call'[c] = [at |-> "updateSync", job |-> j, cron |-> cron'[j], on |-> on, was |-> FALSE]
    <3>1. Enter(c, "updateSync", j, cron'[j], on, FALSE)
      BY <1>5, <2>2 DEF UpdateRow
    <3> QED
      BY <3>1 DEF Enter, TypeOK
  <2>4. CallAgrees(c)'
    BY <2>2, <2>3 DEF CallAgrees
  <2> QED
    BY <1>1, <2>1, <2>2, <2>3, <2>4, OneCallerStep
<1>6. CASE UpdateSync(c)
  <2>0. PICK i \in Jobs : i = call[c].job /\ call[c].at # "idle"
    BY <1>6, CallTyping DEF UpdateSync
  <2>1. call[c].at = "updateSync" /\ enabled[i] = call[c].on
    BY <1>6, <2>0 DEF UpdateSync, SchedInv, CallAgrees
  <2>2. /\ OthersKept(i) /\ UNCHANGED table
        /\ trigger'[i] = IF call[c].on /\ call[c].cron \notin BadCrons
                           THEN call[c].cron ELSE NoCron
    BY <1>2, <2>0, <1>6, <2>1
       DEF UpdateSync, OthersKept, AddToScheduler, RemoveFromScheduler, TypeOK
  <2>3. trigger'[i] = Expected(i)' /\ Live(i)'
    BY <1>2, <2>0, <2>1, <2>2 DEF Expected, Live
  <2>4. call'[c].at = "idle" /\ CallAgrees(c)'
    BY <1>6, LeaveCall DEF UpdateSync
  <2> QED
    BY <1>1, <1>2, <2>0, <2>1, <2>2, <2>3, <2>4, OneCallerStep
<1>7. ASSUME NEW j \in Jobs, NEW on \in BOOLEAN, ToggleRead(c, j, on) PROVE SchedInv'
  <2>1. proc = "up" /\ call[c].at = "idle" /\ Live(j) /\ trigger[j] = Expected(j)
    BY <1>1, <1>7, FreeAgrees DEF ToggleRead
  <2>2. OthersKept(j) /\ UNCHANGED <<table, memory>>
    BY <1>7 DEF ToggleRead, OthersKept
  <2>3. call'[c] = [at |-> "toggleSchedule", job |-> j, cron |-> cron[j], on |-> on,
                    was |-> enabled[j]]
    BY <1>7, EnterCall DEF ToggleRead
  <2>4. CallAgrees(c)'
    BY <2>1, <2>2, <2>3 DEF CallAgrees, Live, Expected
  <2> QED
    BY <1>1, <2>1, <2>2, <2>3, <2>4, OneCallerStep DEF Live
<1>8. CASE ToggleSchedule(c)
  <2>0. PICK i \in Jobs : i = call[c].job /\ call[c].at # "idle"
    BY <1>8, CallTyping DEF ToggleSchedule
  <2>1. /\ call[c].at = "toggleSchedule" /\ call[c].was = enabled[i]
        /\ trigger[i] = Expected(i)
    BY <1>8, <2>0 DEF ToggleSchedule, SchedInv, CallAgrees
  <2>2. CASE call[c].on /\ call[c].cron \in BadCrons
    <3>1. OthersKept(i) /\ UNCHANGED <<table, memory>>
      BY <1>8, <2>2 DEF ToggleSchedule, OthersKept
    <3>2. trigger'[i] = Expected(i)' /\ Live(i)'
      BY <1>2, <2>0, <2>1, <3>1 DEF Expected, Live
    <3>3. call'[c].at = "idle" /\ CallAgrees(c)'
      BY <1>8, <2>2, LeaveCall DEF ToggleSchedule
    <3> QED
      BY <1>1, <1>2, <2>0, <2>1, <3>1, <3>2, <3>3, OneCallerStep
  <2>3. CASE ~(call[c].on /\ call[c].cron \in BadCrons)
    <3>1. /\ OthersKept(i) /\ UNCHANGED table
          /\ trigger'[i] = IF call[c].on THEN call[c].cron ELSE NoCron
      BY <1>2, <2>0, <1>8, <2>1, <2>3
         DEF ToggleSchedule, OthersKept, AddToScheduler, RemoveFromScheduler, TypeOK
    <3>2. call' = [call EXCEPT ![c].at = "toggleCommit"]
      BY <1>8, <2>3 DEF ToggleSchedule
    <3>3. /\ call'[c].at = "toggleCommit" /\ call'[c].job = i /\ call'[c].cron = call[c].cron
          /\ call'[c].on = call[c].on /\ call'[c].was = call[c].was
      BY <2>0, <2>1, <3>2, AdvanceCall
    <3>4. CallAgrees(c)'
      BY <1>2, <2>0, <2>1, <2>3, <3>1, <3>3 DEF CallAgrees, Live
    <3> QED
      BY <1>1, <1>2, <2>0, <2>1, <3>1, <3>3, <3>4, OneCallerStep DEF Live
  <2> QED
    BY <2>2, <2>3
<1>9. CASE ToggleCommit(c)
  <2>0. PICK i \in Jobs : i = call[c].job /\ call[c].at # "idle"
    BY <1>9, CallTyping DEF ToggleCommit
  <2>1. /\ call[c].at = "toggleCommit" /\ call[c].was = enabled[i]
        /\ call[c].on => cron[i] \notin BadCrons /\ trigger[i] = cron[i]
        /\ ~call[c].on => trigger[i] = NoCron
    BY <1>9, <2>0 DEF ToggleCommit, SchedInv, CallAgrees
  <2>2. /\ OthersKept(i) /\ UNCHANGED <<status, cron, memory>>
        /\ enabled'[i] = call[c].on
    BY <1>1, <1>2, <2>0, <1>9, <2>1 DEF ToggleCommit, OthersKept, TypeOK, OneCaller
  <2>3. trigger'[i] = Expected(i)' /\ Live(i)'
    BY <1>2, <2>0, <2>1, <2>2 DEF Expected, Live
  <2>4. call'[c].at = "idle" /\ CallAgrees(c)'
    BY <1>9, LeaveCall DEF ToggleCommit
  <2> QED
    BY <1>1, <1>2, <2>0, <2>1, <2>2, <2>3, <2>4, OneCallerStep
<1>10. ASSUME NEW j \in Jobs, DeleteRead(c, j) PROVE SchedInv'
  <2>1. proc = "up" /\ call[c].at = "idle" /\ Live(j) /\ trigger[j] = Expected(j)
    BY <1>1, <1>10, FreeAgrees DEF DeleteRead
  <2>2. OthersKept(j) /\ UNCHANGED <<table, memory>>
    BY <1>10 DEF DeleteRead, OthersKept
  <2>3. call'[c] = [at |-> "deleteUnschedule", job |-> j, cron |-> cron[j], on |-> FALSE,
                    was |-> FALSE]
    <3>1. Enter(c, "deleteUnschedule", j, cron[j], FALSE, FALSE)
      BY <1>10 DEF DeleteRead
    <3> QED
      BY <3>1 DEF Enter, TypeOK
  <2>4. CallAgrees(c)'
    BY <2>1, <2>2, <2>3 DEF CallAgrees, Live, Expected
  <2> QED
    BY <1>1, <2>1, <2>2, <2>3, <2>4, OneCallerStep DEF Live
<1>11. CASE DeleteUnschedule(c)
  <2>0. PICK i \in Jobs : i = call[c].job /\ call[c].at # "idle"
    BY <1>11, CallTyping DEF DeleteUnschedule
  <2>1. call[c].at = "deleteUnschedule"
    BY <1>11 DEF DeleteUnschedule
  <2>2. OthersKept(i) /\ UNCHANGED table /\ trigger'[i] = NoCron
    BY <1>2, <2>0, <1>11, <2>1 DEF DeleteUnschedule, OthersKept, RemoveFromScheduler, TypeOK
  <2>3. /\ call'[c].at = "deleteCommit" /\ call'[c].job = i /\ call'[c].cron = call[c].cron
    BY <1>11, <2>0, <2>1, AdvanceCall DEF DeleteUnschedule
  <2>4. CallAgrees(c)'
    BY <1>2, <2>0, <2>1, <2>2, <2>3 DEF CallAgrees, Live
  <2> QED
    BY <1>1, <1>2, <2>0, <2>1, <2>2, <2>3, <2>4, OneCallerStep DEF Live
<1>12. CASE DeleteCommit(c)
  <2>0. PICK i \in Jobs : i = call[c].job /\ call[c].at # "idle"
    BY <1>12, CallTyping DEF DeleteCommit
  <2>1. call[c].at = "deleteCommit" /\ trigger[i] = NoCron
    BY <1>12, <2>0 DEF DeleteCommit, SchedInv, CallAgrees
  <2>2. OthersKept(i) /\ UNCHANGED <<enabled, cron, memory>> /\ status'[i] = "deleted"
    BY <1>1, <1>2, <2>0, <1>12, <2>1 DEF DeleteCommit, OthersKept, TypeOK, OneCaller
  <2>3. trigger'[i] = Expected(i)' /\ ~Scheduled(i)'
    BY <2>1, <2>2 DEF Expected, Live, Scheduled
  <2>4. call'[c].at = "idle" /\ CallAgrees(c)'
    BY <1>12, LeaveCall DEF DeleteCommit
  <2> QED
    BY <1>1, <1>2, <2>0, <2>1, <2>2, <2>3, <2>4, OneCallerStep
<1> QED
  BY <1>3, <1>4, <1>5, <1>6, <1>7, <1>8, <1>9, <1>10, <1>11, <1>12 DEF ApiCall

LEMMA SchedStep == TypeOK /\ SchedInv /\ Undisturbed /\ [Next]_vars => SchedInv'
<1> SUFFICES ASSUME TypeOK, SchedInv, Undisturbed, [Next]_vars PROVE SchedInv'
  OBVIOUS
<1> USE DEF table, memory, exec, boot, env, history
<1>1. CASE Tick
  BY <1>1, SchedKeptStep DEF Tick, SchedKept
<1>2. CASE Crash
  <2>1. /\ proc' = "down" /\ AllIdle' /\ \A j \in Jobs : trigger'[j] = NoCron
        /\ \A r \in Runs : stage'[r] = "idle"
    BY <1>2 DEF Crash, AllIdle, IdleCall
  <2> QED
    BY <2>1 DEF SchedInv, DownAgrees, LoadingAgrees, UpAgrees, OnceAgrees, AllIdle, CallAgrees,
                Scheduled
<1>3. CASE StartUp
  <2>1. /\ proc' = "loading" /\ toLoad' = EnabledJobs /\ AllIdle /\ AllIdle'
        /\ \A j \in Jobs : trigger[j] = NoCron
        /\ UNCHANGED <<table, memory, exec, call>>
    BY <1>3 DEF StartUp, SchedInv, DownAgrees, AllIdle
  <2>2. \A j \in Jobs : j \notin EnabledJobs => Expected(j) = NoCron
    BY DEF Expected, EnabledJobs
  <2>3. LoadingAgrees'
    BY <2>1, <2>2 DEF LoadingAgrees, EnabledJobs, Expected, Live
  <2> QED
    BY <2>1, <2>3 DEF SchedInv, DownAgrees, UpAgrees, OnceAgrees, AllIdle, CallAgrees, Scheduled
<1>4. ASSUME NEW j \in Jobs, LoadJob(j) PROVE SchedInv'
  <2>1. /\ proc = "loading" /\ proc' = "loading" /\ j \in toLoad /\ toLoad' = toLoad \ {j}
        /\ AllIdle /\ AllIdle' /\ Live(j) /\ enabled[j]
        /\ UNCHANGED <<status, enabled, cron, exec, call>>
    BY <1>4 DEF LoadJob, SchedInv, LoadingAgrees, AllIdle, EnabledJobs
  <2>2. /\ \A i \in Jobs \ {j} : trigger'[i] = trigger[i]
        /\ trigger'[j] = IF cron[j] \in BadCrons THEN trigger[j] ELSE cron[j]
    BY <1>4 DEF LoadJob, AddToScheduler, TypeOK
  <2>3. trigger[j] = NoCron
    BY <2>1 DEF SchedInv, LoadingAgrees
  <2>4. trigger'[j] = Expected(j) /\ \A i \in Jobs : Expected(i)' = Expected(i)
    BY <2>1, <2>2, <2>3 DEF Expected, Live
  <2>5. LoadingAgrees'
    <3>1. \A i \in Jobs : trigger'[i] = IF i \in toLoad' THEN NoCron ELSE Expected(i)'
      BY <2>1, <2>2, <2>4 DEF SchedInv, LoadingAgrees
    <3>2. toLoad' \subseteq EnabledJobs'
      BY <2>1 DEF SchedInv, LoadingAgrees, EnabledJobs, Live
    <3> QED
      BY <2>1, <3>1, <3>2 DEF LoadingAgrees
  <2>6. \A i \in Jobs : Scheduled(i)' => Live(i)'
    BY <2>1, <2>2 DEF SchedInv, Scheduled, Live
  <2> QED
    BY <2>1, <2>5, <2>6 DEF SchedInv, DownAgrees, UpAgrees, OnceAgrees, AllIdle, CallAgrees
<1>5. CASE Ready
  <2>1. /\ proc' = "up" /\ AllIdle /\ \A j \in Jobs : trigger[j] = Expected(j)
        /\ UNCHANGED <<table, memory, exec, toLoad, call>>
    BY <1>5 DEF Ready, SchedInv, LoadingAgrees
  <2>2. \A j \in Jobs : Expected(j)' = Expected(j)
    BY <2>1 DEF Expected, Live
  <2> QED
    BY <2>1, <2>2 DEF SchedInv, DownAgrees, LoadingAgrees, UpAgrees, OnceAgrees, AllIdle,
                      CallAgrees, Scheduled, Live
<1>6. ASSUME NEW c \in Clients, ApiCall(c) PROVE SchedInv'
  BY <1>6, SchedCallStep
<1>s. ASSUME NEW r \in Runs, NEW f, Submit(r, f), proc = "up", stage[r] = "idle",
             UNCHANGED <<status, enabled, cron, trigger, proc, toLoad, call>>
      PROVE  SchedInv'
  <2>1. /\ stage'[r] = "submitted"
        /\ \A q \in Runs \ {r} : stage'[q] = stage[q]
    BY <1>s DEF Submit, TypeOK
  <2>2. SchedKept
    BY <1>s, <2>1 DEF SchedKept
  <2> QED
    BY <2>2, SchedKeptStep
<1>7. ASSUME NEW j \in Jobs, Fire(j) PROVE SchedInv'
  <2>1. CASE stage[<<"scheduled", j>>] = "idle"
    BY <1>7, <1>s, <2>1, RunTyping DEF Fire, Kinds
  <2>2. CASE stage[<<"scheduled", j>>] # "idle"
    BY <1>7, <2>2, SchedKeptStep DEF Fire, SchedKept
  <2> QED
    BY <2>1, <2>2
<1>8. ASSUME NEW j \in Jobs, RunNow(j) PROVE SchedInv'
  BY <1>8, <1>s, RunTyping DEF RunNow, Kinds
<1>9. ASSUME NEW p \in catchup, StartReplay(p) PROVE SchedInv'
  <2>1. p.job \in Jobs
    BY DEF TypeOK, MissedRun
  <2> QED
    BY <1>9, <1>s, <2>1, RunTyping DEF StartReplay, Kinds
<1>10. ASSUME NEW r \in Runs, Execution(r) PROVE SchedInv'
  BY <1>10, SchedExecutionStep
<1>11. CASE UNCHANGED vars
  BY <1>11, SchedKeptStep DEF vars, SchedKept
<1> QED
  BY <1>1, <1>2, <1>3, <1>4, <1>5, <1>6, <1>7, <1>8, <1>9, <1>10, <1>11 DEF Next, Startup

(* As long as calls do not cross each other, fail to commit, or cross the  *)
(* disabling of a FIRE_ONCE job, APScheduler holds exactly the enabled     *)
(* jobs between two calls: create, update, toggle, delete, startup and     *)
(* crashes all leave the two in agreement.                                 *)
THEOREM FollowsTable ==
  ASSUME Undisturbed
  PROVE  Spec => []SchedulerFollowsTable
<1>1. TypeOK /\ SchedInv => SchedulerFollowsTable
  <2> SUFFICES ASSUME TypeOK, SchedInv, NEW j \in Jobs, Settled(j), cron[j] \notin BadCrons
               PROVE  trigger[j] = (IF Live(j) /\ enabled[j] THEN cron[j] ELSE NoCron)
    BY DEF SchedulerFollowsTable
  <2>1. proc = "up" /\ Untouched(j) /\ \A k \in Kinds : stage[<<k, j>>] # "remove"
    BY DEF Settled, Untouched
  <2> QED
    BY <2>1 DEF SchedInv, UpAgrees, Expected
<1>2. TypeOK /\ SchedInv /\ [Next]_vars => SchedInv'
  BY SchedStep
<1> QED
  BY <1>1, <1>2, InitType, TypeStep, SchedInit, PTL DEF Spec

(* Only APScheduler's wake-up submits a scheduled execution.               *)
LEMMA OnlyFireSubmits ==
  ASSUME TypeOK, [Next]_vars, NEW j \in Jobs,
         stage[<<"scheduled", j>>] = "idle", stage'[<<"scheduled", j>>] = "submitted"
  PROVE  Fire(j)
<1> USE DEF table, memory, exec, boot, env, history
<1> DEFINE s == <<"scheduled", j>>
<1>0. s \in Runs /\ KindOf(s) = "scheduled" /\ JobOf(s) = j /\ stage'[s] # stage[s]
  BY RunTyping DEF Kinds
<1>1. ~(Tick \/ StartUp \/ Ready \/ UNCHANGED vars)
  BY <1>0 DEF Tick, StartUp, Ready, vars
<1>2. ~Crash
  BY <1>0 DEF Crash
<1>3. \A i \in Jobs : ~LoadJob(i)
  BY <1>0 DEF LoadJob
<1>4. \A c \in Clients : ~ApiCall(c)
  <2> SUFFICES ASSUME NEW c \in Clients, ApiCall(c) PROVE UNCHANGED stage
    BY <1>0
  <2> QED
    BY DEF ApiCall, CreateRow, CreateSchedule, UpdateRow, UpdateSync, ToggleRead,
           ToggleSchedule, ToggleCommit, DeleteRead, DeleteUnschedule, DeleteCommit
<1>5. \A i \in Jobs : ~RunNow(i)
  <2> SUFFICES ASSUME NEW i \in Jobs, RunNow(i) PROVE stage'[s] = stage[s]
    BY <1>0
  <2>1. <<"manual", i>> # s
    OBVIOUS
  <2> QED
    BY <1>0, <2>1 DEF RunNow, Submit, TypeOK
<1>6. \A p \in catchup : ~StartReplay(p)
  <2> SUFFICES ASSUME NEW p \in catchup, StartReplay(p) PROVE stage'[s] = stage[s]
    BY <1>0
  <2>1. <<"replay", p.job>> # s
    OBVIOUS
  <2> QED
    BY <1>0, <2>1 DEF StartReplay, Submit, TypeOK
<1>7. \A r \in Runs : ~Execution(r)
  <2> SUFFICES ASSUME NEW r \in Runs, Execution(r) PROVE stage'[s] # "submitted" \/ stage'[s] = stage[s]
    BY <1>0
  <2> QED
    BY <1>0 DEF Execution, Misfire, Begin, Commit, FailCommit, ReadNext, SaveNext,
                DisableOnce, RemoveOnce, End, TypeOK
<1>8. ASSUME NEW i \in Jobs, Fire(i) PROVE i = j
  <2>1. CASE stage[<<"scheduled", i>>] = "idle"
    BY <1>0, <1>8, <2>1 DEF Fire, Submit, TypeOK
  <2>2. CASE stage[<<"scheduled", i>>] # "idle"
    BY <1>0, <1>8, <2>2 DEF Fire
  <2> QED
    BY <2>1, <2>2
<1> QED
  BY <1>1, <1>2, <1>3, <1>4, <1>5, <1>6, <1>7, <1>8 DEF Next, Startup

(* What the submission of a scheduled execution says of its job.           *)
LEMMA FireStep ==
  TypeOK /\ SchedInv /\ [Next]_vars =>
    \A j \in Jobs :
      (stage[<<"scheduled", j>>] = "idle" /\ stage'[<<"scheduled", j>>] = "submitted") =>
          /\ Live(j)
          /\ \/ enabled[j]
             \/ \E c \in Clients : call[c].job = j /\ call[c].on
             \/ \E k \in Kinds : stage[<<k, j>>] = "remove"
<1> SUFFICES ASSUME TypeOK, SchedInv, [Next]_vars, NEW j \in Jobs,
                    stage[<<"scheduled", j>>] = "idle", stage'[<<"scheduled", j>>] = "submitted",
                    ~\E k \in Kinds : stage[<<k, j>>] = "remove"
             PROVE  /\ Live(j)
                    /\ enabled[j] \/ \E c \in Clients : call[c].job = j /\ call[c].on
  BY OnlyFireSubmits DEF SchedInv, Fire
<1>1. /\ proc = "up" /\ ~LoopBusy /\ Scheduled(j) /\ Live(j)
  BY OnlyFireSubmits DEF Fire, SchedInv
<1>2. CASE Untouched(j)
  BY <1>1, <1>2 DEF SchedInv, UpAgrees, Expected, Scheduled
<1>3. CASE ~Untouched(j)
  <2>1. PICK c \in Clients : call[c].at # "idle" /\ call[c].job = j
    BY <1>3 DEF Untouched
  <2>2. call[c].at \in {"toggleSchedule", "toggleCommit", "deleteUnschedule", "deleteCommit"}
    BY <1>1, <2>1, CallTyping DEF LoopBusy, CallAt
  <2> QED
    BY <1>1, <2>1, <2>2, CallTyping DEF SchedInv, CallAgrees, Expected, Scheduled
<1> QED
  BY <1>1, <1>2, <1>3

(* Under the same conditions a scheduled execution starts only for a job   *)
(* that is enabled, or is being enabled, or is being taken out by          *)
(* FIRE_ONCE.                                                              *)
THEOREM FiresEnabledOnly ==
  ASSUME Undisturbed
  PROVE  Spec => FiresOnlyEnabled
<1>1. TypeOK /\ SchedInv /\ [Next]_vars => SchedInv'
  BY SchedStep
<1>2. TypeOK /\ SchedInv /\ [Next]_vars =>
        [\A j \in Jobs :
           (stage[<<"scheduled", j>>] = "idle" /\ stage'[<<"scheduled", j>>] = "submitted") =>
               /\ Live(j)
               /\ \/ enabled[j]
                  \/ \E c \in Clients : call[c].job = j /\ call[c].on
                  \/ \E k \in Kinds : stage[<<k, j>>] = "remove"]_vars
  BY FireStep
<1> QED
  BY <1>1, <1>2, InitType, TypeStep, SchedInit, PTL DEF Spec, FiresOnlyEnabled

(***************************************************************************)
(* No fire is forgotten                                                    *)
(***************************************************************************)

(* A second crash, before the replays of the first one have run, finds     *)
(* next_run already rewritten by startup and forgets what was planned.     *)
OneCrash == MaxCrashes <= 1

(* The scans of the planner are not cut short: the age limit holds no more *)
(* fire times than one scan steps through, nor, when there are jobs whose  *)
(* missed runs have no age limit, does the whole past.                     *)
ScansReachNow ==
  \A cr \in Crons : \A t \in 0..MaxTime :
    /\ Cardinality(FiresIn(FireTimes[cr], t - Grace, t)) <= ScanLimit
    /\ ExitJobs = {} \/ Cardinality(FiresIn(FireTimes[cr], 0, t)) <= ScanLimit

(* Fire f is the latest due fire of job j.                                 *)
Owes(j, f) == FireOwed(j) /\ f = LatestDue(j)

(* AccountedFor, made inductive: an execution that began before f and has  *)
(* not committed would move last_run back before f.                        *)
Accounted(j, f) ==
  \/ f \in done[j] \cup dropped[j]
  \/ /\ lastRun[j] # NoTime /\ lastRun[j] >= f
     /\ \A k \in Kinds : stage[<<k, j>>] = "running" => startOf[<<k, j>>] >= f
  \/ proc = "up" /\ Scheduled(j) /\ nextFire[j] # NoTime /\ nextFire[j] <= f
  \/ InFlight(j, f)
  \/ [job |-> j, fire |-> f] \in catchup
  \/ proc = "down" /\ Evidence(j, f)
  \/ now - f > Grace /\ j \notin ExitJobs

Remembered(j) == \A f \in Nat : Owes(j, f) => Accounted(j, f) \/ f \in starting[j]

(* Before the only crash the table shows every fire in flight.             *)
NeverDown ==
  crashes = 0 =>
    /\ proc = "up" /\ catchup = {}
    /\ \A j \in Jobs :
         /\ stage[<<"replay", j>>] = "idle"
         /\ stage[<<"scheduled", j>>] \in {"submitted", "running"} =>
              nextRun[j] # NoTime /\ nextRun[j] <= fireOf[<<"scheduled", j>>]

ForgottenInv ==
  /\ now <= MaxTime
  /\ proc = "down" => catchup = {}
  /\ NeverDown
  /\ \A j \in Jobs : stage[<<"manual", j>>] \in {"idle", "submitted", "running"}
  /\ \A j \in Jobs : Remembered(j)

(* The whole inductive invariant.                                          *)
OwedInv == /\ TypeOK /\ CatchupInv /\ LoadsRows /\ EvidenceInv /\ SchedInv /\ ForgottenInv

(* What owing a fire says of it.                                           *)
LEMMA OwesFacts ==
  ASSUME TypeOK, NEW j \in Jobs, NEW f, Owes(j, f)
  PROVE  /\ f \in Nat /\ f \in FireTimes[cron[j]] /\ f >= 1 /\ f <= now
         /\ \A g \in FireTimes[cron[j]] : g <= now => g <= f
         /\ Live(j) /\ enabled[j] /\ cron[j] \notin BadCrons
<1> DEFINE due == FiresIn(FireTimes[cron[j]], 1, now)
<1>1. FireTimes[cron[j]] \in SUBSET Nat /\ now \in Nat
  BY JobTyping
<1>2. due \in SUBSET Nat /\ \A g \in due : g <= now
  BY <1>1 DEF FiresIn
<1>3. f = Latest(due) /\ f # NoTime
  BY DEF Owes, FireOwed, LatestDue
<1>4. f \in due /\ \A g \in due : g <= f
  <2>1. due # {}
    BY <1>3, LatestMember
  <2> HIDE DEF due
  <2> QED
    BY <1>1, <1>2, <1>3, <2>1, GreatestFire
<1>5. f \in Nat /\ f \in FireTimes[cron[j]] /\ f >= 1 /\ f <= now
  BY <1>1, <1>4 DEF FiresIn
<1>6. ASSUME NEW g \in FireTimes[cron[j]], g <= now PROVE g <= f
  <2>1. g \in Nat
    BY <1>1
  <2>2. CASE g >= 1
    BY <1>4, <1>6, <2>2 DEF FiresIn
  <2>3. CASE g = 0
    BY <1>5, <2>3
  <2> QED
    BY <2>1, <2>2, <2>3
<1> QED
  BY <1>5, <1>6 DEF Owes, FireOwed

(* While the clock, the schedule and the row stay, the latest due fire     *)
(* stays; what is left to show is that it stays accounted for.             *)
LEMMA RememberedStep ==
  ASSUME NEW j \in Jobs, Remembered(j),
         UNCHANGED <<status, cron, now, starting>>, enabled'[j] => enabled[j],
         \A f \in Nat : Owes(j, f) /\ enabled'[j] /\ Accounted(j, f) => Accounted(j, f)'
  PROVE  Remembered(j)'
<1> SUFFICES ASSUME NEW f \in Nat, Owes(j, f)'
             PROVE  Accounted(j, f)' \/ f \in starting'[j]
  BY DEF Remembered
<1>1. LatestDue(j)' = LatestDue(j)
  BY DEF LatestDue
<1>2. Owes(j, f) /\ enabled'[j]
  BY <1>1 DEF Owes, FireOwed, Live
<1> QED
  BY <1>2 DEF Remembered

(* What a step other than a crash or a tick leaves of the account: at most *)
(* an execution begins, commits or ends, or a replay is submitted.         *)
AccountKept(j, f) ==
  /\ now' = now
  /\ proc = "up" => proc' = "up" /\ trigger'[j] = trigger[j] /\ nextFire'[j] = nextFire[j]
  /\ proc = "down" => proc' = "down" /\ nextRun'[j] = nextRun[j] /\ lastRun'[j] = lastRun[j]
  /\ done[j] \subseteq done'[j] /\ dropped[j] \subseteq dropped'[j]
  /\ \/ lastRun'[j] = lastRun[j]
     \/ \E k \in Kinds : /\ stage[<<k, j>>] = "running" /\ startOf[<<k, j>>] # NoTime
                         /\ lastRun'[j] = startOf[<<k, j>>]
  /\ [job |-> j, fire |-> f] \in catchup =>
       [job |-> j, fire |-> f] \in catchup' \/ InFlight(j, f)'
  /\ \A k \in Kinds : stage'[<<k, j>>] = "running" =>
       \/ stage[<<k, j>>] = "running" /\ startOf'[<<k, j>>] = startOf[<<k, j>>]
       \/ startOf'[<<k, j>>] = now
  /\ InFlight(j, f) => InFlight(j, f)' \/ f \in done'[j] \cup dropped'[j]

LEMMA AccountKeptStep ==
  ASSUME NEW j \in Jobs, NEW f \in Nat, f <= now, now \in Nat, Accounted(j, f), AccountKept(j, f)
  PROVE  Accounted(j, f)'
<1>1. now >= f
  OBVIOUS
<1>2. CASE lastRun[j] # NoTime /\ lastRun[j] >= f
           /\ \A k \in Kinds : stage[<<k, j>>] = "running" => startOf[<<k, j>>] >= f
  <2>1. lastRun'[j] # NoTime /\ lastRun'[j] >= f
    BY <1>2 DEF AccountKept
  <2>2. \A k \in Kinds : stage'[<<k, j>>] = "running" => startOf'[<<k, j>>] >= f
    BY <1>1, <1>2 DEF AccountKept
  <2> QED
    BY <2>1, <2>2 DEF Accounted
<1>3. CASE f \in done[j] \cup dropped[j] \/ InFlight(j, f)
           \/ [job |-> j, fire |-> f] \in catchup
  BY <1>3 DEF AccountKept, Accounted
<1>4. CASE \/ proc = "up" /\ Scheduled(j) /\ nextFire[j] # NoTime /\ nextFire[j] <= f
           \/ proc = "down" /\ Evidence(j, f)
           \/ now - f > Grace /\ j \notin ExitJobs
  BY <1>4 DEF AccountKept, Accounted, Scheduled, Evidence
<1> QED
  BY <1>2, <1>3, <1>4 DEF Accounted

(* Execution r, which serves fire f of its job, ends: f committed or was   *)
(* given up.  Any other execution stays in flight.                         *)
LEMMA InFlightKept ==
  ASSUME TypeOK, NEW j \in Jobs, NEW f \in Nat, NEW r \in Runs,
         \A q \in Runs \ {r} : stage'[q] = stage[q] /\ fireOf'[q] = fireOf[q],
         \/ stage'[r] \in {"submitted", "running"} /\ fireOf'[r] = fireOf[r]
         \/ stage[r] \notin {"submitted", "running"} \/ KindOf(r) = "manual"
         \/ JobOf(r) = j /\ fireOf[r] # NoTime => fireOf[r] \in done'[j] \cup dropped'[j]
  PROVE  InFlight(j, f) => InFlight(j, f)' \/ f \in done'[j] \cup dropped'[j]
<1> SUFFICES ASSUME NEW k \in {"scheduled", "replay"}, fireOf[<<k, j>>] = f,
                    stage[<<k, j>>] \in {"submitted", "running"}
             PROVE  InFlight(j, f)' \/ f \in done'[j] \cup dropped'[j]
  BY DEF InFlight
<1>1. /\ <<k, j>> \in Runs /\ JobOf(<<k, j>>) = j /\ f # NoTime
      /\ KindOf(<<k, j>>) # "manual"
  BY RunTyping, NoTimeAssumption DEF Kinds
<1>2. CASE r = <<k, j>>
  <2>1. CASE stage'[r] \in {"submitted", "running"} /\ fireOf'[r] = fireOf[r]
    BY <1>2, <2>1 DEF InFlight
  <2>2. CASE JobOf(r) = j /\ fireOf[r] # NoTime => fireOf[r] \in done'[j] \cup dropped'[j]
    BY <1>1, <1>2, <2>2
  <2> QED
    BY <1>1, <1>2, <2>1, <2>2
<1>3. CASE r # <<k, j>>
  <2>1. stage'[<<k, j>>] = stage[<<k, j>>] /\ fireOf'[<<k, j>>] = fireOf[<<k, j>>]
    BY <1>1, <1>3
  <2> QED
    BY <2>1 DEF InFlight
<1> QED
  BY <1>2, <1>3

(* The parts of the invariant that speak of the table and of the plan.     *)
LEMMA ExecutionFrame ==
  ASSUME OwedInv, NEW r \in Runs, stage[r] # "idle",
         UNCHANGED <<proc, catchup, crashes, now>>,
         \A q \in Runs \ {r} : stage'[q] = stage[q] /\ fireOf'[q] = fireOf[q],
         stage'[r] \in {"submitted", "running"} =>
            stage[r] \in {"submitted", "running"} /\ fireOf'[r] = fireOf[r],
         KindOf(r) = "manual" => stage'[r] \in {"idle", "submitted", "running"},
         \A i \in Jobs : nextRun'[i] = nextRun[i] \/ (i = JobOf(r) /\ stage[r] = "refresh"),
         \A i \in Jobs : Remembered(i)'
  PROVE  ForgottenInv'
<1> DEFINE j == JobOf(r)
           k == KindOf(r)
<1>1. j \in Jobs /\ k \in Kinds /\ r = <<k, j>> /\ stage[r] \in Stages
  BY RunTyping DEF OwedInv, TypeOK
<1>2. crashes = 0 => k # "replay"
  BY <1>1 DEF OwedInv, ForgottenInv, NeverDown
<1>3. stage[r] = "refresh" => k # "manual"
  BY <1>1 DEF OwedInv, ForgottenInv
<1>4. \A i \in Jobs : stage'[<<"manual", i>>] \in {"idle", "submitted", "running"}
  BY <1>1, RunTyping DEF OwedInv, ForgottenInv, Kinds
<1>5. NeverDown'
  <2> SUFFICES ASSUME crashes = 0, NEW i \in Jobs
               PROVE  /\ stage'[<<"replay", i>>] = "idle"
                      /\ stage'[<<"scheduled", i>>] \in {"submitted", "running"} =>
                           nextRun'[i] # NoTime /\ nextRun'[i] <= fireOf'[<<"scheduled", i>>]
    BY DEF OwedInv, ForgottenInv, NeverDown
  <2>1. stage'[<<"replay", i>>] = "idle"
    BY <1>1, <1>2, RunTyping DEF OwedInv, ForgottenInv, NeverDown, Kinds
  <2>2. ASSUME stage'[<<"scheduled", i>>] \in {"submitted", "running"}
        PROVE  /\ stage[<<"scheduled", i>>] \in {"submitted", "running"}
               /\ fireOf'[<<"scheduled", i>>] = fireOf[<<"scheduled", i>>]
               /\ nextRun'[i] = nextRun[i]
    <3>1. <<"scheduled", i>> \in Runs
      BY RunTyping DEF Kinds
    <3>2. CASE r = <<"scheduled", i>>
      BY <2>2, <3>1, <3>2
    <3>3. CASE r # <<"scheduled", i>>
      <4>1. ~(i = j /\ stage[r] = "refresh")
        BY <1>1, <1>2, <1>3, <3>3 DEF Kinds
      <4> QED
        BY <2>2, <3>1, <3>3, <4>1
    <3> QED
      BY <3>2, <3>3
  <2> QED
    BY <2>1, <2>2 DEF OwedInv, ForgottenInv, NeverDown
<1> QED
  BY <1>4, <1>5 DEF OwedInv, ForgottenInv

(* What is left of the account of job i when execution r of some job ends, *)
(* goes on, or commits.                                                    *)
LEMMA ExecutionAccount ==
  ASSUME OwedInv, NEW r \in Runs, NEW i \in Jobs, stage[r] # "idle",
         UNCHANGED <<status, cron, now, starting, proc, catchup>>, enabled'[i] => enabled[i],
         trigger'[i] = trigger[i] /\ nextFire'[i] = nextFire[i],
         done[i] \subseteq done'[i], dropped[i] \subseteq dropped'[i],
         \/ lastRun'[i] = lastRun[i]
         \/ i = JobOf(r) /\ stage[r] = "running" /\ lastRun'[i] = startOf[r],
         \A q \in Runs \ {r} : /\ stage'[q] = stage[q] /\ fireOf'[q] = fireOf[q]
                               /\ startOf'[q] = startOf[q],
         stage'[r] = "running" => startOf'[r] = now,
         \/ stage'[r] \in {"submitted", "running"} /\ fireOf'[r] = fireOf[r]
         \/ stage[r] \notin {"submitted", "running"} \/ KindOf(r) = "manual"
         \/ JobOf(r) = i /\ fireOf[r] # NoTime => fireOf[r] \in done'[i] \cup dropped'[i]
  PROVE  Remembered(i)'
<1>1. TypeOK /\ Remembered(i) /\ now \in Nat /\ proc = "up"
  BY BusyMeansUp DEF OwedInv, ForgottenInv, TypeOK, Time
<1>2. stage[r] = "running" => startOf[r] # NoTime
  BY DEF OwedInv, CatchupInv, InThePast
<1>3. /\ KindOf(r) \in Kinds /\ r = <<KindOf(r), JobOf(r)>>
      /\ \A k \in Kinds : <<k, i>> \in Runs
  BY RunTyping
<1>4. ASSUME NEW f \in Nat, Owes(i, f), Accounted(i, f) PROVE Accounted(i, f)'
  <2>1. f <= now
    BY <1>1, <1>4, OwesFacts
  <2>2. InFlight(i, f) => InFlight(i, f)' \/ f \in done'[i] \cup dropped'[i]
    BY <1>1, InFlightKept
  <2>3. \A k \in Kinds : stage'[<<k, i>>] = "running" =>
          \/ stage[<<k, i>>] = "running" /\ startOf'[<<k, i>>] = startOf[<<k, i>>]
          \/ startOf'[<<k, i>>] = now
    BY <1>3
  <2>4. \/ lastRun'[i] = lastRun[i]
        \/ \E k \in Kinds : /\ stage[<<k, i>>] = "running" /\ startOf[<<k, i>>] # NoTime
                            /\ lastRun'[i] = startOf[<<k, i>>]
    BY <1>2, <1>3
  <2>5. AccountKept(i, f)
    BY <1>1, <2>2, <2>3, <2>4 DEF AccountKept
  <2> QED
    BY <1>1, <1>4, <2>1, <2>5, AccountKeptStep
<1> QED
  BY <1>1, <1>4, RememberedStep

LEMMA EndFacts ==
  ASSUME TypeOK, NEW r \in Runs, End(r)
  PROVE  /\ stage'[r] = "idle"
         /\ \A q \in Runs \ {r} : /\ stage'[q] = stage[q] /\ fireOf'[q] = fireOf[q]
                                   /\ startOf'[q] = startOf[q]
  BY DEF End, TypeOK

LEMMA GiveUpFacts ==
  ASSUME TypeOK, NEW r \in Runs, GiveUp(r)
  PROVE  /\ \A i \in Jobs : dropped[i] \subseteq dropped'[i]
         /\ \A i \in Jobs : JobOf(r) = i /\ fireOf[r] # NoTime => fireOf[r] \in dropped'[i]
  BY RunTyping DEF GiveUp, TypeOK

(* The execution is given up.                                              *)
LEMMA GivenUpStep ==
  ASSUME OwedInv, NEW r \in Runs, stage[r] # "idle", End(r), GiveUp(r),
         UNCHANGED <<table, memory, boot, env, done, starting>>
  PROVE  ForgottenInv'
<1> USE DEF table, memory, boot, env
<1>1. /\ stage'[r] = "idle"
      /\ \A q \in Runs \ {r} : /\ stage'[q] = stage[q] /\ fireOf'[q] = fireOf[q]
                                /\ startOf'[q] = startOf[q]
  BY EndFacts DEF OwedInv
<1>2. /\ \A i \in Jobs : dropped[i] \subseteq dropped'[i]
      /\ \A i \in Jobs : JobOf(r) = i /\ fireOf[r] # NoTime => fireOf[r] \in dropped'[i]
  BY GiveUpFacts DEF OwedInv
<1>3. ASSUME NEW i \in Jobs PROVE Remembered(i)'
  BY <1>1, <1>2, ExecutionAccount
<1> QED
  BY <1>1, <1>3, ExecutionFrame

(* The execution goes on, or ends, with nothing left in flight.            *)
LEMMA AfterCommitStep ==
  ASSUME OwedInv, NEW r \in Runs, stage[r] \in {"returned", "refresh", "disable"},
         End(r) \/ (/\ UNCHANGED <<fireOf, startOf>>
                    /\ \E to \in {"refresh", "disable", "remove"} :
                          stage' = [stage EXCEPT ![r] = to]),
         \A i \in Jobs : enabled'[i] => enabled[i],
         \A i \in Jobs : nextRun'[i] = nextRun[i] \/ (i = JobOf(r) /\ stage[r] = "refresh"),
         UNCHANGED <<status, cron, lastRun, memory, boot, env, done, dropped, starting>>
  PROVE  ForgottenInv'
<1> USE DEF memory, boot, env
<1>1. /\ stage'[r] \in {"idle", "refresh", "disable", "remove"}
      /\ \A q \in Runs \ {r} : /\ stage'[q] = stage[q] /\ fireOf'[q] = fireOf[q]
                                /\ startOf'[q] = startOf[q]
  BY EndFacts DEF OwedInv, TypeOK
<1>2. KindOf(r) # "manual"
  BY RunTyping DEF OwedInv, ForgottenInv
<1>3. ASSUME NEW i \in Jobs PROVE Remembered(i)'
  BY <1>1, ExecutionAccount
<1> QED
  BY <1>1, <1>2, <1>3, ExecutionFrame

(* An execution keeps the fire it serves until it commits or gives it up.  *)
LEMMA ForgottenExecutionStep ==
  ASSUME OwedInv, NEW r \in Runs, Execution(r)
  PROVE  ForgottenInv'
<1> USE DEF table, memory, exec, boot, env, history
<1> DEFINE j == JobOf(r)
<1>0. j \in Jobs /\ TypeOK
  BY RunTyping DEF OwedInv
<1>1. CASE Misfire(r) \/ FailCommit(r)
  BY <1>1, GivenUpStep DEF Misfire, FailCommit
<1>2. CASE Begin(r)
  <2>1. CASE ~Live(j)
    BY <1>2, <2>1, GivenUpStep DEF Begin
  <2>2. CASE Live(j)
    <3>1. /\ stage[r] = "submitted" /\ stage'[r] = "running" /\ startOf'[r] = now
          /\ fireOf' = fireOf
          /\ \A q \in Runs \ {r} : stage'[q] = stage[q] /\ startOf'[q] = startOf[q]
          /\ UNCHANGED <<table, memory, boot, env, done, dropped, starting>>
      BY <1>0, <1>2, <2>2 DEF Begin, TypeOK
    <3>2. ASSUME NEW i \in Jobs PROVE Remembered(i)'
      BY <3>1, ExecutionAccount
    <3> QED
      BY <3>1, <3>2, ExecutionFrame
  <2> QED
    BY <2>1, <2>2
<1>3. CASE Commit(r)
  <2>1. /\ stage[r] = "running" /\ lastRun'[j] = startOf[r]
        /\ \A i \in Jobs \ {j} : lastRun'[i] = lastRun[i]
        /\ UNCHANGED <<status, enabled, cron, nextRun, memory, boot, env, dropped, starting>>
    BY <1>0, <1>3 DEF Commit, TypeOK
  <2>2. /\ stage'[r] \in {"idle", "returned"}
        /\ KindOf(r) = "manual" => stage'[r] = "idle"
        /\ \A q \in Runs \ {r} : /\ stage'[q] = stage[q] /\ fireOf'[q] = fireOf[q]
                                  /\ startOf'[q] = startOf[q]
    BY <1>0, <1>3, EndFacts DEF Commit, TypeOK
  <2>3. /\ \A i \in Jobs : done[i] \subseteq done'[i]
        /\ KindOf(r) # "manual" => fireOf[r] \in done'[j]
    BY <1>0, <1>3 DEF Commit, TypeOK
  <2>4. ASSUME NEW i \in Jobs PROVE Remembered(i)'
    BY <2>1, <2>2, <2>3, ExecutionAccount
  <2> QED
    BY <2>1, <2>2, <2>4, ExecutionFrame
<1>4. CASE ReadNext(r)
  BY <1>4, AfterCommitStep DEF ReadNext
<1>5. CASE SaveNext(r)
  <2>1. \A i \in Jobs : nextRun'[i] = nextRun[i] \/ (i = JobOf(r) /\ stage[r] = "refresh")
    BY <1>0, <1>5 DEF SaveNext, TypeOK
  <2> QED
    BY <1>5, <2>1, AfterCommitStep DEF SaveNext
<1>6. CASE DisableOnce(r)
  <2>1. \A i \in Jobs : enabled'[i] => enabled[i]
    BY <1>0, <1>6 DEF DisableOnce, TypeOK
  <2> QED
    BY <1>6, <2>1, AfterCommitStep DEF DisableOnce
<1>7. CASE RemoveOnce(r)
  <2>1. /\ stage[r] = "remove" /\ stage'[r] = "idle"
        /\ \A q \in Runs \ {r} : /\ stage'[q] = stage[q] /\ fireOf'[q] = fireOf[q]
                                  /\ startOf'[q] = startOf[q]
        /\ \A i \in Jobs \ {j} : trigger'[i] = trigger[i] /\ nextFire'[i] = nextFire[i]
        /\ UNCHANGED <<table, boot, env, history>>
    BY <1>0, <1>7, EndFacts DEF RemoveOnce, RemoveFromScheduler, TypeOK
  <2>2. KindOf(r) # "manual" /\ ~enabled[j]
    BY <1>0, <2>1, RunTyping DEF OwedInv, ForgottenInv, SchedInv, OnceAgrees
  <2>3. ASSUME NEW i \in Jobs PROVE Remembered(i)'
    <3>1. CASE i = j
      BY <2>1, <2>2, <3>1 DEF Remembered, Owes, FireOwed
    <3>2. CASE i # j
      BY <2>1, <3>2, ExecutionAccount
    <3> QED
      BY <3>1, <3>2
  <2> QED
    BY <2>1, <2>2, <2>3, ExecutionFrame
<1> QED
  BY <1>1, <1>2, <1>3, <1>4, <1>5, <1>6, <1>7 DEF Execution

(* A step that leaves the executions of job i, or submits one.             *)
LEMMA QuietAccount ==
  ASSUME OwedInv, NEW i \in Jobs,
         UNCHANGED <<status, enabled, cron, lastRun, now, done, starting>>,
         proc = "up" => proc' = "up" /\ trigger'[i] = trigger[i] /\ nextFire'[i] = nextFire[i],
         proc = "down" => proc' = "down" /\ nextRun'[i] = nextRun[i],
         dropped[i] \subseteq dropped'[i],
         \A f \in Nat : [job |-> i, fire |-> f] \in catchup =>
            [job |-> i, fire |-> f] \in catchup' \/ InFlight(i, f)',
         \A k \in Kinds : \/ /\ stage'[<<k, i>>] = stage[<<k, i>>]
                             /\ fireOf'[<<k, i>>] = fireOf[<<k, i>>]
                             /\ startOf'[<<k, i>>] = startOf[<<k, i>>]
                          \/ stage[<<k, i>>] = "idle" /\ stage'[<<k, i>>] = "submitted"
  PROVE  Remembered(i)'
<1>1. TypeOK /\ Remembered(i) /\ now \in Nat
  BY DEF OwedInv, ForgottenInv, TypeOK, Time
<1>2. ASSUME NEW f \in Nat, Owes(i, f), Accounted(i, f) PROVE Accounted(i, f)'
  <2>1. f <= now
    BY <1>1, <1>2, OwesFacts
  <2>2. InFlight(i, f) => InFlight(i, f)'
    BY DEF InFlight, Kinds
  <2>3. AccountKept(i, f)
    BY <2>2 DEF AccountKept
  <2> QED
    BY <1>1, <1>2, <2>1, <2>3, AccountKeptStep
<1> QED
  BY <1>1, <1>2, RememberedStep

LEMMA SubmitFacts ==
  ASSUME TypeOK, NEW r \in Runs, NEW f, Submit(r, f)
  PROVE  /\ stage'[r] = "submitted" /\ fireOf'[r] = f
         /\ \A q \in Runs \ {r} : stage'[q] = stage[q] /\ fireOf'[q] = fireOf[q]
         /\ startOf' = startOf
  BY DEF Submit, TypeOK

(* APScheduler's wake-up takes every due fire of the job into account: it  *)
(* submits the latest one, or gives it up.                                 *)
LEMMA ForgottenFireStep ==
  ASSUME OwedInv, NEW j \in Jobs, Fire(j)
  PROVE  ForgottenInv'
<1> USE DEF table, memory, exec, boot, env, history
<1> DEFINE s == <<"scheduled", j>>
           g == Latest(FiresIn(FireTimes[trigger[j]], nextFire[j], now))
<1>0. TypeOK /\ now \in Nat /\ s \in Runs /\ KindOf(s) = "scheduled" /\ JobOf(s) = j
  BY RunTyping DEF OwedInv, TypeOK, Time, Kinds
<1>1. /\ trigger[j] = cron[j] /\ nextFire[j] \in FireTimes[cron[j]] /\ nextFire[j] <= now
      /\ nextRun[j] # NoTime /\ nextRun[j] <= nextFire[j]
      /\ FireTimes[cron[j]] \in SUBSET Nat
  BY <1>0, JobTyping
     DEF Fire, OwedInv, EvidenceInv, JobEvidence, NotYetCreated, StoredBefore
<1>2. /\ g \in FireTimes[cron[j]] /\ nextFire[j] <= g /\ g <= now
      /\ \A h \in FireTimes[cron[j]] : h <= now => h <= g
  BY <1>0, <1>1, CoalescedFire
<1>3. /\ UNCHANGED <<table, trigger, boot, call, env, done, suppressed, starting, overlapped>>
      /\ \A i \in Jobs \ {j} : nextFire'[i] = nextFire[i]
      /\ \A i \in Jobs : dropped[i] \subseteq dropped'[i]
      /\ proc = "up"
  BY DEF Fire, Submit, TypeOK, OwedInv
<1>4. \/ /\ stage[s] = "idle" /\ stage'[s] = "submitted" /\ fireOf'[s] = g
         /\ \A q \in Runs \ {s} : stage'[q] = stage[q] /\ fireOf'[q] = fireOf[q]
         /\ startOf' = startOf
      \/ stage[s] # "idle" /\ UNCHANGED exec /\ g \in dropped'[j]
  <2>1. CASE stage[s] = "idle"
    BY <1>0, <2>1, SubmitFacts DEF Fire
  <2>2. CASE stage[s] # "idle"
    BY <1>0, <2>2 DEF Fire, TypeOK
  <2> QED
    BY <2>1, <2>2
<1> HIDE DEF g, s
<1>5. ASSUME NEW i \in Jobs \ {j} PROVE Remembered(i)'
  <2>1. \A k \in Kinds : /\ stage'[<<k, i>>] = stage[<<k, i>>]
                         /\ fireOf'[<<k, i>>] = fireOf[<<k, i>>]
                         /\ startOf'[<<k, i>>] = startOf[<<k, i>>]
    BY <1>0, <1>4, RunTyping
  <2> QED
    BY <1>3, <2>1, QuietAccount
<1>6. Remembered(j)'
  <2>1. Remembered(j)
    BY DEF OwedInv, ForgottenInv
  <2>2. ASSUME NEW f \in Nat, Owes(j, f) PROVE Accounted(j, f)'
    <3>1. f \in FireTimes[cron[j]] /\ f <= now /\ \A h \in FireTimes[cron[j]] : h <= now => h <= f
      BY <1>0, <2>2, OwesFacts
    <3>2. f <= g /\ g <= f /\ g \in Nat
      BY <1>1, <1>2, <3>1
    <3>3. f = g
      BY <3>2
    <3>4. CASE stage'[s] = "submitted" /\ fireOf'[s] = g
      <4>1. InFlight(j, f)'
        BY <3>3, <3>4 DEF InFlight, s
      <4> QED
        BY <4>1 DEF Accounted
    <3>5. CASE g \in dropped'[j]
      BY <3>3, <3>5 DEF Accounted
    <3> QED
      BY <1>4, <3>4, <3>5
  <2> QED
    BY <1>3, <2>1, <2>2, RememberedStep
<1>7. NeverDown'
  <2> SUFFICES ASSUME crashes = 0, NEW i \in Jobs
               PROVE  /\ proc = "up" /\ catchup = {}
                      /\ stage'[<<"replay", i>>] = "idle"
                      /\ stage'[<<"scheduled", i>>] \in {"submitted", "running"} =>
                           nextRun[i] # NoTime /\ nextRun[i] <= fireOf'[<<"scheduled", i>>]
    BY <1>3 DEF NeverDown
  <2>1. /\ proc = "up" /\ catchup = {} /\ stage[<<"replay", i>>] = "idle"
        /\ stage[<<"scheduled", i>>] \in {"submitted", "running"} =>
             nextRun[i] # NoTime /\ nextRun[i] <= fireOf[<<"scheduled", i>>]
    BY DEF OwedInv, ForgottenInv, NeverDown
  <2>2. stage'[<<"replay", i>>] = stage[<<"replay", i>>]
    BY <1>0, <1>4, RunTyping DEF Kinds
  <2>3. CASE i = j
    <3>1. nextRun[j] \in Nat /\ nextFire[j] \in Nat /\ g \in Nat
      BY <1>0, <1>1, <1>2, JobTyping
    <3>2. nextRun[j] <= g
      BY <1>1, <1>2, <3>1
    <3> QED
      BY <1>1, <1>4, <2>1, <2>2, <2>3, <3>2 DEF s
  <2>4. CASE i # j
    <3>1. <<"scheduled", i>> \in Runs /\ <<"scheduled", i>> # s
      BY <1>0, <2>4, RunTyping DEF Kinds
    <3> QED
      BY <1>4, <2>1, <2>2, <3>1
  <2> QED
    BY <2>3, <2>4
<1>8. \A i \in Jobs : stage'[<<"manual", i>>] \in {"idle", "submitted", "running"}
  <2>1. \A i \in Jobs : stage'[<<"manual", i>>] = stage[<<"manual", i>>]
    BY <1>0, <1>4, RunTyping DEF Kinds
  <2> QED
    BY <2>1 DEF OwedInv, ForgottenInv
<1> QED
  BY <1>3, <1>5, <1>6, <1>7, <1>8 DEF OwedInv, ForgottenInv

(* A run-now serves no fire and takes none away.                           *)
LEMMA ForgottenRunNowStep ==
  ASSUME OwedInv, NEW j \in Jobs, RunNow(j)
  PROVE  ForgottenInv'
<1> USE DEF table, memory, exec, boot, env, history
<1> DEFINE m == <<"manual", j>>
<1>0. TypeOK /\ m \in Runs /\ KindOf(m) = "manual" /\ JobOf(m) = j
  BY RunTyping DEF OwedInv, Kinds
<1>1. /\ stage[m] = "idle" /\ stage'[m] = "submitted"
      /\ \A q \in Runs \ {m} : stage'[q] = stage[q] /\ fireOf'[q] = fireOf[q]
      /\ startOf' = startOf
      /\ UNCHANGED <<table, memory, boot, call, env, history>>
  BY <1>0, SubmitFacts DEF RunNow
<1> HIDE DEF m
<1>2. ASSUME NEW i \in Jobs PROVE Remembered(i)'
  <2>1. \A k \in Kinds : \/ /\ stage'[<<k, i>>] = stage[<<k, i>>]
                            /\ fireOf'[<<k, i>>] = fireOf[<<k, i>>]
                            /\ startOf'[<<k, i>>] = startOf[<<k, i>>]
                         \/ stage[<<k, i>>] = "idle" /\ stage'[<<k, i>>] = "submitted"
    BY <1>0, <1>1, RunTyping
  <2> QED
    BY <1>1, <2>1, QuietAccount
<1>3. \A i \in Jobs : /\ stage'[<<"replay", i>>] = stage[<<"replay", i>>]
                      /\ stage'[<<"scheduled", i>>] = stage[<<"scheduled", i>>]
                      /\ fireOf'[<<"scheduled", i>>] = fireOf[<<"scheduled", i>>]
  BY <1>0, <1>1, RunTyping DEF Kinds
<1>4. \A i \in Jobs : stage'[<<"manual", i>>] \in {"idle", "submitted", "running"}
  BY <1>0, <1>1, RunTyping DEF OwedInv, ForgottenInv, Kinds
<1> QED
  BY <1>1, <1>2, <1>3, <1>4 DEF OwedInv, ForgottenInv, NeverDown

(* A replay moves its fire from the plan to the executions in flight.      *)
LEMMA ForgottenReplayStep ==
  ASSUME OwedInv, NEW p \in catchup, StartReplay(p)
  PROVE  ForgottenInv'
<1> USE DEF table, memory, exec, boot, env, history
<1> DEFINE m == <<"replay", p.job>>
<1>0. /\ TypeOK /\ p.job \in Jobs /\ p = [job |-> p.job, fire |-> p.fire]
      /\ m \in Runs /\ KindOf(m) = "replay" /\ JobOf(m) = p.job
  BY RunTyping DEF OwedInv, TypeOK, MissedRun, Kinds
<1>1. /\ stage[m] = "idle" /\ stage'[m] = "submitted" /\ fireOf'[m] = p.fire
      /\ \A q \in Runs \ {m} : stage'[q] = stage[q] /\ fireOf'[q] = fireOf[q]
      /\ startOf' = startOf /\ catchup' = catchup \ {p} /\ proc = "up"
      /\ UNCHANGED <<table, memory, proc, toLoad, call, env, history>>
  BY <1>0, SubmitFacts DEF StartReplay
<1> HIDE DEF m
<1>2. ASSUME NEW i \in Jobs PROVE Remembered(i)'
  <2>1. \A k \in Kinds : \/ /\ stage'[<<k, i>>] = stage[<<k, i>>]
                            /\ fireOf'[<<k, i>>] = fireOf[<<k, i>>]
                            /\ startOf'[<<k, i>>] = startOf[<<k, i>>]
                         \/ stage[<<k, i>>] = "idle" /\ stage'[<<k, i>>] = "submitted"
    BY <1>0, <1>1, RunTyping
  <2>2. ASSUME NEW f \in Nat, [job |-> i, fire |-> f] \in catchup,
               [job |-> i, fire |-> f] \notin catchup'
        PROVE  InFlight(i, f)'
    <3>1. [job |-> i, fire |-> f] = p
      BY <1>1, <2>2
    <3>2. p.job = i /\ p.fire = f
      BY <3>1
    <3> QED
      BY <1>1, <3>2 DEF InFlight, m
  <2> QED
    BY <1>1, <2>1, <2>2, QuietAccount
<1>3. \A i \in Jobs : stage'[<<"manual", i>>] = stage[<<"manual", i>>]
  BY <1>0, <1>1, RunTyping DEF Kinds
<1>4. crashes # 0
  BY DEF OwedInv, ForgottenInv, NeverDown
<1> QED
  BY <1>1, <1>2, <1>3, <1>4 DEF OwedInv, ForgottenInv, NeverDown

(* Loading the jobs, and the end of it, touches no fire that was due.      *)
LEMMA ForgottenLoadStep ==
  ASSUME OwedInv, Ready \/ \E j \in Jobs : LoadJob(j)
  PROVE  ForgottenInv'
<1> USE DEF table, memory, exec, boot, env, history
<1>1. /\ proc = "loading" /\ proc' \in {"loading", "up"}
      /\ UNCHANGED <<status, enabled, cron, lastRun, exec, catchup, call, env, history>>
  BY DEF Ready, LoadJob
<1>2. ASSUME NEW i \in Jobs PROVE Remembered(i)'
  BY <1>1, QuietAccount
<1>3. crashes # 0
  BY <1>1 DEF OwedInv, ForgottenInv, NeverDown
<1> QED
  BY <1>1, <1>2, <1>3 DEF OwedInv, ForgottenInv, NeverDown

(* A crash finds, for every fire it interrupts, the evidence in the table. *)
LEMMA ForgottenCrashStep ==
  ASSUME OwedInv, OneCrash, Crash
  PROVE  ForgottenInv'
<1> USE DEF table, memory, exec, boot, env, history
<1>0. TypeOK /\ now \in Nat /\ crashes \in Nat
  BY DEF OwedInv, TypeOK, Time
<1>1. crashes = 0 /\ crashes' = 1
  BY <1>0, BoundsAssumption DEF Crash, OneCrash
<1>2. /\ proc = "up" /\ catchup = {} /\ proc' = "down" /\ catchup' = {}
      /\ \A r \in Runs : stage'[r] = "idle"
      /\ UNCHANGED <<table, now, history>>
  BY <1>1 DEF Crash, OwedInv, ForgottenInv, NeverDown
<1>3. ASSUME NEW j \in Jobs PROVE Remembered(j)'
  <2>1. Remembered(j)
    BY DEF OwedInv, ForgottenInv
  <2>2. \A k \in Kinds : stage'[<<k, j>>] = "idle"
    BY <1>2, RunTyping
  <2>3. ASSUME NEW f \in Nat, Owes(j, f), Accounted(j, f) PROVE Accounted(j, f)'
    <3>1. lastRun[j] # NoTime => lastRun[j] \in Nat
      BY <1>0, JobTyping
    <3>2. CASE lastRun[j] # NoTime /\ lastRun[j] >= f
      BY <1>2, <2>2, <3>2 DEF Accounted
    <3>3. CASE ~(lastRun[j] # NoTime /\ lastRun[j] >= f) /\ nextRun[j] # NoTime /\ nextRun[j] <= f
      <4>1. lastRun[j] = NoTime \/ lastRun[j] < f
        BY <3>1, <3>3
      <4> QED
        BY <1>2, <3>3, <4>1 DEF Accounted, Evidence
    <3>4. CASE f \in done[j] \cup dropped[j] \/ (now - f > Grace /\ j \notin ExitJobs)
      BY <1>2, <3>4 DEF Accounted
    <3>5. CASE Scheduled(j) /\ nextFire[j] # NoTime /\ nextFire[j] <= f
      <4>1. nextRun[j] # NoTime /\ nextRun[j] <= nextFire[j]
        BY <3>5 DEF OwedInv, EvidenceInv, JobEvidence, NotYetCreated, StoredBefore
      <4>2. nextRun[j] <= f
        BY <1>0, <3>5, <4>1, JobTyping
      <4> QED
        BY <3>2, <3>3, <4>1, <4>2
    <3>6. CASE InFlight(j, f)
      <4>1. nextRun[j] # NoTime /\ nextRun[j] <= f
        BY <1>1, <3>6 DEF InFlight, OwedInv, ForgottenInv, NeverDown
      <4> QED
        BY <3>2, <3>3, <4>1
    <3> QED
      BY <1>2, <2>3, <3>2, <3>3, <3>4, <3>5, <3>6 DEF Accounted
  <2> QED
    BY <1>2, <2>1, <2>3, RememberedStep
<1>4. \A j \in Jobs : stage'[<<"manual", j>>] = "idle"
  BY <1>2, RunTyping DEF Kinds
<1> QED
  BY <1>1, <1>2, <1>3, <1>4 DEF OwedInv, ForgottenInv, NeverDown

(* The restart plans every fire the table still shows, or it is too old.   *)
LEMMA ForgottenStartUpStep ==
  ASSUME OwedInv, ScansReachNow, StartUp
  PROVE  ForgottenInv'
<1> USE DEF table, memory, exec, boot, env, history
<1>0. TypeOK /\ now \in Nat /\ now \in 0..MaxTime
  BY BoundsAssumption DEF OwedInv, TypeOK, Time, ForgottenInv
<1>1. /\ proc = "down" /\ proc' = "loading" /\ catchup = {}
      /\ catchup' = PlanMissedRuns(EnabledJobs)
      /\ AllIdle
      /\ UNCHANGED <<table, memory, exec, call, env, history>>
  BY DEF StartUp, OwedInv, ForgottenInv, SchedInv, DownAgrees
<1>2. ASSUME NEW j \in Jobs PROVE Remembered(j)'
  <2>1. Remembered(j) /\ \A k \in Kinds : stage[<<k, j>>] = "idle"
    BY <1>1, RunTyping DEF OwedInv, ForgottenInv, AllIdle
  <2>2. ASSUME NEW f \in Nat, Owes(j, f), Accounted(j, f) PROVE Accounted(j, f)'
    <3>1. CASE Evidence(j, f)
      <4> DEFINE fires == FireTimes[cron[j]]
      <4>1. /\ fires \in SUBSET Nat /\ f \in fires /\ f <= now
            /\ \A g \in fires : g <= now => g <= f
            /\ j \in EnabledJobs /\ cron[j] \notin BadCrons
        BY <1>0, <2>2, OwesFacts, JobTyping DEF EnabledJobs
      <4>2. /\ nextRun[j] \in Nat /\ nextRun[j] <= f /\ lastRun[j] \in OptTime
            /\ lastRun[j] = NoTime \/ lastRun[j] < f
        BY <1>0, <3>1, JobTyping DEF Evidence, TypeOK
      <4>3. /\ Cardinality(FiresIn(fires, now - Grace, now)) <= ScanLimit
            /\ j \in ExitJobs => Cardinality(FiresIn(fires, 0, now)) <= ScanLimit
        BY <1>0, JobTyping DEF ScansReachNow
      <4> HIDE DEF fires
      <4>4. \/ /\ LatestMissedFire(fires, nextRun[j], lastRun[j], now) = f
               /\ Replayable(f, j \in ExitJobs, now)
            \/ now - f > Grace /\ j \notin ExitJobs
        BY <1>0, <4>1, <4>2, <4>3, PlannerFindsLatest
      <4>5. CASE now - f > Grace /\ j \notin ExitJobs
        <5>2. now' - f > Grace /\ j \notin ExitJobs
          BY <1>1, <4>5
        <5> QED
          BY <5>2 DEF Accounted
      <4>6. CASE MissedOf(j) = f /\ Replayable(f, j \in ExitJobs, now)
        <5>1. [job |-> j, fire |-> f] \in catchup'
          BY <1>1, <4>1, <4>6 DEF PlanMissedRuns
        <5> QED
          BY <5>1 DEF Accounted
      <4> QED
        BY <4>4, <4>5, <4>6 DEF MissedOf, fires
    <3>2. CASE ~Evidence(j, f)
      <4>1. ~InFlight(j, f)
        BY <2>1 DEF InFlight, Kinds
      <4>2. \/ f \in done[j] \cup dropped[j]
            \/ lastRun[j] # NoTime /\ lastRun[j] >= f
            \/ now - f > Grace /\ j \notin ExitJobs
        BY <1>1, <2>2, <3>2, <4>1 DEF Accounted
      <4> QED
        BY <1>1, <2>1, <4>2 DEF Accounted
    <3> QED
      BY <3>1, <3>2
  <2> QED
    BY <1>1, <2>1, <2>2, RememberedStep
<1>3. crashes # 0
  BY <1>1 DEF OwedInv, ForgottenInv, NeverDown
<1> QED
  BY <1>1, <1>2, <1>3 DEF OwedInv, ForgottenInv, NeverDown

(* A tick brings a fire that APScheduler holds, or that passes while the   *)
(* process loads its jobs, or that the table shows to the next start.      *)
LEMMA ForgottenTickStep ==
  ASSUME OwedInv, OnlyRunNow, Tick
  PROVE  ForgottenInv'
<1> USE DEF table, memory, exec, boot, env, history
<1>0. TypeOK /\ now \in Nat /\ now' \in Nat /\ now' = now + 1 /\ now' <= MaxTime
  BY BoundsAssumption DEF OwedInv, TypeOK, Time, Tick
<1>1. /\ UNCHANGED <<table, memory, exec, boot, call, crashes, done, dropped, overlapped>>
      /\ \A j \in Jobs : starting[j] \subseteq starting'[j]
      /\ \A j \in Jobs : proc = "loading" /\ enabled[j] => Passing(j) \subseteq starting'[j]
  BY DEF Tick
<1>2. ASSUME NEW j \in Jobs PROVE Remembered(j)'
  <2> DEFINE fires == FireTimes[cron[j]]
  <2>0. fires \in SUBSET Nat
    BY <1>0, JobTyping
  <2> SUFFICES ASSUME NEW f \in Nat, Owes(j, f)' PROVE Accounted(j, f)' \/ f \in starting'[j]
    BY DEF Remembered
  <2>1. Live(j) /\ enabled[j] /\ cron[j] \notin BadCrons
    BY <1>1 DEF Owes, FireOwed, Live
  <2>2. f = Latest(FiresIn(fires, 1, now')) /\ f # NoTime
    BY <1>1 DEF Owes, FireOwed, LatestDue
  <2>3. CASE now' \in fires
    <3>1. f = now'
      <4>1. now' \in FiresIn(fires, 1, now') /\ \A g \in FiresIn(fires, 1, now') : g <= now'
        BY <1>0, <2>3 DEF FiresIn
      <4>2. FiresIn(fires, 1, now') \in SUBSET Nat
        BY <2>0 DEF FiresIn
      <4> HIDE DEF fires
      <4> QED
        BY <2>2, <4>1, <4>2, LatestIs
    <3>2. f \in fires /\ f > now
      BY <1>0, <2>3, <3>1
    <3>3. CASE proc = "loading"
      <4>1. f \in Passing(j)
        BY <1>0, <2>1, <3>1, <3>2 DEF Passing
      <4> QED
        BY <1>1, <2>1, <3>3, <4>1
    <3>4. CASE proc = "up"
      <4>1. Untouched(j) /\ \A k \in Kinds : stage[<<k, j>>] # "remove"
        BY <2>1, RunTyping DEF OwedInv, SchedInv, OnceAgrees, Untouched
      <4>2. Scheduled(j)
        BY <1>0, <2>1, <3>4, <4>1, JobTyping, CronsAssumption
           DEF OwedInv, SchedInv, UpAgrees, Expected, Scheduled
      <4>3. nextFire[j] # NoTime /\ nextFire[j] <= f
        BY <2>1, <3>2, <4>2 DEF OwedInv, EvidenceInv, JobEvidence, Live
      <4> QED
        BY <1>1, <3>4, <4>2, <4>3 DEF Accounted, Scheduled
    <3>5. CASE proc = "down"
      <4>1. nextRun[j] # NoTime /\ nextRun[j] <= f
        BY <2>1, <3>2 DEF OwedInv, EvidenceInv, JobEvidence, StoredBefore, Live
      <4>2. lastRun[j] = NoTime \/ lastRun[j] < f
        <5>1. lastRun[j] # NoTime => lastRun[j] \in Nat /\ lastRun[j] <= now
          BY <1>0, JobTyping DEF OwedInv, CatchupInv, InThePast
        <5> QED
          BY <1>0, <3>2, <5>1
      <4> QED
        BY <1>1, <3>5, <4>1, <4>2 DEF Accounted, Evidence
    <3> QED
      BY <1>0, <3>3, <3>4, <3>5 DEF TypeOK
  <2>4. CASE now' \notin fires
    <3>1. FiresIn(fires, 1, now') = FiresIn(fires, 1, now)
      <4>1. ASSUME NEW g \in fires PROVE g <= now' <=> g <= now
        <5>1. g \in Nat /\ g # now'
          BY <2>0, <2>4
        <5> QED
          BY <1>0, <5>1
      <4> QED
        BY <4>1 DEF FiresIn
    <3>2. Owes(j, f)
      BY <2>1, <2>2, <3>1 DEF Owes, FireOwed, LatestDue
    <3>3. CASE f \in starting[j]
      BY <1>1, <3>3
    <3>4. CASE Accounted(j, f)
      <4>1. now - f > Grace => now' - f > Grace
        BY <1>0, GraceAssumption
      <4> QED
        BY <1>1, <3>4, <4>1 DEF Accounted, InFlight, Evidence, Scheduled
    <3> QED
      BY <3>2, <3>3, <3>4 DEF OwedInv, ForgottenInv, Remembered
  <2> QED
    BY <2>3, <2>4
<1> QED
  BY <1>0, <1>1, <1>2 DEF OwedInv, ForgottenInv, NeverDown

LEMMA ForgottenInit == Init => ForgottenInv
<1> SUFFICES ASSUME Init PROVE ForgottenInv
  OBVIOUS
<1>1. /\ proc = "up" /\ catchup = {} /\ now = 0 /\ \A r \in Runs : stage[r] = "idle"
  BY DEF Init
<1>2. \A j \in Jobs, k \in Kinds : stage[<<k, j>>] = "idle"
  BY <1>1, RunTyping
<1>3. ASSUME NEW j \in Jobs PROVE Remembered(j)
  <2>1. FiresIn(FireTimes[cron[j]], 1, now) = {}
    <3>1. FireTimes[cron[j]] \in SUBSET Nat
      BY InitType, JobTyping
    <3> QED
      BY <1>1, <3>1 DEF FiresIn
  <2>2. LatestDue(j) = NoTime
    BY <2>1, LatestMember DEF LatestDue
  <2> QED
    BY <2>2 DEF Remembered, Owes, FireOwed
<1>4. \A j \in Jobs : /\ stage[<<"replay", j>>] = "idle" /\ stage[<<"manual", j>>] = "idle"
                      /\ stage[<<"scheduled", j>>] = "idle"
  BY <1>2 DEF Kinds
<1>5. now <= MaxTime
  BY <1>1, BoundsAssumption
<1> QED
  BY <1>1, <1>3, <1>4, <1>5, BoundsAssumption DEF ForgottenInv, NeverDown

LEMMA ForgottenStep ==
  OwedInv /\ OnlyRunNow /\ OneCrash /\ ScansReachNow /\ [Next]_vars => ForgottenInv'
<1> SUFFICES ASSUME OwedInv, OnlyRunNow, OneCrash, ScansReachNow, [Next]_vars
             PROVE  ForgottenInv'
  OBVIOUS
<1>1. CASE Tick
  BY <1>1, ForgottenTickStep
<1>2. CASE Crash
  BY <1>2, ForgottenCrashStep
<1>3. CASE StartUp
  BY <1>3, ForgottenStartUpStep
<1>4. CASE Ready \/ \E j \in Jobs : LoadJob(j)
  BY <1>4, ForgottenLoadStep
<1>5. ASSUME NEW c \in Clients, ApiCall(c) PROVE ForgottenInv'
  <2>1. call[c].at = "idle" /\ Operations \subseteq {"run"}
    BY DEF OwedInv, SchedInv, OnlyRunNow
  <2> QED
    BY <1>5, <2>1 DEF ApiCall, CreateRow, CreateSchedule, UpdateRow, UpdateSync, ToggleRead,
                      ToggleSchedule, ToggleCommit, DeleteRead, DeleteUnschedule, DeleteCommit,
                      Free
<1>6. ASSUME NEW j \in Jobs, Fire(j) PROVE ForgottenInv'
  BY <1>6, ForgottenFireStep
<1>7. ASSUME NEW j \in Jobs, RunNow(j) PROVE ForgottenInv'
  BY <1>7, ForgottenRunNowStep
<1>8. ASSUME NEW p \in catchup, StartReplay(p) PROVE ForgottenInv'
  BY <1>8, ForgottenReplayStep
<1>9. ASSUME NEW r \in Runs, Execution(r) PROVE ForgottenInv'
  BY <1>9, ForgottenExecutionStep
<1>10. CASE UNCHANGED vars
  <2>1. ASSUME NEW j \in Jobs PROVE Remembered(j)'
    BY <1>10, QuietAccount DEF vars, table, memory, exec, boot, env, history
  <2> QED
    BY <1>10, <2>1 DEF vars, table, memory, exec, boot, env, history, OwedInv, ForgottenInv,
                       NeverDown
<1> QED
  BY <1>1, <1>2, <1>3, <1>4, <1>5, <1>6, <1>7, <1>8, <1>9, <1>10 DEF Next, Startup

(* When the API is used for run-now alone, the process dies at most once   *)
(* and the planner's scans are not cut short, the latest due fire of every *)
(* enabled job is accounted for at every moment: FIRE_ONCE, failing        *)
(* commits, misfires, skipped fires and the restart included.              *)
THEOREM NothingForgotten ==
  ASSUME OnlyRunNow, OneCrash, ScansReachNow
  PROVE  Spec => []NoFireForgotten
<1>1. Init => OwedInv
  BY InitType, CatchupInit, EvidenceInit, SchedInit, ForgottenInit DEF OwedInv, LoadsRows, Init
<1>2. NoUpdates /\ Undisturbed
  BY DEF OnlyRunNow, NoUpdates, Undisturbed
<1>3. OwedInv /\ [Next]_vars => OwedInv'
  <2>1. OwedInv /\ [Next]_vars => ForgottenInv'
    BY ForgottenStep
  <2> QED
    BY <1>2, <2>1, TypeStep, CatchupStep, LoadsRowsStep, EvidenceStep, SchedStep DEF OwedInv
<1>4. OwedInv => NoFireForgotten
  <2> SUFFICES ASSUME OwedInv, NEW j \in Jobs, FireOwed(j)
               PROVE  AccountedFor(j, LatestDue(j)) \/ LatestDue(j) \in starting[j]
    BY DEF NoFireForgotten
  <2>1. PICK f : f = LatestDue(j)
    OBVIOUS
  <2>2. f \in Nat /\ Owes(j, f)
    BY <2>1, OwesFacts DEF OwedInv, Owes
  <2>3. Accounted(j, f) \/ f \in starting[j]
    BY <2>2 DEF OwedInv, ForgottenInv, Remembered
  <2> QED
    BY <2>1, <2>3 DEF Accounted, AccountedFor
<1> QED
  BY <1>1, <1>3, <1>4, PTL DEF Spec
=============================================================================
