-------------------------- MODULE FireTimesProofs ---------------------------
(***************************************************************************)
(* Theorems about when a schedule fires: the two properties of             *)
(* MissedRunsCheck for every trigger, every age limit, every scan limit    *)
(* and every moment of the restart; and the two of CronDays for every day  *)
(* field, every month length and every day.                                *)
(*                                                                         *)
(* The argument for the first: a bounded set of fire times has a latest    *)
(* element (it is the least element of a set of natural numbers, the       *)
(* distances to the bound); a scan that is not cut short returns the       *)
(* latest element; and a scan that is cut short returns at least as many   *)
(* fire times as it may step through, so not only ones that ran.  For the  *)
(* second: part by part, what APScheduler and croniter make of a weekday   *)
(* field is the same set, once numbers have become names.                  *)
(***************************************************************************)
EXTENDS MissedRunsCheck, CronDays, FiniteSetTheorems, WellFoundedInduction, TLAPS

LEMMA NatSetHasMinimum ==
    ASSUME NEW S, S \subseteq Nat, S # {}
    PROVE  \E m \in S : \A f \in S : m <= f
  <1> DEFINE R == {ss \in Nat \X Nat : ss[1] < ss[2]}
  <1>1. IsWellFoundedOn(R, Nat)
    BY NatLessThanWellFounded DEF OpToRel
  <1>2. PICK m \in S : \A f \in S : ~(<<f, m>> \in R)
    <2> HIDE DEF R
    <2> QED BY <1>1, WFMin
  <1>3. ASSUME NEW f \in S PROVE m <= f
    <2>1. ~(<<f, m>> \in R)
      BY <1>2
    <2>2. f \in Nat /\ m \in Nat
      OBVIOUS
    <2>3. ~(f < m)
      BY <2>1, <2>2
    <2> QED BY <2>2, <2>3
  <1> QED BY <1>3

LEMMA LatestExists ==
    ASSUME NEW S, S \subseteq Int, S # {}, NEW t \in Int, \A f \in S : f <= t
    PROVE  Latest(S) \in S /\ \A f \in S : f <= Latest(S)
  <1> DEFINE D == {t - f : f \in S}
  <1>1. D \subseteq Nat /\ D # {}
    <2>1. \A f \in S : t - f \in Nat
      <3>1. TAKE f \in S
      <3>2. f \in Int /\ f <= t
        OBVIOUS
      <3> QED BY <3>2
    <2> QED BY <2>1
  <1>2. PICK d \in D : \A e \in D : d <= e
    <2> HIDE DEF D
    <2> QED BY <1>1, NatSetHasMinimum
  <1>3. PICK m \in S : d = t - m
    OBVIOUS
  <1>4. \A f \in S : f <= m
    <2>1. TAKE f \in S
    <2>2. t - m <= t - f
      BY <1>2, <1>3
    <2>3. f \in Int /\ m \in Int
      OBVIOUS
    <2> QED BY <2>2, <2>3
  <1> QED BY <1>4 DEF Latest

LEMMA LatestIsTheMaximum ==
    ASSUME NEW S, S \subseteq Int, NEW m \in S, \A f \in S : f <= m
    PROVE  Latest(S) = m
  <1>1. Latest(S) \in S /\ \A f \in S : f <= Latest(S)
    BY DEF Latest
  <1>2. Latest(S) <= m /\ m <= Latest(S)
    BY <1>1
  <1>3. Latest(S) \in Int /\ m \in Int
    BY <1>1
  <1> QED BY <1>2, <1>3

LEMMA LatestOfNone == ASSUME NEW S, S = {} PROVE Latest(S) = NoTime
  BY DEF Latest

(* Dropping the fire times up to lastRun before or after taking the latest *)
(* one comes to the same.                                                  *)
LEMMA LatestNotRun ==
    ASSUME NEW S, S \subseteq Int, NEW t \in Int, \A f \in S : f <= t,
           NEW last \in OptTime
    PROVE  Latest({f \in S : last = NoTime \/ f > last}) =
             IF Latest(S) = NoTime \/ (last # NoTime /\ Latest(S) <= last)
               THEN NoTime ELSE Latest(S)
  <1> DEFINE U == {f \in S : last = NoTime \/ f > last}
  <1>1. CASE S = {}
    <2>1. U = {}
      BY <1>1
    <2> QED BY <1>1, <2>1, LatestOfNone
  <1>2. CASE S # {}
    <2>1. Latest(S) \in S /\ \A f \in S : f <= Latest(S)
      BY <1>2, LatestExists
    <2>2. Latest(S) \in Int /\ Latest(S) # NoTime
      BY <2>1, NoTimeAssumption
    <2>3. CASE last # NoTime /\ Latest(S) <= last
      <3>1. ASSUME NEW f \in S PROVE ~(last = NoTime \/ f > last)
        <4>1. f \in Int /\ f <= Latest(S) /\ Latest(S) \in Int /\ last \in Int
          BY <2>1, <2>2, <2>3 DEF OptTime, Time
        <4> QED BY <2>3, <4>1
      <3>2. U = {}
        BY <3>1
      <3> QED BY <2>3, <3>2, LatestOfNone
    <2>4. CASE ~(last # NoTime /\ Latest(S) <= last)
      <3>1. Latest(S) \in U
        BY <2>1, <2>2, <2>4 DEF OptTime, Time
      <3>2. U \subseteq Int /\ \A f \in U : f <= Latest(S)
        BY <2>1
      <3>3. Latest(U) = Latest(S)
        <4> HIDE DEF U
        <4> QED BY <3>1, <3>2, LatestIsTheMaximum
      <3> QED BY <2>2, <2>4, <3>3
    <2> QED BY <2>3, <2>4
  <1> QED BY <1>1, <1>2

-----------------------------------------------------------------------------
(* One scan *)

LEMMA FiresInFinite ==
    ASSUME NEW fs, fs \subseteq Nat, NEW start \in Int, NEW t \in Nat
    PROVE  /\ FiresIn(fs, start, t) \subseteq Nat
           /\ IsFiniteSet(FiresIn(fs, start, t))
           /\ \A T \in SUBSET FiresIn(fs, start, t) : IsFiniteSet(T)
  <1>1. FiresIn(fs, start, t) \in SUBSET Nat /\ \A f \in FiresIn(fs, start, t) : f <= t
    BY DEF FiresIn
  <1>2. IsFiniteSet(FiresIn(fs, start, t))
    BY <1>1, FS_BoundedSetOfNaturals
  <1> QED BY <1>1, <1>2, FS_Subset

(* A scan that is not cut short finds the latest fire time.                *)
LEMMA FullScan ==
    ASSUME NEW fs, fs \subseteq Nat, NEW start \in Int, NEW t \in Nat,
           Cardinality(FiresIn(fs, start, t)) <= ScanLimit
    PROVE  ScanFires(fs, start, t) = Latest(FiresIn(fs, start, t))
  <1> DEFINE due == FiresIn(fs, start, t)
             upTo(f) == {g \in due : g <= f}
  <1>1. IsFiniteSet(due)
    BY FiresInFinite
  <1>2. ASSUME NEW f \in due PROVE Cardinality(upTo(f)) <= ScanLimit
    <2>1. upTo(f) \in SUBSET due
      OBVIOUS
    <2>2. IsFiniteSet(upTo(f)) /\ Cardinality(upTo(f)) <= Cardinality(due)
      <3> HIDE DEF due, upTo
      <3> QED BY <1>1, <2>1, FS_Subset
    <2>3. Cardinality(upTo(f)) \in Nat /\ Cardinality(due) \in Nat
      <3> HIDE DEF due, upTo
      <3> QED BY <1>1, <2>2, FS_CardinalityType
    <2> HIDE DEF upTo
    <2> QED BY <2>2, <2>3, LimitAssumption
  <1>3. {f \in due : Cardinality(upTo(f)) <= ScanLimit} = due
    <2> HIDE DEF due, upTo
    <2> QED BY <1>2
  <1> QED BY <1>3 DEF ScanFires

LEMMA ScanInside ==
    ASSUME NEW fs, NEW start, NEW t
    PROVE  ScanFires(fs, start, t) \in FiresIn(fs, start, t) \cup {NoTime}
  BY DEF ScanFires, Latest

-----------------------------------------------------------------------------
(* The state of a restart *)

LEMMA TypeInvariant == Spec => []TypeOK
  <1>1. Init => TypeOK
    BY MaxTimeAssumption DEF Init, TypeOK, OptTime, Time
  <1>2. TypeOK /\ [Wait]_vars => TypeOK'
    <2> SUFFICES ASSUME TypeOK, [Wait]_vars PROVE TypeOK'
      OBVIOUS
    <2>1. CASE Wait
      BY <2>1 DEF TypeOK, Wait
    <2>2. CASE UNCHANGED vars
      BY <2>2 DEF TypeOK, vars
    <2> QED BY <2>1, <2>2
  <1> QED BY <1>1, <1>2, PTL DEF Spec

LEMMA FoundDue ==
    ASSUME TypeOK, nextRun # NoTime, nextRun <= now
    PROVE  /\ nextRun \in Nat /\ FiresIn(fires, nextRun, now) \subseteq Nat
           /\ ScanMissed(fires, nextRun, now) \in FiresIn(fires, nextRun, now) \cup {NoTime}
           /\ Found = (IF \/ ScanMissed(fires, nextRun, now) = NoTime
                          \/ lastRun # NoTime /\ ScanMissed(fires, nextRun, now) <= lastRun
                         THEN NoTime ELSE ScanMissed(fires, nextRun, now))
  <1>1. nextRun \in Nat /\ now \in Nat /\ fires \subseteq Nat
    BY DEF TypeOK, OptTime, Time
  <1>2. ~(nextRun > now)
    BY <1>1
  <1>3. FiresIn(fires, nextRun, now) \subseteq Nat
    BY <1>1 DEF FiresIn
  <1>4. CASE nextRun < now - Grace
    <2>1. FiresIn(fires, now - Grace, now) \subseteq FiresIn(fires, nextRun, now)
      <3>1. ASSUME NEW f \in fires, now - Grace <= f PROVE nextRun <= f
        <4>1. f \in Int /\ nextRun \in Int /\ now - Grace \in Int
          BY <1>1, GraceAssumption
        <4> QED BY <1>4, <3>1, <4>1
      <3> QED BY <3>1 DEF FiresIn
    <2> QED BY <1>1, <1>2, <1>3, <2>1, ScanInside DEF Found, LatestMissedFire, ScanMissed
  <1>5. CASE ~(nextRun < now - Grace)
    BY <1>1, <1>2, <1>3, <1>5, ScanInside DEF Found, LatestMissedFire, ScanMissed
  <1> QED BY <1>4, <1>5

LEMMA ReferenceDue ==
    ASSUME TypeOK, nextRun # NoTime, nextRun <= now
    PROVE  /\ DueAndNeverRan \subseteq FiresIn(fires, nextRun, now)
           /\ Reference \in FiresIn(fires, nextRun, now) \cup {NoTime}
           /\ ScanMissed(fires, nextRun, now) = Latest(FiresIn(fires, nextRun, now))
                => Found = Reference
  <1> DEFINE due == FiresIn(fires, nextRun, now)
  <1>1. nextRun \in Nat /\ now \in Nat /\ fires \subseteq Nat /\ lastRun \in OptTime
    BY DEF TypeOK, OptTime, Time
  <1>2. DueAndNeverRan = {f \in due : lastRun = NoTime \/ f > lastRun}
    BY DEF DueAndNeverRan, NeverRan
  <1>3. due \subseteq Int /\ \A f \in due : f <= now
    <2>1. due \subseteq Nat
      BY FoundDue
    <2>2. \A f \in due : f <= now
      BY DEF FiresIn
    <2> QED BY <2>1, <2>2
  <1>4. Reference = IF Latest(due) = NoTime \/ (lastRun # NoTime /\ Latest(due) <= lastRun)
                      THEN NoTime ELSE Latest(due)
    <2>1. now \in Int
      BY <1>1
    <2> HIDE DEF due
    <2> QED BY <1>1, <1>2, <1>3, <2>1, LatestNotRun DEF Reference
  <1>5. Reference \in due \cup {NoTime}
    <2> HIDE DEF due
    <2> QED BY <1>4 DEF Latest
  <1>6. ScanMissed(fires, nextRun, now) = Latest(due) => Found = Reference
    <2> HIDE DEF due
    <2> QED BY <1>4, FoundDue
  <1> QED BY <1>2, <1>5, <1>6

(* Without evidence that a fire was due nothing is found.                  *)
LEMMA NothingDue ==
    ASSUME TypeOK, nextRun = NoTime \/ ~(nextRun <= now)
    PROVE  Found = NoTime /\ DueAndNeverRan = {} /\ Reference = NoTime
  <1>1. CASE nextRun = NoTime
    BY <1>1, LatestOfNone DEF Found, LatestMissedFire, DueAndNeverRan, Reference
  <1>2. CASE nextRun # NoTime
    <2>1. nextRun \in Nat /\ now \in Nat /\ fires \subseteq Nat /\ nextRun > now
      BY <1>2 DEF TypeOK, OptTime, Time
    <2>2. FiresIn(fires, nextRun, now) = {}
      <3>1. ASSUME NEW f \in fires PROVE ~(nextRun <= f /\ f <= now)
        <4>1. f \in Nat
          BY <2>1
        <4> QED BY <2>1, <4>1
      <3> QED BY <3>1 DEF FiresIn
    <2>3. DueAndNeverRan = {}
      BY <2>2 DEF DueAndNeverRan
    <2> QED BY <2>1, <2>3, LatestOfNone DEF Found, LatestMissedFire, Reference
  <1> QED BY <1>1, <1>2

LEMMA ExactUnderAgeLimit == TypeOK => PlanIsExact
  <1> SUFFICES ASSUME TypeOK, ScanLength(now - Grace) <= ScanLimit
               PROVE  /\ Replayable(Found, FALSE, now) <=> Replayable(Reference, FALSE, now)
                      /\ Replayable(Found, FALSE, now) => Found = Reference
    BY DEF PlanIsExact
  <1> DEFINE recent == FiresIn(fires, now - Grace, now)
             due == FiresIn(fires, nextRun, now)
  <1>1. CASE nextRun = NoTime \/ ~(nextRun <= now)
    BY <1>1, NothingDue
  <1>2. CASE nextRun # NoTime /\ nextRun <= now
    <2>1. /\ now \in Nat /\ nextRun \in Nat /\ fires \subseteq Nat
          /\ Grace \in Nat /\ now - Grace \in Int /\ nextRun \in Int
      BY <1>2, FoundDue, GraceAssumption DEF TypeOK
    <2>2. ScanFires(fires, now - Grace, now) = Latest(recent)
      BY <2>1, FullScan DEF ScanLength
    <2>3. CASE ~(nextRun < now - Grace)
      <3>1. due \in SUBSET recent
        <4>1. ASSUME NEW f \in fires, nextRun <= f PROVE now - Grace <= f
          <5>1. f \in Int
            BY <2>1
          <5> QED BY <2>1, <2>3, <4>1, <5>1
        <4> QED BY <4>1 DEF FiresIn
      <3>2. Cardinality(due) <= ScanLimit
        <4>1. IsFiniteSet(recent) /\ IsFiniteSet(due)
          BY <2>1, FiresInFinite
        <4>2. Cardinality(due) <= Cardinality(recent) /\ Cardinality(recent) <= ScanLimit
          <5>1. Cardinality(recent) <= ScanLimit
            BY DEF ScanLength
          <5> HIDE DEF due, recent
          <5> QED BY <3>1, <4>1, <5>1, FS_Subset
        <4>3. Cardinality(due) \in Nat /\ Cardinality(recent) \in Nat /\ ScanLimit \in Nat
          <5> HIDE DEF due, recent
          <5> QED BY <4>1, FS_CardinalityType, LimitAssumption
        <4> HIDE DEF due, recent
        <4> QED BY <4>2, <4>3
      <3>3. ScanMissed(fires, nextRun, now) = Latest(due)
        BY <2>1, <2>3, <3>2, FullScan DEF ScanMissed
      <3> QED BY <1>2, <3>3, ReferenceDue
    <2>4. CASE nextRun < now - Grace /\ recent # {}
      <3>1. recent \subseteq Int /\ \A f \in recent : f <= now
        <4>1. recent \subseteq Nat
          BY <2>1, FiresInFinite
        <4>2. \A f \in recent : f <= now
          BY DEF FiresIn
        <4> QED BY <4>1, <4>2
      <3>2. Latest(recent) \in recent /\ \A f \in recent : f <= Latest(recent)
        <4>1. now \in Int
          BY <2>1
        <4> HIDE DEF recent
        <4> QED BY <2>4, <3>1, <4>1, LatestExists
      <3>3. ScanMissed(fires, nextRun, now) = Latest(recent)
        <4>1. Latest(recent) # NoTime
          BY <3>1, <3>2, NoTimeAssumption
        <4> HIDE DEF recent
        <4> QED BY <2>2, <2>4, <4>1 DEF ScanMissed
      <3>4. Latest(recent) \in due /\ due \subseteq Int
        <4>1. \A f \in recent : f \in due
          <5>1. TAKE f \in recent
          <5>2. f \in fires /\ now - Grace <= f /\ f <= now /\ f \in Int
            BY <2>1 DEF FiresIn
          <5> QED BY <2>1, <2>4, <5>2 DEF FiresIn
        <4>2. due \subseteq Nat
          BY <2>1, FiresInFinite
        <4> HIDE DEF due, recent
        <4> QED BY <3>2, <4>1, <4>2
      <3>5. ASSUME NEW f \in due PROVE f <= Latest(recent)
        <4>1. f \in Int /\ f \in fires /\ f <= now
          BY <2>1 DEF FiresIn
        <4>2. CASE now - Grace <= f
          BY <3>2, <4>1, <4>2 DEF FiresIn
        <4>3. CASE ~(now - Grace <= f)
          <5>1. Latest(recent) \in Int /\ now - Grace <= Latest(recent)
            BY <3>1, <3>2 DEF FiresIn
          <5> QED BY <2>1, <4>1, <4>3, <5>1
        <4> QED BY <4>2, <4>3
      <3>6. Latest(due) = Latest(recent)
        <4> HIDE DEF due, recent
        <4> QED BY <3>4, <3>5, LatestIsTheMaximum
      <3> QED BY <1>2, <3>3, <3>6, ReferenceDue
    <2>5. CASE nextRun < now - Grace /\ recent = {}
      <3>1. ASSUME NEW f \in due PROVE ~Replayable(f, FALSE, now)
        <4>1. f \in Int /\ f \in fires /\ f <= now
          BY <2>1 DEF FiresIn
        <4>2. ~(now - Grace <= f)
          BY <2>5, <4>1 DEF FiresIn
        <4> QED BY <2>1, <4>1, <4>2 DEF Replayable
      <3>2. ~Replayable(NoTime, FALSE, now)
        BY DEF Replayable
      <3>3. Found \in due \cup {NoTime} /\ Reference \in due \cup {NoTime}
        <4> HIDE DEF due
        <4> QED BY <1>2, FoundDue, ReferenceDue DEF due
      <3> HIDE DEF due
      <3> QED BY <3>1, <3>2, <3>3
    <2> QED BY <2>3, <2>4, <2>5
  <1> QED BY <1>1, <1>2

(* PlanIsExact: the shortcut through the recent window and the bound on    *)
(* the scan in latest_missed_fire never change what plan_missed_runs       *)
(* replays of a job under the age limit, for every trigger and every       *)
(* value of MISFIRE_GRACE_SECONDS and _MAX_CATCHUP_SCAN.                   *)
THEOREM MissedRunIsExact == Spec => []PlanIsExact
  BY TypeInvariant, ExactUnderAgeLimit, PTL

-----------------------------------------------------------------------------
(* A scan that starts with fewer fire times that ran than it may step      *)
(* through gets past them.                                                 *)
LEMMA ScanPassesTheOnesThatRan ==
    ASSUME NEW fs, fs \subseteq Nat, NEW start \in Int, NEW t \in Nat,
           NEW last \in OptTime,
           NEW f \in FiresIn(fs, start, t), last = NoTime \/ f > last,
           Cardinality({g \in FiresIn(fs, 0, t) : ~(last = NoTime \/ g > last)}) < ScanLimit
    PROVE  /\ ScanFires(fs, start, t) # NoTime
           /\ last = NoTime \/ ScanFires(fs, start, t) > last
  <1> DEFINE due == FiresIn(fs, start, t)
             unrun == {g \in due : last = NoTime \/ g > last}
             ran == {g \in FiresIn(fs, 0, t) : ~(last = NoTime \/ g > last)}
             upTo(g) == {h \in due : h <= g}
             stepped == {g \in due : Cardinality(upTo(g)) <= ScanLimit}
  <1>1. due \subseteq Nat /\ \A g \in due : g <= t
    BY FiresInFinite DEF FiresIn
  <1>2. PICK u \in unrun : \A g \in unrun : u <= g
    <2>1. unrun \subseteq Nat /\ f \in unrun
      BY <1>1
    <2> HIDE DEF unrun
    <2> QED BY <2>1, NatSetHasMinimum
  <1>3. IsFiniteSet(ran) /\ Cardinality(ran) \in Nat /\ Cardinality(ran) < ScanLimit
    <2>1. ran \in SUBSET FiresIn(fs, 0, t)
      OBVIOUS
    <2>2. IsFiniteSet(ran)
      <3>1. 0 \in Int
        OBVIOUS
      <3>2. IsFiniteSet(FiresIn(fs, 0, t))
        BY <3>1, FiresInFinite
      <3> HIDE DEF ran
      <3> QED BY <2>1, <3>2, FS_Subset
    <2>3. Cardinality(ran) \in Nat
      <3> HIDE DEF ran
      <3> QED BY <2>2, FS_CardinalityType
    <2> QED BY <2>2, <2>3
  <1>4. upTo(u) \in SUBSET (ran \cup {u})
    <2>1. ASSUME NEW g \in due, g <= u, g # u PROVE g \in ran
      <3>1. g \in Nat /\ u \in Nat
        BY <1>1
      <3>2. g \notin unrun
        <4>1. ~(u <= g)
          BY <2>1, <3>1
        <4> HIDE DEF unrun
        <4> QED BY <1>2, <4>1
      <3>3. g \in FiresIn(fs, 0, t)
        BY <3>1 DEF FiresIn
      <3> QED BY <3>2, <3>3
    <2> QED BY <2>1
  <1>5. u \in stepped
    <2>1. /\ IsFiniteSet(ran \cup {u})
          /\ Cardinality(ran \cup {u}) <= Cardinality(ran) + 1
      <3> HIDE DEF ran, unrun
      <3>1. /\ IsFiniteSet(ran \cup {u})
            /\ Cardinality(ran \cup {u}) =
                 IF u \in ran THEN Cardinality(ran) ELSE Cardinality(ran) + 1
        BY <1>3, FS_AddElement, Zenon
      <3> QED BY <1>3, <3>1
    <2>2. Cardinality(upTo(u)) <= Cardinality(ran \cup {u})
      <3> HIDE DEF ran, upTo, unrun
      <3> QED BY <1>4, <2>1, FS_Subset
    <2>3. Cardinality(upTo(u)) \in Nat /\ Cardinality(ran \cup {u}) \in Nat
      <3>1. IsFiniteSet(upTo(u))
        <4> HIDE DEF ran, upTo, unrun
        <4> QED BY <1>4, <2>1, FS_Subset
      <3> HIDE DEF ran, upTo, unrun
      <3> QED BY <2>1, <3>1, FS_CardinalityType
    <2>4. Cardinality(upTo(u)) <= ScanLimit
      <3> HIDE DEF ran, upTo, unrun
      <3> QED BY <1>3, <2>1, <2>2, <2>3, LimitAssumption
    <2> HIDE DEF upTo
    <2> QED BY <2>4
  <1>6. stepped \subseteq Int /\ stepped # {} /\ (\A g \in stepped : g <= t) /\ t \in Int
    <2>1. stepped \subseteq due
      BY DEF stepped
    <2> HIDE DEF due, stepped
    <2>2. stepped \subseteq Int /\ stepped # {}
      BY <1>1, <1>5, <2>1
    <2> QED BY <1>1, <2>1, <2>2
  <1>7. Latest(stepped) \in stepped /\ u <= Latest(stepped)
    <2> HIDE DEF stepped
    <2> QED BY <1>5, <1>6, LatestExists
  <1>8. ScanFires(fs, start, t) = Latest(stepped)
    BY DEF ScanFires
  <1>9. Latest(stepped) \in Int /\ u \in Int /\ (last = NoTime \/ u > last)
    <2>1. Latest(stepped) \in Int
      <3> HIDE DEF stepped
      <3> QED BY <1>6, <1>7
    <2> HIDE DEF stepped
    <2> QED BY <1>1, <2>1
  <1> HIDE DEF stepped, unrun
  <1>10. last = NoTime \/ Latest(stepped) > last
    BY <1>7, <1>9 DEF OptTime, Time
  <1> QED BY <1>8, <1>9, <1>10, NoTimeAssumption

LEMMA ExitPlannedWhenMissed == TypeOK => ExitNeverForgotten
  <1> SUFFICES ASSUME TypeOK,
                      Cardinality({f \in FiresIn(fires, 0, now) : ~NeverRan(f)}) < ScanLimit
               PROVE  Found # NoTime <=> DueAndNeverRan # {}
    BY DEF ExitNeverForgotten, Replayable
  <1> DEFINE due == FiresIn(fires, nextRun, now)
             missed == ScanMissed(fires, nextRun, now)
  <1>1. CASE nextRun = NoTime \/ ~(nextRun <= now)
    BY <1>1, NothingDue
  <1>2. CASE nextRun # NoTime /\ nextRun <= now
    <2>1. /\ now \in Nat /\ nextRun \in Nat /\ fires \subseteq Nat /\ lastRun \in OptTime
          /\ now - Grace \in Int /\ nextRun \in Int
      BY <1>2, FoundDue, GraceAssumption DEF TypeOK
    <2>2. DueAndNeverRan = {f \in due : lastRun = NoTime \/ f > lastRun}
      BY <1>2 DEF DueAndNeverRan, NeverRan
    <2>3. /\ missed \in due \cup {NoTime}
          /\ Found = (IF missed = NoTime \/ (lastRun # NoTime /\ missed <= lastRun)
                        THEN NoTime ELSE missed)
      BY <1>2, FoundDue
    <2>4. ASSUME Found # NoTime PROVE DueAndNeverRan # {}
      <3>1. missed \in due /\ ~(lastRun # NoTime /\ missed <= lastRun)
        <4> HIDE DEF due, missed
        <4> QED BY <2>3, <2>4
      <3>2. missed \in Nat
        BY <2>1, <3>1, FiresInFinite
      <3>3. lastRun = NoTime \/ missed > lastRun
        <4> HIDE DEF missed
        <4> QED BY <2>1, <3>1, <3>2 DEF OptTime, Time
      <3> HIDE DEF due, missed
      <3> QED BY <2>2, <3>1, <3>3
    <2>5. ASSUME NEW f \in DueAndNeverRan PROVE Found # NoTime
      <3>1. f \in due /\ (lastRun = NoTime \/ f > lastRun)
        <4> HIDE DEF due
        <4> QED BY <2>2
      <3>2. f \in Nat /\ f \in fires /\ f <= now /\ nextRun <= f
        BY <2>1, <3>1 DEF FiresIn
      <3>3. Cardinality({g \in FiresIn(fires, 0, now) : ~(lastRun = NoTime \/ g > lastRun)})
              < ScanLimit
        BY DEF NeverRan
      <3>4. ASSUME NEW start \in Int, start <= f
            PROVE  /\ ScanFires(fires, start, now) # NoTime
                   /\ lastRun = NoTime \/ ScanFires(fires, start, now) > lastRun
        <4>1. f \in FiresIn(fires, start, now)
          BY <3>2, <3>4 DEF FiresIn
        <4> QED BY <2>1, <3>1, <3>3, <4>1, ScanPassesTheOnesThatRan
      <3>5. missed # NoTime /\ (lastRun = NoTime \/ missed > lastRun)
        <4>1. CASE ~(nextRun < now - Grace) \/ ScanFires(fires, now - Grace, now) = NoTime
          <5>1. missed = ScanFires(fires, nextRun, now)
            BY <4>1 DEF ScanMissed
          <5> HIDE DEF missed
          <5> QED BY <2>1, <3>2, <3>4, <5>1
        <4>2. CASE nextRun < now - Grace /\ ScanFires(fires, now - Grace, now) # NoTime
          <5>1. missed = ScanFires(fires, now - Grace, now)
            BY <4>2 DEF ScanMissed
          <5>2. CASE now - Grace <= f
            <6> HIDE DEF missed
            <6> QED BY <2>1, <3>4, <5>1, <5>2
          <5>3. CASE ~(now - Grace <= f)
            <6>1. missed \in FiresIn(fires, now - Grace, now)
              BY <4>2, <5>1, ScanInside
            <6>2. missed \in Nat /\ now - Grace <= missed
              BY <2>1, <6>1 DEF FiresIn
            <6> HIDE DEF missed
            <6> QED BY <2>1, <3>1, <3>2, <4>2, <5>1, <5>3, <6>2 DEF OptTime, Time
          <5> QED BY <5>2, <5>3
        <4> QED BY <4>1, <4>2
      <3>6. missed \in Nat
        <4>1. due \subseteq Nat
          BY <2>1, FiresInFinite
        <4> HIDE DEF due, missed
        <4> QED BY <2>3, <3>5, <4>1
      <3>7. ~(missed = NoTime \/ (lastRun # NoTime /\ missed <= lastRun))
        <4> HIDE DEF missed
        <4> QED BY <2>1, <3>5, <3>6 DEF OptTime, Time
      <3> HIDE DEF missed
      <3> QED BY <2>3, <3>7
    <2> QED BY <2>4, <2>5
  <1> QED BY <1>1, <1>2

(* ExitNeverForgotten: a missed pipeline_exit_maintenance is replayed      *)
(* whatever its age, for every trigger and every bound on the scan.        *)
THEOREM MissedExitIsReplayed == Spec => []ExitNeverForgotten
  BY TypeInvariant, ExitPlannedWhenMissed, PTL

(***************************************************************************)
(* The day fields                                                          *)
(***************************************************************************)

LEMMA WeekdayIs ==
    /\ \A n \in 0..6 : n % 7 = n /\ FromMonday(n) = IF n = 0 THEN 6 ELSE n - 1
    /\ \A n \in Nat : Weekday(n) \in Weekdays
  <1>1. \A n \in 0..6 : n % 7 = n
    OBVIOUS
  <1>2. \A n \in 0..6 : (n + 6) % 7 = IF n = 0 THEN 6 ELSE n - 1
    OBVIOUS
  <1>3. \A n \in Nat : n % 7 \in 0..6
    OBVIOUS
  <1> QED BY <1>1, <1>2, <1>3 DEF FromMonday, Weekday, Weekdays

LEMMA MonthDayIs ==
    \A n \in Nat : DayOfMonth(n) \in 1..MonthLength
  <1>1. \A n \in Nat : n % MonthLength \in 0..(MonthLength - 1)
    BY CalendarAssumption
  <1> QED BY <1>1, CalendarAssumption DEF DayOfMonth

(* A part that APScheduler takes means the same days to it and to          *)
(* croniter, unless it is a range of numbers.                              *)
LEMMA SameDays ==
    ASSUME NEW part \in Parts, part.kind # "numbers",
           NEW to, to = (IF part.kind = "number" /\ part.from \in Weekdays
                           THEN Name(part.from) ELSE part),
           APSchedulerTakes(to)
    PROVE  APSchedulerPart(to) = CroniterPart(part)
  <1>1. /\ part.from \in 0..7 /\ part.to \in 0..7 /\ part.from <= part.to
        /\ part.kind \in {"number", "name"} => part.from = part.to
        /\ part.kind \in {"name", "names"} => part.to <= 6
        /\ part.kind \in {"number", "name", "names"}
    BY DEF Parts
  <1>2. part.kind = "number" => part.from \in Weekdays
    BY <1>1 DEF APSchedulerTakes, Weekdays
  <1>3. /\ to.kind \in {"name", "names"} /\ to.from = part.from /\ to.to = part.to
        /\ part.from \in 0..6 /\ part.to \in 0..6
    BY <1>1, <1>2 DEF Name, Weekdays
  <1>4. FromMonday(part.from) <= FromMonday(part.to)
    BY <1>3 DEF APSchedulerTakes
  <1>5. APSchedulerPart(to) = {n \in Weekdays : /\ FromMonday(part.from) <= FromMonday(n)
                                                /\ FromMonday(n) <= FromMonday(part.to)}
    BY <1>3 DEF APSchedulerPart
  <1>6. \A n \in Weekdays : n \in part.from..part.to <=> /\ FromMonday(part.from) <= FromMonday(n)
                                                         /\ FromMonday(n) <= FromMonday(part.to)
    <2> SUFFICES ASSUME NEW n \in Weekdays
                 PROVE  n \in part.from..part.to <=> /\ FromMonday(part.from) <= FromMonday(n)
                                                     /\ FromMonday(n) <= FromMonday(part.to)
      OBVIOUS
    <2>1. /\ FromMonday(n) = IF n = 0 THEN 6 ELSE n - 1
          /\ FromMonday(part.from) = IF part.from = 0 THEN 6 ELSE part.from - 1
          /\ FromMonday(part.to) = IF part.to = 0 THEN 6 ELSE part.to - 1
      BY <1>3, WeekdayIs DEF Weekdays
    <2> QED BY <1>1, <1>3, <1>4, <2>1 DEF Weekdays
  <1>7. CroniterPart(part) = part.from..part.to
    <2>1. \A n \in part.from..part.to : n % 7 = n
      BY <1>3, WeekdayIs
    <2> QED BY <2>1 DEF CroniterPart
  <1>8. part.from..part.to \subseteq Weekdays
    BY <1>3 DEF Weekdays
  <1> QED BY <1>5, <1>6, <1>7, <1>8

(* The schedule stays what it was.                                         *)
Fields == /\ today \in Nat /\ dayOr \in BOOLEAN
          /\ \/ picked = Any /\ dow \in DowFields
             \/ picked \in SUBSET Weekdays /\ day = Any /\ dow = ScheduleDow(picked)

LEMMA FieldsStay == DaysSpec => []Fields
  <1>1. DaysInit => Fields
    BY DEF DaysInit, Fields
  <1>2. Fields /\ [NextDay]_dayVars => Fields'
    BY DEF Fields, NextDay, dayVars, ScheduleDow
  <1> QED BY <1>1, <1>2, PTL DEF DaysSpec

LEMMA FieldIs ==
    ASSUME Fields
    PROVE  dow = Any \/ dow \in SUBSET Parts
  <1>1. CASE picked = Any /\ dow \in DowFields
    BY <1>1, FieldsAssumption
  <1>2. CASE picked \in SUBSET Weekdays /\ dow = ScheduleDow(picked)
    <2>1. \A d \in picked : Number(d) \in Parts
      BY <1>2 DEF Weekdays, Number, Parts
    <2> QED BY <1>2, <2>1 DEF ScheduleDow
  <1> QED BY <1>1, <1>2 DEF Fields

LEMMA SameWeekdays ==
    ASSUME Fields, NoNumberRange(dow), Schedulable
    PROVE  APSchedulerWeekdays(ToAPSchedulerDow(dow)) = CroniterWeekdays(dow)
  <1>1. CASE dow = Any
    BY <1>1 DEF APSchedulerWeekdays, ToAPSchedulerDow, CroniterWeekdays
  <1>2. CASE dow # Any
    <2> DEFINE To(part) == IF part.kind = "number" /\ part.from \in Weekdays
                             THEN Name(part.from) ELSE part
    <2>1. dow \in SUBSET Parts
      BY <1>2, FieldIs
    <2>2. ToAPSchedulerDow(dow) = {To(part) : part \in dow}
      BY <1>2 DEF ToAPSchedulerDow
    <2>3. \A part \in dow : To(part) \in Parts
      BY <2>1 DEF Name, Weekdays, Parts
    <2>4. ToAPSchedulerDow(dow) # Any
      <3>1. CASE dow \in DowFields
        BY <1>2, <3>1, AnyAssumption
      <3>2. CASE picked \in SUBSET Weekdays /\ dow = ScheduleDow(picked)
        <4>1. picked # {} /\ dow = {Number(d) : d \in picked}
          BY <1>2, <3>2 DEF ScheduleDow
        <4>2. \A d \in picked : To(Number(d)) = Name(d)
          BY <3>2 DEF Number
        <4>3. {To(part) : part \in dow} = {Name(d) : d \in picked}
          BY <4>1, <4>2
        <4> QED BY <2>2, <3>2, <4>1, <4>3, AnyAssumption
      <3> QED BY <3>1, <3>2 DEF Fields
    <2>5. \A part \in dow : APSchedulerPart(To(part)) = CroniterPart(part)
      <3> SUFFICES ASSUME NEW part \in dow PROVE APSchedulerPart(To(part)) = CroniterPart(part)
        OBVIOUS
      <3>1. part \in Parts /\ part.kind # "numbers"
        BY <1>2, <2>1 DEF NoNumberRange
      <3>2. APSchedulerTakes(To(part))
        BY <1>2, <2>2 DEF Schedulable
      <3> QED BY <3>1, <3>2, SameDays
    <2>6. APSchedulerWeekdays(ToAPSchedulerDow(dow)) = UNION {APSchedulerPart(To(part)) : part \in dow}
      BY <2>2, <2>4 DEF APSchedulerWeekdays
    <2>7. CroniterWeekdays(dow) = UNION {CroniterPart(part) : part \in dow}
      BY <1>2 DEF CroniterWeekdays
    <2> QED BY <2>5, <2>6, <2>7
  <1> QED BY <1>1, <1>2

(* Of a cron expression that can be scheduled, APScheduler fires on the    *)
(* days that croniter stores in next_run, and on no other: for every list  *)
(* of numbers and names, every day-of-month field, every month length and  *)
(* day_or or not, unless the day-of-week field holds a range of numbers    *)
(* (the one part _to_apscheduler_day_of_week leaves as it is though the    *)
(* two count weekdays differently; ranges of names are refused before).    *)
THEOREM StoredDays == DaysSpec => []FiresOnStoredDays
  <1>1. Fields => FiresOnStoredDays
    <2> SUFFICES ASSUME Fields, NoNumberRange(dow), Schedulable
                 PROVE  TriggerFires(today) <=> CroniterFires(today)
      BY DEF FiresOnStoredDays
    <2>1. APSchedulerWeekdays(ToAPSchedulerDow(dow)) = CroniterWeekdays(dow)
      BY SameWeekdays
    <2> QED BY <2>1 DEF TriggerFires, CroniterFires, DayOrApplies
  <1> QED BY <1>1, FieldsStay, PTL

(* Weekdays picked by name always make a schedule that APScheduler takes,  *)
(* and that fires on these days alone, every day when none is picked       *)
(* (_build_cron_from_schedule_parts, then _to_apscheduler_day_of_week).    *)
THEOREM PickedDays == DaysSpec => []PickedDaysFire
  <1>1. Fields => PickedDaysFire
    <2> SUFFICES ASSUME Fields, picked # Any
                 PROVE  Schedulable /\ (TriggerFires(today) <=> (picked = {} \/ Weekday(today) \in picked))
      BY DEF PickedDaysFire
    <2>1. picked \in SUBSET Weekdays /\ day = Any /\ dow = ScheduleDow(picked) /\ today \in Nat
      BY DEF Fields
    <2>2. TriggerFires(today) <=> Weekday(today) \in APSchedulerWeekdays(ToAPSchedulerDow(dow))
      <3>1. ~DayOrApplies /\ DayOfMonth(today) \in MonthDays(day)
        BY <2>1, MonthDayIs DEF DayOrApplies, MonthDays
      <3> QED BY <3>1 DEF TriggerFires, Combine
    <2>3. CASE picked = {}
      <3>1. dow = Any
        BY <2>1, <2>3 DEF ScheduleDow
      <3> QED BY <2>1, <2>2, <2>3, <3>1, WeekdayIs
               DEF Schedulable, RunDaysLogged, APSchedulerWeekdays, ToAPSchedulerDow
    <2>4. CASE picked # {}
      <3>1. dow = {Number(d) : d \in picked}
        BY <2>1, <2>4 DEF ScheduleDow
      <3>2. dow # Any
        BY <2>1, <2>4, <3>1, AnyAssumption
      <3>3. NoNumberRange(dow)
        BY <3>1 DEF NoNumberRange, Number
      <3>4. Schedulable
        <4>0. RunDaysLogged(dow)
          BY <3>1 DEF RunDaysLogged, Number
        <4> SUFFICES ASSUME NEW part \in ToAPSchedulerDow(dow) PROVE APSchedulerTakes(part)
          BY <4>0 DEF Schedulable
        <4>1. PICK d \in picked : part = Name(d)
          BY <2>1, <3>1, <3>2 DEF ToAPSchedulerDow, Number
        <4>2. FromMonday(d) \in Int
          BY <2>1, WeekdayIs DEF Weekdays
        <4> QED BY <4>1, <4>2 DEF APSchedulerTakes, Name
      <3>5. CroniterWeekdays(dow) = picked
        <4>1. \A d \in picked : CroniterPart(Number(d)) = {d}
          <5> SUFFICES ASSUME NEW d \in picked PROVE CroniterPart(Number(d)) = {d}
            OBVIOUS
          <5>1. d \in 0..6 /\ d % 7 = d
            BY <2>1, WeekdayIs DEF Weekdays
          <5>2. d..d = {d}
            BY <5>1
          <5> QED BY <5>1, <5>2 DEF CroniterPart, Number
        <4>2. CroniterWeekdays(dow) = UNION {CroniterPart(Number(d)) : d \in picked}
          BY <3>1, <3>2 DEF CroniterWeekdays
        <4> QED BY <4>1, <4>2
      <3> QED BY <2>2, <2>4, <3>3, <3>4, <3>5, SameWeekdays
    <2> QED BY <2>3, <2>4
  <1> QED BY <1>1, FieldsStay, PTL
=============================================================================
