----------------------------- MODULE MissedRuns -----------------------------
(***************************************************************************)
(* The catch-up arithmetic of services/scheduler_service.py: which fire    *)
(* time, if any, a job missed while Chronos was down.  Pure operators; the *)
(* state machine that uses them is JobScheduler; MissedRunsCheck compares  *)
(* them with a reference definition and FireTimesProofs proves it.         *)
(*                                                                         *)
(* Time is a natural number of ticks.  A trigger is the set of its fire    *)
(* times; get_next_fire_time(previous, now) steps through that set in      *)
(* order.                                                                  *)
(***************************************************************************)
EXTENDS Integers, FiniteSets

CONSTANTS
    Grace,      \* MISFIRE_GRACE_SECONDS, in ticks
    ScanLimit,  \* _MAX_CATCHUP_SCAN: fire times one scan steps through
    NoTime      \* None: no such fire time, or a NULL column

ASSUME GraceAssumption  == Grace \in Nat
ASSUME LimitAssumption  == ScanLimit \in Nat \ {0}
ASSUME NoTimeAssumption == NoTime \notin Int

Time == Nat
OptTime == Time \cup {NoTime}

Latest(S) ==
    IF \E m \in S : \A f \in S : f <= m
      THEN CHOOSE m \in S : \A f \in S : f <= m
      ELSE NoTime

Earliest(S) ==
    IF \E m \in S : \A f \in S : m <= f
      THEN CHOOSE m \in S : \A f \in S : m <= f
      ELSE NoTime

(* croniter.get_next and trigger.get_next_fire_time: strictly after t      *)
NextFire(fires, t) == Earliest({f \in fires : f > t})

FiresIn(fires, start, now) == {f \in fires : start <= f /\ f <= now}

(* At most ScanLimit fires are stepped through, oldest first: the last one *)
(* reached is the answer even when later ones exist.                       *)
ScanFires(fires, start, now) ==
    LET due     == FiresIn(fires, start, now)
        stepped == {f \in due : Cardinality({g \in due : g <= f}) <= ScanLimit}
    IN  Latest(stepped)

(* Mutant: the recent window starts one tick late.                         *)
ScanMissed_lateWindow(fires, nextRun, now) ==
    LET recentStart == now - Grace + 1
        recent == IF nextRun < recentStart
                    THEN ScanFires(fires, recentStart, now)
                    ELSE NoTime
    IN  IF recent # NoTime THEN recent ELSE ScanFires(fires, nextRun, now)

(* Mutant: nothing is looked for before the recent window.                 *)
ScanMissed_recentOnly(fires, nextRun, now) ==
    LET recentStart == now - Grace
    IN  ScanFires(fires, IF nextRun < recentStart THEN recentStart ELSE nextRun, now)

(* The recent window is scanned first when the evidence is older; the      *)
(* whole interval is scanned only when nothing was found there.            *)
ScanMissed(fires, nextRun, now) ==
    LET recentStart == now - Grace
        recent == IF nextRun < recentStart
                    THEN ScanFires(fires, recentStart, now)
                    ELSE NoTime
    IN  IF recent # NoTime THEN recent ELSE ScanFires(fires, nextRun, now)

(* Mutant: a run that began exactly at its fire time counts as not run.    *)
LatestMissedFire_strictLastRun(fires, nextRun, lastRun, now) ==
    IF nextRun = NoTime \/ nextRun > now
      THEN NoTime
      ELSE LET missed == ScanMissed(fires, nextRun, now)
           IN  IF missed = NoTime \/ (lastRun # NoTime /\ missed < lastRun)
                 THEN NoTime
                 ELSE missed

LatestMissedFire(fires, nextRun, lastRun, now) ==
    IF nextRun = NoTime \/ nextRun > now
      THEN NoTime
      ELSE LET missed == ScanMissed(fires, nextRun, now)
           IN  IF missed = NoTime \/ (lastRun # NoTime /\ missed <= lastRun)
                 THEN NoTime
                 ELSE missed

(* Mutant: the age limit excludes its own bound.                           *)
Replayable_strictGrace(missed, isExit, now) ==
    /\ missed # NoTime
    /\ isExit \/ now - missed < Grace

(* plan_missed_runs: the age limit, waived for pipeline_exit_maintenance   *)
Replayable(missed, isExit, now) ==
    /\ missed # NoTime
    /\ isExit \/ now - missed <= Grace
=============================================================================
