-------------------------- MODULE MissedRunsCheck ---------------------------
(***************************************************************************)
(* latest_missed_fire and the age limit of plan_missed_runs, compared with *)
(* a reference definition for every trigger, every content of next_run and *)
(* last_run and every moment of the restart.                               *)
(*                                                                         *)
(* The code steps through at most ScanLimit fire times, oldest first, and  *)
(* scans the last Grace seconds on their own.  The state is what a restart *)
(* finds for one job; Wait puts the restart off.                           *)
(***************************************************************************)
EXTENDS MissedRuns

CONSTANT MaxTime    \* bound: the last fire time and the latest restart

ASSUME MaxTimeAssumption == MaxTime \in Nat

VARIABLES fires, nextRun, lastRun, now

vars == <<fires, nextRun, lastRun, now>>

Init ==
    /\ fires \in SUBSET (1..MaxTime)
    /\ nextRun \in 0..MaxTime \cup {NoTime}
    /\ lastRun \in 0..MaxTime \cup {NoTime}
    /\ now = 0

Wait ==
    /\ now < MaxTime
    /\ now' = now + 1
    /\ UNCHANGED <<fires, nextRun, lastRun>>

Spec == Init /\ [][Wait]_vars

-----------------------------------------------------------------------------
Found == LatestMissedFire(fires, nextRun, lastRun, now)

NeverRan(f) == lastRun = NoTime \/ f > lastRun

(* The docstring of latest_missed_fire as a definition: the latest fire    *)
(* time that was due and never ran.                                        *)
DueAndNeverRan == IF nextRun = NoTime
                    THEN {}
                    ELSE {f \in FiresIn(fires, nextRun, now) : NeverRan(f)}

Reference == Latest(DueAndNeverRan)

(* How many fire times a scan from t would have to step through.           *)
ScanLength(t) == Cardinality(FiresIn(fires, t, now))

TypeOK ==
    /\ fires \subseteq Nat
    /\ nextRun \in OptTime /\ lastRun \in OptTime
    /\ now \in Nat

(* The shortcut through the recent window and the limit on the scan never  *)
(* change what is replayed of a job under the age limit: as soon as the    *)
(* window alone fits in one scan, the same fire time is replayed, or none, *)
(* however long the outage and however many fires it missed.               *)
PlanIsExact ==
    ScanLength(now - Grace) <= ScanLimit =>
        /\ Replayable(Found, FALSE, now) <=> Replayable(Reference, FALSE, now)
        /\ Replayable(Found, FALSE, now) => Found = Reference

(* A pipeline_exit_maintenance job, for which the age limit is waived, is  *)
(* replayed whenever it missed a fire, also when more fire times than a    *)
(* scan reaches were missed, so long as those that ran fit in one scan.    *)
ExitNeverForgotten ==
    Cardinality({f \in FiresIn(fires, 0, now) : ~NeverRan(f)}) < ScanLimit
    => (Replayable(Found, TRUE, now) <=> DueAndNeverRan # {})
=============================================================================
