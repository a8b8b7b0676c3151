---------------------------- MODULE MCFireTimes -----------------------------
(* MissedRunsCheck, and CronDays with the day fields the README and the    *)
(* tests use.  They share no state: a behaviour either puts off a restart  *)
(* or goes through the days of a schedule.                                 *)
EXTENDS MissedRunsCheck, CronDays

SmallDayFields == {Any, {1}, {1, 2, 3}}

(* Lists of at most two numbers (7 is a Sunday too) or names, ranges of    *)
(* names, which create_job refuses, and ranges of numbers.                 *)
Lists     == {{Number(a), Number(b)} : a, b \in 0..7} \cup {{Name(a), Number(b)} : a, b \in 0..6}
NameRanges   == {{Names(1, 5)}, {Names(5, 6)}, {Names(0, 2)}, {Names(2, 3), Number(0)}}
NumberRanges == {{Numbers(1, 5)}, {Numbers(1, 3), Number(6)}, {Numbers(5, 7)}}

ListFields == {Any} \cup Lists \cup NameRanges
AllFields  == ListFields \cup NumberRanges

NoRestart == fires = {} /\ nextRun = NoTime /\ lastRun = NoTime /\ now = MaxTime
NoDays    == day = Any /\ dow = Any /\ picked = Any /\ dayOr = FALSE /\ today = LastDay

FireTimesInit == (Init /\ NoDays) \/ (DaysInit /\ NoRestart)

FireTimesNext == (Wait /\ UNCHANGED dayVars) \/ (NextDay /\ UNCHANGED vars)

FireTimesSpec == FireTimesInit /\ [][FireTimesNext]_<<vars, dayVars>>
=============================================================================
