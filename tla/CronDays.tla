------------------------------ MODULE CronDays ------------------------------
(***************************************************************************)
(* The day fields of a schedule.  A job is fired by an APScheduler trigger *)
(* that scheduler_service builds from the cron expression, while the       *)
(* next_run shown and stored by job_service and schemas comes from         *)
(* croniter.  The two number weekdays differently (croniter: 0 is Sunday;  *)
(* APScheduler: 0 is Monday), and APScheduler combines day of month and    *)
(* day of week with AND only.  JobScheduler takes the two as equal; this   *)
(* module asks when they are.                                              *)
(*                                                                         *)
(* The state is the schedule of one job and the day it is looked at.       *)
(* Weekdays are 0..6 from Sunday.  A day-of-week field is Any or a set of  *)
(* parts: a number, a range of numbers, a name or a range of names.        *)
(***************************************************************************)
EXTENDS Integers, FiniteSets

CONSTANTS
    Any,            \* the field "*"
    DayFields,      \* day-of-month fields: Any or a set of days
    DowFields,      \* day-of-week fields: Any or a set of parts
    MonthLength,    \* bound: days of a month
    LastDay         \* bound: the last day looked at

ASSUME CalendarAssumption == MonthLength \in Nat \ {0} /\ LastDay \in Nat

(* The parts a cron field may have: 0..7 for a number, no range backwards. *)
Parts == {part \in [kind : {"number", "numbers", "name", "names"}, from : 0..7, to : 0..7] :
            /\ part.from <= part.to
            /\ part.kind \in {"number", "name"} => part.from = part.to
            /\ part.kind \in {"name", "names"} => part.to <= 6}

ASSUME FieldsAssumption == \A field \in DowFields : field = Any \/ field \subseteq Parts

VARIABLES
    day, dow, dayOr,    \* the cron expression's day fields and day_or
    picked,             \* schedule.days_of_week, or Any for a cron expression
    today

dayVars == <<day, dow, dayOr, picked, today>>

Weekdays == 0..6

Number(n)   == [kind |-> "number",  from |-> n, to |-> n]
Numbers(n, m) == [kind |-> "numbers", from |-> n, to |-> m]
Name(n)     == [kind |-> "name",    from |-> n, to |-> n]
Names(n, m) == [kind |-> "names",   from |-> n, to |-> m]

DayOfMonth(d) == (d % MonthLength) + 1
Weekday(d)    == d % 7

-----------------------------------------------------------------------------
(* What job_service stores and croniter makes of it *)

(* _build_cron_from_schedule_parts: "minute hour * * days"                 *)
ScheduleDow(days) == IF days = {} THEN Any ELSE {Number(d) : d \in days}

CroniterPart(part) == {n % 7 : n \in part.from..part.to}

CroniterWeekdays(field) ==
    IF field = Any THEN Weekdays ELSE UNION {CroniterPart(part) : part \in field}

MonthDays(field) == IF field = Any THEN 1..MonthLength ELSE field

Combine(either, onDay, onDow) == IF either THEN onDay \/ onDow ELSE onDay /\ onDow

(* croniter(expression, now, day_or=...): OR needs both fields restricted  *)
CroniterFires(d) ==
    Combine(dayOr /\ day # Any /\ dow # Any,
            DayOfMonth(d) \in MonthDays(day),
            Weekday(d) \in CroniterWeekdays(dow))

-----------------------------------------------------------------------------
(* What scheduler_service makes of it *)

(* Mutant: the cron numbers go to APScheduler as they are.                 *)
ToAPSchedulerDow_asIs(field) == field

(* _to_apscheduler_day_of_week: single numbers become names, every other   *)
(* part passes through.                                                    *)
ToAPSchedulerDow(field) ==
    IF field = Any
      THEN Any
      ELSE {IF part.kind = "number" /\ part.from \in Weekdays THEN Name(part.from) ELSE part :
              part \in field}

(* "*" is not a list of parts.                                             *)
ASSUME AnyAssumption ==
    /\ \A field \in DowFields \ {Any} : ToAPSchedulerDow(field) # Any
    /\ \A days \in (SUBSET Weekdays) \ {{}} : /\ {Number(d) : d \in days} # Any
                                            /\ {Name(d) : d \in days} # Any

(* Days from Monday, as APScheduler counts.                                *)
FromMonday(n) == (n + 6) % 7

(* APScheduler refuses a number above 6 and a range that runs backwards    *)
(* through its week.                                                       *)
APSchedulerTakes(part) ==
    IF part.kind \in {"number", "numbers"}
      THEN part.from <= part.to /\ part.to <= 6
      ELSE FromMonday(part.from) <= FromMonday(part.to)

APSchedulerPart(part) ==
    IF part.kind \in {"number", "numbers"}
      THEN {(n + 1) % 7 : n \in part.from..part.to}
      ELSE {n \in Weekdays : /\ FromMonday(part.from) <= FromMonday(n)
                             /\ FromMonday(n) <= FromMonday(part.to)}

APSchedulerWeekdays(field) ==
    IF field = Any THEN Weekdays ELSE UNION {APSchedulerPart(part) : part \in field}

(* _log_run_days reads both ends of a range as numbers: create_job fails   *)
(* on a range of names before it builds a trigger.                         *)
RunDaysLogged(field) == field = Any \/ \A part \in field : part.kind # "names"

Schedulable ==
    /\ RunDaysLogged(dow)
    /\ dow = Any \/ \A part \in ToAPSchedulerDow(dow) : APSchedulerTakes(part)

(* Mutant: a wildcard is not looked for.                                   *)
DayOrApplies_always == dayOr

(* _day_or_applies *)
DayOrApplies == dayOr /\ day # Any /\ dow # Any

(* _build_trigger: one trigger on both day fields, or one for each.        *)
TriggerFires(d) ==
    LET onDay == DayOfMonth(d) \in MonthDays(day)
        onDow == Weekday(d) \in APSchedulerWeekdays(ToAPSchedulerDow(dow))
    IN  Combine(DayOrApplies, onDay, onDow)

-----------------------------------------------------------------------------
DaysInit ==
    /\ dayOr \in BOOLEAN
    /\ \/ picked = Any /\ day \in DayFields /\ dow \in DowFields
       \/ picked \in SUBSET Weekdays /\ day = Any /\ dow = ScheduleDow(picked)
    /\ today = 0

NextDay ==
    /\ today < LastDay
    /\ today' = today + 1
    /\ UNCHANGED <<day, dow, dayOr, picked>>

DaysSpec == DaysInit /\ [][NextDay]_dayVars

-----------------------------------------------------------------------------
(* A schedule of weekdays picked by name fires on these days and on no     *)
(* other, or every day when none is picked, whatever the conversions to    *)
(* cron numbers and to APScheduler's names do on the way.                  *)
PickedDaysFire ==
    picked # Any => /\ Schedulable
                    /\ TriggerFires(today) <=> (picked = {} \/ Weekday(today) \in picked)

NoNumberRange(field) ==
    field = Any \/ \A part \in field : part.kind # "numbers"

(* As long as the weekday field holds no range of numbers, the trigger     *)
(* fires on exactly the days croniter stores as next_run, with day_or and  *)
(* without, so the evidence of the catch-up is evidence of a real fire.    *)
FiresOnStoredDays ==
    NoNumberRange(dow) /\ Schedulable => (TriggerFires(today) <=> CroniterFires(today))

(* The README's table of weekday numbers and its example "1-5": every      *)
(* expression that can be scheduled fires on the days cron gives it.       *)
FiresOnCronDays == Schedulable => (TriggerFires(today) <=> CroniterFires(today))
=============================================================================
