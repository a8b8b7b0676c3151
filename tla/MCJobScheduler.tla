--------------------------- MODULE MCJobScheduler ---------------------------
(* JobScheduler on small instances.                                        *)
EXTENDS JobScheduler

CONSTANTS hourly, rare, refused

(* Two schedules APScheduler accepts and one it refuses.  The fire times   *)
(* go past MaxTime, so that a next fire always exists.                     *)
OneCron    == {hourly}
SmallCrons == {hourly, rare}
AllCrons   == {hourly, rare, refused}
FireTimesOf(cr) == CASE cr = hourly  -> {1, 3, 6, 8}
                     [] cr = rare    -> {2, 6}
                     [] cr = refused -> {1, 4, 7}
OneFireTimes   == [cr \in OneCron    |-> FireTimesOf(cr)]
SmallFireTimes == [cr \in SmallCrons |-> FireTimesOf(cr)]
AllFireTimes   == [cr \in AllCrons   |-> FireTimesOf(cr)]
=============================================================================
