------------------------- MODULE MCWebhookRegistry --------------------------
(* WebhookRegistry on small instances: the callers stay off each other's   *)
(* events and flows.                                                       *)
EXTENDS WebhookRegistry

CONSTANTS c1, c2, c3, stopped, started

JobAndFlow  == [c \in Callers |-> IF c = c1 THEN Events ELSE Flows]
OneFlowEach == [c \in Callers |-> CASE c = c1 -> Events
                                    [] c = c2 -> {12}
                                    [] OTHER -> {13}]

(* No job yet, or one with an event; a flow, or none.                      *)
NothingYet   == [k \in Keys |-> None]
EventAndFlow == [k \in Keys |-> IF k \in {1, 11} THEN stopped ELSE None]
FirstTables  == {NothingYet, EventAndFlow}
JobTables    == {EventAndFlow}
=============================================================================
