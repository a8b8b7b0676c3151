-------------------------- MODULE MCChainExecution --------------------------
(* ChainExecution on small chains, with the lists of webhook events of     *)
(* _task_type_to_webhook_events.                                           *)
EXTENDS ChainExecution

CONSTANTS e1, e2     \* the entities of the pipeline

Started       == {"ENTITY_CDC_STARTED"}
Stopped       == {"ENTITY_CDC_STOPPED"}
Snapshot      == {"ENTITY_SNAPSHOT_COMPLETED", "ENTITY_SNAPSHOT_FAILED"}
GroupSnapshot == {"GROUP_SNAPSHOT_COMPLETED", "ENTITY_SNAPSHOT_FAILED"}

(* Every SYNC event whose preceding step is announced has its webhook.     *)
ChainOf(steps, sync, event, target) ==
    [steps |-> steps, sync |-> sync, event |-> event, target |-> target,
     registered |-> {e \in sync : event[e - 1] # {}}]

(* Stop of an entity; start (SYNC), a query that completes with its call   *)
(* (ASYNC), and snapshot (SYNC, with nothing to wait for).                 *)
QueryChain == ChainOf(3, {1, 3}, [k \in 0..3 |-> CASE k = 0 -> Stopped
                                                   [] k = 1 -> Started
                                                   [] k = 2 -> {}
                                                   [] k = 3 -> Snapshot],
                      [k \in 0..3 |-> {e1}])

(* Snapshot of the pipeline; stop of an entity (SYNC) and start of the     *)
(* pipeline (SYNC): an entity's end is enough for each.                    *)
MixedChain == ChainOf(2, {1, 2}, [k \in 0..2 |-> CASE k = 0 -> Snapshot
                                                   [] k = 1 -> Stopped
                                                   [] k = 2 -> Started],
                      [k \in 0..2 |-> IF k = 1 THEN {e1} ELSE {e1, e2}])

(* Snapshot of a group; one of the entity (SYNC): they have a kind of      *)
(* announcement in common.                                                 *)
OverlapChain == ChainOf(1, {1}, [k \in 0..1 |-> IF k = 0 THEN GroupSnapshot ELSE Snapshot],
                        [k \in 0..1 |-> {e1}])

AllChains == {QueryChain, MixedChain, OverlapChain}
=============================================================================
