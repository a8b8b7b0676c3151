--------------------------- MODULE MCTriggerFlows ---------------------------
(***************************************************************************)
(* TriggerFlows for a platform event that reports an agent run, a webhook  *)
(* whose caller waits, and a fire from the user interface.                 *)
(***************************************************************************)
EXTENDS TriggerFlows

mc_Fire == {"f1", "f2", "f3"}
mc_Source == [f \in mc_Fire |-> CASE f = "f1" -> "platform_event"
                                  [] f = "f2" -> "webhook"
                                  [] f = "f3" -> "manual"]
mc_Target == {"t1", "t2"}
mc_Origin == [f \in mc_Fire |-> IF f = "f1" THEN {"t1"} ELSE {}]

Sync(t) == [targets |-> {t}, mode |-> "SYNC", refuses |-> FALSE]
Async(t) == [targets |-> {t}, mode |-> "ASYNC", refuses |-> FALSE]
Agent(t) == [targets |-> {t}, mode |-> "SYNC", refuses |-> TRUE]

mc_Chains == {<<Sync("t1"), Sync("t2")>>, <<Async("t1"), Agent("t1")>>, <<Sync("t2")>>}
=============================================================================
