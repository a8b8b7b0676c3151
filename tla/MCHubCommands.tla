---------------------------- MODULE MCHubCommands ----------------------------
(***************************************************************************)
(* HubCommands for two entities, e1 in group g1 and e2 in group g2.        *)
(* Execution x1 gets a request for every route and client method, x2 the   *)
(* scheduled job that disturbs it most: a start of e1.                     *)
(***************************************************************************)
EXTENDS HubCommands

CONSTANTS e1, e2, g1, g2, x1, x2

mc_Entity == {e1, e2}
mc_GroupId == {g1, g2}
mc_GroupOf == [e \in {e1, e2} |-> IF e = e1 THEN g1 ELSE g2]
mc_Exec == {x1, x2}

Rq(src, type, ids, gs) == [src |-> src, type |-> type, entities |-> ids, groups |-> gs]

One == <<e1>>
Both == <<e1, e2>>

\* Every route and every method of the client, from a caller that uses it.
mc_First ==
  {Rq("job", <<"start", "entity">>, Both, <<>>), Rq("job", <<"redo", "entity">>, Both, <<>>),
   Rq("job", <<"snapshot", "entity">>, One, <<>>), Rq("job", <<"redo", "pipeline">>, <<>>, <<>>),
   Rq("job", <<"stop", "group">>, <<>>, <<g1>>), Rq("job", <<"redo", "group">>, <<>>, <<g1>>),
   Rq("job", <<"snapshot", "group">>, <<>>, <<g1, g2>>), Rq("job", <<"enter", "pipeline">>, <<>>, <<>>),
   Rq("event", <<"start", "group">>, <<>>, <<g1>>), Rq("event", <<"stop", "entity">>, One, <<>>),
   Rq("event", <<"snapshot", "group">>, <<>>, <<g1, g2>>),
   Rq("event", <<"stop", "pipeline">>, <<>>, <<>>), Rq("event", <<"exit", "pipeline">>, <<>>, <<>>),
   Rq("cli", <<"start", "group">>, <<>>, <<g1>>), Rq("cli", <<"redo", "group">>, <<>>, <<g1>>),
   Rq("job", <<"stop", "entity">>, <<>>, <<>>), Rq("job", <<"redo", "group">>, <<>>, <<>>),
   Rq("cli", <<"enter", "pipeline">>, <<>>, <<>>),
   Rq("cli", <<"start", "pipeline">>, <<>>, <<>>), Rq("cli", <<"snapshot", "pipeline">>, <<>>, <<>>)}

mc_Second == {Rq("job", <<"start", "entity">>, One, <<>>)}

mc_Request == mc_First \cup mc_Second

mc_Asked == [x \in {x1, x2} |-> IF x = x1 THEN mc_First ELSE mc_Second]
==============================================================================
