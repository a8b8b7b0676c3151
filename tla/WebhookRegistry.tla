-------------------------- MODULE WebhookRegistry ---------------------------
(***************************************************************************)
(* The list of webhooks Chronos keeps in CoreHub: one webhook per SYNC     *)
(* chained event and one per trigger flow on a platform event.  Sources:   *)
(* services/chain_execution_service.py (register, delete, cleanup),        *)
(* services/job_service.py and services/trigger_flow_service.py (when).    *)
(*                                                                         *)
(* CoreHub has no call that changes one webhook: Chronos GETs the list,    *)
(* which also holds webhooks of others, and PUTs it back changed.  Each    *)
(* API call runs its changes in batches; a batch is a coroutine on an      *)
(* event loop of its own, in a thread of its own, and takes the one        *)
(* asyncio.Lock of the process around every GET and PUT.  Creating and     *)
(* updating a job waits for a batch at most 30 s and then goes on.         *)
(*                                                                         *)
(* A webhook is a key and the value it was registered with (the event it   *)
(* listens for).  Keys are numbers because a batch registers the events of *)
(* a job in the order of their ids.                                        *)
(***************************************************************************)
EXTENDS Integers, FiniteSets, Sequences, SequencesExt

CONSTANTS
    Callers,      \* API calls, one request each
    Events,       \* ids of SYNC chained events of the one job
    Flows,        \* ids of trigger flows
    Foreign,      \* webhooks in CoreHub that are not Chronos'
    Values,       \* what a webhook listens for
    None,         \* no webhook, no row
    InitialTables,\* the tables at the start, with their webhooks in CoreHub
    Requests,     \* the requests the callers make
    Reach,        \* Reach[c]: the events or flows caller c's request is about
    MaxAttempts,  \* max_attempts
    GetMayFail,   \* whether CoreHub may fail a GET
    PutMayFail,   \* whether CoreHub may fail a PUT
    MaxCrashes    \* bound: how often Chronos dies

Keys == Events \cup Flows
Hooks == Keys \cup Foreign

ASSUME KeysAssumption == /\ Events \cap Flows = {} /\ Keys \cap Foreign = {}
                         /\ Hooks \subseteq Nat /\ None \notin Values
                         /\ InitialTables \subseteq [Keys -> Values \cup {None}]
ASSUME LimitsAssumption == MaxAttempts \in Nat \ {0} /\ MaxCrashes \in Nat

VARIABLES
    job,       \* the one job: "new", "live" or "deleted"
    rows,      \* rows[k]: chained_job_events and trigger_flows
    used,      \* ids given out: an id is not given out again
    hub,       \* hub[h]: the list in CoreHub
    up,        \* Chronos runs and its startup is over
    plan,      \* plan[c]: the steps caller c still has to take
    joins,     \* joins[c]: the batch caller c waits for
    worker,    \* worker[w]: the batches, <<c, n>> being caller c's n-th
    holder,    \* the batch that holds the lock
    queue,     \* the futures in the lock's _waiters
    woken,     \* the waiters whose future has its result
    boundTo,   \* the event loop the lock is bound to: a batch
    crashes,
    (* history *)
    undone     \* keys with a change that was refused, lost or abandoned

table == <<job, rows, used>>
calls == <<plan, joins>>
lock  == <<holder, queue, woken, boundTo>>
vars  == <<table, hub, up, plan, joins, worker, lock, crashes, undone>>

Workers == Callers \X {1, 2}
NoBatch == <<>>
NotAsked == <<[do |-> "request"]>>   \* the plan of a caller that has yet to call

Idle == [at |-> "idle", remove |-> {}, add |-> {}, val |-> None, tries |-> 0,
         seen |-> [h \in Hooks |-> None]]

Lowest(S) == CHOOSE k \in S : \A l \in S : k <= l
Over(w) == worker[w].at \in {"idle", "over"}

Init ==
    /\ rows \in InitialTables
    /\ job = IF \E e \in Events : rows[e] # None THEN "live" ELSE "new"
    /\ used = {k \in Keys : rows[k] # None}
    /\ hub \in {[h \in Hooks |-> IF h \in Keys THEN rows[h] ELSE v] : v \in Values}
    /\ up = TRUE
    /\ plan = [c \in Callers |-> NotAsked]
    /\ joins = [c \in Callers |-> NoBatch]
    /\ worker = [w \in Workers |-> Idle]
    /\ holder = NoBatch /\ queue = <<>> /\ woken = {} /\ boundTo = NoBatch
    /\ crashes = 0
    /\ undone = {}

-----------------------------------------------------------------------------
(* The API calls: what each commits and when it changes the webhooks *)

Register(keys, v, wait) ==
    [do |-> "batch", remove |-> {}, add |-> keys, val |-> v, wait |-> wait]
Delete(keys, wait) ==
    [do |-> "batch", remove |-> keys, add |-> {}, val |-> None, wait |-> wait]

Forever == "forever"    \* a route in the thread pool runs the batch itself
Joined  == "30s"        \* an async route joins the batch's thread

(* Commits.  Events need their job (a foreign key with a cascade), an      *)
(* update needs its row; a commit that lacks it fails, and the call.       *)
InsertJob  == [do |-> "insertJob"]
DropJob    == [do |-> "dropJob"]
SetRows(keys, v, needs) == [do |-> "commit", keys |-> keys, val |-> v, needs |-> needs]

RowsOf(keys) == {k \in keys : rows[k] # None}

(* Async routes run one at a time: they block the event loop.              *)
LoopBusyWith(c) == plan[c] # NotAsked /\ \E i \in DOMAIN plan[c] :
                      plan[c][i].do = "batch" /\ plan[c][i].wait = Joined
LoopBusy == \E c \in Callers : LoopBusyWith(c)

Begin(c, kind, steps) ==
    /\ up /\ plan[c] = NotAsked /\ kind \in Requests
    /\ plan' = [plan EXCEPT ![c] = steps]
    /\ UNCHANGED <<job, rows, hub, up, joins, worker, lock, crashes, undone>>

EventsOf(c) == Events \cap Reach[c]

(* create_job and _persist_new_chained_events                              *)
CreateJob(c, new, v) ==
    /\ ~LoopBusy /\ job = "new" /\ new # {} /\ new \subseteq EventsOf(c) \ used
    /\ used' = used \cup new
    /\ Begin(c, "createJob", <<InsertJob, SetRows(new, v, "job"), Register(new, v, Joined)>>)

(* The new events of an update, if there are any left.                     *)
Replacement(new, v) ==
    <<SetRows(Events, None, "nothing")>>
      \o (IF new = {} THEN <<>> ELSE <<SetRows(new, v, "job"), Register(new, v, Joined)>>)

(* Mutant: the webhooks of the events that are replaced stay.              *)
UpdateJob_orphans(c, new, v) ==
    /\ ~LoopBusy /\ job = "live" /\ new \subseteq EventsOf(c) \ used
    /\ used' = used \cup new
    /\ Begin(c, "updateJob", Replacement(new, v))

(* _replace_chained_events                                                 *)
UpdateJob(c, new, v) ==
    /\ ~LoopBusy /\ job = "live" /\ EventsOf(c) # {} /\ new \subseteq EventsOf(c) \ used
    /\ used' = used \cup new
    /\ LET old == RowsOf(Events) IN
       Begin(c, "updateJob",
             (IF old = {} THEN <<>> ELSE <<Delete(old, Joined)>>) \o Replacement(new, v))

(* delete_job: the webhooks first, then the row and with it the events     *)
DeleteJob(c) ==
    /\ job = "live" /\ EventsOf(c) # {} /\ UNCHANGED used
    /\ LET old == RowsOf(Events) IN
       Begin(c, "deleteJob",
             (IF old = {} THEN <<>> ELSE <<Delete(old, Forever)>>) \o
             <<DropJob>>)

(* create_flow                                                             *)
CreateFlow(c, k, v) ==
    /\ k \in Reach[c] \ used /\ used' = used \cup {k}
    /\ Begin(c, "createFlow", <<SetRows({k}, v, "nothing"), Register({k}, v, Forever)>>)

(* update_flow, the platform event changes: the row first, then the        *)
(* webhook is deleted and registered anew                                  *)
UpdateFlow(c, k, v) ==
    /\ k \in Reach[c] /\ rows[k] \notin {None, v} /\ UNCHANGED used
    /\ Begin(c, "updateFlow", <<SetRows({k}, v, "row"), Delete({k}, Forever),
                                Register({k}, v, Forever)>>)

(* delete_flow                                                             *)
DeleteFlow(c, k) ==
    /\ k \in Reach[c] /\ rows[k] # None /\ UNCHANGED used
    /\ Begin(c, "deleteFlow", <<Delete({k}, Forever), SetRows({k}, None, "nothing")>>)

NextIs(c, what) ==
    /\ joins[c] = NoBatch /\ plan[c] # <<>> /\ plan[c] # NotAsked
    /\ Head(plan[c]).do = what

CommitRows(c) ==
    /\ NextIs(c, "commit")
    /\ LET step == Head(plan[c])
           gone == \/ step.needs = "job" /\ job # "live"
                   \/ step.needs = "row" /\ \E k \in step.keys : rows[k] = None
       IN  IF gone
             THEN plan' = [plan EXCEPT ![c] = <<>>] /\ UNCHANGED rows
             ELSE /\ plan' = [plan EXCEPT ![c] = Tail(@)]
                  /\ rows' = [k \in Keys |-> IF k \in step.keys THEN step.val ELSE rows[k]]
    /\ UNCHANGED <<job, used, hub, up, joins, worker, lock, crashes, undone>>

CommitJob(c) ==
    /\ \/ NextIs(c, "insertJob") /\ job' = "live" /\ UNCHANGED rows
       \/ /\ NextIs(c, "dropJob") /\ job' = "deleted"
          /\ rows' = [k \in Keys |-> IF k \in Events THEN None ELSE rows[k]]
    /\ plan' = [plan EXCEPT ![c] = Tail(@)]
    /\ UNCHANGED <<used, hub, up, joins, worker, lock, crashes, undone>>

(* sync_register_..., sync_delete_...: asyncio.run, in this thread or in   *)
(* one of its own when the caller is already on an event loop.             *)
StartBatch(c) ==
    /\ NextIs(c, "batch")
    /\ LET n == IF worker[<<c, 1>>].at = "idle" THEN 1 ELSE 2
           step == Head(plan[c])
       IN  /\ worker' = [worker EXCEPT ![<<c, n>>] =
                           [Idle EXCEPT !.at = "lock", !.remove = step.remove,
                                        !.add = step.add, !.val = step.val, !.tries = 1]]
           /\ joins' = [joins EXCEPT ![c] = <<c, n>>]
    /\ UNCHANGED <<table, hub, up, plan, lock, crashes, undone>>

Return(c) ==
    /\ joins' = [joins EXCEPT ![c] = NoBatch]
    /\ plan'  = [plan  EXCEPT ![c] = Tail(@)]

BatchEnds(c) ==
    /\ joins[c] # NoBatch /\ worker[joins[c]].at = "over"
    /\ Return(c)
    /\ UNCHANGED <<table, hub, up, worker, lock, crashes, undone>>

(* Mutant: a join without a timeout.                                       *)
JoinTimesOut_never(c) ==
    /\ joins[c] # NoBatch /\ worker[joins[c]].at = "over" /\ Return(c)
    /\ UNCHANGED <<table, hub, up, worker, lock, crashes, undone>>

(* t.join(timeout=30) returns: the call goes on, and so does the batch.    *)
JoinTimesOut(c) ==
    /\ joins[c] # NoBatch /\ ~Over(joins[c]) /\ Head(plan[c]).wait = Joined
    /\ Return(c)
    /\ undone' = undone \cup worker[joins[c]].remove \cup worker[joins[c]].add
    /\ UNCHANGED <<table, hub, up, worker, lock, crashes>>

-----------------------------------------------------------------------------
(* A batch: the lock, the GET and the PUT *)

At(w, place) == up /\ worker[w].at = place

(* The change is done with, or given up: the next webhook of the batch.    *)
NextChange(w, given) ==
    LET rest == IF worker[w].add = {} THEN {} ELSE worker[w].add \ {Lowest(worker[w].add)}
    IN  /\ worker' = [worker EXCEPT ![w] =
                        [@ EXCEPT !.at = IF rest = {} THEN "over" ELSE "lock",
                                  !.remove = {}, !.add = rest, !.tries = 1,
                                  !.seen = Idle.seen]]
        /\ undone' = IF given
                       THEN undone \cup worker[w].remove \cup (worker[w].add \ rest)
                       ELSE undone

(* Mutant: one lock for each event loop, as the comment on it has it.      *)
Acquire_perLoop(w) ==
    /\ At(w, "lock")
    /\ worker' = [worker EXCEPT ![w].at = "get"]
    /\ UNCHANGED <<table, hub, up, calls, lock, crashes, undone>>

(* Lock.acquire: at once if the lock is free and nobody waits for it.      *)
Acquire(w) ==
    /\ At(w, "lock") /\ holder = NoBatch /\ queue = <<>>
    /\ holder' = w
    /\ worker' = [worker EXCEPT ![w].at = "get"]
    /\ UNCHANGED <<table, hub, up, calls, queue, woken, boundTo, crashes, undone>>

(* Otherwise the lock binds itself to the loop of the first that waits ... *)
Enqueue(w) ==
    /\ At(w, "lock") /\ (holder # NoBatch \/ queue # <<>>) /\ boundTo \in {NoBatch, w}
    /\ boundTo' = w
    /\ queue' = Append(queue, w)
    /\ worker' = [worker EXCEPT ![w].at = "queued"]
    /\ UNCHANGED <<table, hub, up, calls, holder, woken, crashes, undone>>

(* ... and raises RuntimeError in any other: the change is logged and      *)
(* dropped.                                                                *)
WrongLoop(w) ==
    /\ At(w, "lock") /\ (holder # NoBatch \/ queue # <<>>) /\ boundTo \notin {NoBatch, w}
    /\ NextChange(w, TRUE)
    /\ UNCHANGED <<table, hub, up, calls, lock, crashes>>

(* release sets the result of the first waiter's future, from the thread   *)
(* of another loop, which does not wake the waiter's selector.             *)
Release ==
    /\ holder' = NoBatch
    /\ woken' = IF queue = <<>> THEN woken ELSE woken \cup {Head(queue)}
    /\ UNCHANGED <<queue, boundTo>>

(* If the waiter's loop notices nevertheless, it has the lock.             *)
WakeUp(w) ==
    /\ At(w, "queued") /\ w \in woken
    /\ holder' = w
    /\ \E i \in DOMAIN queue : queue[i] = w /\ queue' = RemoveAt(queue, i)
    /\ woken' = woken \ {w}
    /\ worker' = [worker EXCEPT ![w].at = "get"]
    /\ UNCHANGED <<table, hub, up, calls, boundTo, crashes, undone>>

Deleting(w) == worker[w].add = {}

GetList(w) ==
    /\ At(w, "get")
    /\ worker' = [worker EXCEPT ![w] = [@ EXCEPT !.at = "put", !.seen = hub]]
    /\ UNCHANGED <<table, hub, up, calls, lock, crashes, undone>>

(* An HTTP error: a delete gives up, a registration goes on with an empty  *)
(* list.                                                                   *)
GetFails(w) ==
    /\ At(w, "get") /\ GetMayFail
    /\ IF Deleting(w)
         THEN NextChange(w, TRUE) /\ Release
         ELSE /\ worker' = [worker EXCEPT ![w].at = "put"]
              /\ UNCHANGED <<lock, undone>>
    /\ UNCHANGED <<table, hub, up, calls, crashes>>

(* No answer in 10 s, or no connection: the change is given up.            *)
GetRaises(w) ==
    /\ At(w, "get") /\ GetMayFail
    /\ NextChange(w, TRUE) /\ Release
    /\ UNCHANGED <<table, hub, up, calls, crashes>>

(* The list to PUT: the one that was read without the webhooks to remove,  *)
(* or with the new one in the place of an older one of its key.            *)
Updated(w) ==
    IF Deleting(w)
      THEN [h \in Hooks |-> IF h \in worker[w].remove THEN None ELSE worker[w].seen[h]]
      ELSE [worker[w].seen EXCEPT ![Lowest(worker[w].add)] = worker[w].val]

NothingToPut(w) == Deleting(w) /\ Updated(w) = worker[w].seen

PutList(w) ==
    /\ At(w, "put")
    /\ hub' = IF NothingToPut(w) THEN hub ELSE Updated(w)
    /\ NextChange(w, FALSE) /\ Release
    /\ UNCHANGED <<table, up, calls, crashes>>

(* An HTTP error: a registration is tried again, from the lock on.         *)
PutFails(w) ==
    /\ At(w, "put") /\ PutMayFail /\ ~NothingToPut(w)
    /\ IF ~Deleting(w) /\ worker[w].tries < MaxAttempts
         THEN /\ worker' = [worker EXCEPT ![w] =
                              [@ EXCEPT !.at = "lock", !.tries = worker[w].tries + 1,
                                         !.seen = Idle.seen]]
              /\ UNCHANGED undone
         ELSE NextChange(w, TRUE)
    /\ Release
    /\ UNCHANGED <<table, hub, up, calls, crashes>>

(* No answer: CoreHub may have taken the list.                             *)
PutRaises(w) ==
    /\ At(w, "put") /\ PutMayFail /\ ~NothingToPut(w)
    /\ hub' \in {hub, Updated(w)}
    /\ NextChange(w, TRUE) /\ Release
    /\ UNCHANGED <<table, up, calls, crashes>>

-----------------------------------------------------------------------------
(* A call or a batch has still to do with k.                               *)
InWork(k) ==
    \/ \E c \in Callers : plan[c] # NotAsked /\ \E i \in DOMAIN plan[c] :
          plan[c][i].do = "batch" /\ k \in plan[c][i].remove \cup plan[c][i].add
    \/ \E c \in Callers : plan[c] # NotAsked /\ \E i \in DOMAIN plan[c] :
          \/ plan[c][i].do = "commit" /\ k \in plan[c][i].keys
          \/ plan[c][i].do = "dropJob" /\ k \in Events
    \/ \E w \in Workers : ~Over(w) /\ k \in worker[w].remove \cup worker[w].add

(* Chronos dies; on its way up it removes the webhooks without a row.      *)
Crash ==
    /\ up /\ crashes < MaxCrashes
    /\ crashes' = crashes + 1
    /\ up' = FALSE
    /\ plan' = [c \in Callers |-> IF plan[c] = NotAsked THEN plan[c] ELSE <<>>]
    /\ joins' = [c \in Callers |-> NoBatch]
    /\ worker' = [w \in Workers |-> Idle]
    /\ holder' = NoBatch /\ queue' = <<>> /\ woken' = {} /\ boundTo' = NoBatch
    /\ undone' = undone \cup {k \in Keys : InWork(k)}
    /\ UNCHANGED <<table, hub>>

(* cleanup_stale_webhooks; a GET or PUT that fails is only logged.         *)
CleanupStaleWebhooks ==
    /\ ~up /\ up' = TRUE
    /\ \/ /\ hub' = [h \in Hooks |-> IF h \in Keys /\ rows[h] = None THEN None ELSE hub[h]]
          /\ undone' = {k \in undone : rows[k] # None}
       \/ (GetMayFail \/ PutMayFail) /\ UNCHANGED <<hub, undone>>
    /\ UNCHANGED <<table, calls, worker, lock, crashes>>

-----------------------------------------------------------------------------
ApiCall(c) ==
    \/ \E new \in SUBSET Events, v \in Values : CreateJob(c, new, v) \/ UpdateJob(c, new, v)
    \/ DeleteJob(c)
    \/ \E k \in Flows, v \in Values : CreateFlow(c, k, v) \/ UpdateFlow(c, k, v)
    \/ \E k \in Flows : DeleteFlow(c, k)
    \/ CommitRows(c) \/ CommitJob(c) \/ StartBatch(c) \/ BatchEnds(c) \/ JoinTimesOut(c)

Batch(w) ==
    \/ Acquire(w) \/ Enqueue(w) \/ WrongLoop(w) \/ WakeUp(w)
    \/ GetList(w) \/ GetFails(w) \/ GetRaises(w)
    \/ PutList(w) \/ PutFails(w) \/ PutRaises(w)

Next ==
    \/ \E c \in Callers : ApiCall(c)
    \/ \E w \in Workers : Batch(w)
    \/ Crash
    \/ CleanupStaleWebhooks

Spec == Init /\ [][Next]_vars

(* Threads run and HTTP calls time out; nothing wakes the loop of a waiter *)
(* that another thread gave the lock to.                                   *)
FairSpec ==
    /\ Spec
    /\ WF_vars(CleanupStaleWebhooks)
    /\ \A c \in Callers : WF_vars(CommitRows(c) \/ CommitJob(c) \/ StartBatch(c)
                                     \/ BatchEnds(c) \/ JoinTimesOut(c))
    /\ \A w \in Workers : WF_vars(Batch(w) /\ ~WakeUp(w))

-----------------------------------------------------------------------------
TypeOK ==
    /\ job \in {"new", "live", "deleted"} /\ used \subseteq Keys
    /\ rows \in [Keys -> Values \cup {None}] /\ hub \in [Hooks -> Values \cup {None}]
    /\ joins \in [Callers -> Workers \cup {NoBatch}]
    /\ worker \in [Workers -> [at : {"idle", "lock", "queued", "get", "put", "over"},
                               remove : SUBSET Keys, add : SUBSET Keys,
                               val : Values \cup {None}, tries : 0..MaxAttempts,
                               seen : [Hooks -> Values \cup {None}]]]
    /\ holder \in Workers \cup {NoBatch} /\ boundTo \in Workers \cup {NoBatch}
    /\ queue \in Seq(Workers) /\ woken \subseteq Workers
    /\ undone \subseteq Keys /\ crashes \in 0..MaxCrashes

(* The comment on _webhook_list_lock: changes do not overwrite each other. *)
(* A PUT changes the one webhook it is about, whoever else works on the    *)
(* list, and the cleanup removes only webhooks Chronos made and has no row *)
(* for.                                                                    *)
OthersKept ==
    [][\A h \in Hooks : hub'[h] # hub[h] =>
         \/ ~up /\ h \in Keys /\ rows[h] = None
         \/ \E w \in Workers : /\ worker[w].at = "put" /\ worker'[w] # worker[w]
                               /\ h \in worker[w].remove \cup worker[w].add]_vars

(* When nobody works on an event or a flow, and CoreHub did not refuse the *)
(* last change to its webhook, CoreHub holds the webhook its row asks for. *)
HubFollowsTable ==
    up => \A k \in Keys : ~InWork(k) /\ k \notin undone => hub[k] = rows[k]

(* Creating and updating a job returns, whatever becomes of the lock.      *)
JobCallsReturn ==
    \A c \in Callers : LoopBusyWith(c) ~> ~LoopBusyWith(c)
=============================================================================
