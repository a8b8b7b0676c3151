--------------------------- MODULE ChainExecution ---------------------------
(***************************************************************************)
(* The chained events of one job: services/chain_execution_service.py and  *)
(* the thread run_job starts for them (services/job_service.py).           *)
(*                                                                         *)
(* Every successful execution of the job starts a run of its chain, in a   *)
(* thread with an event loop of its own.  A SYNC event waits for the       *)
(* webhook by which CoreHub announces that the step before it completed,   *)
(* and is then fired; an ASYNC event is a task nobody waits for.  The runs *)
(* share the class-level registries of callbacks (the keys are event ids)  *)
(* with each other and with the webhook route, which runs in the main      *)
(* event loop.  Step 0 is the job's own command, steps 1..Steps its        *)
(* chained events in order of position.                                    *)
(***************************************************************************)
EXTENDS Integers, FiniteSets

CONSTANTS
    Runs,          \* the runs of the chain
    NoRun,         \* no thread waits
    Chains         \* the chains considered: see IsChain

(* A chain: how many chained events the job has, which positions are SYNC, *)
(* the kinds of announcement that may end each step (none if it completes  *)
(* with its HTTP call), the entities or groups each step works on (for a   *)
(* pipeline-wide step, all of its pipeline), and the SYNC events whose     *)
(* webhook CoreHub holds.                                                  *)
IsChain(ch) ==
    /\ ch.steps \in Nat
    /\ ch.sync \subseteq 1..ch.steps /\ ch.registered \subseteq ch.sync
    /\ DOMAIN ch.event = 0..ch.steps /\ DOMAIN ch.target = 0..ch.steps
    /\ \A k \in 0..ch.steps : ch.target[k] # {}
    /\ \A e \in ch.registered : ch.event[e - 1] # {}

ASSUME ChainsAssumption == \A ch \in Chains : IsChain(ch)
ASSUME NoRunAssumption  == NoRun \notin Runs

VARIABLES
    chain,            \* the job's chain; no run changes it
    pc, at,           \* per run: where the thread is, and at which event
    created,          \* per run: ASYNC tasks created and not started yet
    activeListeners,  \* _active_listeners
    pending,          \* _pending: the run whose threading.Event the key has
    preArrival,       \* _pre_arrival
    signalled,        \* per run: its threading.Event is set
    notify,           \* the callback the webhook route is handling
    ops,              \* CoreHub: operations in progress
    callbacks,        \* CoreHub: callbacks on their way to Chronos
    (* history *)
    fired,            \* <<r, k>>: run r posted step k
    completed,        \* <<r, k, t>>: CoreHub completed step k of run r for t
    fresh             \* per run: keys delivered since its window was opened

threads  == <<pc, at, created>>
registry == <<activeListeners, pending, preArrival, signalled>>
hub      == <<ops, callbacks>>
history  == <<fired, completed, fresh>>
vars     == <<chain, threads, registry, notify, hub, history>>

Steps      == chain.steps
Positions  == 1..Steps
AllSteps   == 0..Steps
Sync       == chain.sync
Event      == chain.event
Target     == chain.target
Registered == chain.registered

(* What CoreHub does: a part of each step for each of its targets.         *)
Targets    == UNION {Target[k] : k \in AllSteps}
Operations == {op \in Runs \X AllSteps \X Targets : op[3] \in Target[op[2]]}
Callbacks  == Sync \X Operations     \* a key, and the operation announced
KeyOf(cb)  == cb[1]

(* The parts of the steps of a run.                                        *)
Work(r, steps) == {op \in Operations : op[1] = r /\ op[2] \in steps}

Idle   == [at |-> "idle"]
Places == {"idle", "parent", "next", "register", "waiting", "fire", "firing", "close", "done"}

InWindow(r) == pc[r] \notin {"idle", "parent", "done"}

Init ==
    /\ chain \in Chains
    /\ pc = [r \in Runs |-> "idle"] /\ at = [r \in Runs |-> 1]
    /\ created = [r \in Runs |-> {}]
    /\ activeListeners = {} /\ preArrival = {}
    /\ pending = [e \in Sync |-> NoRun]
    /\ signalled = [r \in Runs |-> FALSE]
    /\ notify = Idle
    /\ ops = {} /\ callbacks = {}
    /\ fired = {} /\ completed = {}
    /\ fresh = [r \in Runs |-> {}]

-----------------------------------------------------------------------------
(* The thread of a run *)

Goto(r, place) == pc' = [pc EXCEPT ![r] = place]

(* run_job: the job's command has been sent to CoreHub; the chain's thread *)
(* starts once the call has returned and the outcome is committed.         *)
StartRun(r) ==
    /\ pc[r] = "idle"
    /\ Goto(r, "parent")
    /\ ops' = ops \cup Work(r, {0})
    /\ UNCHANGED <<chain, at, created, registry, notify, callbacks, history>>

(* Mutant: what an earlier run left in the buffer stays there.             *)
OpenWindow_keep(r) ==
    /\ pc[r] = "parent"
    /\ Goto(r, "next")
    /\ activeListeners' = activeListeners \cup Sync
    /\ fresh' = [fresh EXCEPT ![r] = {}]
    /\ UNCHANGED <<chain, at, created, pending, preArrival, signalled, notify, hub, fired,
                   completed>>

(* _open_sync_listening_window: from here on callbacks for the SYNC events *)
(* of the chain, for all of them, are accepted.                            *)
OpenWindow(r) ==
    /\ pc[r] = "parent"
    /\ Goto(r, "next")
    /\ preArrival' = preArrival \ Sync
    /\ activeListeners' = activeListeners \cup Sync
    /\ fresh' = [fresh EXCEPT ![r] = {}]
    /\ UNCHANGED <<chain, at, created, pending, signalled, notify, hub, fired, completed>>

AtEvent(r, positions) == pc[r] = "next" /\ at[r] \in positions

(* Mutant: the loop over the events does not stop at the last one.         *)
CreateTask_past(r) ==
    /\ pc[r] = "next" /\ at[r] \notin Sync
    /\ created' = [created EXCEPT ![r] = @ \cup {at[r]}]
    /\ at' = [at EXCEPT ![r] = @ + 1]
    /\ UNCHANGED <<chain, pc, registry, notify, hub, history>>

(* An ASYNC event: a task that starts when the run's loop next waits.      *)
CreateTask(r) ==
    /\ AtEvent(r, Positions \ Sync)
    /\ created' = [created EXCEPT ![r] = @ \cup {at[r]}]
    /\ at' = [at EXCEPT ![r] = @ + 1]
    /\ UNCHANGED <<chain, pc, registry, notify, hub, history>>

(* _execute_sync_event: no wait after a step that completes with its call. *)
SkipWait(r) ==
    /\ AtEvent(r, Sync) /\ Event[at[r] - 1] = {}
    /\ Goto(r, "fire")
    /\ UNCHANGED <<chain, at, created, registry, notify, hub, history>>

(* _wait_for_webhook first looks for a callback that came early.           *)
CheckBuffer(r) ==
    /\ AtEvent(r, Sync) /\ Event[at[r] - 1] # {}
    /\ preArrival' = preArrival \ {at[r]}
    /\ Goto(r, IF at[r] \in preArrival THEN "fire" ELSE "register")
    /\ UNCHANGED <<chain, at, created, activeListeners, pending, signalled, notify, hub,
                   history>>

(* The run's loop is about to wait: the tasks created so far are started   *)
(* and post their steps, of which CoreHub may refuse some.                 *)
StartTasks(r, taken) ==
    /\ taken \subseteq created[r]
    /\ created' = [created EXCEPT ![r] = {}]

(* It then makes an event known under the key and waits for it.            *)
RegisterWaiter(r) ==
    /\ pc[r] = "register"
    /\ \E taken \in SUBSET created[r] :
         /\ StartTasks(r, taken)
         /\ fired' = fired \cup ({r} \X created[r])
         /\ ops' = ops \cup Work(r, taken)
    /\ pending' = [pending EXCEPT ![at[r]] = r]
    /\ signalled' = [signalled EXCEPT ![r] = FALSE]
    /\ Goto(r, "waiting")
    /\ UNCHANGED <<chain, at, activeListeners, preArrival, notify, callbacks, completed, fresh>>

Wake(r) ==
    /\ pc[r] = "waiting" /\ signalled[r]
    /\ pending' = [pending EXCEPT ![at[r]] = NoRun]
    /\ Goto(r, "fire")
    /\ UNCHANGED <<chain, at, created, activeListeners, preArrival, signalled, notify, hub,
                   history>>

(* Mutant: a wait that timed out counts as completed.                      *)
TimeOut_proceed(r) ==
    /\ pc[r] = "waiting" /\ ~signalled[r]
    /\ pending' = [pending EXCEPT ![at[r]] = NoRun]
    /\ Goto(r, "fire")
    /\ UNCHANGED <<chain, at, created, activeListeners, preArrival, signalled, notify, hub,
                   history>>

(* Mutant: the wait ends only while its registration is still in place.    *)
TimeOut_ifRegistered(r) ==
    /\ pc[r] = "waiting" /\ ~signalled[r] /\ pending[at[r]] = r
    /\ pending' = [pending EXCEPT ![at[r]] = NoRun]
    /\ preArrival' = preArrival \ {at[r]}
    /\ Goto(r, "close")
    /\ UNCHANGED <<chain, at, created, activeListeners, signalled, notify, hub, fired,
                   completed, fresh>>

(* webhook_timeout_seconds have passed: the chain stops.                   *)
TimeOut(r) ==
    /\ pc[r] = "waiting" /\ ~signalled[r]
    /\ pending' = [pending EXCEPT ![at[r]] = NoRun]
    /\ preArrival' = preArrival \ {at[r]}
    /\ Goto(r, "close")
    /\ UNCHANGED <<chain, at, created, activeListeners, signalled, notify, hub, fired,
                   completed, fresh>>

(* Mutant: the tasks created before a call are not started by it.          *)
Post_tasksForgotten(r) ==
    /\ pc[r] = "fire"
    /\ \E taken \in SUBSET {at[r]} : ops' = ops \cup Work(r, taken)
    /\ fired' = fired \cup {<<r, at[r]>>}
    /\ Goto(r, "firing")
    /\ UNCHANGED <<chain, at, created, registry, notify, callbacks, completed, fresh>>

(* _execute_event posts the step to the pipeline API; CoreHub may not get  *)
(* it.                                                                     *)
Post(r) ==
    /\ pc[r] = "fire"
    /\ \E taken \in SUBSET (created[r] \cup {at[r]}) :
         /\ StartTasks(r, taken \ {at[r]})
         /\ ops' = ops \cup Work(r, taken)
    /\ fired' = fired \cup ({r} \X (created[r] \cup {at[r]}))
    /\ Goto(r, "firing")
    /\ UNCHANGED <<chain, at, registry, notify, callbacks, completed, fresh>>

(* The answer; a failure, a timeout of the call included, stops the chain. *)
PostReturns(r) ==
    /\ pc[r] = "firing"
    /\ pending' = [pending EXCEPT ![at[r]] = NoRun]
    /\ preArrival' = preArrival \ {at[r]}
    /\ \/ /\ Work(r, {at[r]}) \subseteq ops \cup completed
          /\ at' = [at EXCEPT ![r] = @ + 1]
          /\ Goto(r, "next")
       \/ Goto(r, "close") /\ UNCHANGED at
    /\ UNCHANGED <<chain, created, activeListeners, signalled, notify, hub, history>>

(* Mutant: the window stays open after the chain.                          *)
CloseWindow_never(r) ==
    /\ pc[r] = "close" \/ (pc[r] = "next" /\ at[r] > Steps)
    /\ preArrival' = preArrival \ Sync
    /\ created' = [created EXCEPT ![r] = {}]
    /\ Goto(r, "done")
    /\ UNCHANGED <<chain, at, activeListeners, pending, signalled, notify, hub, history>>

(* _close_sync_listening_window; then asyncio.run ends the loop and the    *)
(* tasks that never started are cancelled.                                 *)
CloseWindow(r) ==
    /\ pc[r] = "close" \/ (pc[r] = "next" /\ at[r] > Steps)
    /\ activeListeners' = activeListeners \ Sync
    /\ preArrival' = preArrival \ Sync
    /\ created' = [created EXCEPT ![r] = {}]
    /\ Goto(r, "done")
    /\ UNCHANGED <<chain, at, pending, signalled, notify, hub, history>>

-----------------------------------------------------------------------------
(* CoreHub and the webhook route *)

(* The webhook of event e listens for the kinds of announcement that may   *)
(* end the step before it, about what e itself works on: the filter of a   *)
(* pipeline-wide event admits every entity and group of its pipeline.      *)
Listens(e, kind, t) == e \in Registered /\ kind \in Event[e - 1] /\ t \in Target[e]

(* The callbacks an announcement of the kind brings.                       *)
Called(op, kind) == {e \in Sync : Listens(e, kind, op[3])} \X {op}

(* A part of a step ends, well or not, and is announced if steps of its    *)
(* task type are.                                                          *)
Complete(op) ==
    /\ op \in ops
    /\ ops' = ops \ {op}
    /\ completed' = completed \cup {op}
    /\ \/ Event[op[2]] = {} /\ UNCHANGED callbacks
       \/ \E kind \in Event[op[2]] : callbacks' = callbacks \cup Called(op, kind)
    /\ UNCHANGED <<chain, threads, registry, notify, fired, fresh>>

(* notify_webhook_received: is anyone listening, and is a thread waiting?  *)
(* A callback may take any time to come, and maxRetries is 0: a lost one   *)
(* is one that never comes.                                                *)
Receive(cb) ==
    /\ cb \in callbacks /\ notify = Idle
    /\ callbacks' = callbacks \ {cb}
    /\ IF KeyOf(cb) \in activeListeners
         THEN notify' = [at |-> "accepted", cb |-> cb, waiter |-> pending[KeyOf(cb)]]
         ELSE UNCHANGED notify
    /\ UNCHANGED <<chain, threads, registry, ops, fired, completed, fresh>>

(* Then the thread's event is set, or the callback is buffered.  Setting   *)
(* an event nobody waits for any more has no effect.                       *)
Deliver ==
    /\ notify # Idle
    /\ LET e == KeyOf(notify.cb)
           w == notify.waiter
       IN  /\ IF w # NoRun
                THEN /\ signalled' = [signalled EXCEPT ![w] =
                                        @ \/ (pc[w] = "waiting" /\ at[w] = e)]
                     /\ UNCHANGED preArrival
                ELSE preArrival' = preArrival \cup {e} /\ UNCHANGED signalled
           /\ fresh' = [r \in Runs |-> fresh[r] \cup IF InWindow(r) THEN {e} ELSE {}]
    /\ notify' = Idle
    /\ UNCHANGED <<chain, threads, activeListeners, pending, hub, fired, completed>>

-----------------------------------------------------------------------------
RunStep(r) ==
    \/ OpenWindow(r) \/ CreateTask(r) \/ SkipWait(r) \/ CheckBuffer(r) \/ RegisterWaiter(r)
    \/ Wake(r) \/ TimeOut(r) \/ Post(r) \/ PostReturns(r) \/ CloseWindow(r)

Next ==
    \/ \E r \in Runs : StartRun(r) \/ RunStep(r)
    \/ \E op \in ops : Complete(op)
    \/ \E cb \in callbacks : Receive(cb)
    \/ Deliver

Spec == Init /\ [][Next]_vars

(* The threads and the main event loop run; every wait and every HTTP call *)
(* has a timeout.  Nothing is assumed of CoreHub.                          *)
FairSpec == /\ Spec
            /\ \A r \in Runs : WF_vars(RunStep(r))
            /\ WF_vars(Deliver)

-----------------------------------------------------------------------------
TypeOK ==
    /\ chain \in Chains
    /\ pc \in [Runs -> Places] /\ at \in [Runs -> 1..(Steps + 1)]
    /\ created \in [Runs -> SUBSET Positions]
    /\ activeListeners \subseteq Sync /\ preArrival \subseteq Sync
    /\ pending \in [Sync -> Runs \cup {NoRun}]
    /\ signalled \in [Runs -> BOOLEAN]
    /\ notify \in {Idle} \cup [at : {"accepted"}, cb : Callbacks, waiter : Runs \cup {NoRun}]
    /\ ops \subseteq Operations /\ completed \subseteq Operations /\ fired \subseteq Runs \X Positions
    /\ callbacks \subseteq Callbacks
    /\ fresh \in [Runs -> SUBSET Sync]

(* A SYNC event is fired only after the step before it, in the same run,   *)
(* has completed for something the event works on (the first of several    *)
(* callbacks is enough), as long as no other run of the job's chain has    *)
(* started (the runs share keys and callbacks) and no other step of the    *)
(* chain may be announced in a way the event's webhook listens for.        *)
Alone(r) == \A q \in Runs \ {r} : pc[q] = "idle"

Unambiguous(e) ==
    \A k \in AllSteps : \A kind \in Event[k], t \in Target[k] : Listens(e, kind, t) => k = e - 1

FiresAfterPreceding ==
    \A r \in Runs, e \in Sync :
        <<r, e>> \in fired /\ Event[e - 1] # {} /\ Alone(r) /\ Unambiguous(e)
            => \E t \in Target[e - 1] \cap Target[e] : <<r, e - 1, t>> \in completed

(* Whatever the runs do to each other's registrations, a SYNC event that   *)
(* has something to wait for is fired only after a callback for it came    *)
(* in since its run opened the window: no leftover of an earlier run is    *)
(* taken for it.                                                           *)
FiresOnFreshCallback ==
    \A r \in Runs, e \in Sync :
        <<r, e>> \in fired /\ Event[e - 1] # {} => e \in fresh[r]

(* When no run has its window open, nobody is listening and nobody waits.  *)
NothingListensOutside ==
    (\A r \in Runs : ~InWindow(r)) =>
        activeListeners = {} /\ \A e \in Sync : pending[e] = NoRun

(* Every chain ends, whatever is lost and however the runs disturb each    *)
(* other.                                                                  *)
ChainEnds == \A r \in Runs : pc[r] # "idle" ~> pc[r] = "done"

(* The comments on _pending and _pre_arrival: an accepted callback wakes   *)
(* the waiter, also when it came before the wait.                          *)
AcknowledgedNotTimedOut ==
    [][\A r \in Runs : pc[r] = "waiting" /\ pc'[r] = "close" => at[r] \notin fresh[r]]_vars

(* ASYNC events are fire-and-forget, but they are fired: once a chain has  *)
(* ended without an error, all of them that a SYNC event follows.          *)
AsyncEventsFired ==
    \A r \in Runs : pc[r] = "done" /\ at[r] > Steps =>
        \A e \in Sync : \A k \in 1..e : <<r, k>> \in fired
=============================================================================
