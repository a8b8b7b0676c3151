------------------------ MODULE ChainExecutionProofs ------------------------
(***************************************************************************)
(* Theorems about ChainExecution, for every set of chains and of runs of   *)
(* one: its types, that a SYNC event is fired only on a callback that came *)
(* since its run began, and, where the keys allow it, after the step       *)
(* before it; that nobody listens when no chain runs; and that a chain     *)
(* that ends well has fired what comes before its last SYNC event.         *)
(***************************************************************************)
EXTENDS ChainExecution, TLAPS

(***************************************************************************)
(* The inductive invariant                                                 *)
(***************************************************************************)

AtSync == {"register", "waiting", "fire", "firing", "close"}

(* A run fires a SYNC event on what was delivered to it since it opened    *)
(* its window.  The buffer holds nothing older than any open window.       *)
OnFresh(r) ==
  /\ pc[r] \in AtSync => at[r] \in Sync
  /\ created[r] \cap Sync = {}
  /\ pc[r] \in {"idle", "parent"} => \A k \in AllSteps : <<r, k>> \notin fired
  /\ InWindow(r) => preArrival \subseteq fresh[r]
  /\ pc[r] = "waiting" /\ signalled[r] => at[r] \in fresh[r]
  /\ pc[r] = "fire" /\ Event[at[r] - 1] # {} => at[r] \in fresh[r]
  /\ \A e \in Sync : <<r, e>> \in fired /\ Event[e - 1] # {} => e \in fresh[r]

(* What a run passed it has fired, or it is a task created since the last  *)
(* SYNC event.                                                             *)
InSequence(r) ==
  /\ pc[r] \in {"idle", "parent"} => at[r] = 1 /\ created[r] = {}
  /\ pc[r] # "done" =>
       /\ \A k \in 1 .. at[r] - 1 : <<r, k>> \in fired \/ k \in created[r]
       /\ \A k \in created[r] : k < at[r] /\ \A e \in Sync : e < at[r] => e < k
  /\ pc[r] = "firing" => created[r] = {} /\ <<r, at[r]>> \in fired
  /\ pc[r] = "done" /\ at[r] > Steps =>
       \A e \in Sync : \A k \in 1 .. e : <<r, k>> \in fired

OfRun(r) == OnFresh(r) /\ InSequence(r)

SomebodyListens == activeListeners # {} => \E r \in Runs : InWindow(r)

WaitersWait ==
  \A e \in Sync : pending[e] # NoRun => pc[pending[e]] = "waiting" /\ at[pending[e]] = e

(* Callbacks announce what completed, to those who listen for it.          *)
Announces(cb) ==
  /\ cb[2] \in completed
  /\ \E kind \in Event[cb[2][2]] : Listens(cb[1], kind, cb[2][3])

Ended(r, e) == \E t \in Target[e - 1] \cap Target[e] : <<r, e - 1, t>> \in completed

Announced ==
  /\ \A cb \in callbacks : Announces(cb)
  /\ notify # Idle => Announces(notify.cb)

OfStarted == \A op \in ops \cup completed : pc[op[1]] # "idle"

(* What was delivered to a run that is alone is the end of its own step.   *)
FreshIsOwn ==
  \A r \in Runs : \A e \in fresh[r] :
    Alone(r) /\ Unambiguous(e) => Ended(r, e)

Shared == SomebodyListens /\ WaitersWait /\ Announced /\ OfStarted /\ FreshIsOwn

IInv == TypeOK /\ (\A r \in Runs : OfRun(r)) /\ Shared

(***************************************************************************)
(* Helpers                                                                 *)
(***************************************************************************)

LEMMA ChainFacts ==
  ASSUME TypeOK
  PROVE  /\ Steps \in Nat /\ Sync \subseteq 1 .. Steps /\ Registered \subseteq Sync
         /\ \A e \in Sync : e \in Nat /\ e \in Positions /\ e \in AllSteps /\ e - 1 \in AllSteps
  BY ChainsAssumption
  DEF TypeOK, IsChain, Steps, Sync, Registered, Positions, AllSteps

LEMMA SameChain ==
  ASSUME chain' = chain
  PROVE  /\ Steps' = Steps /\ Sync' = Sync /\ Event' = Event /\ Target' = Target
         /\ Registered' = Registered /\ Positions' = Positions /\ AllSteps' = AllSteps
         /\ Operations' = Operations /\ Callbacks' = Callbacks
<1>1. /\ Steps' = Steps /\ Sync' = Sync /\ Event' = Event /\ Target' = Target
      /\ Registered' = Registered /\ Positions' = Positions /\ AllSteps' = AllSteps
  BY DEF Steps, Sync, Event, Target, Registered, Positions, AllSteps
<1>2. Targets' = Targets
  BY <1>1 DEF Targets
<1>3. Operations' = Operations
  BY <1>1, <1>2 DEF Operations
<1> QED
  BY <1>1, <1>3 DEF Callbacks

(* A run does not depend on where the others are.                          *)
LEMMA Kept ==
  ASSUME NEW r \in Runs, OfRun(r), chain' = chain,
         pc'[r] = pc[r], at'[r] = at[r], created'[r] = created[r],
         signalled'[r] = signalled[r], fresh'[r] = fresh[r],
         preArrival' \subseteq preArrival,
         \A k \in AllSteps : <<r, k>> \in fired' <=> <<r, k>> \in fired,
         TypeOK
  PROVE  OfRun(r)'
<1>1. /\ Steps' = Steps /\ Sync' = Sync /\ Event' = Event /\ AllSteps' = AllSteps
  BY SameChain
<1>2. /\ Steps \in Nat /\ Sync \subseteq AllSteps /\ at[r] \in 1 .. Steps + 1
      /\ created[r] \subseteq AllSteps /\ \A e \in Sync : 1 .. e \subseteq AllSteps
  BY ChainFacts DEF TypeOK, Positions, AllSteps
<1>3. OnFresh(r)'
  BY <1>1, <1>2 DEF OfRun, OnFresh, InWindow
<1>4. \A k \in 1 .. at[r] - 1 : k \in AllSteps
  BY <1>2 DEF AllSteps
<1>5. InSequence(r)'
  <2>1. pc[r] \in {"idle", "parent"} => at'[r] = 1 /\ created'[r] = {}
    BY DEF OfRun, InSequence
  <2>2. pc[r] # "done" =>
          /\ \A k \in 1 .. at'[r] - 1 : <<r, k>> \in fired' \/ k \in created'[r]
          /\ \A k \in created'[r] : k < at'[r] /\ \A e \in Sync : e < at'[r] => e < k
    BY <1>4 DEF OfRun, InSequence
  <2>3. pc[r] = "firing" => created'[r] = {} /\ <<r, at'[r]>> \in fired'
    <3>1. pc[r] = "firing" => at[r] \in AllSteps
      BY <1>2 DEF OfRun, OnFresh, AtSync
    <3> QED
      BY <3>1 DEF OfRun, InSequence
  <2>4. pc[r] = "done" /\ at'[r] > Steps =>
          \A e \in Sync : \A k \in 1 .. e : <<r, k>> \in fired'
    BY <1>2 DEF OfRun, InSequence
  <2> QED
    BY <1>1, <2>1, <2>2, <2>3, <2>4 DEF InSequence
<1> QED
  BY <1>3, <1>5 DEF OfRun

(* What the runs and CoreHub share, when a run moves within its window.    *)
LEMMA SharedKept ==
  ASSUME IInv, NEW r \in Runs, chain' = chain,
         \A q \in Runs \ {r} : pc'[q] = pc[q] /\ at'[q] = at[q],
         pc'[r] # "idle", InWindow(r) => InWindow(r)' \/ activeListeners' = {},
         activeListeners' \subseteq activeListeners \/ InWindow(r)',
         \A e \in Sync : pending'[e] \in {pending[e], NoRun}
                         \/ (pending'[e] = r /\ pc'[r] = "waiting" /\ at'[r] = e),
         \A e \in Sync : pending'[e] = r => pc'[r] = "waiting" /\ at'[r] = e,
         callbacks' = callbacks, notify' = notify, completed' = completed,
         \A q \in Runs : fresh'[q] \subseteq fresh[q],
         \A op \in ops' : op \in ops \/ op[1] = r
  PROVE  Shared'
<1>1. /\ Sync' = Sync /\ Event' = Event /\ AllSteps' = AllSteps /\ Registered' = Registered
      /\ Target' = Target
  BY SameChain
<1>2. SomebodyListens'
  BY DEF IInv, Shared, SomebodyListens, InWindow
<1>3. WaitersWait'
  <2> SUFFICES ASSUME NEW e \in Sync, pending'[e] # NoRun
               PROVE  pc'[pending'[e]] = "waiting" /\ at'[pending'[e]] = e
    BY <1>1 DEF WaitersWait
  <2>1. pending[e] \in Runs \cup {NoRun}
    BY DEF IInv, TypeOK
  <2> QED
    BY <2>1 DEF IInv, Shared, WaitersWait
<1>4. \A cb : Announces(cb) => Announces(cb)'
  BY <1>1 DEF Announces, Listens
<1>5. Announced'
  BY <1>4 DEF IInv, Shared, Announced, Idle
<1>6. OfStarted'
  <2> SUFFICES ASSUME NEW op \in ops' \cup completed' PROVE pc'[op[1]] # "idle"
    BY DEF OfStarted
  <2>1. CASE op[1] = r
    BY <2>1
  <2>2. CASE op[1] # r
    <3>1. op \in ops \cup completed /\ op[1] \in Runs
      BY <2>2 DEF IInv, TypeOK, Operations
    <3> QED
      BY <2>2, <3>1 DEF IInv, Shared, OfStarted
  <2> QED
    BY <2>1, <2>2
<1>7. FreshIsOwn'
  <2> SUFFICES ASSUME NEW q \in Runs, NEW e \in fresh'[q], Alone(q)', Unambiguous(e)'
               PROVE  Ended(q, e)'
    BY DEF FreshIsOwn
  <2>1. Unambiguous(e)
    BY <1>1 DEF Unambiguous, Listens
  <2>2. Alone(q)
    BY DEF Alone
  <2> QED
    BY <1>1, <2>1, <2>2 DEF IInv, Shared, FreshIsOwn, Ended
<1> QED
  BY <1>2, <1>3, <1>5, <1>6, <1>7 DEF Shared

LEMMA NotWaiting ==
  ASSUME IInv, NEW r \in Runs, pc[r] # "waiting"
  PROVE  \A e \in Sync : pending[e] # r
  BY NoRunAssumption DEF IInv, Shared, WaitersWait

(***************************************************************************)
(* The steps of a run                                                      *)
(***************************************************************************)

(* A step of a run that keeps what is its own and what is shared.          *)
LEMMA RunStepKeeps ==
  ASSUME IInv, NEW r \in Runs, chain' = chain, TypeOK', OfRun(r)', Shared',
         \A q \in Runs \ {r} : /\ pc'[q] = pc[q] /\ at'[q] = at[q] /\ created'[q] = created[q]
                               /\ signalled'[q] = signalled[q] /\ fresh'[q] = fresh[q],
         preArrival' \subseteq preArrival,
         \A q \in Runs \ {r}, k \in AllSteps : <<q, k>> \in fired' <=> <<q, k>> \in fired
  PROVE  IInv'
<1>1. \A q \in Runs \ {r} : OfRun(q)'
  BY Kept DEF IInv
<1> QED
  BY <1>1 DEF IInv

LEMMA StartRunStep ==
  ASSUME IInv, NEW r \in Runs, StartRun(r)
  PROVE  IInv'
<1>1. /\ UNCHANGED <<chain, at, created, activeListeners, pending, preArrival, signalled,
                     notify, callbacks, fired, completed, fresh>>
      /\ pc \in [Runs -> Places] /\ pc[r] = "idle" /\ pc' = [pc EXCEPT ![r] = "parent"]
      /\ ops' = ops \cup Work(r, {0})
  BY DEF StartRun, Goto, registry, history, IInv, TypeOK
<1>2. /\ pc' \in [Runs -> Places] /\ pc'[r] = "parent"
      /\ \A q \in Runs \ {r} : pc'[q] = pc[q]
  BY <1>1 DEF Places
<1>3. Work(r, {0}) \subseteq Operations /\ \A op \in Work(r, {0}) : op[1] = r
  BY DEF Work
<1>4. TypeOK'
  BY <1>1, <1>2, <1>3, SameChain DEF IInv, TypeOK
<1>5. OfRun(r)'
  BY <1>1, <1>2, SameChain DEF IInv, OfRun, OnFresh, InSequence, InWindow, AtSync
<1>6. Shared'
  BY <1>1, <1>2, <1>3, SharedKept, NotWaiting DEF InWindow
<1> QED
  BY <1>1, <1>2, <1>4, <1>5, <1>6, RunStepKeeps

LEMMA OpenWindowStep ==
  ASSUME IInv, NEW r \in Runs, OpenWindow(r)
  PROVE  IInv'
<1>1. /\ UNCHANGED <<chain, at, created, pending, signalled, notify, ops, callbacks,
                     fired, completed>>
      /\ pc \in [Runs -> Places] /\ pc[r] = "parent" /\ pc' = [pc EXCEPT ![r] = "next"]
      /\ preArrival' = preArrival \ Sync /\ activeListeners' = activeListeners \cup Sync
      /\ fresh \in [Runs -> SUBSET Sync] /\ fresh' = [fresh EXCEPT ![r] = {}]
  BY DEF OpenWindow, Goto, hub, IInv, TypeOK
<1>2. /\ pc' \in [Runs -> Places] /\ pc'[r] = "next" /\ fresh' \in [Runs -> SUBSET Sync]
      /\ fresh'[r] = {} /\ preArrival' = {} /\ activeListeners' = Sync
      /\ \A q \in Runs \ {r} : pc'[q] = pc[q] /\ fresh'[q] = fresh[q]
  BY <1>1 DEF Places, IInv, TypeOK
<1>3. TypeOK'
  BY <1>1, <1>2, SameChain DEF IInv, TypeOK
<1>4. OfRun(r)'
  <2>1. \A e \in Sync : e \in AllSteps
    BY ChainFacts DEF IInv
  <2>2. OnFresh(r)'
    BY <1>1, <1>2, <2>1, SameChain DEF IInv, OfRun, OnFresh, InWindow, AtSync
  <2>3. InSequence(r)'
    BY <1>1, <1>2, SameChain DEF IInv, OfRun, InSequence
  <2> QED
    BY <2>2, <2>3 DEF OfRun
<1>5. Shared'
  BY <1>1, <1>2, SharedKept, NotWaiting DEF InWindow
<1> QED
  BY <1>1, <1>2, <1>3, <1>4, <1>5, RunStepKeeps

LEMMA CreateTaskStep ==
  ASSUME IInv, NEW r \in Runs, CreateTask(r)
  PROVE  IInv'
<1>1. /\ UNCHANGED <<chain, pc, activeListeners, pending, preArrival, signalled,
                     notify, ops, callbacks, fired, completed, fresh>>
      /\ pc[r] = "next" /\ at[r] \in Positions \ Sync
      /\ created' = [created EXCEPT ![r] = @ \cup {at[r]}]
      /\ at' = [at EXCEPT ![r] = @ + 1]
      /\ at \in [Runs -> 1 .. (Steps + 1)] /\ created \in [Runs -> SUBSET Positions]
  BY DEF CreateTask, AtEvent, registry, hub, history, IInv, TypeOK
<1>2. Steps \in Nat /\ \A e \in Sync : e \in Nat
  BY ChainFacts DEF IInv
<1>3. /\ at' \in [Runs -> 1 .. (Steps + 1)] /\ created' \in [Runs -> SUBSET Positions]
      /\ at'[r] = at[r] + 1 /\ created'[r] = created[r] \cup {at[r]}
      /\ \A q \in Runs \ {r} : at'[q] = at[q] /\ created'[q] = created[q]
  BY <1>1, <1>2 DEF Positions
<1>4. TypeOK'
  BY <1>1, <1>3, SameChain DEF IInv, TypeOK
<1>5. OnFresh(r)'
  BY <1>1, <1>3, SameChain DEF IInv, OfRun, OnFresh, InWindow, AtSync
<1>6. InSequence(r)'
  <2>1. /\ \A k \in 1 .. at[r] - 1 : <<r, k>> \in fired \/ k \in created[r]
        /\ \A k \in created[r] : k < at[r] /\ \A e \in Sync : e < at[r] => e < k
    BY <1>1 DEF IInv, OfRun, InSequence
  <2>2. at[r] \in Nat /\ created[r] \subseteq Nat
    BY <1>1, <1>2 DEF Positions
  <2>3. \A k \in 1 .. at'[r] - 1 : <<r, k>> \in fired \/ k \in created'[r]
    BY <1>3, <2>1, <2>2
  <2>4. \A k \in created'[r] : k < at'[r] /\ \A e \in Sync : e < at'[r] => e < k
    BY <1>1, <1>2, <1>3, <2>1, <2>2
  <2> QED
    BY <1>1, <2>3, <2>4, SameChain DEF InSequence
<1>7. Shared'
  BY <1>1, <1>3, SharedKept, NotWaiting DEF InWindow
<1> QED
  BY <1>1, <1>3, <1>4, <1>5, <1>6, <1>7, RunStepKeeps DEF OfRun

LEMMA SkipWaitStep ==
  ASSUME IInv, NEW r \in Runs, SkipWait(r)
  PROVE  IInv'
<1>1. /\ UNCHANGED <<chain, at, created, activeListeners, pending, preArrival, signalled,
                     notify, ops, callbacks, fired, completed, fresh>>
      /\ pc \in [Runs -> Places] /\ pc[r] = "next" /\ pc' = [pc EXCEPT ![r] = "fire"]
      /\ at[r] \in Sync /\ Event[at[r] - 1] = {}
  BY DEF SkipWait, AtEvent, Goto, registry, hub, history, IInv, TypeOK
<1>2. /\ pc' \in [Runs -> Places] /\ pc'[r] = "fire"
      /\ \A q \in Runs \ {r} : pc'[q] = pc[q]
  BY <1>1 DEF Places
<1>3. TypeOK'
  BY <1>1, <1>2, SameChain DEF IInv, TypeOK
<1>4. OfRun(r)'
  BY <1>1, <1>2, SameChain DEF IInv, OfRun, OnFresh, InSequence, InWindow, AtSync
<1>5. Shared'
  BY <1>1, <1>2, SharedKept, NotWaiting DEF InWindow
<1> QED
  BY <1>1, <1>2, <1>3, <1>4, <1>5, RunStepKeeps

LEMMA CheckBufferStep ==
  ASSUME IInv, NEW r \in Runs, CheckBuffer(r)
  PROVE  IInv'
<1>1. /\ UNCHANGED <<chain, at, created, activeListeners, pending, signalled,
                     notify, ops, callbacks, fired, completed, fresh>>
      /\ pc \in [Runs -> Places] /\ pc[r] = "next" /\ at[r] \in Sync
      /\ preArrival' = preArrival \ {at[r]}
      /\ pc' = [pc EXCEPT ![r] = IF at[r] \in preArrival THEN "fire" ELSE "register"]
  BY DEF CheckBuffer, AtEvent, Goto, hub, history, IInv, TypeOK
<1>2. /\ pc' \in [Runs -> Places]
      /\ pc'[r] = IF at[r] \in preArrival THEN "fire" ELSE "register"
      /\ \A q \in Runs \ {r} : pc'[q] = pc[q]
  BY <1>1 DEF Places
<1>3. TypeOK'
  BY <1>1, <1>2, SameChain DEF IInv, TypeOK
<1>4. OfRun(r)'
  BY <1>1, <1>2, SameChain DEF IInv, OfRun, OnFresh, InSequence, InWindow, AtSync
<1>5. Shared'
  BY <1>1, <1>2, SharedKept, NotWaiting DEF InWindow
<1> QED
  BY <1>1, <1>2, <1>3, <1>4, <1>5, RunStepKeeps

(* The tasks of the run are fired; those CoreHub takes are in progress.    *)
LEMMA Posted ==
  ASSUME TypeOK, NEW r \in Runs, NEW ks \in SUBSET Positions, NEW taken,
         fired' = fired \cup ({r} \X ks), ops' = ops \cup Work(r, taken)
  PROVE  /\ fired' \subseteq Runs \X Positions /\ ops' \subseteq Operations
         /\ \A k \in AllSteps : <<r, k>> \in fired' <=> <<r, k>> \in fired \/ k \in ks
         /\ \A q \in Runs \ {r}, k \in AllSteps : <<q, k>> \in fired' <=> <<q, k>> \in fired
         /\ \A op \in ops' : op \in ops \/ op[1] = r
<1>1. fired' \subseteq Runs \X Positions
  BY DEF TypeOK
<1>2. \A q \in Runs, k \in AllSteps : <<q, k>> \in {r} \X ks <=> q = r /\ k \in ks
  OBVIOUS
<1>3. ops' \subseteq Operations /\ \A op \in ops' : op \in ops \/ op[1] = r
  BY DEF TypeOK, Work
<1> QED
  BY <1>1, <1>2, <1>3

LEMMA RegisterWaiterStep ==
  ASSUME IInv, NEW r \in Runs, RegisterWaiter(r)
  PROVE  IInv'
<1>1. /\ UNCHANGED <<chain, at, activeListeners, preArrival, notify, callbacks, completed,
                     fresh>>
      /\ pc \in [Runs -> Places] /\ pc[r] = "register" /\ pc' = [pc EXCEPT ![r] = "waiting"]
      /\ pending' = [pending EXCEPT ![at[r]] = r]
      /\ signalled' = [signalled EXCEPT ![r] = FALSE]
      /\ created' = [created EXCEPT ![r] = {}]
      /\ fired' = fired \cup ({r} \X created[r])
      /\ created \in [Runs -> SUBSET Positions] /\ signalled \in [Runs -> BOOLEAN]
      /\ pending \in [Sync -> Runs \cup {NoRun}]
  BY DEF RegisterWaiter, StartTasks, Goto, IInv, TypeOK
<1>2. PICK taken \in SUBSET created[r] : ops' = ops \cup Work(r, taken)
  BY DEF RegisterWaiter
<1>3. at[r] \in Sync
  BY <1>1 DEF IInv, OfRun, OnFresh, AtSync
<1>4. /\ pc' \in [Runs -> Places] /\ pc'[r] = "waiting"
      /\ created' \in [Runs -> SUBSET Positions] /\ created'[r] = {}
      /\ signalled' \in [Runs -> BOOLEAN] /\ ~signalled'[r]
      /\ pending' \in [Sync -> Runs \cup {NoRun}] /\ pending'[at[r]] = r
      /\ \A e \in Sync \ {at[r]} : pending'[e] = pending[e]
      /\ \A q \in Runs \ {r} : /\ pc'[q] = pc[q] /\ created'[q] = created[q]
                               /\ signalled'[q] = signalled[q]
  BY <1>1, <1>3 DEF Places
<1>5. created[r] \subseteq Positions /\ created[r] \subseteq AllSteps /\ Steps \in Nat
  BY <1>1, ChainFacts DEF IInv, Positions, AllSteps
<1>6. /\ fired' \subseteq Runs \X Positions /\ ops' \subseteq Operations
      /\ \A k \in AllSteps : <<r, k>> \in fired' <=> <<r, k>> \in fired \/ k \in created[r]
      /\ \A q \in Runs \ {r}, k \in AllSteps : <<q, k>> \in fired' <=> <<q, k>> \in fired
      /\ \A op \in ops' : op \in ops \/ op[1] = r
  <2> DEFINE ks == created[r]
  <2>1. ks \in SUBSET Positions /\ TypeOK
    BY <1>5 DEF IInv
  <2>2. fired' = fired \cup ({r} \X ks)
    BY <1>1
  <2> HIDE DEF ks
  <2>3. /\ fired' \subseteq Runs \X Positions /\ ops' \subseteq Operations
        /\ \A k \in AllSteps : <<r, k>> \in fired' <=> <<r, k>> \in fired \/ k \in ks
        /\ \A q \in Runs \ {r}, k \in AllSteps : <<q, k>> \in fired' <=> <<q, k>> \in fired
        /\ \A op \in ops' : op \in ops \/ op[1] = r
    BY <1>2, <2>1, <2>2, Posted
  <2> QED
    BY <2>3 DEF ks
<1>7. TypeOK'
  BY <1>1, <1>4, <1>6, SameChain DEF IInv, TypeOK
<1>8. /\ \A e \in Sync : e \in AllSteps /\ e \in Nat
      /\ \A k \in 1 .. at[r] - 1 : k \in AllSteps
  BY <1>3, <1>5, ChainFacts DEF IInv, AllSteps
<1>9. OnFresh(r)'
  BY <1>1, <1>3, <1>4, <1>6, <1>8, SameChain DEF IInv, OfRun, OnFresh, InWindow, AtSync
<1>10. InSequence(r)'
  BY <1>1, <1>4, <1>6, <1>8, SameChain DEF IInv, OfRun, InSequence
<1>11. Shared'
  BY <1>1, <1>3, <1>4, <1>6, SharedKept, NotWaiting DEF InWindow
<1> QED
  BY <1>1, <1>4, <1>6, <1>7, <1>9, <1>10, <1>11, RunStepKeeps DEF OfRun

LEMMA WakeStep ==
  ASSUME IInv, NEW r \in Runs, Wake(r)
  PROVE  IInv'
<1>1. /\ UNCHANGED <<chain, at, created, activeListeners, preArrival, signalled, notify,
                     ops, callbacks, fired, completed, fresh>>
      /\ pc \in [Runs -> Places] /\ pc[r] = "waiting" /\ pc' = [pc EXCEPT ![r] = "fire"]
      /\ signalled[r] /\ pending \in [Sync -> Runs \cup {NoRun}]
      /\ pending' = [pending EXCEPT ![at[r]] = NoRun]
  BY DEF Wake, Goto, hub, history, IInv, TypeOK
<1>2. at[r] \in Sync
  BY <1>1 DEF IInv, OfRun, OnFresh, AtSync
<1>3. /\ pc' \in [Runs -> Places] /\ pc'[r] = "fire"
      /\ pending' \in [Sync -> Runs \cup {NoRun}] /\ pending'[at[r]] = NoRun
      /\ \A e \in Sync \ {at[r]} : pending'[e] = pending[e]
      /\ \A q \in Runs \ {r} : pc'[q] = pc[q]
  BY <1>1, <1>2 DEF Places
<1>4. TypeOK'
  BY <1>1, <1>3, SameChain DEF IInv, TypeOK
<1>5. OfRun(r)'
  BY <1>1, <1>3, SameChain DEF IInv, OfRun, OnFresh, InSequence, InWindow, AtSync
<1>6. \A e \in Sync : pending'[e] # r
  BY <1>2, <1>3, NoRunAssumption DEF IInv, Shared, WaitersWait
<1>7. Shared'
  BY <1>1, <1>3, <1>6, SharedKept DEF InWindow
<1> QED
  BY <1>1, <1>3, <1>4, <1>5, <1>7, RunStepKeeps

LEMMA TimeOutStep ==
  ASSUME IInv, NEW r \in Runs, TimeOut(r)
  PROVE  IInv'
<1>1. /\ UNCHANGED <<chain, at, created, activeListeners, signalled, notify,
                     ops, callbacks, fired, completed, fresh>>
      /\ pc \in [Runs -> Places] /\ pc[r] = "waiting" /\ pc' = [pc EXCEPT ![r] = "close"]
      /\ pending \in [Sync -> Runs \cup {NoRun}]
      /\ pending' = [pending EXCEPT ![at[r]] = NoRun]
      /\ preArrival' = preArrival \ {at[r]}
  BY DEF TimeOut, Goto, hub, history, IInv, TypeOK
<1>2. at[r] \in Sync
  BY <1>1 DEF IInv, OfRun, OnFresh, AtSync
<1>3. /\ pc' \in [Runs -> Places] /\ pc'[r] = "close"
      /\ pending' \in [Sync -> Runs \cup {NoRun}] /\ pending'[at[r]] = NoRun
      /\ \A e \in Sync \ {at[r]} : pending'[e] = pending[e]
      /\ \A q \in Runs \ {r} : pc'[q] = pc[q]
  BY <1>1, <1>2 DEF Places
<1>4. TypeOK'
  BY <1>1, <1>3, SameChain DEF IInv, TypeOK
<1>5. OfRun(r)'
  BY <1>1, <1>3, SameChain DEF IInv, OfRun, OnFresh, InSequence, InWindow, AtSync
<1>6. \A e \in Sync : pending'[e] # r
  BY <1>2, <1>3, NoRunAssumption DEF IInv, Shared, WaitersWait
<1>7. Shared'
  BY <1>1, <1>3, <1>6, SharedKept DEF InWindow
<1> QED
  BY <1>1, <1>3, <1>4, <1>5, <1>7, RunStepKeeps

LEMMA PostStep ==
  ASSUME IInv, NEW r \in Runs, Post(r)
  PROVE  IInv'
<1> DEFINE ks == created[r] \cup {at[r]}
<1>1. /\ UNCHANGED <<chain, at, activeListeners, pending, preArrival, signalled, notify,
                     callbacks, completed, fresh>>
      /\ pc \in [Runs -> Places] /\ pc[r] = "fire" /\ pc' = [pc EXCEPT ![r] = "firing"]
      /\ created' = [created EXCEPT ![r] = {}]
      /\ fired' = fired \cup ({r} \X ks)
      /\ created \in [Runs -> SUBSET Positions]
  BY DEF Post, StartTasks, Goto, registry, IInv, TypeOK
<1>2. PICK taken \in SUBSET ks : ops' = ops \cup Work(r, taken)
  BY DEF Post
<1>3. at[r] \in Sync
  BY <1>1 DEF IInv, OfRun, OnFresh, AtSync
<1>4. /\ pc' \in [Runs -> Places] /\ pc'[r] = "firing"
      /\ created' \in [Runs -> SUBSET Positions] /\ created'[r] = {}
      /\ \A q \in Runs \ {r} : pc'[q] = pc[q] /\ created'[q] = created[q]
  BY <1>1 DEF Places
<1>5. ks \subseteq Positions /\ ks \subseteq AllSteps /\ Steps \in Nat
  BY <1>1, <1>3, ChainFacts DEF IInv, Positions, AllSteps
<1> HIDE DEF ks
<1>6. /\ fired' \subseteq Runs \X Positions /\ ops' \subseteq Operations
      /\ \A k \in AllSteps : <<r, k>> \in fired' <=> <<r, k>> \in fired \/ k \in ks
      /\ \A q \in Runs \ {r}, k \in AllSteps : <<q, k>> \in fired' <=> <<q, k>> \in fired
      /\ \A op \in ops' : op \in ops \/ op[1] = r
  BY <1>1, <1>2, <1>5, Posted DEF IInv
<1>7. TypeOK'
  BY <1>1, <1>4, <1>6, SameChain DEF IInv, TypeOK
<1>8. /\ \A e \in Sync : e \in AllSteps /\ e \in Nat
      /\ \A k \in 1 .. at[r] - 1 : k \in AllSteps
  BY <1>3, <1>5, ChainFacts DEF IInv, AllSteps
<1>9. OnFresh(r)'
  <2>1. \A e \in Sync : e \in ks => e = at[r]
    BY DEF IInv, OfRun, OnFresh, ks
  <2> QED
    BY <1>1, <1>3, <1>4, <1>6, <1>8, <2>1, SameChain
    DEF IInv, OfRun, OnFresh, InWindow, AtSync
<1>10. InSequence(r)'
  <2>1. \A k \in 1 .. at[r] - 1 : <<r, k>> \in fired'
    BY <1>1, <1>6, <1>8 DEF IInv, OfRun, InSequence, ks
  <2>2. <<r, at[r]>> \in fired'
    BY <1>3, <1>6, <1>8 DEF ks
  <2> QED
    BY <1>1, <1>4, <2>1, <2>2, SameChain DEF InSequence
<1>11. Shared'
  BY <1>1, <1>4, <1>6, SharedKept, NotWaiting DEF InWindow
<1> QED
  BY <1>1, <1>4, <1>6, <1>7, <1>9, <1>10, <1>11, RunStepKeeps DEF OfRun

LEMMA PostReturnsStep ==
  ASSUME IInv, NEW r \in Runs, PostReturns(r)
  PROVE  IInv'
<1>1. /\ UNCHANGED <<chain, created, activeListeners, signalled, notify,
                     ops, callbacks, fired, completed, fresh>>
      /\ pc \in [Runs -> Places] /\ pc[r] = "firing"
      /\ \/ at' = [at EXCEPT ![r] = @ + 1] /\ pc' = [pc EXCEPT ![r] = "next"]
         \/ at' = at /\ pc' = [pc EXCEPT ![r] = "close"]
      /\ pending \in [Sync -> Runs \cup {NoRun}]
      /\ pending' = [pending EXCEPT ![at[r]] = NoRun]
      /\ preArrival' = preArrival \ {at[r]}
      /\ at \in [Runs -> 1 .. (Steps + 1)]
  BY DEF PostReturns, Goto, hub, history, IInv, TypeOK
<1>2. at[r] \in Sync /\ at[r] \in 1 .. Steps /\ Steps \in Nat
  BY <1>1, ChainFacts DEF IInv, OfRun, OnFresh, AtSync
<1>3. /\ pc' \in [Runs -> Places] /\ at' \in [Runs -> 1 .. (Steps + 1)]
      /\ (pc'[r] = "next" /\ at'[r] = at[r] + 1) \/ (pc'[r] = "close" /\ at'[r] = at[r])
      /\ pending' \in [Sync -> Runs \cup {NoRun}] /\ pending'[at[r]] = NoRun
      /\ \A e \in Sync \ {at[r]} : pending'[e] = pending[e]
      /\ \A q \in Runs \ {r} : pc'[q] = pc[q] /\ at'[q] = at[q]
  BY <1>1, <1>2 DEF Places
<1>4. TypeOK'
  BY <1>1, <1>3, SameChain DEF IInv, TypeOK
<1>5. OnFresh(r)'
  BY <1>1, <1>2, <1>3, SameChain DEF IInv, OfRun, OnFresh, InWindow, AtSync
<1>6. InSequence(r)'
  <2>1. /\ \A k \in 1 .. at[r] - 1 : <<r, k>> \in fired \/ k \in created[r]
        /\ created[r] = {} /\ <<r, at[r]>> \in fired
    BY <1>1 DEF IInv, OfRun, InSequence
  <2>2. \A k \in 1 .. at[r] : <<r, k>> \in fired
    BY <1>2, <2>1
  <2> QED
    BY <1>1, <1>2, <1>3, <2>1, <2>2, SameChain DEF InSequence
<1>7. \A e \in Sync : pending'[e] # r
  BY <1>1, <1>2, <1>3, NotWaiting, NoRunAssumption
<1>8. Shared'
  BY <1>1, <1>3, <1>7, SharedKept DEF InWindow
<1> QED
  BY <1>1, <1>3, <1>4, <1>5, <1>6, <1>8, RunStepKeeps DEF OfRun

LEMMA CloseWindowStep ==
  ASSUME IInv, NEW r \in Runs, CloseWindow(r)
  PROVE  IInv'
<1>1. /\ UNCHANGED <<chain, at, pending, signalled, notify, ops, callbacks, fired,
                     completed, fresh>>
      /\ pc \in [Runs -> Places] /\ (pc[r] = "close" \/ (pc[r] = "next" /\ at[r] > Steps))
      /\ pc' = [pc EXCEPT ![r] = "done"]
      /\ activeListeners' = activeListeners \ Sync /\ preArrival' = preArrival \ Sync
      /\ created' = [created EXCEPT ![r] = {}] /\ created \in [Runs -> SUBSET Positions]
  BY DEF CloseWindow, Goto, hub, history, IInv, TypeOK
<1>2. /\ pc' \in [Runs -> Places] /\ pc'[r] = "done" /\ activeListeners' = {}
      /\ created' \in [Runs -> SUBSET Positions] /\ created'[r] = {} /\ preArrival' = {}
      /\ \A q \in Runs \ {r} : pc'[q] = pc[q] /\ created'[q] = created[q]
  BY <1>1 DEF Places, IInv, TypeOK
<1>3. TypeOK'
  BY <1>1, <1>2, SameChain DEF IInv, TypeOK
<1>4. OnFresh(r)'
  BY <1>1, <1>2, SameChain DEF IInv, OfRun, OnFresh, InWindow, AtSync
<1>5. InSequence(r)'
  <2>1. Steps \in Nat /\ Sync \subseteq 1 .. Steps /\ at[r] \in Nat
    BY ChainFacts DEF IInv, TypeOK
  <2>2. at[r] > Steps => \A e \in Sync : \A k \in 1 .. e : <<r, k>> \in fired
    <3> SUFFICES ASSUME at[r] > Steps, NEW e \in Sync, NEW k \in 1 .. e
                 PROVE  <<r, k>> \in fired
      OBVIOUS
    <3>1. pc[r] = "next"
      BY <1>1, <2>1 DEF IInv, OfRun, OnFresh, AtSync
    <3>2. e < at[r] /\ k \in 1 .. at[r] - 1 /\ ~(e < k)
      BY <2>1
    <3> QED
      BY <3>1, <3>2 DEF IInv, OfRun, InSequence
  <2> QED
    BY <1>1, <1>2, <2>2, SameChain DEF InSequence
<1>6. Shared'
  BY <1>1, <1>2, SharedKept, NotWaiting DEF InWindow
<1> QED
  BY <1>1, <1>2, <1>3, <1>4, <1>5, <1>6, RunStepKeeps DEF OfRun

(***************************************************************************)
(* CoreHub and the webhook route                                           *)
(***************************************************************************)

LEMMA CompleteStep ==
  ASSUME IInv, NEW op \in ops, Complete(op)
  PROVE  IInv'
<1>1. /\ UNCHANGED <<chain, pc, at, created, activeListeners, pending, preArrival, signalled,
                     notify, fired, fresh>>
      /\ ops' = ops \ {op} /\ completed' = completed \cup {op}
      /\ op \in Operations
  BY DEF Complete, threads, registry, IInv, TypeOK
<1>2. /\ Sync' = Sync /\ AllSteps' = AllSteps /\ Event' = Event /\ Target' = Target
      /\ Registered' = Registered /\ Callbacks' = Callbacks /\ Operations' = Operations
  BY <1>1, SameChain
<1>3. \A cb \in callbacks' :
        \/ cb \in callbacks
        \/ /\ cb \in Sync \X {op}
           /\ \E kind \in Event[op[2]] : Listens(cb[1], kind, op[3])
  BY DEF Complete, Called
<1>4. callbacks' \subseteq Callbacks
  BY <1>1, <1>3 DEF IInv, TypeOK, Callbacks
<1>5. TypeOK'
  BY <1>1, <1>2, <1>4, SameChain DEF IInv, TypeOK
<1>6. \A r \in Runs : OfRun(r)'
  BY <1>1, Kept DEF IInv
<1>7. \A cb : Announces(cb) => Announces(cb)'
  BY <1>1, <1>2 DEF Announces, Listens
<1>8. Announced'
  <2>1. \A cb \in callbacks' : Announces(cb)'
    <3> SUFFICES ASSUME NEW cb \in callbacks' PROVE Announces(cb)'
      OBVIOUS
    <3>1. CASE cb \in callbacks
      BY <1>7, <3>1 DEF IInv, Shared, Announced
    <3>2. CASE cb \in Sync \X {op} /\ \E kind \in Event[op[2]] : Listens(cb[1], kind, op[3])
      BY <1>1, <1>2, <3>2 DEF Announces, Listens
    <3> QED
      BY <1>3, <3>1, <3>2
  <2> QED
    BY <1>1, <1>7, <2>1 DEF IInv, Shared, Announced, Idle
<1>9. SomebodyListens' /\ WaitersWait' /\ OfStarted'
  BY <1>1, <1>2 DEF IInv, Shared, SomebodyListens, InWindow, WaitersWait, OfStarted
<1>10. FreshIsOwn'
  BY <1>1, <1>2 DEF IInv, Shared, FreshIsOwn, Ended, Alone, Unambiguous, Listens
<1> QED
  BY <1>5, <1>6, <1>8, <1>9, <1>10 DEF IInv, Shared

LEMMA ReceiveStep ==
  ASSUME IInv, NEW cb \in callbacks, Receive(cb)
  PROVE  IInv'
<1>1. /\ UNCHANGED <<chain, pc, at, created, activeListeners, pending, preArrival, signalled,
                     ops, fired, completed, fresh>>
      /\ callbacks' = callbacks \ {cb} /\ cb \in Callbacks
      /\ \/ /\ cb[1] \in activeListeners
            /\ notify' = [at |-> "accepted", cb |-> cb, waiter |-> pending[cb[1]]]
         \/ notify' = notify
  BY DEF Receive, threads, registry, KeyOf, IInv, TypeOK
<1>2. /\ Sync' = Sync /\ AllSteps' = AllSteps /\ Callbacks' = Callbacks
  BY <1>1, SameChain
<1>3. cb[1] \in activeListeners => pending[cb[1]] \in Runs \cup {NoRun}
  BY DEF IInv, TypeOK
<1>4. notify' \in {Idle} \cup [at : {"accepted"}, cb : Callbacks, waiter : Runs \cup {NoRun}]
  BY <1>1, <1>3 DEF IInv, TypeOK
<1>5. TypeOK'
  BY <1>1, <1>2, <1>4, SameChain DEF IInv, TypeOK
<1>6. \A r \in Runs : OfRun(r)'
  BY <1>1, Kept DEF IInv
<1>7. Event' = Event /\ Target' = Target /\ Registered' = Registered
  BY <1>1, SameChain
<1>8. \A b : Announces(b)' <=> Announces(b)
  BY <1>1, <1>7 DEF Announces, Listens
<1>9. Announced'
  BY <1>1, <1>8 DEF IInv, Shared, Announced, Idle
<1>10. SomebodyListens' /\ WaitersWait' /\ OfStarted'
  BY <1>1, <1>2 DEF IInv, Shared, SomebodyListens, InWindow, WaitersWait, OfStarted
<1>11. FreshIsOwn'
  BY <1>1, <1>2, <1>7 DEF IInv, Shared, FreshIsOwn, Ended, Alone, Unambiguous, Listens
<1> QED
  BY <1>5, <1>6, <1>9, <1>10, <1>11 DEF IInv, Shared

(* The key is delivered to every open window, the buffer or a signal with  *)
(* it.                                                                     *)
LEMMA DeliverStep ==
  ASSUME IInv, Deliver
  PROVE  IInv'
<1> DEFINE e == notify.cb[1]
           w == notify.waiter
<1>1. /\ UNCHANGED <<chain, pc, at, created, activeListeners, pending, ops, callbacks,
                     fired, completed>>
      /\ notify # Idle /\ notify' = Idle
      /\ fresh' = [r \in Runs |-> fresh[r] \cup IF InWindow(r) THEN {e} ELSE {}]
      /\ \/ /\ w # NoRun /\ preArrival' = preArrival
            /\ signalled' = [signalled EXCEPT ![w] = @ \/ (pc[w] = "waiting" /\ at[w] = e)]
         \/ /\ preArrival' = preArrival \cup {e} /\ signalled' = signalled
  BY DEF Deliver, threads, hub, KeyOf
<1>2. notify.cb \in Callbacks /\ e \in Sync /\ w \in Runs \cup {NoRun}
  BY <1>1 DEF IInv, TypeOK, Callbacks
<1>3. Announces(notify.cb) /\ notify.cb[2] \in Operations
  BY <1>1, <1>2 DEF IInv, Shared, Announced, Callbacks
<1> HIDE DEF e, w
<1>4. /\ fresh' \in [Runs -> SUBSET Sync] /\ preArrival' \subseteq Sync
      /\ \A r \in Runs : fresh[r] \subseteq fresh'[r]
      /\ \A r \in Runs : IF InWindow(r) THEN fresh'[r] = fresh[r] \cup {e}
                                        ELSE fresh'[r] = fresh[r]
  BY <1>1, <1>2 DEF IInv, TypeOK
<1>5. signalled' \in [Runs -> BOOLEAN]
  BY <1>1, <1>2 DEF IInv, TypeOK
<1>6. \A r \in Runs : signalled'[r] => signalled[r] \/ (pc[r] = "waiting" /\ at[r] = e)
  BY <1>1, <1>2 DEF IInv, TypeOK
<1>7. TypeOK'
  BY <1>1, <1>4, <1>5, SameChain DEF IInv, TypeOK
<1>8. ASSUME NEW r \in Runs PROVE OfRun(r)'
  <2>1. OfRun(r) /\ preArrival' \subseteq preArrival \cup {e}
    BY <1>1 DEF IInv
  <2>2. OnFresh(r)'
    <3>1. InWindow(r)' <=> InWindow(r)
      BY <1>1 DEF InWindow
    <3>2. pc[r] = "waiting" => InWindow(r)
      BY DEF InWindow
    <3> QED
      BY <1>1, <1>4, <1>6, <2>1, <3>1, <3>2, SameChain DEF OfRun, OnFresh
  <2>3. InSequence(r)'
    BY <1>1, <2>1, SameChain DEF OfRun, InSequence
  <2> QED
    BY <2>2, <2>3 DEF OfRun
<1>9. SomebodyListens' /\ WaitersWait' /\ OfStarted' /\ Announced'
  <2>1. SomebodyListens' /\ WaitersWait' /\ OfStarted'
    BY <1>1, SameChain DEF IInv, Shared, SomebodyListens, InWindow, WaitersWait, OfStarted
  <2>2. \A cb \in callbacks : Announces(cb)'
    BY <1>1, SameChain DEF IInv, Shared, Announced, Announces, Listens
  <2> QED
    BY <1>1, <2>1, <2>2 DEF Announced
<1>10. FreshIsOwn'
  <2> SUFFICES ASSUME NEW r \in Runs, NEW d \in fresh'[r], Alone(r), Unambiguous(d)
               PROVE  Ended(r, d)
    BY <1>1, SameChain DEF FreshIsOwn, Ended, Alone, Unambiguous, Listens
  <2>1. CASE d \in fresh[r]
    BY <2>1 DEF IInv, Shared, FreshIsOwn
  <2>2. CASE d \notin fresh[r]
    <3> DEFINE op == notify.cb[2]
    <3>1. d = e
      BY <1>4, <2>2
    <3>2. PICK kind \in Event[op[2]] : Listens(e, kind, op[3])
      BY <1>3 DEF Announces, e
    <3>3. /\ op \in completed /\ op[1] \in Runs /\ op[2] \in AllSteps
          /\ op[3] \in Target[op[2]] /\ op = <<op[1], op[2], op[3]>>
      BY <1>3 DEF Announces, Operations
    <3> HIDE DEF op
    <3>4. op[1] = r
      BY <3>3 DEF IInv, Shared, OfStarted, Alone
    <3>5. op[2] = e - 1
      BY <3>1, <3>2, <3>3 DEF Unambiguous
    <3>6. op[3] \in Target[e]
      BY <3>2 DEF Listens
    <3> QED
      BY <3>1, <3>3, <3>4, <3>5, <3>6 DEF Ended
  <2> QED
    BY <2>1, <2>2
<1> QED
  BY <1>7, <1>8, <1>9, <1>10 DEF IInv, Shared

(***************************************************************************)
(* The theorems                                                            *)
(***************************************************************************)

LEMMA InitInvariant == Init => IInv
<1> SUFFICES ASSUME Init PROVE IInv
  OBVIOUS
<1>1. TypeOK
  BY ChainsAssumption DEF Init, TypeOK, IsChain, Steps, Sync, Places
<1>2. \A r \in Runs : OfRun(r)
  BY DEF Init, OfRun, OnFresh, InSequence, AtSync, InWindow
<1>3. Shared
  BY DEF Init, Shared, SomebodyListens, WaitersWait, Announced, OfStarted, FreshIsOwn
<1> QED
  BY <1>1, <1>2, <1>3 DEF IInv

LEMMA NextInvariant == IInv /\ [Next]_vars => IInv'
<1> SUFFICES ASSUME IInv, [Next]_vars PROVE IInv'
  OBVIOUS
<1>1. ASSUME NEW r \in Runs, StartRun(r) \/ RunStep(r) PROVE IInv'
  BY <1>1, StartRunStep, OpenWindowStep, CreateTaskStep, SkipWaitStep, CheckBufferStep,
     RegisterWaiterStep, WakeStep, TimeOutStep, PostStep, PostReturnsStep, CloseWindowStep
  DEF RunStep
<1>2. ASSUME NEW op \in ops, Complete(op) PROVE IInv'
  BY <1>2, CompleteStep
<1>3. ASSUME NEW cb \in callbacks, Receive(cb) PROVE IInv'
  BY <1>3, ReceiveStep
<1>4. CASE Deliver
  BY <1>4, DeliverStep
<1>5. CASE UNCHANGED vars
  <2>1. UNCHANGED <<chain, pc, at, created, activeListeners, pending, preArrival, signalled,
                    notify, ops, callbacks, fired, completed, fresh>>
    BY <1>5 DEF vars, threads, registry, hub, history
  <2>2. TypeOK'
    BY <2>1, SameChain DEF IInv, TypeOK
  <2>3. \A r \in Runs : OfRun(r)'
    BY <2>1, Kept DEF IInv
  <2>4. SomebodyListens' /\ WaitersWait' /\ OfStarted'
    BY <2>1, SameChain DEF IInv, Shared, SomebodyListens, InWindow, WaitersWait, OfStarted
  <2>5. Announced' /\ FreshIsOwn'
    BY <2>1, SameChain
    DEF IInv, Shared, Announced, Announces, Listens, FreshIsOwn, Ended, Alone, Unambiguous
  <2> QED
    BY <2>2, <2>3, <2>4, <2>5 DEF IInv, Shared
<1> QED
  BY <1>1, <1>2, <1>3, <1>4, <1>5 DEF Next

LEMMA Invariant == Spec => []IInv
  BY InitInvariant, NextInvariant, PTL DEF Spec

(* Types, for every chain and number of runs.                              *)
THEOREM TypeCorrect == Spec => []TypeOK
<1>1. IInv => TypeOK
  BY DEF IInv
<1> QED
  BY <1>1, Invariant, PTL

(* No leftover of an earlier run is taken for a callback, whatever the     *)
(* runs do to each other's registrations.                                  *)
THEOREM FreshOnly == Spec => []FiresOnFreshCallback
<1>1. IInv => FiresOnFreshCallback
  BY DEF IInv, OfRun, OnFresh, FiresOnFreshCallback
<1> QED
  BY <1>1, Invariant, PTL

(* In every chain, while one run of it has started: a SYNC event whose     *)
(* webhook no other step of the chain can call, by the kinds of            *)
(* announcement and the containment of targets, is fired after the step    *)
(* before it ended for something the event works on.                       *)
THEOREM AfterPreceding == Spec => []FiresAfterPreceding
<1>1. IInv => FiresAfterPreceding
  <2> SUFFICES ASSUME IInv, NEW r \in Runs, NEW e \in Sync,
                      <<r, e>> \in fired, Event[e - 1] # {}, Alone(r), Unambiguous(e)
               PROVE  Ended(r, e)
    BY DEF FiresAfterPreceding, Ended
  <2>1. e \in fresh[r]
    BY DEF IInv, OfRun, OnFresh
  <2> QED
    BY <2>1 DEF IInv, Shared, FreshIsOwn
<1> QED
  BY <1>1, Invariant, PTL

(* Nobody listens and nobody waits when no chain runs, for every number of *)
(* runs that closed each other's windows.  A callback accepted before may  *)
(* still be put into the buffer: the next window starts by clearing it.    *)
THEOREM ListensInsideOnly == Spec => []NothingListensOutside
<1>1. IInv => NothingListensOutside
  <2> SUFFICES ASSUME IInv, \A r \in Runs : ~InWindow(r)
               PROVE  activeListeners = {} /\ \A e \in Sync : pending[e] = NoRun
    BY DEF NothingListensOutside
  <2>1. activeListeners = {}
    BY DEF IInv, Shared, SomebodyListens
  <2>2. \A e \in Sync : pending[e] = NoRun
    BY DEF IInv, TypeOK, Shared, WaitersWait, InWindow
  <2> QED
    BY <2>1, <2>2
<1> QED
  BY <1>1, Invariant, PTL

(* A chain of any length that ended well has fired every event up to its   *)
(* last SYNC event.                                                        *)
THEOREM AllFired == Spec => []AsyncEventsFired
<1>1. IInv => AsyncEventsFired
  BY DEF IInv, OfRun, InSequence, AsyncEventsFired
<1> QED
  BY <1>1, Invariant, PTL
=============================================================================
