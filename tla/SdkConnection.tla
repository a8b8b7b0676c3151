---------------------------- MODULE SdkConnection ---------------------------
(***************************************************************************)
(* The session of Chronos in CoreHub: GluesyncSDKClient, a singleton that  *)
(* holds the SDK's client and its token (core/gluesync_sdk_client.py), the *)
(* health check (core/health_check.py), and the requests that log in again *)
(* after a 401 (core/play_pause.py).                                       *)
(*                                                                         *)
(* Startup and the health check run on the event loop of the server.  A    *)
(* request runs in a worker thread, which has no loop: it logs in within   *)
(* asyncio.run, on a loop that ends with the login.  Callbacks of the SDK  *)
(* run on the loop on which their client was made, while it runs.          *)
(***************************************************************************)
EXTENDS Integers, Sequences, FiniteSets

CONSTANTS
  Worker,         \* threads that send requests to CoreHub
  Client,         \* the SDK's clients; one that is forgotten is used again
  NoClient,
  MaxFaults       \* restarts, outages, lost connections, failing logins and logouts

ASSUME WorkersAssumption == Worker \cap {"startup", "health", "gone"} = {}
ASSUME ClientsAssumption == IsFiniteSet(Client) /\ NoClient \notin Client
ASSUME FaultsAssumption == MaxFaults \in Nat

VARIABLES
  sdk,            \* the singleton: client, token, initialized, initializing
  conn,           \* conn[k]: what the SDK's client k knows and has to tell
  proc,           \* proc[p]: where p is, the token it sent, the client it connects
  hub,            \* CoreHub is "up" or "down"
  faults,         \* faults so far
  left,           \* clients dropped unclosed, as they were reconnecting or their
                  \* disconnect raised, while somebody listened to them (history)
  entangled       \* a login met another one, or ended a client that had news
                  \* (history)

vars == <<sdk, conn, proc, hub, faults, left, entangled>>

Process == {"startup", "health"} \cup Worker
Token == {"none", "valid", "stale"}

Login == {"disconnect", "connect", "backoff", "token"}
Stage == {"off", "ready", "sent", "reread"} \cup Login

Unused == [at |-> "unused", loop |-> "gone", token |-> "none", due |-> <<>>]

Init ==
  /\ sdk = [client |-> NoClient, token |-> "none", initialized |-> FALSE,
            initializing |-> FALSE]
  /\ conn = [k \in Client |-> Unused]
  /\ proc = [p \in Process |-> [at |-> "off", holds |-> "none", client |-> NoClient]]
  /\ hub \in {"up", "down"}
  /\ faults = 0
  /\ left = {}
  /\ entangled = FALSE

Fault == faults < MaxFaults /\ faults' = faults + 1

Loop(p) == IF p \in Worker THEN p ELSE "server"

\* Somebody runs the callbacks of k.
Alive(k) == conn[k].loop # "gone"

\* Nothing more will be heard of k, if no login holds it (one that is open is
\* lost by a fault; one that is "new" was given up before it connected).
Silent(k, c) ==
  \/ c[k].loop = "gone"
  \/ c[k].due = <<>> /\ \/ c[k].at \in {"new", "closed"}
                        \/ c[k].at = "open" /\ faults = MaxFaults

\* Those to be used again when p takes a new client.
Forgotten(p, c) == {k \in Client : Silent(k, c) /\ \A q \in Process \ {p} : proc[q].client # k}

Go(p, stage) == proc' = [proc EXCEPT ![p] = [at |-> stage, holds |-> "none",
                                             client |-> NoClient]]

------------------------------------------------------------------------------
(* GluesyncSDKClient.initialize *)

\* A new client; connecting it is under way.  Those dropped may go on.
NewClient(p, before, dropped) ==
  LET forgotten == Forgotten(p, before)
      free == forgotten \ {sdk.client, proc[p].client}
      k == CHOOSE k \in free : TRUE
  IN /\ free # {}
     /\ sdk' = [client |-> k, token |-> "none", initialized |-> FALSE, initializing |-> TRUE]
     /\ conn' = [j \in Client |->
                   IF j = k THEN [Unused EXCEPT !.at = "new", !.loop = Loop(p)]
                   ELSE IF j \in forgotten THEN Unused ELSE before[j]]
     /\ proc' = [proc EXCEPT ![p] = [at |-> "connect", holds |-> "none", client |-> k]]
     /\ left' = (left \cup {j \in Client : j \in dropped /\ Alive(j)}) \ forgotten

(* Mutant: a forced login takes the session for good and returns.           *)
ForceReconnect_keepSession(p) ==
  /\ Go(p, IF p \in Worker THEN "reread" ELSE "ready")
  /\ UNCHANGED <<sdk, conn, left, entangled>>

(* A client that is connected is disconnected first; one that is not, but   *)
(* reconnects by itself, is dropped as it is.                               *)
ForceReconnect(p) ==
  LET old == sdk.client
      connected == old # NoClient /\ conn[old].at = "open"
  IN /\ entangled' = (entangled \/ \E q \in Process \ {p} : proc[q].at \in Login)
     /\ IF connected
        THEN /\ proc' = [proc EXCEPT ![p] = [at |-> "disconnect", holds |-> "none",
                                             client |-> old]]
             /\ UNCHANGED <<sdk, conn, left>>
        ELSE NewClient(p, conn, {old})

(* Mutant: the client is discarded as it is.                                *)
Disconnected_discardOnly(p) ==
  /\ proc[p].at = "disconnect"
  /\ NewClient(p, conn, {})
  /\ UNCHANGED <<hub, faults, entangled>>

(* The SDK tells of the disconnection before or after disconnect returns;   *)
(* if it raises, that is logged and the client stays as it is.  The client  *)
(* that is current by now is dropped, whichever it is.                      *)
Disconnected(p) ==
  /\ proc[p].at = "disconnect"
  /\ LET c == proc[p].client
     IN \/ \E late \in BOOLEAN :
             LET tells == IF late /\ Alive(c) THEN Append(conn[c].due, "disconnected")
                                              ELSE <<>>
             IN /\ NewClient(p, [conn EXCEPT ![c].at = "closed", ![c].token = "none",
                                             ![c].due = tells], {})
                /\ entangled' = (entangled \/ \E i \in DOMAIN tells : tells[i] = "connected")
                /\ UNCHANGED faults
        \/ NewClient(p, conn, {c}) /\ Fault /\ UNCHANGED entangled
  /\ UNCHANGED hub

\* The loop of a worker ends with its login.
LoopEnds(p) ==
  /\ conn' = [k \in Client |->
                IF conn[k].loop = p THEN [conn[k] EXCEPT !.loop = "gone", !.due = <<>>]
                                    ELSE conn[k]]
  /\ entangled' = (entangled \/ \E k \in Client : conn[k].loop = p /\ conn[k].due # <<>>)
  /\ UNCHANGED left

Finish(p, good) ==
  /\ sdk' = [sdk EXCEPT !.initialized = good, !.initializing = FALSE]
  /\ LoopEnds(p)
  /\ Go(p, IF p \in Worker /\ good THEN "reread" ELSE "ready")

Connected(p) ==
  /\ proc[p].at = "connect" /\ hub = "up"
  /\ LET c == proc[p].client
     IN conn' = IF conn[c].at = "open" THEN conn
                ELSE [conn EXCEPT ![c].at = "open", ![c].token = "valid",
                        ![c].due = IF Alive(c) THEN Append(@, "connected") ELSE @]
  /\ proc' = [proc EXCEPT ![p].at = "token"]
  /\ UNCHANGED <<sdk, hub, faults, left, entangled>>

\* GluesyncConnectionError: the next attempt follows after a pause, for ever.
ConnectFails(p) ==
  /\ proc[p].at = "connect"
  /\ IF hub = "up" THEN Fault ELSE UNCHANGED faults
  /\ Go(p, "backoff")
  /\ UNCHANGED <<sdk, conn, hub, left, entangled>>

\* The attempt is made with the client that is current by then.
ConnectAgain(p) ==
  /\ proc[p].at = "backoff"
  /\ proc' = [proc EXCEPT ![p].at = "connect", ![p].client = sdk.client]
  /\ UNCHANGED <<sdk, conn, hub, faults, left, entangled>>

\* Licence and authentication errors end the login.
ConnectRaises(p) ==
  /\ proc[p].at = "connect" /\ hub = "up" /\ Fault
  /\ sdk' = [sdk EXCEPT !.initializing = FALSE]
  /\ LoopEnds(p)
  /\ Go(p, "ready")
  /\ UNCHANGED hub

TokenArrived(p) ==
  /\ proc[p].at = "token" /\ sdk.token # "none"
  /\ Finish(p, TRUE)
  /\ UNCHANGED <<hub, faults>>

(* A callback that is ready runs long before the ten seconds are over.      *)
TokenTimesOut(p) ==
  /\ proc[p].at = "token" /\ sdk.token = "none" /\ conn[proc[p].client].due = <<>>
  /\ Finish(p, FALSE)
  /\ UNCHANGED <<hub, faults>>

------------------------------------------------------------------------------
(* _on_connected, _on_disconnected and _on_error of the singleton, called   *)
(* by whichever client has something to tell.                               *)
Callback(k) ==
  /\ conn[k].due # <<>>
  /\ sdk' = [sdk EXCEPT !.token = IF Head(conn[k].due) = "connected"
                                  THEN conn[k].token ELSE "none",
                        !.initialized = Head(conn[k].due) = "connected"]
  /\ conn' = [conn EXCEPT ![k].due = Tail(@)]
  /\ UNCHANGED <<proc, hub, faults, left, entangled>>

ConnectionLost(k) ==
  /\ conn[k].at = "open" /\ Alive(k) /\ Fault
  /\ conn' = [conn EXCEPT ![k].at = "dropped", ![k].due = Append(@, "disconnected")]
  /\ UNCHANGED <<sdk, proc, hub, left, entangled>>

\* The SDK reconnects by itself.
Reconnected(k) ==
  /\ conn[k].at = "dropped" /\ Alive(k) /\ hub = "up"
  /\ conn' = [conn EXCEPT ![k].at = "open", ![k].token = "valid",
                          ![k].due = Append(@, "connected")]
  /\ UNCHANGED <<sdk, proc, hub, faults, left, entangled>>

------------------------------------------------------------------------------
\* CoreHub forgets its sessions.
Invalidate ==
  LET Old(t) == IF t = "valid" THEN "stale" ELSE t
  IN /\ sdk' = [sdk EXCEPT !.token = Old(@)]
     /\ conn' = [k \in Client |-> [conn[k] EXCEPT !.token = Old(@)]]
     /\ proc' = [p \in Process |-> [proc[p] EXCEPT !.holds = Old(@)]]

HubRestarts ==
  /\ Fault /\ Invalidate
  /\ hub' \in {"up", "down"}
  /\ UNCHANGED <<left, entangled>>

HubReturns ==
  /\ hub = "down"
  /\ hub' = "up"
  /\ UNCHANGED <<sdk, conn, proc, faults, left, entangled>>

------------------------------------------------------------------------------
\* _init_sdk_client: jobs and the health check wait for it.
Startup ==
  /\ proc["startup"].at = "off"
  /\ NewClient("startup", conn, {})
  /\ UNCHANGED <<hub, faults, entangled>>

Started(p) ==
  /\ p # "startup" /\ proc[p].at = "off" /\ proc["startup"].at = "ready"
  /\ Go(p, "ready")
  /\ UNCHANGED <<sdk, conn, hub, faults, left, entangled>>

CurrentToken == IF sdk.initialized THEN sdk.token ELSE "none"

Send(p) ==
  /\ proc' = [proc EXCEPT ![p] = [at |-> "sent", holds |-> CurrentToken, client |-> NoClient]]
  /\ UNCHANGED <<sdk, conn, hub, faults, left, entangled>>

(* The health check is silent without a token.                              *)
Check == proc["health"].at = "ready" /\ CurrentToken # "none" /\ Send("health")

Rejects(p) == hub = "up" /\ proc[p].holds # "valid"

(* 401 and 403 and no answer at all lead to a new login, a 5xx does not.    *)
CheckAnswered ==
  /\ proc["health"].at = "sent"
  /\ IF Rejects("health") \/ hub = "down"
     THEN ForceReconnect("health") /\ UNCHANGED faults
     ELSE Go("health", "ready") /\ UNCHANGED <<sdk, conn, faults, left, entangled>>
  /\ UNCHANGED hub

\* A request goes out with the token or, if there is none, without.
Request(w) == proc[w].at = "ready" /\ Send(w)

RequestAnswered(w) ==
  /\ proc[w].at = "sent"
  /\ IF Rejects(w) THEN ForceReconnect(w)
                   ELSE Go(w, "ready") /\ UNCHANGED <<sdk, conn, left, entangled>>
  /\ UNCHANGED <<hub, faults>>

\* After the login: one retry if there is a token.  What comes of it, a second
\* 401 included, goes to the caller and changes nothing here.
Reread(w) ==
  /\ proc[w].at = "reread"
  /\ Go(w, "ready")
  /\ UNCHANGED <<sdk, conn, hub, faults, left, entangled>>

------------------------------------------------------------------------------
InLogin(p) ==
  \/ Disconnected(p) \/ Connected(p) \/ ConnectAgain(p)
  \/ TokenArrived(p) \/ TokenTimesOut(p) \/ (hub = "down" /\ ConnectFails(p))

OfWorker(w) == Request(w) \/ RequestAnswered(w) \/ Reread(w)

Next ==
  \/ Startup \/ \E p \in Process : Started(p) \/ InLogin(p) \/ ConnectRaises(p)
                                   \/ (hub = "up" /\ ConnectFails(p))
  \/ Check \/ CheckAnswered
  \/ \E w \in Worker : OfWorker(w)
  \/ \E k \in Client : Callback(k) \/ ConnectionLost(k) \/ Reconnected(k)
  \/ HubRestarts \/ HubReturns

(* Loops and threads run, CoreHub comes back after an outage and answers    *)
(* what it is sent (most requests have no timeout: one that is never        *)
(* answered heals nothing), and there are always more requests to send:     *)
(* jobs go on to fire.                                                      *)
Spec ==
  /\ Init /\ [][Next]_vars
  /\ WF_vars(Startup) /\ WF_vars(HubReturns)
  /\ \A p \in Process : WF_vars(Started(p)) /\ WF_vars(InLogin(p))
  /\ WF_vars(CheckAnswered)
  /\ \A w \in Worker : WF_vars(OfWorker(w))
  /\ \A k \in Client : WF_vars(Callback(k))
------------------------------------------------------------------------------
TypeOK ==
  /\ sdk \in [client : Client \cup {NoClient}, token : Token, initialized : BOOLEAN,
              initializing : BOOLEAN]
  /\ conn \in [Client -> [at : {"unused", "new", "open", "dropped", "closed"},
                          loop : {"server", "gone"} \cup Worker, token : Token,
                          due : Seq({"connected", "disconnected"})]]
  /\ proc \in [Process -> [at : Stage, holds : Token, client : Client \cup {NoClient}]]
  /\ hub \in {"up", "down"}
  /\ faults \in 0 .. MaxFaults
  /\ left \subseteq Client
  /\ entangled \in BOOLEAN

(* _force_reconnect_disconnect clears the client before a new one is made:  *)
(* unless two logins met, the only clients that are connected or            *)
(* reconnecting with somebody to listen to them are the current one and     *)
(* those that a forced login dropped as they were, because they were        *)
(* reconnecting or their disconnect failed.  While there is none of these,  *)
(* a token that is held is that of the current client, which may have news. *)
OneClientListens ==
  ~entangled =>
    /\ \A k \in Client : conn[k].at \in {"open", "dropped"} /\ Alive(k) =>
         k \in {sdk.client} \cup left
    /\ sdk.token # "none" /\ left = {} =>
         /\ sdk.client # NoClient
         /\ conn[sdk.client].due = <<>> => sdk.token = conn[sdk.client].token

(* Once the faults are over, Chronos holds a token that CoreHub accepts,    *)
(* and keeps it (README, "Connection health check"; _refresh_and_retry):    *)
(* whatever state the callbacks of old clients leave, requests heal it.     *)
(* Only two workers that cross each other for ever can prevent that: a      *)
(* request that went out without a token CoreHub accepts, while another     *)
(* worker logs in, is rejected when that login is over, and drops the       *)
(* session it made.                                                         *)
Crosses(w) ==
  /\ proc[w].at \in Login \/ (proc[w].at = "sent" /\ proc[w].holds # "valid")
  /\ \E v \in Worker \ {w} : proc[v].at \in Login

SessionRecovers ==
  <>[](sdk.initialized /\ sdk.token = "valid") \/ []<>(\E w \in Worker : Crosses(w))
=============================================================================
