------------------------ MODULE SdkConnectionProofs -------------------------
(***************************************************************************)
(* Theorems about SdkConnection, for every set of workers and clients and  *)
(* every number of faults: its types, and which clients are heard, unless  *)
(* two logins met.                                                         *)
(***************************************************************************)
EXTENDS SdkConnection, SequenceTheorems, TLAPS

News == {"connected", "disconnected"}
ConnType == [at : {"unused", "new", "open", "dropped", "closed"},
             loop : {"server", "gone"} \cup Worker, token : Token, due : Seq(News)]
ProcType == [at : Stage, holds : Token, client : Client \cup {NoClient}]
SdkType == [client : Client \cup {NoClient}, token : Token, initialized : BOOLEAN,
            initializing : BOOLEAN]

(***************************************************************************)
(* Types                                                                   *)
(***************************************************************************)

LEMMA EmptyIsSeq == \A S : <<>> \in Seq(S)
  OBVIOUS

LEMMA UnusedType == Unused \in ConnType
  BY EmptyIsSeq DEF Unused, ConnType, Token, News

LEMMA LoopType == \A p \in Process : Loop(p) \in {"server"} \cup Worker
  BY DEF Loop

LEMMA GoType ==
  ASSUME TypeOK, NEW p \in Process, NEW s \in Stage, Go(p, s)
  PROVE  /\ proc' \in [Process -> ProcType]
         /\ proc'[p].at = s
         /\ proc'[p].client = NoClient
         /\ \A q \in Process \ {p} : proc'[q] = proc[q]
  BY DEF TypeOK, Go, ProcType, Token

LEMMA SendType ==
  ASSUME TypeOK, NEW p \in Process, Send(p)
  PROVE  /\ proc' \in [Process -> ProcType]
         /\ proc'[p].at = "sent"
         /\ \A q \in Process \ {p} : proc'[q] = proc[q]
  BY DEF TypeOK, Send, ProcType, Token, CurrentToken, Stage

(* Client k, that was forgotten, becomes the current one.                  *)
Makes(p, before, dropped, k) ==
  /\ k # sdk.client
  /\ sdk' = [client |-> k, token |-> "none", initialized |-> FALSE, initializing |-> TRUE]
  /\ conn' \in [Client -> ConnType]
  /\ conn'[k] = [Unused EXCEPT !.at = "new", !.loop = Loop(p)]
  /\ \A j \in Client \ {k} :
       \/ conn'[j] = Unused
       \/ /\ conn'[j] = before[j]
          /\ j \in left' <=> j \in left \/ (j \in dropped /\ conn[j].loop # "gone")
  /\ left' \subseteq Client
  /\ proc' \in [Process -> ProcType]
  /\ proc'[p] = [at |-> "connect", holds |-> "none", client |-> k]
  /\ \A q \in Process \ {p} : proc'[q] = proc[q]

LEMMA NewClientMakes ==
  ASSUME TypeOK, NEW p \in Process, NEW before \in [Client -> ConnType],
         NEW dropped \in SUBSET (Client \cup {NoClient}), NewClient(p, before, dropped)
  PROVE  \E k \in Client : Makes(p, before, dropped, k)
<1> DEFINE forgotten == Forgotten(p, before)
           free == forgotten \ {sdk.client, proc[p].client}
           k == CHOOSE j \in free : TRUE
           fresh == [Unused EXCEPT !.at = "new", !.loop = Loop(p)]
<1>1. free # {}
  BY DEF NewClient
<1>2. k \in free
  BY <1>1
<1>3. k \in Client /\ k # sdk.client
  BY <1>2 DEF Forgotten
<1>4. /\ sdk' = [client |-> k, token |-> "none", initialized |-> FALSE,
                 initializing |-> TRUE]
      /\ conn' = [j \in Client |-> IF j = k THEN fresh
                                   ELSE IF j \in forgotten THEN Unused
                                   ELSE before[j]]
      /\ proc' = [proc EXCEPT ![p] = [at |-> "connect", holds |-> "none", client |-> k]]
      /\ left' = (left \cup {j \in Client : j \in dropped /\ Alive(j)}) \ forgotten
  BY DEF NewClient
<1>5. fresh \in ConnType
  BY UnusedType, LoopType DEF ConnType
<1> HIDE DEF k, fresh, forgotten
<1>6. conn' \in [Client -> ConnType]
  BY <1>4, <1>5, UnusedType
<1>7. /\ conn'[k] = fresh
      /\ \A j \in Client \ {k} : \/ conn'[j] = Unused
                                 \/ conn'[j] = before[j] /\ j \notin forgotten
  BY <1>3, <1>4
<1>8. /\ proc' \in [Process -> ProcType]
      /\ proc'[p] = [at |-> "connect", holds |-> "none", client |-> k]
      /\ \A q \in Process \ {p} : proc'[q] = proc[q]
  BY <1>3, <1>4 DEF TypeOK, ProcType, Token, Stage, Login
<1>9. /\ left' \subseteq Client
      /\ \A j \in Client \ forgotten : j \in left' <=> j \in left \/ (j \in dropped /\ conn[j].loop # "gone")
  BY <1>4 DEF TypeOK, Alive
<1>. QED
  BY <1>3, <1>4, <1>6, <1>7, <1>8, <1>9 DEF fresh, Makes

LEMMA NewClientType ==
  ASSUME TypeOK, NEW p \in Process, NEW before \in [Client -> ConnType],
         NEW dropped \in SUBSET (Client \cup {NoClient}), NewClient(p, before, dropped)
  PROVE  /\ sdk' \in SdkType /\ conn' \in [Client -> ConnType]
         /\ proc' \in [Process -> ProcType] /\ left' \subseteq Client
<1>1. PICK k \in Client : Makes(p, before, dropped, k)
  BY NewClientMakes
<1>. QED BY <1>1 DEF Makes, SdkType, Token

LEMMA LoopEndsType ==
  ASSUME TypeOK, NEW p \in Process, LoopEnds(p)
  PROVE  /\ conn' \in [Client -> ConnType]
         /\ entangled' \in BOOLEAN /\ left' = left
         /\ \A k \in Client :
              \/ conn'[k] = conn[k] /\ conn[k].loop # p
              \/ /\ conn[k].loop = p
                 /\ conn'[k] = [conn[k] EXCEPT !.loop = "gone", !.due = <<>>]
         /\ ~entangled' => ~entangled /\ \A k \in Client : conn[k].loop = p => conn[k].due = <<>>
  BY EmptyIsSeq DEF TypeOK, LoopEnds, ConnType, News

LEMMA ForceReconnectType ==
  ASSUME TypeOK, NEW p \in Process, ForceReconnect(p)
  PROVE  /\ sdk' \in SdkType
         /\ conn' \in [Client -> ConnType]
         /\ proc' \in [Process -> ProcType]
         /\ left' \subseteq Client
         /\ entangled' \in BOOLEAN
<1>1. entangled' \in BOOLEAN
  BY DEF TypeOK, ForceReconnect
<1>2. conn \in [Client -> ConnType] /\ sdk \in SdkType /\ proc \in [Process -> ProcType]
  BY DEF TypeOK, ConnType, News, SdkType, ProcType
<1>3. CASE sdk.client # NoClient /\ conn[sdk.client].at = "open"
  <2>1. proc' = [proc EXCEPT ![p] = [at |-> "disconnect", holds |-> "none",
                                     client |-> sdk.client]]
        /\ sdk' = sdk /\ conn' = conn /\ left' = left /\ left \subseteq Client
    BY <1>3 DEF ForceReconnect, TypeOK
  <2>2. [at |-> "disconnect", holds |-> "none", client |-> sdk.client] \in ProcType
    BY <1>2 DEF ProcType, SdkType, Stage, Login, Token
  <2>. QED BY <1>1, <1>2, <2>1, <2>2
<1>4. CASE ~(sdk.client # NoClient /\ conn[sdk.client].at = "open")
  <2>1. NewClient(p, conn, {sdk.client})
    BY <1>4 DEF ForceReconnect
  <2>2. {sdk.client} \in SUBSET (Client \cup {NoClient})
    BY <1>2 DEF SdkType
  <2>. QED BY <1>1, <1>2, <2>1, <2>2, NewClientType
<1>. QED BY <1>3, <1>4

LEMMA Records ==
  ASSUME TypeOK
  PROVE  /\ conn \in [Client -> ConnType] /\ sdk \in SdkType /\ proc \in [Process -> ProcType]
         /\ \A k \in Client : /\ conn[k] \in ConnType
                              /\ conn[k].due \in Seq(News)
                              /\ conn[k].loop \in {"server", "gone"} \cup Worker
         /\ sdk.client \in Client \cup {NoClient}
         /\ NoClient \notin Client
         /\ {sdk.client} \in SUBSET (Client \cup {NoClient})
         /\ \A p \in Process : {proc[p].client} \in SUBSET (Client \cup {NoClient})
         /\ {} \in SUBSET (Client \cup {NoClient})
  BY ClientsAssumption DEF TypeOK, ConnType, News, SdkType, ProcType

(* Disconnected is a NewClient before which the old one is closed, or that  *)
(* drops it as it is.                                                       *)
LEMMA DisconnectedMakes ==
  ASSUME TypeOK, NEW p \in Process, Disconnected(p)
  PROVE  LET c == proc[p].client IN
         /\ ~entangled' => ~entangled
         /\ \/ NewClient(p, conn, {c})
            \/ \E before \in [Client -> ConnType] :
                 /\ NewClient(p, before, {})
                 /\ \A k \in Client \ {c} : before[k] = conn[k]
                 /\ c \in Client =>
                      /\ before[c].at = "closed" /\ before[c].loop = conn[c].loop
                      /\ before[c].loop = "gone" => before[c].due = <<>>
                      /\ ~entangled' => \A i \in DOMAIN before[c].due :
                                           before[c].due[i] # "connected"
<1>a. CASE NewClient(p, conn, {proc[p].client})
  <2>1. ~entangled' => ~entangled
    BY DEF Disconnected
  <2>. QED BY <1>a, <2>1
<1>b. CASE ~NewClient(p, conn, {proc[p].client})
  <2>0. conn \in [Client -> ConnType]
    BY Records
  <2>1. PICK late \in BOOLEAN :
          LET c == proc[p].client
              tells == IF late /\ Alive(c) THEN Append(conn[c].due, "disconnected") ELSE <<>>
          IN /\ NewClient(p, [conn EXCEPT ![c].at = "closed", ![c].token = "none",
                                          ![c].due = tells], {})
             /\ entangled' = (entangled \/ \E i \in DOMAIN tells : tells[i] = "connected")
    BY <1>b DEF Disconnected
  <2> DEFINE c == proc[p].client
             tells == IF late /\ Alive(c) THEN Append(conn[c].due, "disconnected") ELSE <<>>
             before == [conn EXCEPT ![c].at = "closed", ![c].token = "none", ![c].due = tells]
  <2>2. CASE c \in Client
    <3>1. conn[c] \in ConnType /\ conn[c].due \in Seq(News)
      BY <2>0, <2>2 DEF ConnType
    <3>2. tells \in Seq(News)
      BY <3>1, EmptyIsSeq DEF News
    <3>3. conn[c].loop = "gone" => tells = <<>>
      BY DEF Alive
    <3>4. NewClient(p, before, {})
          /\ entangled' = (entangled \/ \E i \in DOMAIN tells : tells[i] = "connected")
      BY <2>1
    <3>. HIDE DEF tells, c
    <3>5. before[c] = [at |-> "closed", loop |-> conn[c].loop, token |-> "none", due |-> tells]
          /\ \A k \in Client \ {c} : before[k] = conn[k]
      BY <2>0, <2>2, <3>1 DEF ConnType
    <3>6. before[c] \in ConnType
      BY <3>1, <3>2, <3>5 DEF ConnType, Token
    <3>7. before \in [Client -> ConnType]
      BY <2>0, <2>2, <3>5, <3>6
    <3>8. /\ before[c].at = "closed" /\ before[c].loop = conn[c].loop
          /\ before[c].due = tells
      BY <3>5
    <3>. HIDE DEF before
    <3>. QED BY <2>2, <3>3, <3>4, <3>5, <3>7, <3>8 DEF c
  <2>3. CASE c \notin Client
    <3>1. NewClient(p, before, {}) /\ (~entangled' => ~entangled)
      BY <2>1
    <3>. HIDE DEF tells
    <3>2. before = conn
      BY <2>0, <2>3
    <3>. QED BY <2>0, <2>3, <3>1, <3>2
  <2>. QED BY <2>2, <2>3
<1>. QED BY <1>a, <1>b

LEMMA DisconnectedNew ==
  ASSUME TypeOK, NEW p \in Process, Disconnected(p)
  PROVE  \E dropped \in SUBSET (Client \cup {NoClient}) :
           \E before \in [Client -> ConnType] : NewClient(p, before, dropped)
<1>1. CASE NewClient(p, conn, {proc[p].client})
  BY <1>1, Records
<1>2. CASE ~NewClient(p, conn, {proc[p].client})
  BY <1>2, Records, DisconnectedMakes
<1>. QED BY <1>1, <1>2

LEMMA NextTypes == TypeOK /\ [Next]_vars => TypeOK'
<1> SUFFICES ASSUME TypeOK, [Next]_vars PROVE TypeOK'
  OBVIOUS
<1> USE FaultsAssumption
<1>0. /\ conn \in [Client -> ConnType] /\ sdk \in SdkType /\ proc \in [Process -> ProcType]
      /\ hub \in {"up", "down"} /\ faults \in 0 .. MaxFaults /\ entangled \in BOOLEAN
      /\ left \subseteq Client
  BY DEF TypeOK, ConnType, News, SdkType, ProcType
<1>1. (/\ conn' \in [Client -> ConnType] /\ sdk' \in SdkType /\ proc' \in [Process -> ProcType]
       /\ hub' \in {"up", "down"} /\ faults' \in 0 .. MaxFaults /\ entangled' \in BOOLEAN
       /\ left' \subseteq Client)
      => TypeOK'
  BY DEF TypeOK, ConnType, News, SdkType, ProcType
<1>2. Fault => faults' \in 0 .. MaxFaults
  BY <1>0 DEF Fault
<1>3. CASE Startup
  <2>1. NewClient("startup", conn, {}) /\ "startup" \in Process
    BY <1>3 DEF Startup, Process
  <2>. QED BY <1>0, <1>1, <1>3, <2>1, NewClientType DEF Startup
<1>4. ASSUME NEW p \in Process, Started(p) PROVE TypeOK'
  BY <1>0, <1>1, <1>4, GoType DEF Started, Stage
<1>5. ASSUME NEW p \in Process, Disconnected(p) PROVE TypeOK'
  <2>1. \E dropped \in SUBSET (Client \cup {NoClient}) :
           \E before \in [Client -> ConnType] : NewClient(p, before, dropped)
    BY <1>5, DisconnectedNew
  <2>2. entangled' \in BOOLEAN /\ faults' \in 0 .. MaxFaults /\ hub' = hub
    BY <1>0, <1>2, <1>5 DEF Disconnected
  <2>. QED BY <1>0, <1>1, <2>1, <2>2, NewClientType
<1>6. ASSUME NEW p \in Process, Connected(p) PROVE TypeOK'
  <2> DEFINE c == proc[p].client
  <2>1. /\ proc' = [proc EXCEPT ![p].at = "token"]
        /\ UNCHANGED <<sdk, hub, faults, left, entangled>>
        /\ conn' = IF conn[c].at = "open" THEN conn
                ELSE [conn EXCEPT ![c].at = "open", ![c].token = "valid",
                        ![c].due = IF Alive(c) THEN Append(@, "connected") ELSE @]
    BY <1>6 DEF Connected
  <2>2. proc' \in [Process -> ProcType]
    BY <1>0, <2>1 DEF ProcType, Stage, Login
  <2>3. conn' \in [Client -> ConnType]
    <3>. HIDE DEF c
    <3>1. ASSUME c \in Client, conn[c].at # "open" PROVE conn' \in [Client -> ConnType]
      <4>1. conn[c] \in ConnType /\ conn[c].due \in Seq(News)
        BY <1>0, <3>1 DEF ConnType
      <4> DEFINE news == IF Alive(c) THEN Append(conn[c].due, "connected") ELSE conn[c].due
      <4>2. news \in Seq(News)
        BY <4>1 DEF News
      <4>3. conn' = [conn EXCEPT ![c] = [conn[c] EXCEPT !.at = "open", !.token = "valid",
                                                         !.due = news]]
        BY <1>0, <2>1, <3>1, <4>1 DEF ConnType
      <4>. HIDE DEF news
      <4>4. [conn[c] EXCEPT !.at = "open", !.token = "valid", !.due = news] \in ConnType
        BY <4>1, <4>2 DEF ConnType, Token
      <4>. QED BY <1>0, <4>3, <4>4
    <3>2. ASSUME c \notin Client PROVE conn' \in [Client -> ConnType]
      BY <1>0, <2>1, <3>2
    <3>. QED BY <1>0, <2>1, <3>1, <3>2
  <2>. QED BY <1>0, <1>1, <2>1, <2>2, <2>3
<1>7. ASSUME NEW p \in Process, ConnectFails(p) PROVE TypeOK'
  BY <1>0, <1>1, <1>2, <1>7, GoType DEF ConnectFails, Stage, Login
<1>8. ASSUME NEW p \in Process, ConnectAgain(p) PROVE TypeOK'
  <2>1. proc' \in [Process -> ProcType]
    BY <1>0, <1>8 DEF ConnectAgain, ProcType, SdkType, Stage, Login
  <2>. QED BY <1>0, <1>1, <1>8, <2>1 DEF ConnectAgain
<1>9. ASSUME NEW p \in Process, ConnectRaises(p) PROVE TypeOK'
  BY <1>0, <1>1, <1>2, <1>9, GoType, LoopEndsType DEF ConnectRaises, Stage, SdkType
<1>10. ASSUME NEW p \in Process, NEW good \in BOOLEAN, Finish(p, good),
              UNCHANGED <<hub, faults>>
       PROVE TypeOK'
  BY <1>0, <1>1, <1>10, GoType, LoopEndsType DEF Finish, Stage, SdkType
<1>11. ASSUME NEW p \in Process, TokenArrived(p) \/ TokenTimesOut(p) PROVE TypeOK'
  BY <1>10, <1>11 DEF TokenArrived, TokenTimesOut
<1>12. ASSUME NEW k \in Client, Callback(k) PROVE TypeOK'
  <2>1. conn[k] \in ConnType /\ conn[k].due \in Seq(News) /\ conn[k].due # <<>>
        /\ Tail(conn[k].due) \in Seq(News)
    BY <1>0, <1>12 DEF ConnType, Callback
  <2>2. conn' \in [Client -> ConnType]
    BY <1>0, <1>12, <2>1 DEF ConnType, Callback
  <2>3. sdk' \in SdkType
    BY <1>0, <1>12, <2>1 DEF ConnType, Callback, SdkType, Token
  <2>. QED BY <1>0, <1>1, <1>12, <2>2, <2>3 DEF Callback
<1>13. ASSUME NEW k \in Client, ConnectionLost(k) PROVE TypeOK'
  <2>1. conn' \in [Client -> ConnType]
    BY <1>0, <1>13 DEF ConnType, ConnectionLost, News
  <2>. QED BY <1>0, <1>1, <1>2, <1>13, <2>1 DEF ConnectionLost
<1>14. ASSUME NEW k \in Client, Reconnected(k) PROVE TypeOK'
  <2>1. conn' \in [Client -> ConnType]
    BY <1>0, <1>14 DEF ConnType, Reconnected, News, Token
  <2>. QED BY <1>0, <1>1, <1>14, <2>1 DEF Reconnected
<1>15. CASE HubRestarts
  <2>1. Fault /\ hub' \in {"up", "down"} /\ entangled' = entangled /\ left' = left
    BY <1>15 DEF HubRestarts
  <2>2. sdk' \in SdkType
    BY <1>0, <1>15 DEF HubRestarts, Invalidate, SdkType, Token
  <2>3. conn' \in [Client -> ConnType]
    BY <1>0, <1>15 DEF HubRestarts, Invalidate, ConnType, Token
  <2>4. proc' \in [Process -> ProcType]
    BY <1>0, <1>15 DEF HubRestarts, Invalidate, ProcType, Token
  <2>. QED BY <1>0, <1>1, <1>2, <2>1, <2>2, <2>3, <2>4
<1>16. CASE HubReturns
  BY <1>0, <1>1, <1>16 DEF HubReturns
<1>17. CASE Check
  BY <1>0, <1>1, <1>17, SendType DEF Check, Send, Process
<1>18. ASSUME NEW p \in Process, ForceReconnect(p), UNCHANGED <<hub, faults>> PROVE TypeOK'
  BY <1>0, <1>1, <1>18, ForceReconnectType
<1>19. CASE CheckAnswered
  BY <1>0, <1>1, <1>18, <1>19, GoType DEF CheckAnswered, Stage, Process
<1>20. ASSUME NEW w \in Worker, Request(w) PROVE TypeOK'
  BY <1>0, <1>1, <1>20, SendType DEF Request, Send, Process
<1>21. ASSUME NEW w \in Worker, RequestAnswered(w) PROVE TypeOK'
  BY <1>0, <1>1, <1>18, <1>21, GoType DEF RequestAnswered, Stage, Process
<1>22. ASSUME NEW w \in Worker, Reread(w) PROVE TypeOK'
  BY <1>0, <1>1, <1>22, GoType DEF Reread, Stage, Process
<1>24. CASE UNCHANGED vars
  BY <1>0, <1>1, <1>24 DEF vars
<1>. QED
  BY <1>3, <1>4, <1>5, <1>6, <1>7, <1>8, <1>9, <1>11, <1>12, <1>13, <1>14, <1>15, <1>16,
     <1>17, <1>19, <1>20, <1>21, <1>22, <1>24 DEF Next, InLogin, OfWorker

LEMMA InitTypes == Init => TypeOK
<1> SUFFICES ASSUME Init PROVE TypeOK
  OBVIOUS
<1>1. conn \in [Client -> ConnType]
  BY UnusedType DEF Init
<1>2. proc \in [Process -> ProcType] /\ sdk \in SdkType
  BY DEF Init, ProcType, SdkType, Token, Stage
<1>3. faults \in 0 .. MaxFaults
  BY FaultsAssumption DEF Init
<1>4. hub \in {"up", "down"} /\ entangled \in BOOLEAN /\ left \subseteq Client
  BY DEF Init
<1>. QED BY <1>1, <1>2, <1>3, <1>4 DEF TypeOK, ConnType, ProcType, SdkType, News

(* Every value stays within its type.                                      *)
THEOREM TypeCorrect == Spec => []TypeOK
  BY InitTypes, NextTypes, PTL DEF Spec

(***************************************************************************)
(* The inductive invariant                                                 *)
(***************************************************************************)

(* Nobody runs the callbacks of a client whose loop is over.               *)
GoneIsSilent == \A k \in Client : ~Alive(k) => conn[k].due = <<>>

(* The login of startup is the first, and meets no other.                  *)
StartupFirst ==
  /\ proc["startup"].at # "ready" => \A p \in Worker \cup {"health"} : proc[p].at = "off"
  /\ proc["startup"].at = "off" =>
       sdk.client = NoClient /\ sdk.token = "none" /\ \A k \in Client : conn[k] = Unused

InLoginNow(p) == proc[p].at \in Login

Solo == \A p, q \in Process : InLoginNow(p) /\ InLoginNow(q) => p = q

(* The current client is that of the login under way, and its callbacks    *)
(* run on the loop of that login.                                          *)
Mine == \A p \in Process : InLoginNow(p) =>
  /\ sdk.client \in Client
  /\ proc[p].at # "backoff" => proc[p].client = sdk.client
  /\ proc[p].at # "disconnect" => conn[sdk.client].loop = Loop(p)

(* A client that is neither the current one nor one that was dropped as it *)
(* was is not connected with somebody to listen to it, and has no          *)
(* connection to tell of.                                                  *)
IsQuiet(k) ==
  /\ conn[k].at \in {"open", "dropped"} => conn[k].loop = "gone"
  /\ \A i \in DOMAIN conn[k].due : conn[k].due[i] = "disconnected"
Quiet == \A k \in Client \ ({sdk.client} \cup left) : IsQuiet(k)

TokenOfClient ==
  sdk.token # "none" /\ left = {} =>
    /\ sdk.client \in Client
    /\ conn[sdk.client].due = <<>> => sdk.token = conn[sdk.client].token

Session == ~entangled => Solo /\ Mine /\ Quiet /\ TokenOfClient

IInv == TypeOK /\ GoneIsSilent /\ StartupFirst /\ Session

(***************************************************************************)
(* The loops and the start                                                 *)
(***************************************************************************)

LEMMA LoopRuns == \A p \in Process : Loop(p) # "gone"
  BY WorkersAssumption DEF Loop

LEMMA InitInv == Init => IInv
<1> SUFFICES ASSUME Init PROVE IInv
  OBVIOUS
<1>1. \A k \in Client : conn[k] = Unused
  BY DEF Init
<1>2. \A p \in Process : proc[p].at = "off" /\ ~InLoginNow(p)
  BY DEF Init, InLoginNow, Login
<1>3. sdk.client = NoClient /\ sdk.token = "none"
  BY DEF Init
<1>4. GoneIsSilent
  BY <1>1 DEF GoneIsSilent, Unused
<1>5. StartupFirst
  BY <1>1, <1>2, <1>3 DEF StartupFirst, Process
<1>6. Solo /\ Mine
  BY <1>2 DEF Solo, Mine
<1>7. Quiet
  BY <1>1 DEF Quiet, IsQuiet, Unused
<1>8. TokenOfClient
  BY <1>3 DEF TokenOfClient
<1>. QED BY InitTypes, <1>4, <1>5, <1>6, <1>7, <1>8 DEF IInv, Session

(* One client after the steps that change conn.                            *)
LEMMA ConnectedMakes ==
  ASSUME TypeOK, NEW p \in Process, Connected(p), proc[p].client \in Client
  PROVE  LET c == proc[p].client IN
         /\ \A k \in Client \ {c} : conn'[k] = conn[k]
         /\ conn'[c].loop = conn[c].loop
         /\ conn[c].at = "open" => conn'[c] = conn[c]
         /\ conn[c].at # "open" /\ Alive(c) => conn'[c].due # <<>>
         /\ ~Alive(c) => conn'[c].due = conn[c].due
<1> DEFINE c == proc[p].client
           news == IF Alive(c) THEN Append(conn[c].due, "connected") ELSE conn[c].due
<1>1. CASE conn[c].at = "open"
  BY <1>1 DEF Connected
<1>2. CASE conn[c].at # "open"
  <2>1. conn[c] \in ConnType /\ conn[c].due \in Seq(News) /\ c \in Client
    BY Records
  <2>2. conn' = [conn EXCEPT ![c] = [conn[c] EXCEPT !.at = "open", !.token = "valid",
                                                     !.due = news]]
    BY <1>2, <2>1, Records DEF ConnType, Connected
  <2>3. Alive(c) => news # <<>>
    BY <2>1
  <2>4. ~Alive(c) => news = conn[c].due
    OBVIOUS
  <2>. HIDE DEF news, c
  <2>5. conn'[c] = [conn[c] EXCEPT !.at = "open", !.token = "valid", !.due = news]
        /\ \A k \in Client \ {c} : conn'[k] = conn[k]
    BY <2>1, <2>2, Records
  <2>6. conn'[c].loop = conn[c].loop /\ conn'[c].due = news
    BY <2>1, <2>5 DEF ConnType
  <2>. QED BY <1>2, <2>3, <2>4, <2>5, <2>6 DEF c
<1>. QED BY <1>1, <1>2

LEMMA LostMakes ==
  ASSUME TypeOK, NEW k \in Client, ConnectionLost(k) \/ Reconnected(k)
  PROVE  /\ \A j \in Client \ {k} : conn'[j] = conn[j]
         /\ conn[k].at \in {"open", "dropped"}
         /\ conn[k].loop # "gone"
         /\ conn'[k].loop = conn[k].loop
         /\ conn'[k].due # <<>>
         /\ UNCHANGED <<sdk, proc, left, entangled>>
<1>0. conn[k] \in ConnType /\ conn[k].due \in Seq(News) /\ conn \in [Client -> ConnType]
  BY Records
<1>1. CASE ConnectionLost(k)
  <2> DEFINE news == Append(conn[k].due, "disconnected")
  <2>1. conn' = [conn EXCEPT ![k] = [conn[k] EXCEPT !.at = "dropped", !.due = news]]
    BY <1>0, <1>1 DEF ConnectionLost, ConnType
  <2>2. news # <<>>
    BY <1>0
  <2>. HIDE DEF news
  <2>3. conn'[k] = [conn[k] EXCEPT !.at = "dropped", !.due = news]
    BY <1>0, <2>1
  <2>4. conn'[k].loop = conn[k].loop /\ conn'[k].due = news
    BY <1>0, <2>3 DEF ConnType
  <2>. QED BY <1>0, <1>1, <2>1, <2>2, <2>4 DEF ConnectionLost, Alive
<1>2. CASE Reconnected(k)
  <2> DEFINE news == Append(conn[k].due, "connected")
  <2>1. conn' = [conn EXCEPT ![k] = [conn[k] EXCEPT !.at = "open", !.token = "valid",
                                                     !.due = news]]
    BY <1>0, <1>2 DEF Reconnected, ConnType
  <2>2. news # <<>>
    BY <1>0
  <2>. HIDE DEF news
  <2>3. conn'[k] = [conn[k] EXCEPT !.at = "open", !.token = "valid", !.due = news]
    BY <1>0, <2>1
  <2>4. conn'[k].loop = conn[k].loop /\ conn'[k].due = news
    BY <1>0, <2>3 DEF ConnType
  <2>. QED BY <1>0, <1>2, <2>1, <2>2, <2>4 DEF Reconnected, Alive
<1>. QED BY <1>1, <1>2

LEMMA CallbackMakes ==
  ASSUME TypeOK, NEW k \in Client, Callback(k)
  PROVE  /\ \A j \in Client \ {k} : conn'[j] = conn[j]
         /\ conn[k].due # <<>>
         /\ conn'[k] = [conn[k] EXCEPT !.due = Tail(conn[k].due)]
         /\ sdk'.client = sdk.client
         /\ sdk'.token = IF conn[k].due[1] = "connected" THEN conn[k].token ELSE "none"
         /\ UNCHANGED <<proc, left, entangled>>
<1>0. conn[k] \in ConnType /\ conn[k].due \in Seq(News) /\ conn \in [Client -> ConnType]
      /\ sdk \in SdkType
  BY Records
<1>1. conn' = [conn EXCEPT ![k] = [conn[k] EXCEPT !.due = Tail(conn[k].due)]]
  BY <1>0 DEF Callback, ConnType
<1>2. sdk'.client = sdk.client
      /\ sdk'.token = IF Head(conn[k].due) = "connected" THEN conn[k].token ELSE "none"
  BY <1>0 DEF Callback, SdkType
<1>3. conn[k].due # <<>> /\ Head(conn[k].due) = conn[k].due[1]
  BY <1>0 DEF Callback
<1>. QED BY <1>0, <1>1, <1>2, <1>3 DEF Callback

LEMMA InvalidateMakes ==
  ASSUME TypeOK, Invalidate
  PROVE  /\ sdk'.client = sdk.client
         /\ sdk'.token = IF sdk.token = "valid" THEN "stale" ELSE sdk.token
         /\ \A k \in Client :
              /\ conn'[k].at = conn[k].at /\ conn'[k].loop = conn[k].loop
              /\ conn'[k].due = conn[k].due
              /\ conn'[k].token = IF conn[k].token = "valid" THEN "stale" ELSE conn[k].token
              /\ conn[k].token = "none" => conn'[k] = conn[k]
         /\ \A p \in Process : proc'[p].at = proc[p].at /\ proc'[p].client = proc[p].client
<1>1. /\ sdk'.client = sdk.client
      /\ sdk'.token = IF sdk.token = "valid" THEN "stale" ELSE sdk.token
  BY Records DEF Invalidate, SdkType
<1>2. \A p \in Process : proc'[p].at = proc[p].at /\ proc'[p].client = proc[p].client
  BY Records DEF Invalidate, ProcType
<1>3. ASSUME NEW k \in Client
      PROVE  /\ conn'[k].at = conn[k].at /\ conn'[k].loop = conn[k].loop
             /\ conn'[k].due = conn[k].due
             /\ conn'[k].token = IF conn[k].token = "valid" THEN "stale" ELSE conn[k].token
             /\ conn[k].token = "none" => conn'[k] = conn[k]
  <2>1. conn[k] \in ConnType
    BY Records
  <2>2. conn'[k] = [conn[k] EXCEPT !.token = IF conn[k].token = "valid" THEN "stale"
                                             ELSE conn[k].token]
    BY <2>1 DEF Invalidate, ConnType
  <2>. QED BY <2>1, <2>2 DEF ConnType
<1>. QED BY <1>1, <1>2, <1>3

(* Who reconnects takes the session, or first disconnects the old client.  *)
LEMMA ForceReconnectMakes ==
  ASSUME TypeOK, NEW p \in Process, ForceReconnect(p)
  PROVE  /\ ~entangled' => /\ ~entangled
                           /\ \A q \in Process \ {p} : ~InLoginNow(q)
         /\ \/ /\ sdk.client \in Client /\ UNCHANGED <<sdk, conn, left>>
               /\ proc'[p].at = "disconnect" /\ proc'[p].client = sdk.client
               /\ \A q \in Process \ {p} : proc'[q] = proc[q]
            \/ NewClient(p, conn, {sdk.client})
<1>1. ~entangled' => ~entangled /\ \A q \in Process \ {p} : ~InLoginNow(q)
  BY DEF ForceReconnect, InLoginNow
<1>2. CASE sdk.client # NoClient /\ conn[sdk.client].at = "open"
  <2>1. proc' = [proc EXCEPT ![p] = [at |-> "disconnect", holds |-> "none",
                                     client |-> sdk.client]]
        /\ UNCHANGED <<sdk, conn, left>>
    BY <1>2 DEF ForceReconnect
  <2>2. sdk.client \in Client
    BY <1>2, Records
  <2>. QED BY <1>1, <2>1, <2>2, Records
<1>3. CASE ~(sdk.client # NoClient /\ conn[sdk.client].at = "open")
  <2>1. NewClient(p, conn, {sdk.client})
    BY <1>3 DEF ForceReconnect
  <2>. QED BY <1>1, <2>1
<1>. QED BY <1>2, <1>3

LEMMA NewClientSilent ==
  ASSUME TypeOK, NEW p \in Process, NEW before \in [Client -> ConnType],
         NEW dropped \in SUBSET (Client \cup {NoClient}), NewClient(p, before, dropped),
         \A k \in Client : before[k].loop = "gone" => before[k].due = <<>>
  PROVE  GoneIsSilent'
<1>1. PICK k \in Client : Makes(p, before, dropped, k)
  BY NewClientMakes
<1>2. conn'[k].due = <<>>
  BY <1>1 DEF Makes, Unused
<1>3. \A j \in Client \ {k} : conn'[j].loop = "gone" => conn'[j].due = <<>>
  BY <1>1 DEF Makes, Unused
<1>. QED BY <1>2, <1>3 DEF GoneIsSilent, Alive

LEMMA LoopEndsSilent ==
  ASSUME TypeOK, GoneIsSilent, NEW p \in Process, LoopEnds(p)
  PROVE  GoneIsSilent'
<1>1. ASSUME NEW k \in Client PROVE conn'[k].loop = "gone" => conn'[k].due = <<>>
  <2>1. CASE conn'[k] = conn[k]
    BY <2>1 DEF GoneIsSilent, Alive
  <2>2. CASE conn'[k] = [conn[k] EXCEPT !.loop = "gone", !.due = <<>>]
    BY <2>2, Records DEF ConnType
  <2>. QED BY <2>1, <2>2, LoopEndsType
<1>. QED BY <1>1 DEF GoneIsSilent, Alive

LEMMA NextSilent == TypeOK /\ GoneIsSilent /\ [Next]_vars => GoneIsSilent'
<1> SUFFICES ASSUME TypeOK, GoneIsSilent, [Next]_vars PROVE GoneIsSilent'
  OBVIOUS
<1>1. conn' = conn => GoneIsSilent'
  BY DEF GoneIsSilent, Alive
<1>2. ASSUME NEW p \in Process, NEW dropped \in SUBSET (Client \cup {NoClient}),
             NewClient(p, conn, dropped)
      PROVE  GoneIsSilent'
  BY <1>2, NewClientSilent, Records DEF GoneIsSilent, Alive
<1>3. CASE Startup
  BY <1>2, <1>3 DEF Startup, Process
<1>4. ASSUME NEW p \in Process, Started(p) PROVE GoneIsSilent'
  BY <1>1, <1>4 DEF Started
<1>5. ASSUME NEW p \in Process, Disconnected(p) PROVE GoneIsSilent'
  <2> DEFINE c == proc[p].client
  <2>1. CASE NewClient(p, conn, {c})
    BY <1>2, <2>1, Records
  <2>2. CASE ~NewClient(p, conn, {c})
    <3>1. PICK before \in [Client -> ConnType] :
             /\ NewClient(p, before, {})
             /\ \A k \in Client \ {c} : before[k] = conn[k]
             /\ c \in Client => (before[c].loop = "gone" => before[c].due = <<>>)
      BY <1>5, <2>2, DisconnectedMakes
    <3>2. \A k \in Client : before[k].loop = "gone" => before[k].due = <<>>
      BY <3>1 DEF GoneIsSilent, Alive
    <3>. QED BY <3>1, <3>2, NewClientSilent
  <2>. QED BY <2>1, <2>2
<1>6. ASSUME NEW p \in Process, Connected(p) PROVE GoneIsSilent'
  <2> DEFINE c == proc[p].client
  <2>1. CASE c \in Client
    BY <1>6, <2>1, ConnectedMakes DEF GoneIsSilent, Alive
  <2>2. CASE c \notin Client
    BY <1>1, <1>6, <2>2, Records DEF Connected
  <2>. QED BY <2>1, <2>2
<1>7. ASSUME NEW p \in Process, ConnectFails(p) \/ ConnectAgain(p) PROVE GoneIsSilent'
  BY <1>1, <1>7 DEF ConnectFails, ConnectAgain
<1>8. ASSUME NEW p \in Process, ConnectRaises(p) \/ TokenArrived(p) \/ TokenTimesOut(p)
      PROVE  GoneIsSilent'
  BY <1>8, LoopEndsSilent DEF ConnectRaises, TokenArrived, TokenTimesOut, Finish
<1>9. ASSUME NEW k \in Client, Callback(k) PROVE GoneIsSilent'
  <2>1. conn'[k].loop = conn[k].loop /\ conn[k].due # <<>>
    BY <1>9, CallbackMakes, Records DEF ConnType
  <2>. QED BY <1>9, <2>1, CallbackMakes DEF GoneIsSilent, Alive
<1>10. ASSUME NEW k \in Client, ConnectionLost(k) \/ Reconnected(k) PROVE GoneIsSilent'
  BY <1>10, LostMakes DEF GoneIsSilent, Alive
<1>11. CASE HubRestarts
  BY <1>11, InvalidateMakes DEF GoneIsSilent, Alive, HubRestarts
<1>12. ASSUME NEW p \in Process, ForceReconnect(p) PROVE GoneIsSilent'
  BY <1>1, <1>2, <1>12, ForceReconnectMakes, Records
<1>13. CASE CheckAnswered
  BY <1>1, <1>12, <1>13 DEF CheckAnswered, Process
<1>14. ASSUME NEW w \in Worker, OfWorker(w) PROVE GoneIsSilent'
  BY <1>1, <1>12, <1>14 DEF OfWorker, Request, RequestAnswered, Reread,
     Send, Process
<1>15. CASE HubReturns \/ Check \/ UNCHANGED vars
  BY <1>1, <1>15 DEF HubReturns, Check, Send, vars
<1>. QED
  BY <1>3, <1>4, <1>5, <1>6, <1>7, <1>8, <1>9, <1>10, <1>11, <1>13, <1>14, <1>15
  DEF Next, InLogin

LEMMA NextStartup == TypeOK /\ StartupFirst /\ [Next]_vars => StartupFirst'
<1> SUFFICES ASSUME TypeOK, StartupFirst, [Next]_vars PROVE StartupFirst'
  OBVIOUS
<1> DEFINE s == "startup"
           Others == Worker \cup {"health"}
           Moves(p) == proc[p].at # "off" /\ (p = s => proc[p].at # "ready")
<1>0. s \in Process /\ s \notin Others /\ Process = {s} \cup Others
  BY WorkersAssumption DEF Process
<1>1. ASSUME proc'[s].at # "off", proc'[s].at # "ready",
             \A q \in Others : proc'[q].at = proc[q].at, proc[s].at # "ready"
      PROVE  StartupFirst'
  BY <1>1 DEF StartupFirst
<1>2. ASSUME proc'[s].at = "ready" PROVE StartupFirst'
  BY <1>2 DEF StartupFirst
<1>3. ASSUME UNCHANGED <<sdk, conn, proc>> PROVE StartupFirst'
  BY <1>3 DEF StartupFirst
(* What one process does, when it is not idle.                             *)
<1>4. ASSUME NEW p \in Process, Moves(p),
             \A q \in Process \ {p} : proc'[q] = proc[q],
             proc'[p].at # "off"
      PROVE  StartupFirst'
  <2>1. CASE p = s
    BY <1>0, <1>1, <1>2, <1>4, <2>1 DEF StartupFirst
  <2>2. CASE p # s
    <3>1. proc[s].at = "ready"
      BY <1>0, <1>4, <2>2 DEF StartupFirst
    <3>. QED BY <1>0, <1>2, <1>4, <2>2, <3>1
  <2>. QED BY <2>1, <2>2
<1>5. ASSUME NEW p \in Process, Moves(p), NEW t \in Stage, t # "off", Go(p, t)
      PROVE  StartupFirst'
  BY <1>4, <1>5, GoType
<1>6. ASSUME NEW p \in Process, Moves(p), Send(p)
      PROVE  StartupFirst'
  BY <1>4, <1>6, SendType
<1>7. ASSUME NEW p \in Process, NEW before \in [Client -> ConnType], 
             NEW dropped \in SUBSET (Client \cup {NoClient}), NewClient(p, before, dropped)
      PROVE  proc'[p].at = "connect" /\ \A q \in Process \ {p} : proc'[q] = proc[q]
  <2>1. PICK k \in Client : Makes(p, before, dropped, k)
    BY <1>7, NewClientMakes
  <2>. QED BY <2>1 DEF Makes
<1>8. CASE Startup
  <2>1. /\ proc'[s].at = "connect" /\ \A q \in Process \ {s} : proc'[q] = proc[q]
        /\ proc[s].at = "off"
    BY <1>0, <1>7, <1>8, Records DEF Startup
  <2>. QED BY <1>0, <1>1, <2>1
<1>9. ASSUME NEW p \in Process, Started(p) PROVE StartupFirst'
  <2>1. proc[s].at = "ready" /\ p # s /\ Go(p, "ready")
    BY <1>9 DEF Started
  <2>. QED BY <1>0, <1>2, <2>1, GoType DEF Stage
<1>10. ASSUME NEW p \in Process, Disconnected(p) PROVE StartupFirst'
  <2>1. \E dropped \in SUBSET (Client \cup {NoClient}) :
           \E before \in [Client -> ConnType] : NewClient(p, before, dropped)
    BY <1>10, DisconnectedNew
  <2>. QED BY <1>4, <1>7, <1>10, <2>1 DEF Disconnected
<1>11. ASSUME NEW p \in Process, Connected(p) \/ ConnectAgain(p) PROVE StartupFirst'
  <2>1. /\ \A q \in Process \ {p} : proc'[q] = proc[q]
        /\ proc'[p].at \in {"token", "connect"} /\ proc[p].at \in {"connect", "backoff"}
    BY <1>11, Records DEF Connected, ConnectAgain, ProcType
  <2>. QED BY <1>4, <2>1
<1>12. ASSUME NEW p \in Process,
              ConnectFails(p) \/ ConnectRaises(p) \/ TokenArrived(p) \/ TokenTimesOut(p)
       PROVE  StartupFirst'
  <2>1. proc[p].at \in {"connect", "token"}
        /\ (Go(p, "backoff") \/ Go(p, "ready") \/ Go(p, "reread"))
    BY <1>12 DEF ConnectFails, ConnectRaises, TokenArrived, TokenTimesOut, Finish
  <2>. QED BY <1>5, <2>1 DEF Stage, Login
<1>13. ASSUME NEW k \in Client, Callback(k) PROVE StartupFirst'
  <2>1. conn[k].due # <<>> /\ UNCHANGED proc
    BY <1>13, CallbackMakes
  <2>2. proc[s].at # "off"
    BY <2>1 DEF StartupFirst, Unused
  <2>. QED BY <2>1, <2>2 DEF StartupFirst
<1>14. ASSUME NEW k \in Client, ConnectionLost(k) \/ Reconnected(k) PROVE StartupFirst'
  <2>1. conn[k].at \in {"open", "dropped"} /\ UNCHANGED proc
    BY <1>14, LostMakes
  <2>2. proc[s].at # "off"
    BY <2>1 DEF StartupFirst, Unused
  <2>. QED BY <2>1, <2>2 DEF StartupFirst
<1>15. CASE HubRestarts
  <2>1. \A p \in Process : proc'[p].at = proc[p].at
    BY <1>15, InvalidateMakes DEF HubRestarts
  <2>2. proc[s].at = "off" => /\ sdk'.client = NoClient /\ sdk'.token = "none"
                              /\ \A k \in Client : conn'[k] = Unused
    BY <1>15, InvalidateMakes DEF HubRestarts, StartupFirst, Unused
  <2>. QED BY <1>0, <2>1, <2>2 DEF StartupFirst
<1>16. ASSUME NEW p \in Process, Moves(p), ForceReconnect(p) PROVE StartupFirst'
  <2>1. CASE NewClient(p, conn, {sdk.client})
    BY <1>4, <1>7, <1>16, <2>1, Records
  <2>2. CASE proc'[p].at = "disconnect" /\ \A q \in Process \ {p} : proc'[q] = proc[q]
    BY <1>4, <1>16, <2>2
  <2>. QED BY <1>16, <2>1, <2>2, ForceReconnectMakes
<1>17. CASE CheckAnswered
  <2>1. proc["health"].at # "off" /\ (ForceReconnect("health") \/ Go("health", "ready"))
    BY <1>17 DEF CheckAnswered
  <2>. QED BY <1>0, <1>5, <1>16, <2>1 DEF Stage, Process
<1>18. ASSUME NEW w \in Worker, OfWorker(w) PROVE StartupFirst'
  <2>1. /\ proc[w].at # "off"
        /\ \/ ForceReconnect(w) \/ Go(w, "ready") \/ Send(w)
    BY <1>18 DEF OfWorker, Request, RequestAnswered, Reread
  <2>. QED BY <1>0, <1>5, <1>6, <1>16, <2>1 DEF Stage, Process
<1>19. CASE Check
  <2>1. proc["health"].at # "off" /\ Send("health")
    BY <1>19 DEF Check
  <2>. QED BY <1>0, <1>6, <2>1 DEF Stage, Process
<1>20. CASE HubReturns \/ UNCHANGED vars
  BY <1>3, <1>20 DEF HubReturns, vars
<1>. QED
  BY <1>8, <1>9, <1>10, <1>11, <1>12, <1>13, <1>14, <1>15, <1>17, <1>18, <1>19, <1>20
  DEF Next, InLogin

(***************************************************************************)
(* The session                                                             *)
(***************************************************************************)

(* A process that goes on, with the session and the clients as they are.   *)
LEMMA MoveKeeps ==
  ASSUME TypeOK, Session, NEW p \in Process, UNCHANGED <<conn, sdk, left, entangled>>,
         \A q \in Process \ {p} : proc'[q] = proc[q],
         InLoginNow(p)' =>
           /\ InLoginNow(p) /\ proc[p].at # "disconnect" /\ proc'[p].at # "disconnect"
           /\ proc'[p].at # "backoff" => proc'[p].client = sdk.client
  PROVE  Session'
<1> SUFFICES ASSUME ~entangled PROVE Solo' /\ Mine' /\ Quiet' /\ TokenOfClient'
  BY DEF Session
<1>1. Solo /\ Mine /\ Quiet /\ TokenOfClient
  BY DEF Session
<1>2. \A q \in Process : InLoginNow(q)' => InLoginNow(q)
  BY DEF InLoginNow
<1>3. Solo'
  BY <1>1, <1>2 DEF Solo
<1>4. Mine'
  BY <1>1, <1>2 DEF Mine, InLoginNow
<1>5. Quiet' /\ TokenOfClient'
  BY <1>1 DEF Quiet, IsQuiet, TokenOfClient
<1>. QED BY <1>3, <1>4, <1>5

(* A new session, when nobody else logs in and the clients are quiet.      *)
LEMMA NewClientSession ==
  ASSUME TypeOK, NEW p \in Process, NEW before \in [Client -> ConnType],
         NEW dropped \in SUBSET (Client \cup {NoClient}), NewClient(p, before, dropped),
         \A q \in Process \ {p} : ~InLoginNow(q),
         \A k \in Client : \/ k \in left \/ (k \in dropped /\ Alive(k))
                           \/ /\ before[k].at \in {"open", "dropped"} => before[k].loop = "gone"
                              /\ \A i \in DOMAIN before[k].due :
                                   before[k].due[i] = "disconnected"
  PROVE  Solo' /\ Mine' /\ Quiet' /\ TokenOfClient'
<1>1. PICK k \in Client : Makes(p, before, dropped, k)
  BY NewClientMakes
<1>2. sdk'.client = k /\ sdk'.token = "none" /\ conn'[k].loop = Loop(p)
  BY <1>1 DEF Makes, Unused
<1>3. \A q \in Process \ {p} : ~InLoginNow(q)'
  BY <1>1 DEF Makes, InLoginNow
<1>4. Solo'
  BY <1>3 DEF Solo
<1>5. Mine'
  <2>1. proc'[p].at = "connect" /\ proc'[p].client = k
    BY <1>1 DEF Makes
  <2>2. sdk'.client \in Client
    BY <1>2
  <2>3. \A q \in Process : InLoginNow(q)' => q = p
    BY <1>3
  <2>. QED BY <1>2, <2>1, <2>2, <2>3 DEF Mine, Loop
<1>6. Quiet'
  <2>1. ASSUME NEW j \in Client \ {k}, j \notin left' PROVE IsQuiet(j)'
    <3>1. CASE conn'[j] = Unused
      BY <3>1 DEF IsQuiet, Unused
    <3>2. CASE conn'[j] = before[j] /\ j \notin left /\ ~(j \in dropped /\ conn[j].loop # "gone")
      BY <3>2 DEF IsQuiet, Alive
    <3>. QED BY <1>1, <2>1, <3>1, <3>2 DEF Makes
  <2>. QED BY <1>2, <2>1 DEF Quiet
<1>7. TokenOfClient'
  BY <1>2 DEF TokenOfClient
<1>. QED BY <1>4, <1>5, <1>6, <1>7

(* A login ends, and with it the loop of a worker.                         *)
LEMMA LoopEndsSession ==
  ASSUME TypeOK, Session, NEW p \in Process, InLoginNow(p), LoopEnds(p),
         sdk'.client = sdk.client, sdk'.token = sdk.token,
         \A q \in Process \ {p} : proc'[q] = proc[q],
         ~InLoginNow(p)'
  PROVE  Session'
<1> SUFFICES ASSUME ~entangled' PROVE Solo' /\ Mine' /\ Quiet' /\ TokenOfClient'
  BY DEF Session
<1>1. /\ ~entangled /\ left' = left
      /\ \A k \in Client : \/ conn'[k] = conn[k]
                           \/ /\ conn'[k] = [conn[k] EXCEPT !.loop = "gone", !.due = <<>>]
                              /\ conn[k].due = <<>>
  BY LoopEndsType
<1>2. Solo /\ Mine /\ Quiet /\ TokenOfClient
  BY <1>1 DEF Session
<1>3. \A q \in Process : ~InLoginNow(q)'
  BY <1>2 DEF Solo, InLoginNow
<1>4. Solo' /\ Mine'
  BY <1>3 DEF Solo, Mine
<1>5. ASSUME NEW k \in Client
      PROVE  conn'[k].at = conn[k].at /\ conn'[k].due = conn[k].due
             /\ conn'[k].token = conn[k].token
             /\ (conn'[k].loop = "gone" \/ conn'[k].loop = conn[k].loop)
  <2>1. CASE conn'[k] = conn[k]
    BY <2>1
  <2>2. CASE conn'[k] = [conn[k] EXCEPT !.loop = "gone", !.due = <<>>] /\ conn[k].due = <<>>
    BY <2>2, Records DEF ConnType
  <2>. QED BY <1>1, <2>1, <2>2
<1>6. Quiet'
  <2>1. ASSUME NEW k \in Client \ ({sdk.client} \cup left) PROVE IsQuiet(k)'
    <3>1. IsQuiet(k)
      BY <1>2 DEF Quiet
    <3>. QED BY <1>5, <3>1 DEF IsQuiet
  <2>. QED BY <1>1, <2>1 DEF Quiet
<1>7. TokenOfClient'
  BY <1>1, <1>2, <1>5 DEF TokenOfClient
<1>. QED BY <1>4, <1>6, <1>7

LEMMA ConnectedSession ==
  ASSUME TypeOK, Session, NEW p \in Process, Connected(p)
  PROVE  Session'
<1> SUFFICES ASSUME ~entangled' PROVE Solo' /\ Mine' /\ Quiet' /\ TokenOfClient'
  BY DEF Session
<1> DEFINE c == proc[p].client
<1>1. /\ proc[p].at = "connect" /\ UNCHANGED <<sdk, left, entangled>>
      /\ proc' = [proc EXCEPT ![p].at = "token"]
  BY DEF Connected
<1>2. Solo /\ Mine /\ Quiet /\ TokenOfClient
  BY <1>1 DEF Session
<1>3. c = sdk.client /\ sdk.client \in Client /\ conn[c].loop = Loop(p)
  BY <1>1, <1>2 DEF Mine, InLoginNow, Login
<1>4. /\ \A k \in Client \ {sdk.client} : conn'[k] = conn[k]
      /\ conn'[sdk.client].loop = conn[sdk.client].loop
      /\ conn'[sdk.client] = conn[sdk.client] \/ conn'[sdk.client].due # <<>>
  BY <1>3, ConnectedMakes, LoopRuns DEF Alive
<1>5. /\ proc'[p].at = "token" /\ proc'[p].client = proc[p].client
      /\ \A q \in Process \ {p} : proc'[q] = proc[q]
  BY <1>1, Records DEF ProcType
<1>6. \A q \in Process \ {p} : ~InLoginNow(q)'
  BY <1>1, <1>2, <1>5 DEF Solo, InLoginNow, Login
<1>7. Solo'
  BY <1>6 DEF Solo
<1>8. Mine'
  BY <1>1, <1>3, <1>4, <1>5, <1>6 DEF Mine
<1>9. Quiet' /\ TokenOfClient'
  BY <1>1, <1>2, <1>4 DEF Quiet, IsQuiet, TokenOfClient
<1>. QED BY <1>7, <1>8, <1>9

LEMMA DisconnectedSession ==
  ASSUME TypeOK, GoneIsSilent, Session, NEW p \in Process, Disconnected(p)
  PROVE  Session'
<1> SUFFICES ASSUME ~entangled' PROVE Solo' /\ Mine' /\ Quiet' /\ TokenOfClient'
  BY DEF Session
<1> DEFINE c == proc[p].client
<1>1. ~entangled
  BY DisconnectedMakes
<1>2. Solo /\ Mine /\ Quiet
  BY <1>1 DEF Session
<1>3. proc[p].at = "disconnect" /\ InLoginNow(p)
  BY DEF Disconnected, InLoginNow, Login
<1>4. c = sdk.client /\ c \in Client
  BY <1>2, <1>3 DEF Mine
<1>5. \A q \in Process \ {p} : ~InLoginNow(q)
  BY <1>2, <1>3 DEF Solo
<1>6. CASE NewClient(p, conn, {c})
  <2>1. ASSUME NEW k \in Client, k # c, k \notin left PROVE IsQuiet(k)
    BY <1>2, <1>4, <2>1 DEF Quiet
  <2>2. ASSUME ~Alive(c) PROVE IsQuiet(c)
    BY <1>4, <2>2 DEF GoneIsSilent, Alive, IsQuiet
  <2>3. \A k \in Client : k \in left \/ (k \in {c} /\ Alive(k)) \/ IsQuiet(k)
    BY <2>1, <2>2
  <2>4. conn \in [Client -> ConnType] /\ {c} \in SUBSET (Client \cup {NoClient})
    BY Records
  <2>. HIDE DEF c
  <2>. QED BY <1>5, <1>6, <2>3, <2>4, NewClientSession DEF IsQuiet
<1>7. CASE ~NewClient(p, conn, {c})
  <2>1. PICK before \in [Client -> ConnType] :
          /\ NewClient(p, before, {})
          /\ \A k \in Client \ {c} : before[k] = conn[k]
          /\ c \in Client => /\ before[c].at = "closed"
                             /\ \A i \in DOMAIN before[c].due : before[c].due[i] # "connected"
    BY <1>7, DisconnectedMakes
  <2>2. ASSUME NEW k \in Client, k \notin left
        PROVE  /\ before[k].at \in {"open", "dropped"} => before[k].loop = "gone"
               /\ \A i \in DOMAIN before[k].due : before[k].due[i] = "disconnected"
    <3>1. CASE k = c
      <4>1. before[k].due \in Seq(News)
        BY DEF ConnType
      <4>2. \A i \in DOMAIN before[k].due : before[k].due[i] \in News
        BY <4>1
      <4>. QED BY <2>1, <3>1, <4>2 DEF News
    <3>2. CASE k # c
      BY <1>2, <1>4, <2>1, <2>2, <3>2 DEF Quiet, IsQuiet
    <3>. QED BY <3>1, <3>2
  <2>. HIDE DEF c
  <2>. QED BY <1>5, <2>1, <2>2, NewClientSession
<1>. QED BY <1>6, <1>7

LEMMA ForceReconnectSession ==
  ASSUME TypeOK, GoneIsSilent, Session, NEW p \in Process, ForceReconnect(p)
  PROVE  Session'
<1> SUFFICES ASSUME ~entangled' PROVE Solo' /\ Mine' /\ Quiet' /\ TokenOfClient'
  BY DEF Session
<1>1. ~entangled /\ \A q \in Process \ {p} : ~InLoginNow(q)
  BY ForceReconnectMakes
<1>2. Quiet /\ TokenOfClient
  BY <1>1 DEF Session
<1>3. CASE /\ sdk.client \in Client /\ UNCHANGED <<sdk, conn, left>>
           /\ proc'[p].at = "disconnect" /\ proc'[p].client = sdk.client
           /\ \A q \in Process \ {p} : proc'[q] = proc[q]
  <2>1. \A q \in Process \ {p} : ~InLoginNow(q)'
    BY <1>1, <1>3 DEF InLoginNow
  <2>2. Solo' /\ Mine'
    BY <1>3, <2>1 DEF Solo, Mine
  <2>3. Quiet' /\ TokenOfClient'
    BY <1>2, <1>3 DEF Quiet, IsQuiet, TokenOfClient
  <2>. QED BY <2>2, <2>3
<1>4. CASE NewClient(p, conn, {sdk.client})
  <2>1. ASSUME NEW k \in Client, k \notin left, k # sdk.client \/ ~Alive(k) PROVE IsQuiet(k)
    <3>1. CASE ~Alive(k)
      BY <3>1 DEF Alive, GoneIsSilent, IsQuiet
    <3>. QED BY <1>2, <2>1, <3>1 DEF Quiet
  <2>2. \A k \in Client : k \in left \/ (k \in {sdk.client} /\ Alive(k)) \/ IsQuiet(k)
    BY <2>1
  <2>. QED BY <1>1, <1>4, <2>2, NewClientSession, Records DEF IsQuiet
<1>. QED BY <1>3, <1>4, ForceReconnectMakes

LEMMA CallbackSession ==
  ASSUME TypeOK, Session, NEW k \in Client, Callback(k)
  PROVE  Session'
<1> SUFFICES ASSUME ~entangled' PROVE Solo' /\ Mine' /\ Quiet' /\ TokenOfClient'
  BY DEF Session
<1>1. /\ \A j \in Client \ {k} : conn'[j] = conn[j]
      /\ conn[k].due # <<>>
      /\ conn'[k] = [conn[k] EXCEPT !.due = Tail(conn[k].due)]
      /\ sdk'.client = sdk.client
      /\ sdk'.token = IF conn[k].due[1] = "connected" THEN conn[k].token ELSE "none"
      /\ UNCHANGED <<proc, left, entangled>>
  BY CallbackMakes
<1>2. Solo /\ Mine /\ Quiet /\ TokenOfClient
  BY <1>1 DEF Session
<1>3. /\ conn'[k].at = conn[k].at /\ conn'[k].loop = conn[k].loop
      /\ conn'[k].token = conn[k].token /\ conn'[k].due = Tail(conn[k].due)
  BY <1>1, Records DEF ConnType
<1>4. conn[k].due \in Seq(News) /\ 1 \in DOMAIN conn[k].due
  BY <1>1, Records
<1>5. Solo' /\ Mine'
  <2>1. \A j \in Client : conn'[j].loop = conn[j].loop
    BY <1>1, <1>3
  <2>. QED BY <1>1, <1>2, <2>1 DEF Solo, Mine, InLoginNow, Loop
<1>6. ASSUME NEW j \in Client \ ({sdk.client} \cup left) PROVE IsQuiet(j)'
  <2>1. CASE j # k
    BY <1>1, <1>2, <2>1 DEF Quiet, IsQuiet
  <2>2. CASE j = k
    <3>1. \A i \in DOMAIN Tail(conn[k].due) : /\ i + 1 \in DOMAIN conn[k].due
                                              /\ Tail(conn[k].due)[i] = conn[k].due[i + 1]
      BY <1>1, <1>4
    <3>. QED BY <1>2, <1>3, <2>2, <3>1 DEF Quiet, IsQuiet
  <2>. QED BY <2>1, <2>2
<1>7. Quiet'
  BY <1>1, <1>6 DEF Quiet
<1>8. TokenOfClient'
  <2>1. CASE k = sdk.client
    BY <1>1, <1>3, <2>1 DEF TokenOfClient
  <2>2. CASE k # sdk.client /\ left = {}
    <3>1. conn[k].due[1] = "disconnected"
      BY <1>2, <1>4, <2>2 DEF Quiet, IsQuiet
    <3>. QED BY <1>1, <3>1 DEF TokenOfClient
  <2>3. CASE left # {}
    BY <1>1, <2>3 DEF TokenOfClient
  <2>. QED BY <2>1, <2>2, <2>3
<1>. QED BY <1>5, <1>7, <1>8

LEMMA LostSession ==
  ASSUME TypeOK, Session, NEW k \in Client, ConnectionLost(k) \/ Reconnected(k)
  PROVE  Session'
<1> SUFFICES ASSUME ~entangled' PROVE Solo' /\ Mine' /\ Quiet' /\ TokenOfClient'
  BY DEF Session
<1>1. /\ \A j \in Client \ {k} : conn'[j] = conn[j]
      /\ conn[k].at \in {"open", "dropped"} /\ conn[k].loop # "gone"
      /\ conn'[k].loop = conn[k].loop
      /\ conn'[k].due # <<>>
      /\ UNCHANGED <<sdk, proc, left, entangled>>
  BY LostMakes
<1>2. Solo /\ Mine /\ Quiet /\ TokenOfClient
  BY <1>1 DEF Session
<1>3. k = sdk.client \/ k \in left
  BY <1>1, <1>2 DEF Quiet, IsQuiet
<1>4. Solo' /\ Mine'
  BY <1>1, <1>2 DEF Solo, Mine, InLoginNow, Loop
<1>5. Quiet' /\ TokenOfClient'
  BY <1>1, <1>2, <1>3 DEF Quiet, IsQuiet, TokenOfClient
<1>. QED BY <1>4, <1>5

LEMMA InvalidateSession ==
  ASSUME TypeOK, Session, Invalidate, UNCHANGED <<left, entangled>>
  PROVE  Session'
<1> SUFFICES ASSUME ~entangled' PROVE Solo' /\ Mine' /\ Quiet' /\ TokenOfClient'
  BY DEF Session
<1>1. Solo /\ Mine /\ Quiet /\ TokenOfClient
  BY DEF Session
<1>2. Solo' /\ Mine'
  BY <1>1, InvalidateMakes DEF Solo, Mine, InLoginNow, Loop
<1>3. Quiet'
  BY <1>1, InvalidateMakes DEF Quiet, IsQuiet
<1>4. TokenOfClient'
  BY <1>1, InvalidateMakes DEF TokenOfClient
<1>. QED BY <1>2, <1>3, <1>4

LEMMA NextSession == IInv /\ [Next]_vars => Session'
<1> SUFFICES ASSUME IInv, [Next]_vars PROVE Session'
  OBVIOUS
<1>0. TypeOK /\ GoneIsSilent /\ StartupFirst /\ Session
  BY DEF IInv
<1> USE <1>0
<1>1. ASSUME UNCHANGED <<conn, sdk, proc, left, entangled>> PROVE Session'
  BY <1>1 DEF Session, Solo, Mine, Quiet, IsQuiet, TokenOfClient, InLoginNow
<1>2. ASSUME NEW p \in Process, UNCHANGED <<conn, sdk, left, entangled>>,
             Go(p, "ready") \/ Send(p)
      PROVE  Session'
  BY <1>2, MoveKeeps, GoType, SendType DEF InLoginNow, Login, Stage
<1>3. CASE Startup
  <2>1. proc["startup"].at = "off" /\ NewClient("startup", conn, {}) /\ "startup" \in Process
    BY <1>3 DEF Startup, Process
  <2>2. \A q \in Process \ {"startup"} : ~InLoginNow(q)
    BY <2>1 DEF StartupFirst, InLoginNow, Login, Process
  <2>3. \A k \in Client : conn[k].at = "unused" /\ conn[k].due = <<>>
    BY <2>1 DEF StartupFirst, Unused
  <2>. QED BY <2>1, <2>2, <2>3, NewClientSession, Records DEF Session
<1>4. ASSUME NEW p \in Process, Started(p) PROVE Session'
  BY <1>2, <1>4 DEF Started
<1>5. ASSUME NEW p \in Process, ConnectFails(p) PROVE Session'
  <2>1. /\ Go(p, "backoff") /\ proc[p].at = "connect" /\ UNCHANGED <<sdk, conn, left, entangled>>
    BY <1>5 DEF ConnectFails
  <2>. QED BY <2>1, GoType, MoveKeeps DEF InLoginNow, Login, Stage
<1>6. ASSUME NEW p \in Process, ConnectAgain(p) PROVE Session'
  <2>1. /\ proc[p].at = "backoff" /\ UNCHANGED <<sdk, conn, left, entangled>>
        /\ proc'[p].at = "connect" /\ proc'[p].client = sdk.client
        /\ \A q \in Process \ {p} : proc'[q] = proc[q]
    BY <1>6, Records DEF ConnectAgain, ProcType
  <2>. QED BY <2>1, MoveKeeps DEF InLoginNow, Login
<1>7. ASSUME NEW p \in Process, ConnectRaises(p) PROVE Session'
  <2>1. /\ InLoginNow(p) /\ LoopEnds(p) /\ Go(p, "ready")
        /\ sdk' = [sdk EXCEPT !.initializing = FALSE]
    BY <1>7 DEF ConnectRaises, InLoginNow, Login
  <2>2. sdk'.client = sdk.client /\ sdk'.token = sdk.token
    BY <2>1, Records DEF SdkType
  <2>. QED BY <2>1, <2>2, GoType, LoopEndsSession DEF InLoginNow, Login, Stage
<1>8. ASSUME NEW p \in Process, TokenArrived(p) \/ TokenTimesOut(p) PROVE Session'
  <2>1. PICK good \in BOOLEAN : proc[p].at = "token" /\ Finish(p, good)
    BY <1>8 DEF TokenArrived, TokenTimesOut
  <2>2. /\ InLoginNow(p) /\ LoopEnds(p) /\ (Go(p, "ready") \/ Go(p, "reread"))
        /\ sdk' = [sdk EXCEPT !.initialized = good, !.initializing = FALSE]
    BY <2>1 DEF Finish, InLoginNow, Login
  <2>3. sdk'.client = sdk.client /\ sdk'.token = sdk.token
    BY <2>2, Records DEF SdkType
  <2>. QED BY <2>2, <2>3, GoType, LoopEndsSession DEF InLoginNow, Login, Stage
<1>9. CASE HubRestarts
  BY <1>9, InvalidateSession DEF HubRestarts
<1>10. CASE HubReturns \/ UNCHANGED vars
  BY <1>1, <1>10 DEF HubReturns, vars
<1>11. CASE Check
  BY <1>2, <1>11 DEF Check, Send, Process
<1>12. CASE CheckAnswered
  BY <1>2, <1>12, ForceReconnectSession DEF CheckAnswered, Process
<1>13. ASSUME NEW w \in Worker, OfWorker(w) PROVE Session'
  <2>1. \/ ForceReconnect(w)
        \/ (Go(w, "ready") \/ Send(w))
           /\ UNCHANGED <<sdk, conn, left, entangled>>
    BY <1>13 DEF OfWorker, Request, RequestAnswered, Reread, Send
  <2>. QED BY <1>2, <2>1, ForceReconnectSession DEF Process
<1>. QED
  BY <1>3, <1>4, <1>5, <1>6, <1>7, <1>8, <1>9, <1>10, <1>11, <1>12, <1>13,
     DisconnectedSession, ConnectedSession, CallbackSession, LostSession
  DEF Next, InLogin

LEMMA Invariant == Spec => []IInv
<1>1. IInv /\ [Next]_vars => IInv'
  BY NextTypes, NextSilent, NextStartup, NextSession DEF IInv
<1>. QED BY InitInv, <1>1, PTL DEF Spec

(***************************************************************************)
(* Unless two logins met, the only clients of GluesyncSDKClient that are   *)
(* connected with somebody to listen are the current one and those that a  *)
(* forced login dropped as they were (they were reconnecting, or their     *)
(* disconnect failed); while there is none of these, its token is that of  *)
(* the current client.                                                     *)
(***************************************************************************)
THEOREM CurrentClientListens == Spec => []OneClientListens
<1>1. ASSUME IInv, ~entangled
      PROVE  \A k \in Client : conn[k].at \in {"open", "dropped"} /\ Alive(k) =>
               k \in {sdk.client} \cup left
  BY <1>1 DEF IInv, Session, Quiet, IsQuiet, Alive
<1>2. ASSUME IInv, ~entangled, sdk.token # "none", left = {}
      PROVE  /\ sdk.client # NoClient
             /\ conn[sdk.client].due = <<>> => sdk.token = conn[sdk.client].token
  BY <1>2, ClientsAssumption DEF IInv, Session, TokenOfClient
<1>3. IInv => OneClientListens
  BY <1>1, <1>2 DEF OneClientListens
<1>. QED BY Invariant, <1>3, PTL
=============================================================================
