------------------------ MODULE VisitorGatewayProofs ------------------------
(***************************************************************************)
(* The safety of VisitorGateway, for every set of requests and of          *)
(* configurations, every capacity and whatever may go wrong.               *)
(*                                                                         *)
(* The requests and the listener meet in three places only: cancelled,     *)
(* which nothing here depends on, left, which is never read, and the       *)
(* readiness that admits a request.  The invariant has a part for each     *)
(* side and one for the end of the process, where they are related.        *)
(***************************************************************************)
EXTENDS VisitorGateway, FiniteSetTheorems, TLAPS

\* The threads at work are those with a place; the set stays finite.
PlacesAgree == WorkersBounded /\ IsFiniteSet(active)

\* What is served, or about to be, is what the owner has enabled.
ServedIsIntended ==
  /\ store.enabled => store.config # None
  /\ Ready => server.config = store.config /\ started = store.config
  /\ op = "listening" => /\ store.enabled /\ store.report = None
                         /\ server.config = store.config
  /\ op = "listening" <=> server.phase = "starting"
  /\ accepting => store.enabled
  /\ op \in {"stopping", "closing"} => ~accepting
  /\ op = "stopping" => ~store.enabled

\* A process that is going away accepts nothing and holds no place.
GoneIsQuiet ==
  process # "up" => /\ ~accepting /\ op = "none" /\ active = {}
                    /\ server = NoServer

Inv ==
  /\ TypeOK /\ PlacesAgree /\ ServedIsIntended /\ GoneIsQuiet
  /\ ReportIsOfThisListener /\ IntentIsServedOrShown

-----------------------------------------------------------------------------
\* Initially nothing listens and nobody is served.
LEMMA InitInv == Init => Inv
<1> SUFFICES ASSUME Init PROVE Inv
  OBVIOUS
<1>1. TypeOK
  BY DEF Init, TypeOK, NoServer
<1>2. PlacesAgree
  <2>1. active = {} /\ {r \in Requests : Working(r)} = {}
    BY DEF Init, Working, ThreadStages
  <2>2. IsFiniteSet(active) /\ Cardinality(active) = 0
    BY <2>1, FS_EmptySet
  <2> QED
    BY <2>1, <2>2, CapacityAssumption DEF PlacesAgree, WorkersBounded
<1>3. ServedIsIntended /\ GoneIsQuiet /\ ReportIsOfThisListener /\ IntentIsServedOrShown
  BY DEF Init, ServedIsIntended, GoneIsQuiet, ReportIsOfThisListener, IntentIsServedOrShown,
         Ready, NoServer
<1> QED
  BY <1>1, <1>2, <1>3 DEF Inv

-----------------------------------------------------------------------------
(***************************************************************************)
(* The owner's operations and the listener's own steps.                    *)
(***************************************************************************)
Operation ==
  \/ \E c \in Configs \cup {None} : Configure(c)
  \/ StartAgain \/ Start \/ Listen \/ ListenFails
  \/ Stop \/ Stopped \/ StopFails
  \/ Verify \/ Snapshot \/ SnapshotFails \/ ServerDies \/ Shutdown

\* No operation touches a thread or its place: it leaves visits as they are,
\* except that a stop sets events and gives connections up.
LEMMA OperationKeepsPlaces ==
  ASSUME Inv, Operation
  PROVE  /\ UNCHANGED <<process, conn, late, work, active>>
         /\ cancelled' \in SUBSET Requests /\ left' \in SUBSET Requests
BY DEF Inv, TypeOK, Operation, Configure, StartAgain, Start, Listen, ListenFails, Stop, Stopped,
       StopFails, Verify, Snapshot, SnapshotFails, ServerDies, Shutdown, CloseListener, Bind, visits

Servers == [phase : {"none", "starting", "serving", "dead"}, config : Configs \cup {None}]
Rows == [enabled : BOOLEAN, config : Configs \cup {None}, report : Configs \cup {None}]

\* The servers the gateway makes, and what becomes of one.
LEMMA ServerTypes ==
  /\ NoServer \in Servers
  /\ \A c \in Configs \cup {None} : Listening(c) \in Servers
  /\ \A s \in Servers : s.config \in Configs \cup {None}
  /\ \A s \in Servers : /\ [s EXCEPT !.phase = "serving"] \in Servers
                        /\ [s EXCEPT !.phase = "dead"] \in Servers
BY DEF Servers, NoServer, Listening

\* The rows its operations write.
LEMMA RowTypes ==
  ASSUME NEW row \in Rows
  PROVE  /\ row.config \in Configs \cup {None}
         /\ \A b \in BOOLEAN : [row EXCEPT !.enabled = b, !.report = None] \in Rows
         /\ \A c \in Configs \cup {None} : [row EXCEPT !.config = c, !.report = None] \in Rows
         /\ [row EXCEPT !.report = None] \in Rows
         /\ [row EXCEPT !.report = row.config] \in Rows
BY DEF Rows

\* Binding leaves the gateway's state well typed.
LEMMA BindType ==
  ASSUME TypeOK, NEW c \in Configs \cup {None}, Bind(c)
  PROVE  /\ server' \in Servers
         /\ orphan' \in BOOLEAN /\ accepting' \in BOOLEAN /\ error' \in BOOLEAN
         /\ witnessed' \in BOOLEAN /\ op' \in {"none", "listening"}
<1>1. CASE server' = Listening(c) /\ op' = "listening" /\ UNCHANGED <<orphan, accepting, error>>
  BY <1>1, ServerTypes DEF Bind, TypeOK
<1>2. CASE server' = NoServer /\ orphan' = PortTaken /\ accepting' = FALSE /\ error' = TRUE
           /\ op' = "none"
  <2>1. orphan' \in BOOLEAN
    BY <1>2, Zenon DEF PortTaken
  <2> QED
    BY <1>2, <2>1, ServerTypes DEF Bind
<1> QED
  BY <1>1, <1>2 DEF Bind

\* The types of the gateway's state.
LEMMA OperationType == ASSUME Inv, Operation PROVE TypeOK'
<1>0. /\ UNCHANGED <<process, conn, late, work, active>>
      /\ cancelled' \in SUBSET Requests /\ left' \in SUBSET Requests
  BY OperationKeepsPlaces
<1>a. TypeOK /\ store \in Rows /\ server \in Servers
  BY DEF Inv, TypeOK, Rows, Servers
<1>b. store.config \in Configs \cup {None} /\ server.config \in Configs \cup {None}
  BY <1>a, RowTypes, ServerTypes
<1>1. store' \in Rows
  BY <1>a, <1>b, RowTypes
  DEF Operation, Configure, StartAgain, Start, Listen, ListenFails, Stop, Stopped, StopFails,
      Verify, Snapshot, SnapshotFails, ServerDies, Shutdown, SetConfig, SetEnabled, ClearReport
<1>2. /\ server' \in Servers /\ started' \in Configs \cup {None}
      /\ op' \in {"none", "listening", "stopping", "closing"}
  <2>0. /\ server.config \in Configs \cup {None} /\ started \in Configs \cup {None}
        /\ op \in {"none", "listening", "stopping", "closing"}
    BY <1>a, <1>b DEF TypeOK
  <2>1. CASE Start
    BY <2>0, <2>1, <1>a, <1>b, BindType DEF Start
  <2>2. CASE Listen \/ ListenFails \/ ServerDies
    BY <2>0, <2>2, <1>a, ServerTypes DEF Listen, ListenFails, ServerDies
  <2>3. CASE Stopped \/ StopFails
    BY <2>0, <2>3, ServerTypes DEF Stopped, StopFails
  <2>4. CASE Stop \/ Shutdown
    BY <2>0, <2>4, <1>a DEF Stop, Shutdown, CloseListener
  <2>5. CASE \/ \E c \in Configs \cup {None} : Configure(c)
            \/ StartAgain \/ Verify \/ Snapshot \/ SnapshotFails
    BY <2>0, <2>5, <1>a DEF Configure, StartAgain, Verify, Snapshot, SnapshotFails
  <2> QED
    BY <2>1, <2>2, <2>3, <2>4, <2>5 DEF Operation
<1>3. /\ orphan' \in BOOLEAN /\ accepting' \in BOOLEAN
      /\ error' \in BOOLEAN /\ witnessed' \in BOOLEAN
  <2>1. CASE Start
    BY <2>1, <1>a, <1>b, BindType DEF Start
  <2> QED
    BY <2>1, <1>a
    DEF Operation, Configure, StartAgain, Listen, ListenFails, Stop, Stopped, StopFails,
        Verify, Snapshot, SnapshotFails, ServerDies, Shutdown, CloseListener, TypeOK
<1> QED
  BY <1>0, <1>a, <1>1, <1>2, <1>3 DEF TypeOK, Rows, Servers

\* The relation of intent, listener and report.
LEMMA OperationServes ==
  ASSUME Inv, Operation
  PROVE  ServedIsIntended' /\ GoneIsQuiet' /\ ReportIsOfThisListener' /\ IntentIsServedOrShown'
<1> USE DEF Inv, TypeOK, ServedIsIntended, GoneIsQuiet, ReportIsOfThisListener,
            IntentIsServedOrShown, Ready, UnseenDeath, Idle
<1>0. process = "up" /\ process' = "up"
  BY DEF Operation, Configure, StartAgain, Start, Listen, ListenFails, Stop, Stopped, StopFails,
         Verify, Snapshot, SnapshotFails, ServerDies, Shutdown
<1> DEFINE Goal ==
      ServedIsIntended' /\ GoneIsQuiet' /\ ReportIsOfThisListener' /\ IntentIsServedOrShown'
<1>1. ASSUME NEW c \in Configs \cup {None}, Configure(c) PROVE Goal
  BY <1>0, <1>1 DEF Configure, SetConfig
<1>2. CASE StartAgain
  BY <1>0, <1>2 DEF StartAgain, SetEnabled
<1>3. CASE Start
  BY <1>0, <1>3 DEF Start, SetEnabled, Bind, Listening, NoServer, PortTaken
<1>4. CASE Listen
  BY <1>0, <1>4 DEF Listen
<1>5. CASE ListenFails
  BY <1>0, <1>5 DEF ListenFails, NoServer
<1>6. CASE Stop
  BY <1>0, <1>6 DEF Stop, SetEnabled, CloseListener
<1>7. CASE Shutdown
  BY <1>0, <1>7 DEF Shutdown, ClearReport, CloseListener
<1>8. CASE Stopped \/ StopFails
  BY <1>0, <1>8 DEF Stopped, StopFails, NoServer
<1>9. CASE Verify
  BY <1>0, <1>9 DEF Verify
<1>10. CASE Snapshot \/ SnapshotFails
  BY <1>0, <1>10 DEF Snapshot, SnapshotFails, ClearReport
<1>11. CASE ServerDies
  BY <1>0, <1>11 DEF ServerDies
<1> QED
  BY <1>1, <1>2, <1>3, <1>4, <1>5, <1>6, <1>7, <1>8, <1>9, <1>10, <1>11 DEF Operation

-----------------------------------------------------------------------------
(***************************************************************************)
(* The end of the process and the next one.                                *)
(***************************************************************************)

\* The services are closed only when no place is taken, and a new process
\* starts from the row alone.
LEMMA ProcessInv == ASSUME Inv, Release \/ Exit \/ Resume PROVE Inv'
<1> USE DEF Inv
<1>1. CASE Release
  <2>1. TypeOK'
    BY <1>1 DEF Release, visits, TypeOK, NoServer
  <2>2. PlacesAgree'
    BY <1>1 DEF Release, visits, PlacesAgree, WorkersBounded, Working
  <2> QED
    BY <1>1, <2>1, <2>2
    DEF Release, visits, ServedIsIntended, GoneIsQuiet, ReportIsOfThisListener,
        IntentIsServedOrShown, Ready, NoServer
<1>2. CASE Exit
  <2>1. TypeOK'
    BY <1>2 DEF Exit, TypeOK, NoServer
  <2>2. active' = {} /\ {r \in Requests : Working(r)'} = {}
    BY <1>2 DEF Exit, Working, ThreadStages
  <2>3. IsFiniteSet(active') /\ Cardinality(active') = 0
    BY <2>2, FS_EmptySet
  <2>4. PlacesAgree'
    BY <2>2, <2>3, CapacityAssumption DEF PlacesAgree, WorkersBounded
  <2> QED
    BY <1>2, <2>1, <2>4
    DEF Exit, ServedIsIntended, GoneIsQuiet, ReportIsOfThisListener, IntentIsServedOrShown,
        Ready, NoServer
<1>3. CASE Resume
  <2>0. process = "down" /\ ~accepting /\ op = "none" /\ server = NoServer
    BY <1>3 DEF Resume, GoneIsQuiet
  <2>1. TypeOK'
    <3>1. store' \in Rows /\ store.config \in Configs \cup {None}
      BY <1>3, RowTypes DEF Resume, ClearReport, TypeOK, Rows
    <3>2. CASE store.enabled
      <4>1. Bind(store.config)
        BY <1>3, <3>2 DEF Resume
      <4> QED
        BY <1>3, <3>1, <4>1, BindType DEF Resume, visits, TypeOK, Rows, Servers
    <3>3. CASE ~store.enabled
      BY <1>3, <3>1, <3>3 DEF Resume, visits, TypeOK, Rows
    <3> QED
      BY <3>2, <3>3
  <2>2. PlacesAgree'
    BY <1>3 DEF Resume, visits, PlacesAgree, WorkersBounded, Working
  <2>3. /\ store' = [store EXCEPT !.report = None] /\ process' = "up"
        /\ store \in Rows
    BY <1>3 DEF Resume, ClearReport, TypeOK, Rows
  <2>4. store'.report = None /\ store'.enabled = store.enabled /\ store'.config = store.config
    BY <2>3 DEF Rows
  <2>5. CASE store.enabled /\ op' = "listening"
    <3>1. server' = Listening(store.config) /\ UNCHANGED accepting
      BY <1>3, <2>5 DEF Resume, Bind
    <3> QED
      BY <2>0, <2>1, <2>2, <2>3, <2>4, <2>5, <3>1
      DEF ServedIsIntended, GoneIsQuiet, ReportIsOfThisListener, IntentIsServedOrShown,
          Ready, Listening
  <2>6. CASE store.enabled /\ op' # "listening"
    <3>1. server' = NoServer /\ ~accepting' /\ error' /\ op' = "none"
      BY <1>3, <2>6 DEF Resume, Bind
    <3> QED
      BY <2>1, <2>2, <2>3, <2>4, <2>6, <3>1
      DEF ServedIsIntended, GoneIsQuiet, ReportIsOfThisListener, IntentIsServedOrShown,
          Ready, NoServer
  <2>7. CASE ~store.enabled
    <3>1. UNCHANGED <<server, accepting, op>>
      BY <1>3, <2>7 DEF Resume
    <3> QED
      BY <2>0, <2>1, <2>2, <2>3, <2>4, <2>7, <3>1
      DEF ServedIsIntended, GoneIsQuiet, ReportIsOfThisListener, IntentIsServedOrShown,
          Ready, NoServer
  <2> QED
    BY <2>5, <2>6, <2>7
<1> QED
  BY <1>1, <1>2, <1>3

-----------------------------------------------------------------------------
(***************************************************************************)
(* The requests and their threads.                                         *)
(***************************************************************************)

\* What a visitor, the stream or a deadline does moves no thread and no place.
LEMMA StreamInv ==
  ASSUME Inv, NEW r \in Requests,
         Connect(r) \/ Refuse(r) \/ Expire(r) \/ Disconnect(r) \/ Stream(r)
  PROVE  Inv'
<1> USE DEF Inv
<1>1. UNCHANGED <<process, intent, active>>
  BY DEF Connect, Refuse, Expire, Disconnect, Stream, StreamErrs, Deliver, Complete
<1>2. TypeOK'
  <2>1. CASE Connect(r)
    BY <1>1, <2>1 DEF Connect, intent, TypeOK
  <2>2. CASE Refuse(r) \/ Expire(r) \/ Deliver(r)
    BY <1>1, <2>2 DEF Refuse, Expire, Deliver, intent, TypeOK
  <2>3. CASE Disconnect(r) \/ StreamErrs(r) \/ Complete(r)
    BY <1>1, <2>3 DEF Disconnect, StreamErrs, Complete, EndStream, intent, TypeOK
  <2> QED
    BY <2>1, <2>2, <2>3 DEF Stream
<1>3. \A q \in Requests : Working(q)' <=> Working(q)
  <2>1. CASE Connect(r)
    BY <2>1 DEF Connect, Over, Working, ThreadStages, TypeOK
  <2>2. CASE ~Connect(r)
    <3>1. UNCHANGED work
      BY <2>2 DEF Refuse, Expire, Disconnect, Stream, StreamErrs, Deliver, Complete
    <3> QED
      BY <3>1 DEF Working
  <2> QED
    BY <2>1, <2>2
<1>4. PlacesAgree'
  <2>1. {q \in Requests : Working(q)'} = {q \in Requests : Working(q)}
    BY <1>3
  <2> QED
    BY <1>1, <2>1 DEF PlacesAgree, WorkersBounded
<1> QED
  BY <1>1, <1>2, <1>4
  DEF intent, ServedIsIntended, GoneIsQuiet, ReportIsOfThisListener, IntentIsServedOrShown,
      Ready, UnseenDeath

\* A place is taken with a new thread, while there is one.
LEMMA AdmitInv == ASSUME Inv, NEW r \in Requests, Admit(r) PROVE Inv'
<1> USE DEF Inv
<1>1. UNCHANGED <<process, intent>> /\ process = "up"
  BY DEF Admit, Ready, GoneIsQuiet, TypeOK
<1>2. TypeOK'
  BY <1>1 DEF Admit, intent, TypeOK, ThreadStages
<1>3. {q \in Requests : Working(q)'} = {q \in Requests : Working(q)} \cup {r}
  BY DEF Admit, Working, ThreadStages, TypeOK
<1>4. active' = {q \in Requests : Working(q)'}
  BY <1>3 DEF Admit, PlacesAgree, WorkersBounded
<1>5. IsFiniteSet(active') /\ Cardinality(active') <= Capacity
  <2>1. IsFiniteSet(active) /\ Cardinality(active) \in Nat
    BY FS_CardinalityType DEF PlacesAgree
  <2>2. /\ IsFiniteSet(active \cup {r})
        /\ \/ Cardinality(active \cup {r}) = Cardinality(active)
           \/ Cardinality(active \cup {r}) = Cardinality(active) + 1
    BY <2>1, FS_AddElement
  <2> QED
    BY <2>1, <2>2, CapacityAssumption DEF Admit
<1>6. PlacesAgree'
  BY <1>4, <1>5 DEF PlacesAgree, WorkersBounded
<1> QED
  BY <1>1, <1>2, <1>6
  DEF intent, ServedIsIntended, GoneIsQuiet, ReportIsOfThisListener, IntentIsServedOrShown,
      Ready, UnseenDeath

\* A thread that is through, however it ends, gives exactly its place back.
LEMMA ThreadInv == ASSUME Inv, NEW r \in Requests, Thread(r) PROVE Inv'
<1> USE DEF Inv
<1>1. UNCHANGED <<process, intent, conn, late, left, cancelled>>
  BY DEF Thread, WorkStep, WorkFails
<1>2. PICK next \in ThreadStages \cup {"answered", "failed"} :
        /\ work' = [work EXCEPT ![r] = next]
        /\ active' = IF next \in ThreadStages THEN active ELSE active \ {r}
  BY DEF Thread, WorkStep, WorkFails, Follows, ThreadStages
<1>3. Working(r)
  BY DEF Thread, WorkStep, WorkFails
<1>4. TypeOK'
  BY <1>1, <1>2 DEF intent, TypeOK
<1>5. active' = {q \in Requests : Working(q)'}
  <2>1. \A q \in Requests : Working(q)' <=> Working(q) /\ (q = r => next \in ThreadStages)
    BY <1>2, <1>3 DEF Working, TypeOK
  <2>2. active = {q \in Requests : Working(q)}
    BY DEF PlacesAgree, WorkersBounded
  <2> QED
    BY <1>2, <2>1, <2>2
<1>6. IsFiniteSet(active') /\ Cardinality(active') <= Capacity
  <2>1. IsFiniteSet(active) /\ Cardinality(active) <= Capacity /\ active' \subseteq active
    BY <1>2 DEF PlacesAgree, WorkersBounded
  <2>2. IsFiniteSet(active') /\ Cardinality(active') <= Cardinality(active)
    BY <2>1, FS_Subset
  <2> QED
    BY <2>1, <2>2, FS_CardinalityType, CapacityAssumption
<1>7. PlacesAgree'
  BY <1>5, <1>6 DEF PlacesAgree, WorkersBounded
<1>8. active' \subseteq active
  BY <1>2
<1> QED
  BY <1>1, <1>4, <1>7, <1>8
  DEF intent, ServedIsIntended, GoneIsQuiet, ReportIsOfThisListener, IntentIsServedOrShown,
      Ready, UnseenDeath

-----------------------------------------------------------------------------
(***************************************************************************)
(* The invariant and what it gives.                                        *)
(***************************************************************************)

\* Every step of the process, its owner, its visitors and its threads keeps Inv.
LEMMA NextInv == ASSUME Inv, [Next]_vars PROVE Inv'
<1>1. CASE Operation
  <2>1. TypeOK' /\ ServedIsIntended' /\ GoneIsQuiet'
        /\ ReportIsOfThisListener' /\ IntentIsServedOrShown'
    BY <1>1, OperationType, OperationServes
  <2>2. UNCHANGED <<work, active>>
    BY <1>1, OperationKeepsPlaces
  <2>3. PlacesAgree'
    BY <2>2 DEF Inv, PlacesAgree, WorkersBounded, Working
  <2> QED
    BY <2>1, <2>3 DEF Inv
<1>2. CASE Release \/ Exit \/ Resume
  BY <1>2, ProcessInv
<1>3. ASSUME NEW r \in Requests,
             \/ Connect(r) \/ Refuse(r) \/ Admit(r) \/ Expire(r)
             \/ Disconnect(r) \/ Stream(r) \/ Thread(r)
      PROVE  Inv'
  BY <1>3, StreamInv, AdmitInv, ThreadInv
<1>4. CASE UNCHANGED vars
  BY <1>4
  DEF vars, intent, visits, Inv, TypeOK, PlacesAgree, WorkersBounded, Working, ServedIsIntended,
      GoneIsQuiet, ReportIsOfThisListener, IntentIsServedOrShown, Ready, UnseenDeath
<1> QED
  BY <1>1, <1>2, <1>3, <1>4 DEF Next, Operation

\* The invariant holds in every reachable state.
THEOREM GatewayInv == Spec => []Inv
BY InitInv, NextInv, PTL DEF Spec

\* Every variable keeps its type, whatever the owner, the visitors, the server
\* and the threads do (api/visitor_gateway.py, chat/service.py).
THEOREM GatewayTypeOK == Spec => []TypeOK
<1>1. Inv => TypeOK
  BY DEF Inv
<1> QED
  BY <1>1, GatewayInv, PTL

\* VisitorChatWorkers: the places taken are those of the threads at work, never
\* more than the capacity, across stops, restarts and visitors who leave.
THEOREM PlacesMatchThreads == Spec => []WorkersBounded
<1>1. Inv => WorkersBounded
  BY DEF Inv, PlacesAgree
<1> QED
  BY <1>1, GatewayInv, PTL

\* The row of the settings never keeps an owner's report for a listener other
\* than the one that runs, nor for other origins.
THEOREM ReportsAreCurrent == Spec => []ReportIsOfThisListener
<1>1. Inv => ReportIsOfThisListener
  BY DEF Inv
<1> QED
  BY <1>1, GatewayInv, PTL

\* Between operations the listener is what the owner asked for, or the status
\* shows that it is not.
THEOREM IntentIsKept == Spec => []IntentIsServedOrShown
<1>1. Inv => IntentIsServedOrShown
  BY DEF Inv
<1> QED
  BY <1>1, GatewayInv, PTL

\* What the private status says of the listener is true of the one that runs.
THEOREM StatusIsTrue == Spec => []OwnerIsTold
<1>1. Inv => OwnerIsTold
  BY DEF Inv, OwnerIsTold
<1> QED
  BY <1>1, GatewayInv, PTL

\* The lifespan closes the services only after the last visitor's thread.
THEOREM ReleaseIsSafe == Spec => []ReleasedWhenIdle
<1>1. Inv => ReleasedWhenIdle
  BY DEF Inv, PlacesAgree, WorkersBounded, GoneIsQuiet, ReleasedWhenIdle
<1> QED
  BY <1>1, GatewayInv, PTL
=============================================================================
