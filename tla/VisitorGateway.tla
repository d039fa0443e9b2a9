--------------------------- MODULE VisitorGateway ---------------------------
(***************************************************************************)
(* The owner's visitor listener (api/visitor_gateway.py), its settings row *)
(* (runtime/visitor_gateway.py), the chat requests it takes in             *)
(* (api/visitor_ingress.py) and the threads that answer them               *)
(* (chat/service.py), up to the end of the process (main.py).              *)
(*                                                                         *)
(* The event loop runs from await to await without interruption: an        *)
(* operation of the gateway is one step, or one step up to its await and   *)
(* one per outcome of it, under the gateway's lock.  The threads interleave *)
(* with everything.  Revisions are left out: a request that names another  *)
(* than the stored one changes nothing.                                    *)
(***************************************************************************)
EXTENDS Naturals, FiniteSets

CONSTANTS
  Requests,   \* chat requests; one that is over is used again
  Capacity,   \* global_chat_concurrency
  Configs,    \* the pairs of origins the owner may configure
  None,
  Events      \* what may go wrong

ASSUME CapacityAssumption == Capacity \in Nat \ {0}
ASSUME NoneAssumption == None \notin Configs
ASSUME EventsAssumption == Events \subseteq {"bind", "death", "crash", "settings"}

VARIABLES
  process,     \* "up", "released" (its resources are closed) or "down"
  store,       \* the row: owner's intent, origins, and the origins of the report
  server,      \* the uvicorn server the gateway refers to
  orphan,      \* a server listens that the gateway no longer refers to
  accepting, started, error,
  op,          \* the operation that holds the lock across an await
  conn,        \* how far each request has come
  late,        \* the requests past their deadline
  left,        \* the requests of servers that were given up
  work,        \* the thread that answers each request
  active,      \* VisitorChatWorkers._active
  cancelled,   \* the requests whose event is set
  witnessed    \* history: the owner's report was made on this listener

intent == <<store, server, orphan, accepting, started, error, op, witnessed>>
visits == <<conn, late, left, work, active, cancelled>>
vars == <<process, intent, visits>>

NoServer == [phase |-> "none", config |-> None]
ThreadStages == {"admission", "retrieval", "generation"}
Streaming == {"open", "partial"}

\* Mutant: the new server is recorded in a phase nobody knows.
ListeningUnknown(c) == [phase |-> "binding", config |-> c]

Listening(c) == [phase |-> "starting", config |-> c]

\* _listener_ready.
Ready == accepting /\ server.phase = "serving"

Working(r) == work[r] \in ThreadStages
Over(r) == conn[r] \in {"none", "closed"} /\ ~Working(r)

\* The gateway's task has ended and no snapshot has noticed.
UnseenDeath == accepting /\ server.phase = "dead"

PortTaken == orphan \/ server.phase = "serving"

-----------------------------------------------------------------------------
(***************************************************************************)
(* The settings row.                                                       *)
(***************************************************************************)

\* Mutant: enabling or disabling keeps the owner's report.
SetEnabledKeepsReport(b) == store' = [store EXCEPT !.enabled = b]

SetEnabled(b) == store' = [store EXCEPT !.enabled = b, !.report = None]

SetConfig(c) == store' = [store EXCEPT !.config = c, !.report = None]

ClearReport == store' = [store EXCEPT !.report = None]

-----------------------------------------------------------------------------
(***************************************************************************)
(* The gateway's operations.                                               *)
(***************************************************************************)
Idle == process = "up" /\ op = "none"

\* The snapshot each operation returns finds nothing to do: it follows only.
\* Refused while the listener runs, and by the row while it is enabled.
Configure(c) ==
  /\ Idle /\ ~Ready /\ ~store.enabled
  /\ SetConfig(c) /\ error' = FALSE
  /\ UNCHANGED <<process, server, orphan, accepting, started, op, witnessed, visits>>

\* start of what already runs.
StartAgain ==
  /\ Idle /\ Ready /\ store.config # None /\ started = store.config
  /\ SetEnabled(TRUE)
  /\ UNCHANGED <<process, server, orphan, accepting, started, error, op, witnessed, visits>>

\* _listen, up to its first await: the socket is bound or not.
Bind(c) ==
  /\ witnessed' = FALSE
  /\ \/ ~PortTaken
        /\ server' = Listening(c) /\ op' = "listening"
        /\ UNCHANGED <<orphan, accepting, error>>
     \/ (PortTaken \/ "bind" \in Events)
        /\ server' = NoServer /\ orphan' = PortTaken
        /\ accepting' = FALSE /\ error' = TRUE
        /\ op' = "none"

Start ==
  /\ Idle /\ store.config # None
  /\ ~(Ready /\ started = store.config)
  /\ SetEnabled(TRUE)
  /\ Bind(store.config)
  /\ UNCHANGED <<process, started, visits>>

\* The server reports that it has started.
Listen ==
  /\ process = "up" /\ op = "listening"
  /\ server' = [server EXCEPT !.phase = "serving"]
  /\ accepting' = TRUE /\ error' = FALSE /\ started' = server.config
  /\ op' = "none"
  /\ UNCHANGED <<process, store, orphan, witnessed, visits>>

\* Mutant: what went wrong is not remembered.
ListenFailsQuietly ==
  /\ process = "up" /\ op = "listening"
  /\ server' = NoServer /\ accepting' = FALSE
  /\ op' = "none"
  /\ UNCHANGED <<process, store, orphan, started, error, witnessed, visits>>

\* It ends, or has not started within five seconds.
ListenFails ==
  /\ process = "up" /\ op = "listening"
  /\ server' = NoServer /\ accepting' = FALSE /\ error' = TRUE
  /\ op' = "none"
  /\ UNCHANGED <<process, store, orphan, started, witnessed, visits>>

\* _stop_listener, up to its await.
CloseListener(next) ==
  /\ accepting' = FALSE /\ witnessed' = FALSE
  /\ cancelled' = cancelled \cup active
  /\ op' = next
  /\ UNCHANGED <<conn, late, left, work, active>>

Stop ==
  /\ Idle
  /\ SetEnabled(FALSE)
  /\ CloseListener("stopping")
  /\ UNCHANGED <<process, server, orphan, started, error>>

\* The server task returns once its connections are over.
Drained == \A r \in Requests \ left : conn[r] \in {"none", "closed"}

Stopped ==
  /\ process = "up" /\ op = "stopping"
  /\ server.phase = "none" \/ Drained
  /\ server' = NoServer /\ started' = None /\ error' = FALSE
  /\ op' = "none"
  /\ UNCHANGED <<process, store, orphan, accepting, witnessed, visits>>

\* The grace is over (or the task raised): the server is given up as it is.
StopFails ==
  /\ process = "up" /\ op = "stopping" /\ server.phase # "none"
  /\ server' = NoServer /\ started' = None /\ error' = TRUE
  /\ left' = {r \in Requests : conn[r] \notin {"none", "closed"}}
  /\ op' = "none"
  /\ UNCHANGED <<process, store, orphan, accepting, witnessed,
                 conn, late, work, active, cancelled>>

\* The owner reports a check from outside.
Verify ==
  /\ Idle /\ Ready /\ store.enabled
  /\ store' = [store EXCEPT !.report = store.config]
  /\ witnessed' = TRUE
  /\ UNCHANGED <<process, server, orphan, accepting, started, error, op, visits>>

\* Any reader of the status may be the first to see that the server has died.
Snapshot ==
  /\ process = "up" /\ UnseenDeath
  /\ accepting' = FALSE /\ error' = TRUE
  /\ ClearReport
  /\ UNCHANGED <<process, server, orphan, started, op, witnessed, visits>>

\* The row cannot be read while the status is asked for.
SnapshotFails ==
  /\ process = "up" /\ "settings" \in Events
  /\ accepting' = FALSE /\ error' = TRUE
  /\ UNCHANGED <<process, store, server, orphan, started, op, witnessed, visits>>

-----------------------------------------------------------------------------
(***************************************************************************)
(* The process.                                                            *)
(***************************************************************************)
ServerDies ==
  /\ process = "up" /\ "death" \in Events
  /\ server.phase = "serving"
  /\ server' = [server EXCEPT !.phase = "dead"]
  /\ witnessed' = FALSE
  /\ UNCHANGED <<process, store, orphan, accepting, started, error, op, visits>>

Shutdown ==
  /\ Idle
  /\ ClearReport
  /\ CloseListener("closing")
  /\ UNCHANGED <<process, server, orphan, started, error>>

\* Mutant: the services are closed as soon as the listener is.
ReleaseEarly ==
  /\ process = "up" /\ op = "closing"
  /\ server.phase = "none" \/ Drained
  /\ process' = "released"
  /\ server' = NoServer /\ started' = None /\ op' = "none"
  /\ UNCHANGED <<store, orphan, accepting, error, witnessed, visits>>

\* The listener has stopped and no worker is left: the lifespan goes on to
\* close the services.  Otherwise it raises, and the process just ends (Exit).
Release ==
  /\ process = "up" /\ op = "closing"
  /\ server.phase = "none" \/ Drained
  /\ active = {}
  /\ process' = "released"
  /\ server' = NoServer /\ started' = None /\ op' = "none"
  /\ UNCHANGED <<store, orphan, accepting, error, witnessed, visits>>

Exit ==
  /\ process # "down"
  /\ process = "released" \/ op = "closing" \/ "crash" \in Events
  /\ process' = "down"
  /\ server' = NoServer /\ orphan' = FALSE
  /\ accepting' = FALSE /\ started' = None /\ error' = FALSE
  /\ op' = "none" /\ witnessed' = FALSE
  /\ conn' = [r \in Requests |-> "none"]
  /\ work' = [r \in Requests |-> "none"]
  /\ late' = {} /\ left' = {} /\ active' = {} /\ cancelled' = {}
  /\ UNCHANGED store

\* A new process resumes what the owner had enabled.
Resume ==
  /\ process = "down"
  /\ process' = "up"
  /\ ClearReport
  /\ IF store.enabled THEN Bind(store.config)
     ELSE UNCHANGED <<server, orphan, accepting, error, op, witnessed>>
  /\ UNCHANGED <<started, visits>>

-----------------------------------------------------------------------------
(***************************************************************************)
(* A chat request: its intake and its stream run on the event loop.        *)
(***************************************************************************)
Connect(r) ==
  /\ process # "down" /\ Ready /\ Over(r)
  /\ conn' = [conn EXCEPT ![r] = "intake"]
  /\ work' = [work EXCEPT ![r] = "none"]
  /\ late' = late \ {r} /\ left' = left \ {r} /\ cancelled' = cancelled \ {r}
  /\ UNCHANGED <<process, intent, active>>

\* The body is invalid, too large or late, the visitor leaves, no worker is
\* free, or the service is not ready.
Refuse(r) ==
  /\ process # "down" /\ conn[r] = "intake"
  /\ conn' = [conn EXCEPT ![r] = "closed"]
  /\ UNCHANGED <<process, intent, late, left, work, active, cancelled>>

\* Between the last check and the reservation there is no await.
Admit(r) ==
  /\ process # "down" /\ conn[r] = "intake"
  /\ r \notin late /\ Ready
  /\ Cardinality(active) < Capacity
  /\ active' = active \cup {r}
  /\ work' = [work EXCEPT ![r] = "admission"]
  /\ conn' = [conn EXCEPT ![r] = "open"]
  /\ UNCHANGED <<process, intent, late, left, cancelled>>

Expire(r) ==
  /\ process # "down" /\ conn[r] \in {"intake", "open", "partial"} /\ r \notin late
  /\ late' = late \cup {r}
  /\ UNCHANGED <<process, intent, conn, left, work, active, cancelled>>

\* However the stream ends, the worker's event is set.
EndStream(r) ==
  /\ conn' = [conn EXCEPT ![r] = "closed"]
  /\ cancelled' = cancelled \cup {r}

\* Mutant: a visitor who leaves gives the place away while the thread works.
DisconnectFrees(r) ==
  /\ process # "down" /\ conn[r] \in Streaming
  /\ EndStream(r)
  /\ active' = active \ {r}
  /\ UNCHANGED <<process, intent, late, left, work>>

\* The visitor leaves, or the server cuts the connection.
Disconnect(r) ==
  /\ process # "down" /\ conn[r] \in Streaming
  /\ EndStream(r)
  /\ UNCHANGED <<process, intent, late, left, work, active>>

\* While the thread works: cancelled or late.  Once it is done: late, failed,
\* or cancelled before the next event of the answer.
StreamErrs(r) ==
  /\ process # "down" /\ conn[r] \in Streaming
  /\ \/ r \in cancelled
     \/ conn[r] = "open" /\ r \in late
     \/ conn[r] = "open" /\ work[r] = "failed"
  /\ EndStream(r)
  /\ UNCHANGED <<process, intent, late, left, work, active>>

\* The first events of a finished answer, and the last.
Deliver(r) ==
  /\ process # "down" /\ conn[r] = "open"
  /\ work[r] = "answered" /\ r \notin late \cup cancelled
  /\ conn' = [conn EXCEPT ![r] = "partial"]
  /\ UNCHANGED <<process, intent, late, left, work, active, cancelled>>

Complete(r) ==
  /\ process # "down" /\ conn[r] = "partial" /\ r \notin cancelled
  /\ EndStream(r)
  /\ UNCHANGED <<process, intent, late, left, work, active>>

-----------------------------------------------------------------------------
(***************************************************************************)
(* The thread: answer, and GroundedChatService._answer inside it.          *)
(***************************************************************************)

\* The checks between its calls: cancelled everywhere, the time left when a
\* provider is about to be called.
MayGoOn(r, next) ==
  /\ r \notin cancelled
  /\ r \in late => next = "answered"

\* Without room for evidence the answer is made without a generation.
Follows(stage) ==
  CASE stage = "admission" -> {"retrieval"}
    [] stage = "retrieval" -> {"generation", "answered"}
    [] OTHER -> {"answered"}

\* answer's finally gives the place back when the thread is through.
WorkStep(r) ==
  /\ process # "down" /\ Working(r)
  /\ \E next \in Follows(work[r]) :
       /\ MayGoOn(r, next)
       /\ work' = [work EXCEPT ![r] = next]
       /\ active' = IF next = "answered" THEN active \ {r} ELSE active
  /\ UNCHANGED <<process, intent, conn, late, left, cancelled>>

\* Mutant: only an answer gives the place back.
WorkFailsHolding(r) ==
  /\ process # "down" /\ Working(r)
  /\ work' = [work EXCEPT ![r] = "failed"]
  /\ UNCHANGED <<process, intent, conn, late, left, active, cancelled>>

\* A limit, a permit that is not free, a provider, retrieval or validation
\* fails, or one of the checks raises.
WorkFails(r) ==
  /\ process # "down" /\ Working(r)
  /\ work' = [work EXCEPT ![r] = "failed"]
  /\ active' = active \ {r}
  /\ UNCHANGED <<process, intent, conn, late, left, cancelled>>

-----------------------------------------------------------------------------
Init ==
  /\ process = "up"
  /\ store = [enabled |-> FALSE, config |-> None, report |-> None]
  /\ server = NoServer /\ orphan = FALSE
  /\ accepting = FALSE /\ started = None /\ error = FALSE
  /\ op = "none" /\ witnessed = FALSE
  /\ conn = [r \in Requests |-> "none"]
  /\ work = [r \in Requests |-> "none"]
  /\ late = {} /\ left = {} /\ active = {} /\ cancelled = {}

Stream(r) == StreamErrs(r) \/ Deliver(r) \/ Complete(r)
Thread(r) == WorkStep(r) \/ WorkFails(r)

Next ==
  \/ \E c \in Configs \cup {None} : Configure(c)
  \/ StartAgain \/ Start \/ Listen \/ ListenFails
  \/ Stop \/ Stopped \/ StopFails
  \/ Verify \/ Snapshot \/ SnapshotFails
  \/ ServerDies \/ Shutdown \/ Release \/ Exit \/ Resume
  \/ \E r \in Requests :
       \/ Connect(r) \/ Refuse(r) \/ Admit(r) \/ Expire(r)
       \/ Disconnect(r) \/ Stream(r) \/ Thread(r)

Spec == Init /\ [][Next]_vars

\* The event loop polls each stream, every call of a thread has a deadline,
\* a started server reports or fails within five seconds, a stopping one is
\* given up after the grace.
FairSpec ==
  /\ Spec
  /\ \A r \in Requests : WF_vars(Stream(r)) /\ WF_vars(Thread(r))
  /\ WF_vars(Listen \/ ListenFails) /\ WF_vars(Stopped \/ StopFails)

-----------------------------------------------------------------------------
TypeOK ==
  /\ process \in {"up", "released", "down"}
  /\ store \in [enabled : BOOLEAN, config : Configs \cup {None}, report : Configs \cup {None}]
  /\ server \in [phase : {"none", "starting", "serving", "dead"}, config : Configs \cup {None}]
  /\ orphan \in BOOLEAN /\ accepting \in BOOLEAN
  /\ error \in BOOLEAN /\ witnessed \in BOOLEAN
  /\ started \in Configs \cup {None}
  /\ op \in {"none", "listening", "stopping", "closing"}
  /\ conn \in [Requests -> {"none", "intake", "open", "partial", "closed"}]
  /\ work \in [Requests -> ThreadStages \cup {"none", "answered", "failed"}]
  /\ late \subseteq Requests /\ left \subseteq Requests
  /\ active \subseteq Requests /\ cancelled \subseteq Requests

\* However often visitors leave and the listener is stopped and started, the
\* threads at work are those with a place, and never more than the capacity.
WorkersBounded ==
  /\ active = {r \in Requests : Working(r)}
  /\ Cardinality(active) <= Capacity

\* What the private status calls verified from outside was reported for the
\* listener that runs now and the origins it serves, not for an earlier one.
ReportIsOfThisListener ==
  store.report # None /\ Ready => witnessed /\ store.report = server.config

\* Between operations, what the owner has enabled is served as configured or
\* the status shows an error; what the owner has stopped is not served.
IntentIsServedOrShown ==
  process = "up" /\ op = "none" =>
    IF store.enabled
    THEN \/ Ready /\ server.config = store.config /\ started = store.config
         \/ error
         \/ UnseenDeath
    ELSE ~accepting

\* Neither an old report nor an intent nobody serves is passed off as current.
OwnerIsTold == ReportIsOfThisListener /\ IntentIsServedOrShown

\* When the process closes its database, providers and bundles no thread works
\* for a visitor, not even for one whose request began before an earlier stop.
ReleasedWhenIdle == process = "released" => \A r \in Requests : ~Working(r)

\* Every admitted request comes to its end, its place is free again and its
\* stream is closed, whether it is answered, cancelled, cut or late.
RequestEnds ==
  \A r \in Requests : r \in active ~> r \notin active /\ conn[r] \notin Streaming

\* What stop reports as stopped has no listener left that serves its port.
StopClosesListener ==
  process = "up" /\ op = "none" /\ ~store.enabled /\ ~error => ~orphan
=============================================================================
