--------------------------- MODULE TailscaleFunnel ---------------------------
(***************************************************************************)
(* Live chat in one button (tailscale/service.py): start publishes the     *)
(* gateway's port through Tailscale Funnel, stores the addresses and       *)
(* starts the listener; stop undoes all three.  Each command of the        *)
(* Tailscale client is awaited, may fail with or without its effect, and   *)
(* is read back; meanwhile other clients change the routes, and other      *)
(* requests of the owner change the gateway.  The requests run in the host *)
(* of MaintenanceHost, whose restores they hold up.                        *)
(*                                                                         *)
(* One port is eligible.  The gateway's own operations are in              *)
(* VisitorGateway; here each is one step.  The cancellation of a request   *)
(* is left out: the host finishes a request whose caller has gone.         *)
(***************************************************************************)
EXTENDS MaintenanceHost

VARIABLES
  route,  \* what the port serves on the internet
  funnel  \* the request that holds the service's lock

vars == <<hostVars, route, funnel>>

Idle == [step |-> "idle", by |-> None, revision |-> 0, ready |-> FALSE, address |-> None,
         created |-> FALSE, observed |-> "none", told |-> "nothing"]

Steps == {"idle", "startRead", "startObserve", "recheck", "on", "confirm", "configure",
          "listen", "remove", "off", "offConfirm", "stopRead", "stopObserve", "stopGateway",
          "stopAgain", "forget", "told"}
Outcomes == {"nothing", "live", "notLive", "off", "failed"}
Operations ==
  [step : Steps, by : Callers \cup {None}, revision : Nat, ready : BOOLEAN,
   address : Addresses, created : BOOLEAN,
   observed : {"none", "ready", "live", "notReady", "error"}, told : Outcomes]

TypeOK ==
  /\ MaintenanceTypeOK
  /\ route \in {"free", "own", "foreign"}
  /\ funnel \in Operations

Row == disk.db.row
SetRow(row) == disk' = [disk EXCEPT !.db.row = row]
Others == UNCHANGED <<host, serving, service, goal, visitor, download, torn>>
AnyOther == Others /\ UNCHANGED bounds
-----------------------------------------------------------------------------
(***************************************************************************)
(* The owner's other requests about the gateway, and other clients of      *)
(* Tailscale, while an operation is open: between two operations they are  *)
(* no hazard to either.                                                    *)
(***************************************************************************)
Meddles == funnel.step # "idle" /\ Event
Changes(c) == caller[c] = "in" /\ Meddles
Next1(row) == [row EXCEPT !.revision = @ + 1]

ConfigureGateway(c) ==
  /\ Changes(c) /\ ~listening
  /\ \E a \in {None, "other"} : SetRow(Next1([Row EXCEPT !.address = a]))
  /\ UNCHANGED <<caller, listening, route, funnel>> /\ Others

\* start; a listener that cannot be bound leaves the intent.
StartGateway(c) ==
  /\ Changes(c) /\ Row.address # None
  /\ SetRow(Next1([Row EXCEPT !.enabled = TRUE]))
  /\ listening' \in {TRUE, listening}
  /\ UNCHANGED <<caller, route, funnel>> /\ Others

StopGateway(c) ==
  /\ Changes(c)
  /\ SetRow(Next1([Row EXCEPT !.enabled = FALSE]))
  /\ listening' = FALSE
  /\ UNCHANGED <<caller, route, funnel>> /\ Others

\* Another client takes or frees the port.
RouteChanges ==
  /\ Meddles
  /\ route' \in {"free", "foreign"} \ {route}
  /\ UNCHANGED <<disk, listening, caller, funnel>> /\ Others
-----------------------------------------------------------------------------
(***************************************************************************)
(* One operation, under the service's lock.                                *)
(***************************************************************************)
Same == UNCHANGED <<disk, listening, caller>> /\ AnyOther
To(step) == funnel' = [funnel EXCEPT !.step = step]

\* The operation's outcome, and the response, which frees the lock.
End(told) ==
  /\ funnel' = [funnel EXCEPT !.step = "told", !.told = told]
  /\ UNCHANGED caller
Unchanged == UNCHANGED <<disk, listening>> /\ AnyOther

Respond ==
  /\ funnel.step = "told"
  /\ funnel' = Idle
  /\ caller' = [caller EXCEPT ![funnel.by] = "out"]
  /\ UNCHANGED route /\ Unchanged

Begin(c, step) ==
  /\ caller[c] = "in" /\ funnel.step = "idle" /\ Event
  /\ caller' = [caller EXCEPT ![c] = "funnel"]
  /\ funnel' = [Idle EXCEPT !.step = step, !.by = c, !.revision = Row.revision]
  /\ UNCHANGED <<route, disk, listening>> /\ Others

\* The saved address of the pages was awaited, or there is none; then the
\* gateway is read, with the revision the owner saw.
ReadGateway ==
  /\ funnel.step \in {"startRead", "stopRead"}
  /\ \/ /\ funnel.revision = Row.revision
        /\ funnel' = [funnel EXCEPT !.ready = listening, !.address = Row.address,
             !.step = IF funnel.step = "startRead" THEN "startObserve" ELSE "stopObserve"]
        /\ Same
     \/ /\ (funnel.step = "startRead" \/ funnel.revision # Row.revision)
        /\ End(IF funnel.step = "startRead" THEN "notLive" ELSE "failed") /\ Unchanged
  /\ UNCHANGED route

\* choose_state, from the route as it is at the read.
Seen == [own |-> "live", free |-> "ready", foreign |-> "notReady"][route]

\* _observe: the client may fail, or not be ready.
Observe ==
  /\ funnel.step \in {"startObserve", "stopObserve"}
  /\ \E o \in {Seen, "notReady", "error"} :
       IF funnel.step = "stopObserve"
       THEN funnel' = [funnel EXCEPT !.observed = o, !.step = "stopGateway"] /\ Same
       ELSE IF o \in {"ready", "live"} THEN To("recheck") /\ Same
       ELSE End("notLive") /\ Unchanged
  /\ UNCHANGED route

\* The routes are read again before anything is written; refused when the
\* client fails, the port is taken, or another configuration runs.
Recheck ==
  /\ funnel.step = "recheck"
  /\ \/ End("notLive") /\ Unchanged
     \/ /\ Seen = "live" /\ funnel.ready /\ funnel.address = "funnel"
        /\ End("live") /\ Unchanged
     \/ /\ Seen # "notReady"
        /\ funnel.ready => funnel.address = "funnel" /\ Seen = "ready"
        /\ funnel' = [funnel EXCEPT !.created = (Seen # "live"),
                                    !.step = IF Seen = "live" THEN "configure" ELSE "on"]
        /\ Same
  /\ UNCHANGED route

\* A failure after the first write: the route this call created is removed.
Failed == IF funnel.created THEN To("remove") /\ UNCHANGED caller ELSE End("notLive")

\* funnel_on: a failed command may have had its effect.
FunnelOn ==
  /\ funnel.step = "on"
  /\ route' \in {route, IF route = "free" THEN "own" ELSE route}
  /\ \/ To("confirm")
     \/ To("remove")
  /\ Same

Confirm ==
  /\ funnel.step = "confirm"
  /\ \/ route = "own" /\ funnel.ready /\ End("live")
     \/ route = "own" /\ ~funnel.ready /\ To("configure") /\ UNCHANGED caller
     \/ Failed
  /\ UNCHANGED route /\ Unchanged

\* gateway.configure with the revision of the owner's request.
ConfigureFunnel ==
  /\ funnel.step = "configure"
  /\ \/ /\ Row.revision = funnel.revision /\ ~listening
        /\ SetRow(Next1([Row EXCEPT !.address = "funnel"]))
        /\ funnel' = [funnel EXCEPT !.step = "listen", !.revision = @ + 1]
        /\ UNCHANGED caller
     \/ Failed /\ UNCHANGED disk
  /\ UNCHANGED <<listening, route>> /\ AnyOther

\* gateway.start with the revision configure returned.
Listen ==
  /\ funnel.step = "listen"
  /\ \/ /\ Row.revision = funnel.revision
        /\ SetRow(Next1([Row EXCEPT !.enabled = TRUE]))
        /\ \/ listening' = TRUE /\ End("live")
           \/ UNCHANGED listening /\ Failed
     \/ /\ Row.revision # funnel.revision
        /\ Failed /\ UNCHANGED <<disk, listening>>
  /\ UNCHANGED route /\ AnyOther

\* _remove: nothing is taken off that is not ours ...
Removed == IF funnel.created THEN End("notLive") ELSE To("stopAgain") /\ UNCHANGED caller
RemovalFails == End("failed")

Remove ==
  /\ funnel.step = "remove"
  /\ \/ route = "own" /\ To("off") /\ UNCHANGED caller
     \/ route # "own" /\ Removed
     \/ RemovalFails
  /\ UNCHANGED route /\ Unchanged

\* ... the command may fail, with or without its effect ...
FunnelOff ==
  /\ funnel.step = "off"
  /\ route' \in {route, "free"}
  /\ \/ To("offConfirm") /\ UNCHANGED caller
     \/ RemovalFails
  /\ Unchanged

\* Mutant: the command's success is believed.
OffBelieved ==
  /\ funnel.step = "offConfirm"
  /\ Removed
  /\ UNCHANGED route /\ Unchanged

\* ... and is read back.
OffConfirm ==
  /\ funnel.step = "offConfirm"
  /\ \/ route # "own" /\ Removed
     \/ RemovalFails
  /\ UNCHANGED route /\ Unchanged

\* gateway.stop, which may fail after its row is written, as may the client;
\* only a route that was seen to be ours is removed.
StopFunnelGateway ==
  /\ funnel.step = "stopGateway"
  /\ \/ /\ Row.revision = funnel.revision
        /\ SetRow(Next1([Row EXCEPT !.enabled = FALSE]))
        /\ listening' = FALSE
        /\ \/ End("failed")
           \/ /\ funnel.observed # "error"
              /\ funnel' = [funnel EXCEPT !.revision = @ + 1, !.address = Row.address,
                   !.step = IF funnel.observed = "live" THEN "remove" ELSE "forget"]
              /\ UNCHANGED caller
     \/ Row.revision # funnel.revision /\ End("failed") /\ UNCHANGED <<disk, listening>>
  /\ UNCHANGED route /\ AnyOther

ObserveAgain ==
  /\ funnel.step = "stopAgain"
  /\ \/ To("forget") /\ Same
     \/ End("failed") /\ Unchanged
  /\ UNCHANGED route

\* Mutant: the addresses are forgotten first, and left when that is refused.
ForgetIfAllowed ==
  /\ funnel.step = "forget"
  /\ \/ Row.revision = funnel.revision /\ SetRow(Next1([Row EXCEPT !.address = None]))
     \/ UNCHANGED disk
  /\ End("off")
  /\ UNCHANGED <<listening, route>> /\ AnyOther

\* The saved addresses are forgotten.
Forget ==
  /\ funnel.step = "forget"
  /\ \/ funnel.address = None /\ End("off") /\ UNCHANGED disk
     \/ /\ funnel.address # None /\ Row.revision = funnel.revision /\ ~listening
        /\ SetRow(Next1([Row EXCEPT !.address = None]))
        /\ End("off")
     \/ funnel.address # None /\ End("failed") /\ UNCHANGED disk
  /\ UNCHANGED <<listening, route>> /\ AnyOther

FunnelStep ==
  \/ ReadGateway \/ Observe \/ Recheck \/ FunnelOn \/ Confirm \/ ConfigureFunnel \/ Listen
  \/ Remove \/ FunnelOff \/ OffConfirm \/ StopFunnelGateway \/ ObserveAgain \/ Forget
  \/ Respond
-----------------------------------------------------------------------------
Init ==
  /\ HostInit /\ funnel = Idle
  /\ route = IF Row.address = "funnel" THEN "own" ELSE "free"

\* The process takes the service along; the routes are Tailscale's.
HostMoves ==
  /\ HostStep
  /\ UNCHANGED route
  /\ funnel' = IF host'.task = "down" THEN Idle ELSE funnel

Next ==
  \/ HostMoves
  \/ \E c \in Callers : \/ ConfigureGateway(c) \/ StartGateway(c) \/ StopGateway(c)
                        \/ Begin(c, "startRead") \/ Begin(c, "stopRead")
  \/ RouteChanges
  \/ FunnelStep

Alone(A) == A /\ UNCHANGED <<route, funnel>>

\* The event loop runs the host's task.
Fairness == WF_vars(Alone(TaskStep))

Spec == Init /\ [][Next]_vars /\ Fairness
-----------------------------------------------------------------------------
(***************************************************************************)
(* Properties.                                                             *)
(***************************************************************************)
\* An application serves the database and the bundle pointer of one version:
\* a restore that fails at any of its steps, and one that is cut off, leaves
\* both files as they were or both replaced - unless an undo failed as well or
\* the process ended between the two writes (maintenance.py:281-340).
RestoreIsWhole ==
  /\ TypeOK
  /\ serving => disk.db.version = disk.pointer \/ torn

\* From the moment the files are touched until an application has been
\* entered, nobody works on them: no request, no visitor's thread, no
\* download (maintenance_host.py:130-192, main.py:404-435).
SwapIsQuiet ==
  host.task \in {"swap", "repoint", "prepare", "undoDb", "undoPointer", "restart", "reenter",
                 "enter", "backDb", "backPointer"}
    => Active = {} /\ Quiet /\ ~listening

\* When an application serves after a maintenance, the host's error says whose
\* data it is; an application that could not be stopped or put back leaves the
\* host closed (maintenance_host.py:130-192).
OutcomeIsTold ==
  /\ host.task = "idle" /\ serving /\ goal # NoGoal /\ ~torn =>
       disk.db.version = IF host.error \in {"none", "RESTORE_CLEANUP_FAILED"}
                         THEN goal.to ELSE goal.from
  /\ host.error \in {"STOP_FAILED", "ROLLBACK_FAILED"} => host.busy /\ ~serving

\* What a step that ends an operation may tell.
Told ==
  /\ funnel'.told = "notLive" /\ funnel.told = "nothing" /\ funnel.created => route' # "own"
  /\ funnel.step = "forget" /\ funnel'.told = "off" =>
       /\ funnel.observed = "live" => route' # "own"
       /\ Row.revision = funnel.revision => Row'.address = None /\ ~listening'

\* A start that is refused or undone leaves no route it created, whatever
\* command failed and whoever changed the routes or the gateway meanwhile; a
\* stop that tells success has removed the route it saw and, unless another
\* request came in between, has forgotten the addresses with no listener up
\* (tailscale/service.py:160-265).
FunnelTold == [][Told]_vars

\* A maintenance ends: visitors who do not leave, requests that do not finish
\* and failures of any step end it too.
MaintenanceEnds == host.task # "idle" /\ host.task # "down" ~> host.task \in {"idle", "down"}
=============================================================================
