------------------------ MODULE TailscaleFunnelProofs ------------------------
(***************************************************************************)
(* The safety of a restore and of live chat (TailscaleFunnel over          *)
(* MaintenanceHost), for every number of requests, backups and events.     *)
(***************************************************************************)
EXTENDS TailscaleFunnel, TLAPS

\* The host's task waits for the requests, has checked that nothing else is
\* at work, has closed the listener, has seen the last visitor go.
Draining == {"idle", "drain"}
Checking == Draining \cup {"precheck"}
Stopping == Checking \cup {"stop"}
Leaving  == Stopping \cup {"stopping"}
Entered  == {"commit"}

\* Who may still be at work, at each point of the task.
NobodyLeft ==
  /\ host.task # "idle" => host.busy
  /\ host.task \notin Draining => Active = {}
  /\ host.task \notin Checking => download = "none"
  /\ host.task \notin Stopping \cup Entered => ~listening /\ ~serving
  /\ host.task \notin Leaving \cup Entered => ~visitor

Before == {"drain", "precheck", "stop", "stopping", "closing", "snapshot", "swap"}
Whole == disk.db.version = disk.pointer
HasCopy == disk.copy \in Databases /\ disk.copy.version = goal.from

\* Which version each file has, at each point of the task.
FilesKnown ==
  /\ host.task \notin {"repoint", "undoDb", "undoPointer", "backDb", "backPointer"} => Whole \/ torn
  /\ host.task \in {"repoint", "prepare", "enter", "undoDb", "backDb"} => HasCopy
  /\ host.task \in Before => disk.db.version = goal.from
  /\ host.task \in {"prepare", "enter", "commit"} => disk.pointer = goal.to
  /\ host.task \in {"repoint", "prepare", "enter", "commit"} => disk.db.version = goal.to
  /\ host.task \in {"undoPointer", "backPointer"} => disk.db.version = goal.from
  /\ host.task \in {"restart", "reenter"} => torn \/ disk.db.version = goal.from

\* Which error is already told, at each point of the task.
ErrorKnown ==
  /\ host.task \in {"restart", "reenter"} => host.error \in {"REPLACEMENT_FAILED", "FRESH_START_FAILED"}
  /\ host.task \in {"backDb", "backPointer"} => host.error = "FRESH_START_FAILED"
  /\ host.error \in {"STOP_FAILED", "ROLLBACK_FAILED"} => host.task = "idle"
  /\ host.task = "down" => goal = NoGoal

Cleared == {"stopAgain", "forget"}
Removing == {"remove", "off", "offConfirm"}

\* What the open operation of live chat may rely on: its request is admitted;
\* what it has created, seen and told; and, once a stop has written the
\* gateway's row, that nobody has written it since if the revision is the same.
FunnelKnown ==
  /\ funnel.step # "idle" => funnel.by \in Callers /\ caller[funnel.by] = "funnel"
  /\ funnel.step # "told" => funnel.told = "nothing"
  /\ funnel.step \in {"on", "confirm"} => funnel.created
  /\ funnel.step \in {"idle", "startRead", "startObserve", "recheck", "stopRead", "stopObserve",
                      "stopGateway"} \cup Cleared => ~funnel.created
  /\ funnel.step \in Cleared /\ funnel.observed = "live" => route # "own"
  /\ funnel.step \in Cleared \cup Removing /\ ~funnel.created =>
       /\ funnel.revision <= Row.revision
       /\ funnel.revision = Row.revision => ~listening /\ Row.address = funnel.address

HostInv == MaintenanceTypeOK /\ NobodyLeft /\ FilesKnown /\ ErrorKnown /\ OutcomeIsTold
FunnelInv == route \in {"free", "own", "foreign"} /\ funnel \in Operations /\ FunnelKnown
Inv == HostInv /\ FunnelInv
-----------------------------------------------------------------------------
(***************************************************************************)
(* What the host's steps rest on.                                          *)
(***************************************************************************)
\* Initially the application serves the data of the first version.
LEMMA InitInv == Init => Inv
<1> SUFFICES ASSUME Init PROVE Inv
  OBVIOUS
<1> USE CallersAssumption, MaintenanceBoundsAssumption DEF Init, HostInit
<1>1. PICK a \in Addresses :
        disk = [db |-> [version |-> 0,
                        row |-> [enabled |-> listening, revision |-> 1, address |-> a]],
                pointer |-> 0, copy |-> None]
  OBVIOUS
<1>2. MaintenanceTypeOK
  <2>1. 0 \in Versions /\ listening \in BOOLEAN
    BY DEF Versions
  <2>2. disk \in [db : Databases, pointer : Versions, copy : Databases \cup {None}]
    BY <1>1, <2>1 DEF Databases, Rows
  <2>3. caller \in [Callers -> {"out", "in", "stale", "verified", "funnel"}]
    OBVIOUS
  <2>4. bounds \in [restores : Versions, events : 0..MaxEvents]
    BY <2>1
  <2> QED
    BY <2>1, <2>2, <2>3, <2>4 DEF MaintenanceTypeOK, Errors, Tasks, FreshService, NoGoal
<1>3. NobodyLeft /\ FilesKnown /\ ErrorKnown /\ OutcomeIsTold
  BY <1>1 DEF NobodyLeft, Draining, Checking, Stopping, Leaving, Entered, FilesKnown, Whole,
     HasCopy, Before, ErrorKnown, OutcomeIsTold, NoGoal
<1>4. TypeOK
  BY <1>2 DEF TypeOK, Operations, Steps, Outcomes, Idle, Addresses
<1>5. FunnelKnown
  BY DEF FunnelKnown, Idle, Cleared, Removing
<1> QED
  BY <1>2, <1>3, <1>4, <1>5 DEF Inv, HostInv, FunnelInv, TypeOK

Hosts == [busy : BOOLEAN, error : Errors, task : Tasks, closing : BOOLEAN]
Disks == [db : Databases, pointer : Versions, copy : Databases \cup {None}]
Services ==
  [restoring : BOOLEAN, preview : {"none", "fresh", "expired"}, version : Versions]

\* What the service does to its preview leaves a service.
LEMMA ServicesClosed ==
  /\ FreshService \in Services
  /\ \A s \in Services :
       /\ NoPreview(s) \in Services /\ DiscardExpired(s) \in Services
       /\ [s EXCEPT !.restoring = FALSE] \in Services
       /\ [s EXCEPT !.restoring = TRUE] \in Services
       /\ [s EXCEPT !.preview = "expired"] \in Services
       /\ NoPreview([s EXCEPT !.restoring = FALSE]) \in Services
       /\ DiscardExpired([s EXCEPT !.restoring = FALSE]) \in Services
<1>1. FreshService \in Services
  BY MaintenanceBoundsAssumption DEF Services, FreshService, Versions
<1>2. \A s \in Services : NoPreview(s) \in Services
  BY DEF Services, NoPreview
<1>3. \A s \in Services : DiscardExpired(s) \in Services
  BY <1>2 DEF DiscardExpired
<1>4. \A s \in Services : \A r \in BOOLEAN : [s EXCEPT !.restoring = r] \in Services
  BY DEF Services
<1>5. \A s \in Services : [s EXCEPT !.preview = "expired"] \in Services
  BY DEF Services
<1> QED
  BY <1>1, <1>2, <1>3, <1>4, <1>5

\* A request's step, unless it schedules a restore.
LEMMA CallerKeeps ==
  ASSUME HostInv, NEW c \in Callers,
         Admit(c) \/ Leave(c) \/ Reconcile(c) \/ ReconcileClears(c) \/ Inspect(c)
         \/ CancelPreview(c) \/ Verify(c) \/ QueueDownload(c) \/ CancelDownload(c)
  PROVE  HostInv'
<1> USE CallersAssumption, MaintenanceBoundsAssumption
    DEF HostInv, Admit, Leave, Reconcile, ReconcileClears, Inspect, CancelPreview, Verify,
        QueueDownload, CancelDownload
<1>1. MaintenanceTypeOK'
  <2>1. caller' \in [Callers -> {"out", "in", "stale", "verified", "funnel"}]
    BY DEF MaintenanceTypeOK
  <2>2. service' \in Services
    <3>1. service \in Services
      BY DEF MaintenanceTypeOK, Services
    <3>2. Inspect(c) => service' \in Services
      BY DEF MaintenanceTypeOK, Services, Versions
    <3> QED
      BY <3>1, <3>2, ServicesClosed
  <2>3. bounds' \in [restores : Versions, events : 0..MaxEvents]
    BY DEF MaintenanceTypeOK, Versions
  <2> QED
    BY <2>1, <2>2, <2>3 DEF MaintenanceTypeOK, Services
<1>2. NobodyLeft'
  BY DEF MaintenanceTypeOK, NobodyLeft, Draining, Checking, Stopping, Leaving, Entered, Active
<1>3. FilesKnown' /\ ErrorKnown' /\ OutcomeIsTold'
  BY DEF FilesKnown, Whole, HasCopy, ErrorKnown, OutcomeIsTold
<1> QED
  BY <1>1, <1>2, <1>3
\* What works beside the requests.
LEMMA WorkKeeps ==
  ASSUME HostInv, Expire \/ DownloadRuns \/ VisitorComes \/ VisitorEnds \/ ListenerDies
  PROVE  HostInv'
<1> USE DEF HostInv, Expire, DownloadRuns, VisitorComes, VisitorEnds, ListenerDies
<1>1. MaintenanceTypeOK'
  <2>1. service' \in Services
    <3>1. service \in Services
      BY DEF MaintenanceTypeOK, Services
    <3> QED
      BY <3>1, ServicesClosed
  <2> QED
    BY <2>1 DEF MaintenanceTypeOK, Services
<1>2. NobodyLeft'
  BY DEF MaintenanceTypeOK, NobodyLeft, Draining, Checking, Stopping, Leaving, Entered, Active
<1>3. FilesKnown' /\ ErrorKnown' /\ OutcomeIsTold'
  BY DEF FilesKnown, Whole, HasCopy, ErrorKnown, OutcomeIsTold
<1> QED
  BY <1>1, <1>2, <1>3

\* A restore is scheduled over the data there is.
LEMMA RestoreKeeps ==
  ASSUME HostInv, NEW c \in Callers, Restore(c)
  PROVE  HostInv'
<1> USE DEF HostInv, Restore
<1>1. MaintenanceTypeOK'
  <2>1. service' \in Services
    BY ServicesClosed DEF MaintenanceTypeOK, Services
  <2>2. goal' \in [from : Versions, to : Versions]
    BY DEF MaintenanceTypeOK, Databases
  <2> QED
    BY <2>1, <2>2 DEF MaintenanceTypeOK, Services, Errors, Tasks
<1>2. host.task \in {"idle", "drain"} /\ host.task # "drain" /\ host'.task = "drain"
      /\ host'.busy /\ host'.error = "none"
  BY DEF MaintenanceTypeOK, NobodyLeft, Draining, Active
<1>3. NobodyLeft'
  BY <1>2 DEF NobodyLeft, Draining, Checking, Stopping, Leaving, Entered
<1>4. FilesKnown' /\ ErrorKnown' /\ OutcomeIsTold'
  BY <1>2 DEF FilesKnown, Before, Whole, HasCopy, ErrorKnown, OutcomeIsTold, MaintenanceTypeOK
<1> QED
  BY <1>1, <1>3, <1>4
-----------------------------------------------------------------------------
(***************************************************************************)
(* The host's task.                                                        *)
(***************************************************************************)

\* How a step of the task leaves the host, and what it may have counted.
LEMMA TaskMoves ==
  ASSUME MaintenanceTypeOK
  PROVE  /\ \A t \in Tasks : GoTo(t) =>
              /\ host' \in Hosts /\ host'.task = t /\ host'.error = host.error
              /\ host'.busy = host.busy
         /\ \A e \in Errors : Done(e) =>
              host' \in Hosts /\ host'.task = "idle" /\ host'.error = e
         /\ \A e \in Errors : StayClosed(e) =>
              /\ host' \in Hosts /\ host'.task = "idle" /\ host'.error = e
              /\ host'.busy = host.busy
         /\ Works \/ Fails => bounds' \in [restores : Versions, events : 0..MaxEvents]
<1> host \in Hosts
  BY DEF MaintenanceTypeOK, Hosts
<1>1. \A t \in Tasks : GoTo(t) =>
        /\ host' \in Hosts /\ host'.task = t /\ host'.error = host.error
        /\ host'.busy = host.busy
  BY DEF Hosts, GoTo
<1>2. "idle" \in Tasks
  BY DEF Tasks
<1>3. \A e \in Errors : Done(e) =>
        host' \in Hosts /\ host'.task = "idle" /\ host'.error = e
  BY <1>2 DEF Hosts, Done
<1>4. \A e \in Errors : StayClosed(e) =>
        /\ host' \in Hosts /\ host'.task = "idle" /\ host'.error = e
        /\ host'.busy = host.busy
  BY <1>2 DEF Hosts, StayClosed
<1>5. Works \/ Fails => bounds' \in [restores : Versions, events : 0..MaxEvents]
  BY MaintenanceBoundsAssumption DEF MaintenanceTypeOK, Works, Fails, Event
<1> QED
  BY <1>1, <1>3, <1>4, <1>5

\* The waiting, before anything is stopped.
LEMMA DrainKeeps ==
  ASSUME HostInv, Drained \/ DrainTimesOut \/ PrecheckPasses \/ PrecheckFails
  PROVE  HostInv'
<1>1. MaintenanceTypeOK
  BY DEF HostInv
<1>2. /\ host' \in Hosts /\ bounds' \in [restores : Versions, events : 0..MaxEvents]
      /\ service' \in Services
      /\ UNCHANGED <<serving, disk, goal, caller, listening, visitor, download, torn>>
      /\ \/ /\ host'.task \in {"precheck", "stop"} /\ host.task \in {"drain", "precheck"}
            /\ host'.error = host.error /\ host'.busy = host.busy /\ Active = {}
            /\ host'.task = "stop" => Quiet
         \/ /\ host'.task = "idle" /\ host.task \in {"drain", "precheck"}
            /\ host'.error \in {"DRAIN_TIMEOUT", "PRECHECK_FAILED"}
  <2>1. service \in Services
    BY <1>1 DEF MaintenanceTypeOK, Services
  <2>2. CASE Drained
    BY <1>1, <2>1, <2>2, TaskMoves DEF Drained, Tasks, Works, MaintenanceTypeOK
  <2>3. CASE DrainTimesOut
    BY <1>1, <2>1, <2>3, TaskMoves DEF DrainTimesOut, Errors, Works, MaintenanceTypeOK
  <2>4. CASE PrecheckPasses
    <3>1. Active = {} /\ "stop" \in Tasks
      BY <2>4 DEF PrecheckPasses, HostInv, NobodyLeft, Draining, Tasks
    <3> QED
      BY <1>1, <2>1, <2>4, <3>1, TaskMoves DEF PrecheckPasses, Works, MaintenanceTypeOK
  <2>5. CASE PrecheckFails
    <3>1. "PRECHECK_FAILED" \in Errors
      BY DEF Errors
    <3>2. service' \in Services
      BY <2>1, <2>5, ServicesClosed DEF PrecheckFails
    <3> QED
      BY <1>1, <2>5, <3>1, <3>2, TaskMoves DEF PrecheckFails
  <2> QED
    BY <2>2, <2>3, <2>4, <2>5
<1>3. MaintenanceTypeOK'
  BY <1>1, <1>2 DEF MaintenanceTypeOK, Services, Hosts
<1>4. NobodyLeft'
  BY <1>2 DEF HostInv, NobodyLeft, Draining, Checking, Stopping, Leaving, Entered, Active, Quiet
<1>5. FilesKnown' /\ ErrorKnown' /\ OutcomeIsTold'
  BY <1>2 DEF HostInv, FilesKnown, Before, Whole, HasCopy, ErrorKnown, OutcomeIsTold
<1> QED
  BY <1>3, <1>4, <1>5 DEF HostInv
\* The application is stopped: its listener, its visitors, its lanes.
LEMMA StopKeeps ==
  ASSUME HostInv, StopBegins \/ VisitorsGone \/ StopFails \/ Stopped
  PROVE  HostInv'
<1>1. MaintenanceTypeOK
  BY DEF HostInv
<1>2. /\ host' \in Hosts /\ service' \in Services /\ download' \in {"none", "queued", "running"}
      /\ UNCHANGED <<disk, goal, caller, visitor, bounds, torn>>
      /\ serving' = FALSE /\ listening' = FALSE /\ host'.busy = host.busy
      /\ host.task \in {"stop", "stopping", "closing"}
      /\ download = "none" => download' = "none"
      /\ \/ /\ host'.task \in {"stopping", "closing", "snapshot"} /\ host'.error = host.error
            /\ host'.task # "stopping" => ~visitor
         \/ host'.task = "idle" /\ host'.error = "STOP_FAILED"
  <2>1. /\ service \in Services /\ "STOP_FAILED" \in Errors
        /\ {"stopping", "closing", "snapshot"} \subseteq Tasks
    BY <1>1 DEF MaintenanceTypeOK, Services, Errors, Tasks
  <2>2. CASE StopBegins
    BY <1>1, <2>1, <2>2, TaskMoves DEF StopBegins, MaintenanceTypeOK
  <2>3. /\ host.task \in {"stopping", "closing"} => ~listening /\ ~serving
        /\ host.task = "closing" => ~visitor
    BY <1>1 DEF HostInv, MaintenanceTypeOK, NobodyLeft, Draining, Checking, Stopping, Leaving,
       Entered
  <2>4. CASE VisitorsGone
    BY <1>1, <2>1, <2>3, <2>4, TaskMoves DEF VisitorsGone, MaintenanceTypeOK
  <2>5. CASE StopFails
    <3>1. service' \in Services
      BY <2>1, <2>5, ServicesClosed DEF StopFails
    <3> QED
      BY <1>1, <2>1, <2>3, <2>5, <3>1, TaskMoves DEF StopFails, MaintenanceTypeOK
  <2>6. CASE Stopped
    <3>1. service' \in Services
      BY <2>1, <2>6, ServicesClosed DEF Stopped
    <3> QED
      BY <1>1, <2>1, <2>3, <2>6, <3>1, TaskMoves DEF Stopped, MaintenanceTypeOK
  <2> QED
    BY <2>2, <2>4, <2>5, <2>6
<1>3. MaintenanceTypeOK'
  BY <1>1, <1>2 DEF MaintenanceTypeOK, Services, Hosts
<1>4. NobodyLeft'
  BY <1>2 DEF HostInv, NobodyLeft, Draining, Checking, Stopping, Leaving, Entered, Active
<1>5. FilesKnown' /\ ErrorKnown'
  BY <1>2 DEF HostInv, FilesKnown, Before, Whole, HasCopy, ErrorKnown
<1>6. OutcomeIsTold'
  <2>1. host.busy
    BY <1>2 DEF HostInv, NobodyLeft
  <2>2. host'.task # "idle" => host'.error \notin {"STOP_FAILED", "ROLLBACK_FAILED"}
    BY <1>2 DEF HostInv, ErrorKnown
  <2> QED
    BY <1>2, <2>1, <2>2 DEF OutcomeIsTold
<1> QED
  BY <1>3, <1>4, <1>5, <1>6 DEF HostInv

\* The files are replaced.
LEMMA ReplaceKeeps ==
  ASSUME HostInv, Snapshot \/ Swap \/ Repoint \/ PrepareFresh
  PROVE  HostInv'
<1>1. MaintenanceTypeOK /\ service \in Services /\ disk \in Disks
  BY DEF HostInv, MaintenanceTypeOK, Services, Disks
<1>2. /\ host' \in Hosts /\ bounds' \in [restores : Versions, events : 0..MaxEvents]
      /\ service' \in Services /\ disk' \in Disks
      /\ UNCHANGED <<serving, goal, caller, listening, visitor, download, torn>>
      /\ host'.busy = host.busy
      /\ host.task \in {"snapshot", "swap", "repoint", "prepare"}
      /\ \/ /\ host.task \in {"snapshot", "swap"} /\ host'.task \in {"swap", "restart"}
            /\ disk' = disk
         \/ /\ host.task = "swap" /\ host'.task = "repoint"
            /\ disk'.copy = disk.db /\ disk'.db.version = goal.to
            /\ disk'.pointer = disk.pointer
         \/ /\ host.task = "repoint" /\ host'.task = "prepare"
            /\ disk'.copy = disk.copy /\ disk'.db = disk.db /\ disk'.pointer = goal.to
         \/ /\ host.task \in {"repoint", "prepare"} /\ host'.task \in {"undoDb", "enter"}
            /\ host'.task = "enter" => host.task = "prepare"
            /\ disk' = disk
      /\ IF host'.task = "restart" THEN host'.error = "REPLACEMENT_FAILED"
         ELSE host'.error = host.error
  <2>1. {"swap", "repoint", "prepare", "undoDb", "enter", "restart"} \subseteq Tasks
        /\ "REPLACEMENT_FAILED" \in Errors
    BY DEF Tasks, Errors
  <2>2. ReplacementFails =>
          /\ service' \in Services
          /\ host' \in Hosts /\ host'.task = "restart" /\ host'.busy = host.busy
          /\ host'.error = "REPLACEMENT_FAILED"
    <3>1. host \in Hosts
      BY <1>1 DEF MaintenanceTypeOK, Hosts
    <3>2. ReplacementFails => service' \in Services
      BY <1>1, ServicesClosed DEF ReplacementFails
    <3> QED
      BY <2>1, <3>1, <3>2 DEF ReplacementFails, Hosts
  <2>3. CASE Snapshot
    <3>1. CASE Works /\ GoTo("swap") /\ UNCHANGED service
      BY <1>1, <2>1, <2>3, <3>1, TaskMoves DEF Snapshot
    <3>2. CASE (Works \/ Fails) /\ ReplacementFails
      BY <1>1, <2>2, <2>3, <3>2, TaskMoves DEF Snapshot
    <3> QED
      BY <2>3, <3>1, <3>2 DEF Snapshot
  <2>4. CASE Swap
    <3>1. CASE \E a \in Addresses :
                 disk' = [disk EXCEPT !.copy = disk.db,
                                      !.db = [version |-> goal.to, row |-> RestoredRow(a)]]
      <4>0. PICK a \in Addresses :
                 disk' = [disk EXCEPT !.copy = disk.db,
                                      !.db = [version |-> goal.to, row |-> RestoredRow(a)]]
        BY <3>1
      <4>1. [version |-> goal.to, row |-> RestoredRow(a)] \in Databases
        <5>1. RestoredRow(a) \in Rows
          BY DEF RestoredRow, Rows
        <5>2. goal.to \in Versions
          BY <1>1 DEF MaintenanceTypeOK
        <5> QED
          BY <5>1, <5>2 DEF Databases
      <4>2. /\ disk' \in Disks /\ disk'.copy = disk.db /\ disk'.db.version = goal.to
            /\ disk'.pointer = disk.pointer
        BY <1>1, <4>0, <4>1 DEF Disks
      <4>3. CASE Works /\ GoTo("repoint") /\ UNCHANGED service
        BY <1>1, <2>1, <2>4, <4>2, <4>3, TaskMoves DEF Swap
      <4>4. CASE Fails /\ ReplacementFails /\ UNCHANGED disk
        BY <1>1, <2>1, <2>2, <2>4, <4>4, TaskMoves DEF Swap
      <4> QED
        BY <2>4, <4>3, <4>4 DEF Swap
    <3>2. CASE Fails /\ ReplacementFails /\ UNCHANGED disk
      BY <1>1, <2>1, <2>2, <2>4, <3>2, TaskMoves DEF Swap
    <3> QED
      BY <2>4, <3>1, <3>2 DEF Swap
  <2>5. CASE Repoint
    <3>1. disk' = [disk EXCEPT !.pointer = goal.to] =>
            disk' \in Disks /\ disk'.copy = disk.copy /\ disk'.db = disk.db
            /\ disk'.pointer = goal.to
      BY <1>1 DEF MaintenanceTypeOK, Disks
    <3> QED
      BY <1>1, <2>1, <2>5, <3>1, TaskMoves DEF Repoint
  <2>6. CASE PrepareFresh
    BY <1>1, <2>1, <2>6, TaskMoves DEF PrepareFresh
  <2> QED
    BY <2>3, <2>4, <2>5, <2>6
<1>3. MaintenanceTypeOK'
  BY <1>1, <1>2 DEF MaintenanceTypeOK, Services, Hosts, Disks
<1>4. NobodyLeft'
  BY <1>2 DEF HostInv, NobodyLeft, Draining, Checking, Stopping, Leaving, Entered, Active
<1>5. FilesKnown'
  <2>1. host.task = "swap" /\ host'.task = "repoint" => HasCopy'
    <3>1. disk.db \in Databases
      BY <1>1 DEF Disks
    <3> QED
      BY <1>2, <3>1 DEF HostInv, FilesKnown, Before, HasCopy
  <2> QED
    BY <1>2, <2>1 DEF HostInv, FilesKnown, Before, Whole, HasCopy
<1>6. ErrorKnown' /\ OutcomeIsTold'
  BY <1>2 DEF HostInv, ErrorKnown, OutcomeIsTold
<1> QED
  BY <1>3, <1>4, <1>5, <1>6 DEF HostInv
\* The files are put back.
LEMMA PutBackKeeps ==
  ASSUME HostInv, PutBackDatabase \/ PutBackPointer
  PROVE  HostInv'
<1>1. MaintenanceTypeOK /\ service \in Services /\ disk \in Disks
  BY DEF HostInv, MaintenanceTypeOK, Services, Disks
<1>2. /\ host' \in Hosts /\ bounds' \in [restores : Versions, events : 0..MaxEvents]
      /\ service' \in Services /\ disk' \in Disks /\ torn' \in BOOLEAN
      /\ UNCHANGED <<serving, goal, caller, listening, visitor, download>>
      /\ host'.busy = host.busy
      /\ host.task \in {"undoDb", "undoPointer", "backDb", "backPointer"}
      /\ \/ /\ host.task \in {"undoDb", "backDb"} /\ host'.task \in {"undoPointer", "backPointer"}
            /\ disk'.db.version = goal.from /\ disk'.pointer = disk.pointer /\ torn' = torn
            /\ host'.task = "backPointer" => host.task = "backDb"
            /\ host'.error = host.error
         \/ /\ host.task \in {"undoPointer", "backPointer"} /\ host'.task = "restart"
            /\ disk'.pointer = goal.from /\ disk'.db = disk.db /\ torn' = torn
            /\ host'.error \in {"REPLACEMENT_FAILED", "FRESH_START_FAILED"}
         \/ /\ torn' = TRUE
            /\ \/ host'.task = "restart" /\ host'.error = "REPLACEMENT_FAILED"
               \/ host'.task = "idle" /\ host'.error = "ROLLBACK_FAILED"
  <2>1. {"undoPointer", "backPointer", "restart"} \subseteq Tasks
        /\ {"REPLACEMENT_FAILED", "ROLLBACK_FAILED", "FRESH_START_FAILED"} \subseteq Errors
    BY DEF Tasks, Errors
  <2>2. CASE UndoFails /\ (PutBackDatabase \/ PutBackPointer)
    <3> host \in Hosts
      BY <1>1 DEF MaintenanceTypeOK, Hosts
    <3>1. host' = [host EXCEPT !.task = "restart", !.error = "REPLACEMENT_FAILED"] =>
            /\ host' \in Hosts /\ host'.task = "restart" /\ host'.error = "REPLACEMENT_FAILED"
            /\ host'.busy = host.busy
      BY <2>1 DEF Hosts
    <3> QED
      BY <1>1, <2>1, <2>2, <3>1, TaskMoves DEF UndoFails, PutBackDatabase, PutBackPointer
  <2>3. CASE PutBackDatabase /\ ~UndoFails
    <3>1. /\ disk' = [disk EXCEPT !.db = disk.copy, !.copy = None]
          /\ disk.copy \in Databases /\ disk.copy.version = goal.from
      BY <2>3 DEF PutBackDatabase, HostInv, FilesKnown, HasCopy
    <3>2. disk' \in Disks /\ disk'.db.version = goal.from /\ disk'.pointer = disk.pointer
      BY <1>1, <3>1 DEF Disks
    <3>3. torn \in BOOLEAN
      BY <1>1 DEF MaintenanceTypeOK
    <3> QED
      BY <1>1, <2>1, <2>3, <3>2, <3>3, TaskMoves DEF PutBackDatabase
  <2>4. CASE PutBackPointer /\ ~UndoFails
    <3>1. disk' \in Disks /\ disk'.db = disk.db /\ disk'.pointer = goal.from
      BY <1>1, <2>4 DEF PutBackPointer, Disks, MaintenanceTypeOK
    <3>2. service' \in Services /\ torn \in BOOLEAN
      <4>1. service' = NoPreview([service EXCEPT !.restoring = FALSE])
        BY <2>4 DEF PutBackPointer
      <4> QED
        BY <1>1, <4>1, ServicesClosed DEF MaintenanceTypeOK
    <3>3. host \in Hosts /\ (host.task = "backPointer" => host.error = "FRESH_START_FAILED")
      BY <1>1 DEF MaintenanceTypeOK, Hosts, HostInv, ErrorKnown
    <3>4. /\ host' \in Hosts /\ host'.task = "restart" /\ host'.busy = host.busy
          /\ host'.error \in {"REPLACEMENT_FAILED", "FRESH_START_FAILED"}
      BY <2>1, <2>4, <3>3 DEF PutBackPointer, Hosts
    <3> QED
      BY <1>1, <2>4, <3>1, <3>2, <3>4, TaskMoves DEF PutBackPointer
  <2> QED
    BY <2>2, <2>3, <2>4
<1>3. MaintenanceTypeOK'
  BY <1>1, <1>2 DEF MaintenanceTypeOK, Services, Hosts, Disks
<1>4. NobodyLeft'
  BY <1>2 DEF HostInv, NobodyLeft, Draining, Checking, Stopping, Leaving, Entered, Active
<1>5. FilesKnown'
  BY <1>2 DEF HostInv, FilesKnown, Before, Whole, HasCopy
<1>6. ErrorKnown' /\ OutcomeIsTold'
  <2>1. ~serving /\ host.busy
    BY <1>2 DEF HostInv, NobodyLeft, Stopping, Checking, Draining, Entered
  <2> QED
    BY <1>2, <2>1 DEF HostInv, ErrorKnown, OutcomeIsTold
<1> QED
  BY <1>3, <1>4, <1>5, <1>6 DEF HostInv

\* An application is started: over the restored files, or again over those
\* there are.
LEMMA StartKeeps ==
  ASSUME HostInv, RestartOld \/ EnterFresh \/ CommitRestore
  PROVE  HostInv'
<1>1. MaintenanceTypeOK /\ service \in Services /\ disk \in Disks /\ host \in Hosts
  BY DEF HostInv, MaintenanceTypeOK, Services, Disks, Hosts
<1>2. disk.db.row.enabled \in BOOLEAN
  BY <1>1 DEF Disks, Databases, Rows
<1>3. /\ host' \in Hosts /\ bounds' \in [restores : Versions, events : 0..MaxEvents]
      /\ service' \in Services /\ disk' \in Disks
      /\ serving' \in BOOLEAN /\ listening' \in BOOLEAN
      /\ disk'.db = disk.db /\ disk'.pointer = disk.pointer
      /\ UNCHANGED <<goal, caller, visitor, download, torn>>
      /\ \/ /\ host.task = "restart" /\ host'.task = "reenter" /\ host'.error = host.error
            /\ UNCHANGED <<serving, listening>> /\ host'.busy = host.busy
         \/ host.task = "reenter" /\ host'.task = "idle" /\ host'.error = host.error
         \/ /\ host.task \in {"restart", "reenter"}
            /\ host'.task = "idle" /\ host'.error = "ROLLBACK_FAILED"
            /\ UNCHANGED <<serving, listening>> /\ host'.busy = host.busy
         \/ /\ host.task = "enter" /\ host'.task = "commit" /\ host'.error = host.error
            /\ host'.busy = host.busy
         \/ /\ host.task = "enter" /\ host'.task = "backDb"
            /\ host'.error = "FRESH_START_FAILED" /\ host'.busy = host.busy
            /\ UNCHANGED <<serving, listening, disk>>
         \/ /\ host.task = "commit" /\ host'.task = "idle"
            /\ host'.error \in {"none", "RESTORE_CLEANUP_FAILED"}
  <2>1. {"reenter", "commit", "backDb", "idle"} \subseteq Tasks
        /\ {"none", "RESTORE_CLEANUP_FAILED", "ROLLBACK_FAILED", "FRESH_START_FAILED"} \subseteq Errors
    BY DEF Tasks, Errors
  <2>2. serving \in BOOLEAN /\ listening \in BOOLEAN /\ host.error \in Errors
    BY <1>1 DEF MaintenanceTypeOK, Hosts
  <2>3. CASE RestartOld
    BY <1>1, <1>2, <2>1, <2>2, <2>3, TaskMoves, ServicesClosed DEF RestartOld
  <2>4. CASE EnterFresh
    <3>1. host' = [host EXCEPT !.task = "backDb", !.error = "FRESH_START_FAILED"] =>
            /\ host' \in Hosts /\ host'.task = "backDb" /\ host'.error = "FRESH_START_FAILED"
            /\ host'.busy = host.busy
      BY <1>1, <2>1 DEF Hosts
    <3> QED
      BY <1>1, <1>2, <2>1, <2>2, <2>4, <3>1, TaskMoves DEF EnterFresh
  <2>5. CASE CommitRestore
    <3>1. disk' \in Disks /\ disk'.db = disk.db /\ disk'.pointer = disk.pointer
      BY <1>1, <2>5 DEF CommitRestore, Disks
    <3> QED
      BY <1>1, <2>1, <2>2, <2>5, <3>1, TaskMoves, ServicesClosed DEF CommitRestore
  <2> QED
    BY <2>3, <2>4, <2>5
<1>4. MaintenanceTypeOK'
  BY <1>1, <1>3 DEF MaintenanceTypeOK, Services, Hosts, Disks
<1>5. NobodyLeft'
  BY <1>3 DEF HostInv, NobodyLeft, Draining, Checking, Stopping, Leaving, Entered, Active
<1>6. FilesKnown'
  BY <1>3 DEF HostInv, FilesKnown, Before, Whole, HasCopy
<1>7. ErrorKnown' /\ OutcomeIsTold'
  <2>1. host.task \in {"restart", "reenter", "enter"} => ~serving
    BY DEF HostInv, NobodyLeft, Stopping, Checking, Draining, Entered
  <2>2. host.task # "idle" => host.busy
    BY DEF HostInv, NobodyLeft
  <2>3. host.task = "commit" => disk.db.version = goal.to
    BY DEF HostInv, FilesKnown
  <2>4. host.task = "reenter" => torn \/ disk.db.version = goal.from
    BY DEF HostInv, FilesKnown
  <2> QED
    BY <1>3, <2>1, <2>2, <2>3, <2>4 DEF HostInv, ErrorKnown, OutcomeIsTold
<1> QED
  BY <1>4, <1>5, <1>6, <1>7 DEF HostInv-----------------------------------------------------------------------------
(***************************************************************************)
(* The process, and all of the host.                                       *)
(***************************************************************************)
\* What an end of the process leaves behind agrees.
LEMMA EndKeeps ==
  ASSUME HostInv, ProcessEnds, bounds' \in [restores : Versions, events : 0..MaxEvents],
         host.task # "down"
  PROVE  HostInv'
<1>1. MaintenanceTypeOK /\ disk \in Disks
  BY DEF HostInv, MaintenanceTypeOK, Disks
<1>2. disk' \in Disks /\ disk'.db = disk.db /\ disk'.pointer = disk.pointer
  BY <1>1 DEF ProcessEnds, Disks
<1>3. MaintenanceTypeOK'
  <2>1. goal' \in [from : Versions, to : Versions]
    BY MaintenanceBoundsAssumption DEF ProcessEnds, NoGoal, Versions
  <2>2. caller' \in [Callers -> {"out", "in", "stale", "verified", "funnel"}]
    BY DEF ProcessEnds
  <2>3. host' \in Hosts /\ service' \in Services
    BY ServicesClosed DEF ProcessEnds, Hosts, Errors, Tasks
  <2>4. torn' \in BOOLEAN
    BY <1>1 DEF ProcessEnds, MaintenanceTypeOK
  <2> QED
    BY <1>2, <2>1, <2>2, <2>3, <2>4 DEF ProcessEnds, MaintenanceTypeOK, Services, Hosts, Disks
<1>4. NobodyLeft'
  <2>1. Active' = {}
    BY DEF ProcessEnds, Active
  <2> QED
    BY <2>1 DEF ProcessEnds, NobodyLeft, Draining, Checking, Stopping, Leaving, Entered
<1>5. FilesKnown'
  <2>1. Whole' \/ torn'
    BY <1>2 DEF ProcessEnds, Whole
  <2> QED
    BY <2>1 DEF ProcessEnds, FilesKnown, Before
<1>6. ErrorKnown' /\ OutcomeIsTold'
  BY DEF ProcessEnds, ErrorKnown, OutcomeIsTold
<1> QED
  BY <1>3, <1>4, <1>5, <1>6 DEF HostInv

\* The process ends, or starts over the files it finds.
LEMMA ProcessKeeps ==
  ASSUME HostInv, ProcessStep
  PROVE  HostInv'
<1>1. MaintenanceTypeOK /\ disk \in Disks /\ host \in Hosts
  BY DEF HostInv, MaintenanceTypeOK, Disks, Hosts
<1>2. CASE Crash
  <2>1. bounds' \in [restores : Versions, events : 0..MaxEvents]
    BY <1>1, <1>2, TaskMoves DEF Crash, Fails
  <2> QED
    BY <1>2, <2>1, EndKeeps DEF Crash
<1>3. CASE ServerClosed
  BY <1>1, <1>3, EndKeeps DEF ServerClosed, MaintenanceTypeOK
<1>4. CASE ServerCloses
  <2>1. /\ host' \in Hosts /\ host'.task = host.task /\ host'.error = host.error /\ host'.busy
        /\ UNCHANGED <<serving, service, disk, goal, caller, listening, visitor, download, torn>>
        /\ bounds' \in [restores : Versions, events : 0..MaxEvents]
    BY <1>1, <1>4, TaskMoves DEF ServerCloses, Hosts, Fails
  <2>2. MaintenanceTypeOK'
    BY <1>1, <2>1 DEF MaintenanceTypeOK, Hosts
  <2>3. NobodyLeft' /\ FilesKnown' /\ ErrorKnown' /\ OutcomeIsTold'
    BY <2>1 DEF HostInv, NobodyLeft, FilesKnown, Whole, HasCopy, ErrorKnown, OutcomeIsTold, Active
  <2> QED
    BY <2>2, <2>3 DEF HostInv
<1>5. CASE ProcessStarts
  <2>1. /\ host' \in Hosts /\ host'.task = "idle" /\ host'.error = host.error
        /\ host.task = "down" /\ serving' = TRUE /\ listening' \in BOOLEAN
        /\ UNCHANGED <<service, disk, goal, caller, visitor, download, bounds, torn>>
    BY <1>1, <1>5 DEF ProcessStarts, Hosts, Disks, Databases, Rows, Tasks
  <2>2. MaintenanceTypeOK'
    BY <1>1, <2>1 DEF MaintenanceTypeOK, Hosts
  <2>3. NobodyLeft' /\ FilesKnown' /\ ErrorKnown' /\ OutcomeIsTold'
    BY <2>1 DEF HostInv, NobodyLeft, Draining, Checking, Stopping, Leaving, Entered, FilesKnown,
       Before, Whole, HasCopy, ErrorKnown, OutcomeIsTold, Active
  <2> QED
    BY <2>2, <2>3 DEF HostInv
<1> QED
  BY <1>2, <1>3, <1>4, <1>5 DEF ProcessStep

\* Every step of the host.
LEMMA HostKeeps ==
  ASSUME HostInv, HostStep
  PROVE  HostInv'
<1>1. CASE \E c \in Callers : CallerStep(c)
  BY <1>1, CallerKeeps, RestoreKeeps DEF CallerStep
<1>2. CASE Expire \/ DownloadRuns \/ VisitorComes \/ VisitorEnds \/ ListenerDies
  BY <1>2, WorkKeeps
<1>3. CASE TaskStep
  BY <1>3, DrainKeeps, StopKeeps, ReplaceKeeps, PutBackKeeps, StartKeeps DEF TaskStep
<1>4. CASE ProcessStep
  BY <1>4, ProcessKeeps
<1> QED
  BY <1>1, <1>2, <1>3, <1>4 DEF HostStep-----------------------------------------------------------------------------
(***************************************************************************)
(* The gateway's changes and the operations of live chat leave the host's  *)
(* task and the versions of its files alone.                               *)
(***************************************************************************)
HostFrame ==
  /\ Others /\ bounds' \in [restores : Versions, events : 0..MaxEvents]
  /\ disk' \in Disks /\ disk'.db.version = disk.db.version
  /\ disk'.pointer = disk.pointer /\ disk'.copy = disk.copy
  /\ caller' \in [Callers -> {"out", "in", "stale", "verified", "funnel"}]
  /\ Active' \subseteq Active
  /\ listening' \in BOOLEAN /\ (listening' = listening \/ Active # {})

\* What happens under that frame keeps the host's invariant.
LEMMA FrameKeeps ==
  ASSUME HostInv, HostFrame
  PROVE  HostInv'
<1>1. MaintenanceTypeOK'
  BY DEF HostInv, HostFrame, Others, MaintenanceTypeOK, Disks
<1>2. NobodyLeft'
  BY DEF HostInv, HostFrame, Others, NobodyLeft, Draining, Checking, Stopping, Leaving, Entered
<1>3. FilesKnown' /\ ErrorKnown' /\ OutcomeIsTold'
  BY DEF HostInv, HostFrame, Others, FilesKnown, Whole, HasCopy, ErrorKnown, OutcomeIsTold
<1> QED
  BY <1>1, <1>2, <1>3 DEF HostInv

\* A change of the gateway's row is at the next revision and leaves the rest
\* of the files.
LEMMA RowsChange ==
  ASSUME disk \in Disks
  PROVE  /\ Row \in Rows
         /\ \A r \in Rows : SetRow(r) =>
              /\ disk' \in Disks /\ disk'.db.version = disk.db.version /\ Row' = r
              /\ disk'.pointer = disk.pointer /\ disk'.copy = disk.copy
         /\ \A a \in Addresses :
              /\ Next1([Row EXCEPT !.address = a]) \in Rows
              /\ Next1([Row EXCEPT !.address = a]).revision = Row.revision + 1
              /\ Next1([Row EXCEPT !.address = a]).address = a
         /\ \A e \in BOOLEAN :
              /\ Next1([Row EXCEPT !.enabled = e]) \in Rows
              /\ Next1([Row EXCEPT !.enabled = e]).revision = Row.revision + 1
              /\ Next1([Row EXCEPT !.enabled = e]).address = Row.address
<1>1. Row \in Rows
  BY DEF Disks, Databases, Row
<1>2. \A r \in Rows : SetRow(r) =>
        /\ disk' \in Disks /\ disk'.db.version = disk.db.version /\ Row' = r
        /\ disk'.pointer = disk.pointer /\ disk'.copy = disk.copy
  BY DEF Disks, Databases, SetRow, Row
<1>3. \A r \in Rows : /\ Next1(r) \in Rows /\ Next1(r).revision = r.revision + 1
                      /\ Next1(r).address = r.address
  BY DEF Rows, Next1
<1>4. \A a \in Addresses :
        /\ [Row EXCEPT !.address = a] \in Rows
        /\ [Row EXCEPT !.address = a].revision = Row.revision
        /\ [Row EXCEPT !.address = a].address = a
  BY <1>1 DEF Rows
<1>5. \A e \in BOOLEAN :
        /\ [Row EXCEPT !.enabled = e] \in Rows
        /\ [Row EXCEPT !.enabled = e].revision = Row.revision
        /\ [Row EXCEPT !.enabled = e].address = Row.address
  BY <1>1 DEF Rows
<1>6. ASSUME NEW a \in Addresses
      PROVE  /\ Next1([Row EXCEPT !.address = a]) \in Rows
             /\ Next1([Row EXCEPT !.address = a]).revision = Row.revision + 1
             /\ Next1([Row EXCEPT !.address = a]).address = a
  <2> DEFINE r == [Row EXCEPT !.address = a]
  <2>1. r \in Rows /\ r.revision = Row.revision /\ r.address = a
    BY <1>4
  <2> HIDE DEF r
  <2>2. /\ Next1(r) \in Rows /\ Next1(r).revision = Row.revision + 1 /\ Next1(r).address = a
    BY <1>3, <2>1
  <2> QED
    BY <2>2 DEF r
<1>7. ASSUME NEW e \in BOOLEAN
      PROVE  /\ Next1([Row EXCEPT !.enabled = e]) \in Rows
             /\ Next1([Row EXCEPT !.enabled = e]).revision = Row.revision + 1
             /\ Next1([Row EXCEPT !.enabled = e]).address = Row.address
  <2> DEFINE r == [Row EXCEPT !.enabled = e]
  <2>1. r \in Rows /\ r.revision = Row.revision /\ r.address = Row.address
    BY <1>5
  <2> HIDE DEF r
  <2>2. /\ Next1(r) \in Rows /\ Next1(r).revision = Row.revision + 1
        /\ Next1(r).address = Row.address
    BY <1>3, <2>1
  <2> QED
    BY <2>2 DEF r
<1> QED
  BY <1>1, <1>2, <1>6, <1>7

\* How a step of an operation leaves it.
LEMMA OperationMoves ==
  ASSUME funnel \in Operations
  PROVE  /\ \A t \in Steps : To(t) =>
              /\ funnel' \in Operations /\ funnel'.step = t
              /\ funnel'.by = funnel.by /\ funnel'.created = funnel.created
              /\ funnel'.observed = funnel.observed /\ funnel'.told = funnel.told
              /\ funnel'.revision = funnel.revision /\ funnel'.address = funnel.address
         /\ \A o \in Outcomes : End(o) =>
              /\ funnel' \in Operations /\ funnel'.step = "told" /\ funnel'.told = o
              /\ funnel'.by = funnel.by /\ funnel'.created = funnel.created
              /\ caller' = caller
<1>1. \A t \in Steps : To(t) =>
        /\ funnel' \in Operations /\ funnel'.step = t
        /\ funnel'.by = funnel.by /\ funnel'.created = funnel.created
        /\ funnel'.observed = funnel.observed /\ funnel'.told = funnel.told
        /\ funnel'.revision = funnel.revision /\ funnel'.address = funnel.address
  BY DEF To, Operations
<1>2. \A o \in Outcomes : End(o) =>
        /\ funnel' \in Operations /\ funnel'.step = "told" /\ funnel'.told = o
        /\ funnel'.by = funnel.by /\ funnel'.created = funnel.created
        /\ caller' = caller
  BY DEF End, Operations, Steps
<1> QED
  BY <1>1, <1>2
\* The owner's other requests about the gateway, and other clients of the routes.
LEMMA MeddlingKeeps ==
  ASSUME Inv,
         (\E c \in Callers : ConfigureGateway(c) \/ StartGateway(c) \/ StopGateway(c))
         \/ RouteChanges
  PROVE  HostFrame /\ FunnelInv'
<1>1. disk \in Disks /\ listening \in BOOLEAN /\ funnel \in Operations
      /\ caller \in [Callers -> {"out", "in", "stale", "verified", "funnel"}]
  BY DEF Inv, HostInv, MaintenanceTypeOK, Disks, FunnelInv
<1>2. Event => bounds' \in [restores : Versions, events : 0..MaxEvents]
  BY TaskMoves DEF Inv, HostInv, Fails
<1>3. CASE \E c \in Callers : ConfigureGateway(c) \/ StartGateway(c) \/ StopGateway(c)
  <2> PICK c \in Callers : ConfigureGateway(c) \/ StartGateway(c) \/ StopGateway(c)
    BY <1>3
  <2>1. \E r \in Rows : SetRow(r) /\ r.revision = Row.revision + 1
    <3>1. CASE ConfigureGateway(c)
      <4>1. PICK a \in {None, "other"} : SetRow(Next1([Row EXCEPT !.address = a]))
        BY <3>1 DEF ConfigureGateway
      <4>2. a \in Addresses
        BY DEF Addresses
      <4> QED
        BY <1>1, <4>1, <4>2, RowsChange
    <3>2. CASE StartGateway(c)
      BY <1>1, <3>2, RowsChange DEF StartGateway
    <3>3. CASE StopGateway(c)
      BY <1>1, <3>3, RowsChange DEF StopGateway
    <3> QED
      BY <3>1, <3>2, <3>3
  <2>2. /\ disk' \in Disks /\ disk'.db.version = disk.db.version
        /\ disk'.pointer = disk.pointer /\ disk'.copy = disk.copy
        /\ Row'.revision = Row.revision + 1
    BY <1>1, <2>1, RowsChange
  <2>3. /\ Others /\ Event /\ UNCHANGED <<caller, route, funnel>>
        /\ listening' \in BOOLEAN /\ caller[c] = "in"
    BY <1>1 DEF ConfigureGateway, StartGateway, StopGateway, Changes, Meddles
  <2>4. c \in Active /\ Active' = Active
    BY <2>3 DEF Active
  <2>5. HostFrame
    BY <1>1, <1>2, <2>2, <2>3, <2>4 DEF HostFrame
  <2>6. FunnelKnown'
    <3>1. Row.revision \in Nat /\ funnel.revision \in Nat
      BY <1>1 DEF Disks, Databases, Rows, Row, Operations
    <3> QED
      BY <2>2, <2>3, <3>1 DEF Inv, FunnelInv, FunnelKnown
  <2> QED
    BY <2>3, <2>5, <2>6 DEF Inv, FunnelInv
<1>4. CASE RouteChanges
  <2>1. /\ Others /\ Event /\ UNCHANGED <<disk, listening, caller, funnel>>
        /\ route' \in {"free", "foreign"}
    BY <1>4 DEF RouteChanges, Meddles
  <2>2. HostFrame
    BY <1>1, <1>2, <2>1 DEF HostFrame, Active
  <2>3. FunnelKnown'
    BY <2>1 DEF Inv, FunnelInv, FunnelKnown, Row
  <2> QED
    BY <2>1, <2>2, <2>3 DEF Inv, FunnelInv
<1> QED
  BY <1>3, <1>4

\* An operation begins with nothing created, seen or told.
LEMMA BeginKeeps ==
  ASSUME Inv, NEW c \in Callers, Begin(c, "startRead") \/ Begin(c, "stopRead")
  PROVE  HostFrame /\ FunnelInv'
<1>1. disk \in Disks /\ listening \in BOOLEAN /\ Row.revision \in Nat
      /\ caller \in [Callers -> {"out", "in", "stale", "verified", "funnel"}]
  BY DEF Inv, HostInv, MaintenanceTypeOK, Disks, Databases, Rows, Row
<1>2. PICK step \in {"startRead", "stopRead"} : Begin(c, step)
  OBVIOUS
<1>3. HostFrame
  <2>1. bounds' \in [restores : Versions, events : 0..MaxEvents]
    BY <1>2, TaskMoves DEF Inv, HostInv, Fails, Begin
  <2>2. Active' = Active
    BY <1>1, <1>2 DEF Begin, Active
  <2> QED
    BY <1>1, <1>2, <2>1, <2>2 DEF Begin, HostFrame
<1>4. /\ funnel' \in Operations /\ funnel'.step = step /\ funnel'.by = c
      /\ funnel'.told = "nothing" /\ ~funnel'.created
  BY <1>1, <1>2 DEF Begin, Idle, Operations, Steps, Outcomes, Addresses
<1>5. route' = route /\ caller'[c] = "funnel"
  BY <1>1, <1>2 DEF Begin
<1>6. FunnelKnown'
  BY <1>4, <1>5 DEF FunnelKnown, Cleared, Removing
<1> QED
  BY <1>3, <1>4, <1>5, <1>6 DEF Inv, FunnelInv

\* What does not write the row or the listener is within the frame.
LEMMA ReadingKeepsHost ==
  ASSUME HostInv, UNCHANGED <<disk, listening, caller>>, AnyOther
  PROVE  HostFrame
  BY DEF HostInv, HostFrame, MaintenanceTypeOK, Disks, AnyOther, Active

\* The reads and the commands of an operation.
LEMMA CommandsKeep ==
  ASSUME Inv, ReadGateway \/ Observe \/ Recheck \/ FunnelOn \/ Confirm
              \/ Remove \/ FunnelOff \/ OffConfirm \/ ObserveAgain
  PROVE  HostFrame /\ FunnelInv'
<1>1. /\ route \in {"free", "own", "foreign"} /\ funnel \in Operations /\ FunnelKnown
      /\ HostInv /\ disk \in Disks /\ listening \in BOOLEAN
  BY DEF Inv, HostInv, MaintenanceTypeOK, Disks, FunnelInv
<1>2. UNCHANGED <<disk, listening, caller>> /\ AnyOther
  BY DEF ReadGateway, Observe, Recheck, FunnelOn, Confirm, Remove, FunnelOff, OffConfirm,
     ObserveAgain, Same, Unchanged, End, Failed, Removed, RemovalFails
<1>3. HostFrame
  BY <1>1, <1>2, ReadingKeepsHost
<1>4. Row' = Row /\ Row.revision \in Nat /\ Row.address \in Addresses
  BY <1>1, <1>2 DEF Row, Disks, Databases, Rows
<1>5. Outcomes = {"nothing", "live", "notLive", "off", "failed"}
      /\ {"recheck", "confirm", "remove", "configure", "off", "offConfirm", "stopAgain", "forget"}
           \subseteq Steps
  BY DEF Outcomes, Steps
\* Told: the rest of what is known is about the steps before.
<1>6. ASSUME NEW o \in Outcomes, End(o), funnel.step # "idle"
      PROVE  funnel' \in Operations /\ FunnelKnown'
  BY <1>1, <1>2, <1>6, OperationMoves DEF FunnelKnown, Cleared, Removing
<1>7. CASE ReadGateway
  <2>1. CASE \E o \in Outcomes : End(o)
    BY <1>1, <1>3, <1>5, <1>6, <1>7, <2>1 DEF FunnelInv, ReadGateway
  <2>2. CASE funnel' = [funnel EXCEPT !.ready = listening, !.address = Row.address,
               !.step = IF funnel.step = "startRead" THEN "startObserve" ELSE "stopObserve"]
    <3>1. /\ funnel' \in Operations /\ funnel'.step \in {"startObserve", "stopObserve"}
          /\ funnel'.by = funnel.by /\ funnel'.told = funnel.told
          /\ funnel'.created = funnel.created
      BY <1>1, <1>4, <2>2 DEF Operations, Steps
    <3>2. FunnelKnown'
      BY <1>1, <1>2, <1>7, <3>1 DEF FunnelKnown, ReadGateway, Cleared, Removing
    <3> QED
      BY <1>1, <1>3, <1>7, <3>1, <3>2 DEF FunnelInv, ReadGateway
  <2>3. CASE End(IF funnel.step = "startRead" THEN "notLive" ELSE "failed")
    <3> DEFINE o == IF funnel.step = "startRead" THEN "notLive" ELSE "failed"
    <3>1. o \in Outcomes
      BY <1>5
    <3> QED
      BY <2>1, <2>3, <3>1
  <2> QED
    BY <1>7, <2>2, <2>3, Zenon DEF ReadGateway
<1>8. CASE Observe
  <2>1. PICK o \in {Seen, "notReady", "error"} :
          IF funnel.step = "stopObserve"
          THEN funnel' = [funnel EXCEPT !.observed = o, !.step = "stopGateway"] /\ Same
          ELSE IF o \in {"ready", "live"} THEN To("recheck") /\ Same
          ELSE End("notLive") /\ Unchanged
    BY <1>8 DEF Observe
  <2>2. o \in {"none", "ready", "live", "notReady", "error"}
    BY <1>1 DEF Seen
  <2>3. CASE funnel.step = "stopObserve"
    <3>1. /\ funnel' \in Operations /\ funnel'.step = "stopGateway"
          /\ funnel'.by = funnel.by /\ funnel'.told = funnel.told
          /\ funnel'.created = funnel.created
      BY <1>1, <2>1, <2>2, <2>3 DEF Operations, Steps
    <3>2. FunnelKnown'
      BY <1>1, <1>2, <2>3, <3>1 DEF FunnelKnown, Cleared, Removing
    <3> QED
      BY <1>1, <1>3, <1>8, <3>1, <3>2 DEF FunnelInv, Observe
  <2>4. CASE funnel.step = "startObserve" /\ To("recheck")
    <3>1. FunnelKnown' /\ funnel' \in Operations
      BY <1>1, <1>2, <1>5, <2>4, OperationMoves DEF FunnelKnown, Cleared, Removing
    <3> QED
      BY <1>1, <1>3, <1>8, <3>1 DEF FunnelInv, Observe
  <2>5. CASE funnel.step = "startObserve" /\ End("notLive")
    BY <1>1, <1>3, <1>5, <1>6, <1>8, <2>5 DEF FunnelInv, Observe
  <2> QED
    BY <1>8, <2>1, <2>3, <2>4, <2>5 DEF Observe
<1>9. CASE Recheck
  <2>1. CASE \E o \in {"live", "notLive"} : End(o)
    BY <1>1, <1>3, <1>5, <1>6, <1>9, <2>1 DEF FunnelInv, Recheck
  <2>2. CASE funnel' = [funnel EXCEPT !.created = (Seen # "live"),
                                      !.step = IF Seen = "live" THEN "configure" ELSE "on"]
    <3>1. /\ funnel' \in Operations /\ funnel'.step \in {"configure", "on"}
          /\ funnel'.by = funnel.by /\ funnel'.told = funnel.told
          /\ funnel'.step = "on" => funnel'.created
      BY <1>1, <2>2 DEF Operations, Steps
    <3>2. FunnelKnown'
      BY <1>1, <1>2, <1>9, <3>1 DEF FunnelKnown, Recheck, Cleared, Removing
    <3> QED
      BY <1>1, <1>3, <1>9, <3>1, <3>2 DEF FunnelInv, Recheck
  <2> QED
    BY <1>9, <2>1, <2>2 DEF Recheck
<1>10. CASE FunnelOn
  <2>1. PICK t \in {"confirm", "remove"} : To(t)
    BY <1>10 DEF FunnelOn
  <2>2. FunnelKnown' /\ funnel' \in Operations
    BY <1>1, <1>2, <1>5, <1>10, <2>1, OperationMoves DEF FunnelKnown, FunnelOn, Cleared, Removing
  <2> QED
    BY <1>1, <1>3, <1>10, <2>2 DEF FunnelInv, FunnelOn
<1>11. CASE Confirm
  <2>1. CASE \E o \in {"live", "notLive"} : End(o)
    BY <1>1, <1>3, <1>5, <1>6, <1>11, <2>1 DEF FunnelInv, Confirm
  <2>2. CASE \E t \in {"configure", "remove"} : To(t)
    <3>1. PICK t \in {"configure", "remove"} : To(t)
      BY <2>2
    <3>2. FunnelKnown' /\ funnel' \in Operations
      BY <1>1, <1>2, <1>5, <1>11, <3>1, OperationMoves DEF FunnelKnown, Confirm, Cleared, Removing
    <3> QED
      BY <1>1, <1>3, <1>11, <3>2 DEF FunnelInv, Confirm
  <2> QED
    BY <1>11, <2>1, <2>2 DEF Confirm, Failed
<1>12. CASE Remove \/ FunnelOff \/ OffConfirm
  <2>1. route' \in {"free", "own", "foreign"} /\ funnel.step \in Removing
        /\ (route' = route \/ route' = "free")
    BY <1>1, <1>12 DEF Remove, FunnelOff, OffConfirm, Removing
  <2>2. CASE \E o \in {"notLive", "failed"} : End(o)
    BY <1>1, <1>3, <1>5, <1>6, <2>1, <2>2 DEF FunnelInv, Removing
  <2>3. CASE \E t \in {"off", "offConfirm"} : To(t)
    <3>1. PICK t \in {"off", "offConfirm"} : To(t)
      BY <2>3
    <3>2. FunnelKnown' /\ funnel' \in Operations
      BY <1>1, <1>2, <1>4, <1>5, <2>1, <3>1, OperationMoves DEF FunnelKnown, Cleared, Removing
    <3> QED
      BY <1>3, <2>1, <3>2 DEF FunnelInv
  <2>4. CASE ~funnel.created /\ route # "own" /\ route' = route /\ To("stopAgain")
    <3>1. FunnelKnown' /\ funnel' \in Operations
      BY <1>1, <1>2, <1>4, <1>5, <2>1, <2>4, OperationMoves DEF FunnelKnown, Cleared, Removing
    <3> QED
      BY <1>3, <2>1, <3>1 DEF FunnelInv
  <2> QED
    BY <1>12, <2>2, <2>3, <2>4 DEF Remove, FunnelOff, OffConfirm, Removed, RemovalFails
<1>13. CASE ObserveAgain
  <2>1. CASE End("failed")
    BY <1>1, <1>3, <1>5, <1>6, <1>13, <2>1 DEF FunnelInv, ObserveAgain
  <2>2. CASE To("forget")
    <3>1. FunnelKnown' /\ funnel' \in Operations
      BY <1>1, <1>2, <1>4, <1>5, <1>13, <2>2, OperationMoves
         DEF FunnelKnown, ObserveAgain, Cleared, Removing
    <3> QED
      BY <1>1, <1>3, <1>13, <3>1 DEF FunnelInv, ObserveAgain
  <2> QED
    BY <1>13, <2>1, <2>2 DEF ObserveAgain
<1> QED
  BY <1>7, <1>8, <1>9, <1>10, <1>11, <1>12, <1>13
\* The operations that write the gateway's row, and the response.
LEMMA WritesKeep ==
  ASSUME Inv, ConfigureFunnel \/ Listen \/ StopFunnelGateway \/ Forget \/ Respond
  PROVE  HostFrame /\ FunnelInv'
<1>1. /\ route \in {"free", "own", "foreign"} /\ funnel \in Operations /\ FunnelKnown
      /\ HostInv /\ disk \in Disks /\ listening \in BOOLEAN
      /\ caller \in [Callers -> {"out", "in", "stale", "verified", "funnel"}]
      /\ bounds \in [restores : Versions, events : 0..MaxEvents]
  BY DEF Inv, HostInv, MaintenanceTypeOK, Disks, FunnelInv
<1>2. /\ Row.revision \in Nat /\ Row.address \in Addresses /\ Row \in Rows
      /\ funnel.revision \in Nat
  BY <1>1 DEF Row, Disks, Databases, Rows, Operations
<1>3. Outcomes = {"nothing", "live", "notLive", "off", "failed"}
      /\ {"remove", "listen", "forget"} \subseteq Steps
  BY DEF Outcomes, Steps
<1>4. UNCHANGED route /\ AnyOther
  BY DEF ConfigureFunnel, Listen, StopFunnelGateway, Forget, Respond, Unchanged
<1>5. /\ funnel.by \in Callers /\ caller[funnel.by] = "funnel" /\ Active # {}
      /\ funnel.step # "told" => funnel.told = "nothing"
  BY <1>1 DEF FunnelKnown, Active, ConfigureFunnel, Listen, StopFunnelGateway, Forget, Respond
<1>6. ASSUME NEW o \in Outcomes, End(o)
      PROVE  funnel' \in Operations /\ FunnelKnown' /\ caller' = caller
  BY <1>1, <1>5, <1>6, OperationMoves DEF FunnelKnown, Cleared, Removing
\* The written row, whatever it is, leaves the versions alone.
<1>7. ASSUME \/ UNCHANGED disk
             \/ \E r \in Rows : SetRow(r),
             listening' \in BOOLEAN, caller' = caller
      PROVE  HostFrame
  <2>1. /\ disk' \in Disks /\ disk'.db.version = disk.db.version
        /\ disk'.pointer = disk.pointer /\ disk'.copy = disk.copy
    BY <1>1, <1>7, RowsChange
  <2> QED
    BY <1>1, <1>4, <1>5, <1>7, <2>1 DEF HostFrame, AnyOther, Active
<1>8. CASE ConfigureFunnel
  <2>1. "funnel" \in Addresses /\ listening' = listening
    BY <1>8 DEF Addresses, ConfigureFunnel
  <2>2. CASE Failed /\ UNCHANGED disk
    <3>1. CASE End("notLive")
      BY <1>1, <1>3, <1>4, <1>6, <1>7, <2>1, <2>2, <3>1 DEF FunnelInv
    <3>2. CASE funnel.created /\ To("remove") /\ UNCHANGED caller
      <4>1. FunnelKnown' /\ funnel' \in Operations
        BY <1>1, <1>3, <1>5, <1>8, <3>2, OperationMoves
           DEF FunnelKnown, ConfigureFunnel, Cleared, Removing
      <4> QED
        BY <1>1, <1>4, <1>7, <2>1, <2>2, <3>2, <4>1 DEF FunnelInv
    <3> QED
      BY <2>2, <3>1, <3>2 DEF Failed
  <2>3. CASE /\ SetRow(Next1([Row EXCEPT !.address = "funnel"])) /\ UNCHANGED caller
             /\ funnel' = [funnel EXCEPT !.step = "listen", !.revision = @ + 1]
    <3>1. \E r \in Rows : SetRow(r)
      BY <1>1, <2>1, <2>3, RowsChange
    <3>2. /\ funnel' \in Operations /\ funnel'.step = "listen" /\ funnel'.by = funnel.by
          /\ funnel'.told = funnel.told
      <4>1. PICK n \in Nat : n = funnel.revision + 1
        BY <1>2
      <4>2. funnel' = [funnel EXCEPT !.step = "listen", !.revision = n]
        BY <2>3, <4>1
      <4> QED
        BY <1>1, <1>3, <4>2 DEF Operations
    <3>3. FunnelKnown'
      BY <1>5, <1>8, <2>3, <3>2 DEF FunnelKnown, ConfigureFunnel, Cleared, Removing
    <3> QED
      BY <1>1, <1>4, <1>7, <2>1, <2>3, <3>1, <3>2, <3>3 DEF FunnelInv
  <2> QED
    BY <1>8, <2>2, <2>3 DEF ConfigureFunnel
<1>9. CASE Listen
  <2>1. listening' \in BOOLEAN /\ (UNCHANGED disk \/ \E r \in Rows : SetRow(r))
    BY <1>1, <1>9, RowsChange DEF Listen
  <2>2. CASE \E o \in {"live", "notLive"} : End(o)
    BY <1>1, <1>3, <1>4, <1>6, <1>7, <2>1, <2>2 DEF FunnelInv
  <2>3. CASE funnel.created /\ To("remove") /\ UNCHANGED caller
    <3>1. FunnelKnown' /\ funnel' \in Operations
      BY <1>1, <1>3, <1>5, <1>9, <2>3, OperationMoves
         DEF FunnelKnown, Listen, Cleared, Removing
    <3> QED
      BY <1>1, <1>4, <1>7, <2>1, <2>3, <3>1 DEF FunnelInv
  <2> QED
    BY <1>9, <2>2, <2>3 DEF Listen, Failed
<1>10. CASE StopFunnelGateway
  <2>1. listening' \in BOOLEAN /\ (UNCHANGED disk \/ \E r \in Rows : SetRow(r))
    BY <1>1, <1>10, RowsChange DEF StopFunnelGateway
  <2>2. CASE End("failed")
    BY <1>1, <1>3, <1>4, <1>6, <1>7, <2>1, <2>2 DEF FunnelInv
  <2>3. CASE /\ Row.revision = funnel.revision /\ listening' = FALSE /\ UNCHANGED caller
             /\ SetRow(Next1([Row EXCEPT !.enabled = FALSE]))
             /\ funnel' = [funnel EXCEPT !.revision = @ + 1, !.address = Row.address,
                  !.step = IF funnel.observed = "live" THEN "remove" ELSE "forget"]
    <3>1. /\ funnel' \in Operations /\ funnel'.by = funnel.by /\ funnel'.told = funnel.told
          /\ funnel'.revision = funnel.revision + 1 /\ funnel'.address = Row.address
          /\ funnel'.created = funnel.created /\ funnel'.observed = funnel.observed
          /\ IF funnel.observed = "live" THEN funnel'.step = "remove" ELSE funnel'.step = "forget"
      <4>1. PICK n \in Nat : n = funnel.revision + 1
        BY <1>2
      <4>2. PICK t \in Steps : t = IF funnel.observed = "live" THEN "remove" ELSE "forget"
        BY <1>3
      <4>3. funnel' = [funnel EXCEPT !.revision = n, !.address = Row.address, !.step = t]
        BY <2>3, <4>1, <4>2
      <4>4. /\ funnel' \in Operations /\ funnel'.by = funnel.by /\ funnel'.told = funnel.told
            /\ funnel'.revision = n /\ funnel'.address = Row.address
            /\ funnel'.created = funnel.created /\ funnel'.observed = funnel.observed
            /\ funnel'.step = t
        BY <1>1, <1>2, <4>3 DEF Operations
      <4> QED
        BY <4>1, <4>2, <4>4
    <3>2. Row'.revision = Row.revision + 1 /\ Row'.address = Row.address
      BY <1>1, <2>3, RowsChange
    <3>3. ~funnel.created /\ funnel.step = "stopGateway"
      BY <1>1, <1>10 DEF FunnelKnown, StopFunnelGateway
    <3>4. FunnelKnown'
      BY <1>2, <1>5, <2>3, <3>1, <3>2, <3>3 DEF FunnelKnown, Cleared, Removing
    <3> QED
      BY <1>1, <1>4, <1>7, <2>1, <2>3, <3>1, <3>4 DEF FunnelInv
  <2> QED
    BY <1>10, <2>2, <2>3 DEF StopFunnelGateway
<1>11. CASE Forget
  <2>1. listening' \in BOOLEAN /\ (UNCHANGED disk \/ \E r \in Rows : SetRow(r))
    <3>1. None \in Addresses
      BY DEF Addresses
    <3> QED
      BY <1>1, <1>11, <3>1, RowsChange DEF Forget
  <2>2. \E o \in {"off", "failed"} : End(o)
    BY <1>11 DEF Forget
  <2> QED
    BY <1>1, <1>3, <1>4, <1>6, <1>7, <2>1, <2>2 DEF FunnelInv
<1>12. CASE Respond
  <2>1. /\ UNCHANGED <<disk, listening>> /\ funnel' = Idle
        /\ caller' = [caller EXCEPT ![funnel.by] = "out"]
    BY <1>12 DEF Respond, Unchanged
  <2>2. Idle \in Operations /\ FunnelKnown'
    BY <2>1 DEF Idle, Operations, Steps, Outcomes, Addresses, FunnelKnown, Cleared, Removing
  <2>3. caller' \in [Callers -> {"out", "in", "stale", "verified", "funnel"}]
        /\ Active' \subseteq Active
    BY <1>1, <1>5, <2>1 DEF Active
  <2> QED
    BY <1>1, <1>4, <2>1, <2>2, <2>3 DEF HostFrame, AnyOther, FunnelInv
<1> QED
  BY <1>8, <1>9, <1>10, <1>11, <1>12

\* The host's steps, while an operation of live chat is open, leave what it
\* relies on: its request is admitted, so the task still waits.
LEMMA HostKeepsOperation ==
  ASSUME Inv, HostMoves
  PROVE  FunnelInv'
<1>1. /\ route \in {"free", "own", "foreign"} /\ route' = route
      /\ funnel \in Operations /\ Idle \in Operations /\ FunnelKnown
  BY DEF Inv, FunnelInv, HostMoves, Idle, Operations, Steps, Outcomes, Addresses
<1>2. CASE funnel' = Idle
  BY <1>1, <1>2 DEF FunnelInv, FunnelKnown, Idle, Cleared, Removing
<1>3. CASE funnel' = funnel /\ funnel.step = "idle"
  BY <1>1, <1>3 DEF FunnelInv, FunnelKnown, Cleared, Removing
<1>4. CASE funnel' = funnel /\ funnel.step # "idle" /\ host'.task # "down"
  <2>1. funnel.by \in Callers /\ caller[funnel.by] = "funnel" /\ Active # {}
        /\ host.task \in {"idle", "drain"}
    BY <1>1, <1>4 DEF FunnelKnown, Active, Inv, HostInv, NobodyLeft, Draining
  <2>2. UNCHANGED disk /\ (listening' = listening \/ ~listening')
        /\ caller'[funnel.by] = "funnel"
    <3>1. CASE \E c \in Callers : CallerStep(c)
      <4>1. caller \in [Callers -> {"out", "in", "stale", "verified", "funnel"}]
        BY DEF Inv, HostInv, MaintenanceTypeOK
      <4> QED
        BY <2>1, <3>1, <4>1 DEF CallerStep, Admit, Leave, Reconcile, ReconcileClears, Inspect,
           CancelPreview, Verify, Restore, QueueDownload, CancelDownload
    <3>2. CASE Expire \/ DownloadRuns \/ VisitorComes \/ VisitorEnds \/ ListenerDies
      BY <2>1, <3>2 DEF Expire, DownloadRuns, VisitorComes, VisitorEnds, ListenerDies
    <3>3. CASE TaskStep
      BY <2>1, <3>3 DEF TaskStep, Drained, DrainTimesOut, PrecheckPasses, PrecheckFails,
         StopBegins, VisitorsGone, StopFails, Stopped, Snapshot, Swap, Repoint, PrepareFresh,
         PutBackDatabase, PutBackPointer, RestartOld, EnterFresh, CommitRestore
    <3>4. CASE ProcessStep
      <4>1. ~Crash /\ ~ServerClosed
        BY <1>4 DEF Crash, ServerClosed, ProcessEnds
      <4> QED
        BY <2>1, <3>4, <4>1 DEF ProcessStep, ServerCloses, ProcessStarts
    <3> QED
      BY <3>1, <3>2, <3>3, <3>4 DEF HostMoves, HostStep
  <2>3. FunnelKnown'
    BY <1>1, <1>4, <2>1, <2>2 DEF FunnelKnown, Row
  <2> QED
    BY <1>1, <1>4, <2>3 DEF FunnelInv
<1> QED
  BY <1>2, <1>3, <1>4 DEF HostMoves

-----------------------------------------------------------------------------
(***************************************************************************)
(* The invariant, and what follows from it.                                *)
(***************************************************************************)
\* Every step keeps the invariant.
LEMMA NextInv == Inv /\ [Next]_vars => Inv'
<1> SUFFICES ASSUME Inv, [Next]_vars PROVE Inv'
  OBVIOUS
<1>1. CASE HostMoves
  BY <1>1, HostKeeps, HostKeepsOperation DEF Inv, HostMoves
<1>2. CASE \E c \in Callers : \/ ConfigureGateway(c) \/ StartGateway(c) \/ StopGateway(c)
                              \/ Begin(c, "startRead") \/ Begin(c, "stopRead")
  <2>1. HostFrame /\ FunnelInv'
    BY <1>2, MeddlingKeeps, BeginKeeps
  <2> QED
    BY <2>1, FrameKeeps DEF Inv
<1>3. CASE RouteChanges
  BY <1>3, MeddlingKeeps, FrameKeeps DEF Inv
<1>4. CASE FunnelStep
  <2>1. HostFrame /\ FunnelInv'
    BY <1>4, CommandsKeep, WritesKeep DEF FunnelStep
  <2> QED
    BY <2>1, FrameKeeps DEF Inv
<1>5. CASE UNCHANGED vars
  BY <1>5 DEF vars, hostVars, Inv, HostInv, FunnelInv, MaintenanceTypeOK, NobodyLeft, FilesKnown,
     Whole, HasCopy, ErrorKnown, OutcomeIsTold, FunnelKnown, Active, Row
<1> QED
  BY <1>1, <1>2, <1>3, <1>4, <1>5 DEF Next

\* The invariant holds in every reachable state.
LEMMA InvAlways == Spec => []Inv
  BY InitInv, NextInv, PTL DEF Spec

\* An application serves the database and the bundle pointer of one version,
\* whatever step of a restore fails or is cut off, unless an undo failed too
\* or the process ended between the two writes.
THEOREM RestoreNeverMixes == Spec => []RestoreIsWhole
<1>1. Inv => RestoreIsWhole
  BY DEF Inv, HostInv, FunnelInv, TypeOK, NobodyLeft, Stopping, Checking, Draining, Entered,
     FilesKnown, Whole, RestoreIsWhole
<1> QED
  BY <1>1, InvAlways, PTL

\* Nobody works on the files while they are replaced.
THEOREM SwapNeverDisturbed == Spec => []SwapIsQuiet
<1>1. Inv => SwapIsQuiet
  BY DEF Inv, HostInv, NobodyLeft, Stopping, Checking, Draining, Leaving, Entered, SwapIsQuiet,
     Quiet
<1> QED
  BY <1>1, InvAlways, PTL

\* The host's error says whose data is served.
THEOREM OutcomeAlwaysTold == Spec => []OutcomeIsTold
<1>1. Inv => OutcomeIsTold
  BY DEF Inv, HostInv
<1> QED
  BY <1>1, InvAlways, PTL
\* What live chat tells of the routes and the addresses is so, whatever the
\* client of the routes, other clients and other requests do meanwhile.
THEOREM FunnelAlwaysTold == Spec => FunnelTold
<1>1. ASSUME Inv, [Next]_vars PROVE [Told]_vars
  <2> SUFFICES ASSUME Next PROVE Told
    BY <1>1
  <2>1. /\ funnel \in Operations /\ FunnelKnown
        /\ disk \in Disks
    BY <1>1 DEF Inv, FunnelInv, HostInv, MaintenanceTypeOK, Disks
  <2>2. CASE funnel' = funnel \/ funnel' = Idle
    BY <2>1, <2>2 DEF FunnelKnown, Told, Idle
  <2>3. CASE FunnelStep
    <3>1. ASSUME funnel'.told = "notLive", funnel.told = "nothing", funnel.created
          PROVE  route' # "own"
      <4>1. ~ReadGateway /\ ~Observe /\ ~Recheck
        BY <2>1, <3>1 DEF FunnelKnown, ReadGateway, Observe, Recheck
      <4>2. ~StopFunnelGateway /\ ~ObserveAgain /\ ~Forget
        BY <2>1, <3>1 DEF FunnelKnown, StopFunnelGateway, ObserveAgain, Forget, Cleared
      <4>3. \A t \in Steps : ~To(t)
        BY <2>1, <3>1, OperationMoves
      <4>4. \A o \in Outcomes : End(o) => o = "notLive"
        BY <2>1, <3>1, OperationMoves
      <4>5. Outcomes = {"nothing", "live", "notLive", "off", "failed"}
            /\ {"confirm", "remove", "configure", "off", "offConfirm"} \subseteq Steps
        BY DEF Outcomes, Steps
      <4>6. ~FunnelOn /\ ~Confirm /\ ~FunnelOff
        BY <3>1, <4>3, <4>4, <4>5 DEF FunnelOn, Confirm, FunnelOff, Failed, RemovalFails
      <4>7. ~ConfigureFunnel
        <5>1. funnel' # [funnel EXCEPT !.step = "listen", !.revision = @ + 1]
          BY <2>1, <3>1 DEF Operations
        <5> QED
          BY <3>1, <4>3, <4>5, <5>1 DEF ConfigureFunnel, Failed
      <4>8. ~Listen
        BY <3>1, <4>3, <4>4, <4>5 DEF Listen, Failed
      <4>9. ~Respond
        BY <3>1 DEF Respond, Idle
      <4>10. CASE Remove
        BY <4>3, <4>4, <4>5, <4>10 DEF Remove, RemovalFails
      <4>11. CASE OffConfirm
        BY <4>4, <4>5, <4>11 DEF OffConfirm, RemovalFails
      <4> QED
        BY <2>3, <4>1, <4>2, <4>6, <4>7, <4>8, <4>9, <4>10, <4>11 DEF FunnelStep
    <3>2. ASSUME funnel.step = "forget", funnel'.told = "off"
          PROVE  /\ funnel.observed = "live" => route' # "own"
                 /\ Row.revision = funnel.revision => Row'.address = None /\ ~listening'
      <4>1. Forget
        BY <2>3, <3>2 DEF FunnelStep, ReadGateway, Observe, Recheck, FunnelOn, Confirm,
           ConfigureFunnel, Listen, Remove, FunnelOff, OffConfirm, StopFunnelGateway,
           ObserveAgain, Respond
      <4>2. /\ funnel.observed = "live" => route # "own"
            /\ funnel.revision = Row.revision => ~listening /\ Row.address = funnel.address
        BY <2>1, <3>2 DEF FunnelKnown, Cleared
      <4>3. CASE UNCHANGED disk
        <5>1. ~End("failed")
          BY <2>1, <3>2, OperationMoves DEF Outcomes
        <5>2. Row.revision = funnel.revision => Row'.address = None /\ ~listening'
          <6>1. funnel.address = None \/ SetRow(Next1([Row EXCEPT !.address = None]))
            BY <4>1, <5>1 DEF Forget
          <6>2. Row' = Row /\ listening' = listening
            BY <4>1, <4>3 DEF Row, Forget
          <6>3. SetRow(Next1([Row EXCEPT !.address = None])) => Row'.address = None
            BY <2>1, RowsChange DEF Addresses
          <6> QED
            BY <4>2, <6>1, <6>2, <6>3
        <5> QED
          BY <4>1, <4>2, <5>2 DEF Forget
      <4>4. CASE SetRow(Next1([Row EXCEPT !.address = None]))
        <5>1. Row'.address = None
          BY <2>1, <4>4, RowsChange DEF Addresses
        <5> QED
          BY <4>1, <4>2, <5>1 DEF Forget
      <4> QED
        BY <4>1, <4>3, <4>4 DEF Forget
    <3> QED
      BY <3>1, <3>2 DEF Told
  <2>4. CASE \E c \in Callers : Begin(c, "startRead") \/ Begin(c, "stopRead")
    <3>1. funnel'.told = "nothing"
      BY <2>4 DEF Begin, Idle
    <3> QED
      BY <3>1 DEF Told
  <2> QED
    BY <2>2, <2>3, <2>4 DEF Next, HostMoves, ConfigureGateway, StartGateway, StopGateway,
       RouteChanges
<1> QED
  BY <1>1, InvAlways, PTL DEF Spec, FunnelTold
=============================================================================
