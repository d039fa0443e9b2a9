--------------------------- MODULE MaintenanceHost ---------------------------
(***************************************************************************)
(* Restoring a backup (admin/maintenance.py, admin/maintenance_host.py):   *)
(* the host drains the requests, stops the application that serves them,   *)
(* replaces its database and its bundle pointer - two files - and starts a *)
(* fresh application over them, or puts both files back and starts one     *)
(* over those.                                                             *)
(*                                                                         *)
(* What works beside the requests: a download of a model                   *)
(* (admin/model_operations.py) and visitors, whose requests come through   *)
(* the gateway's own listener.  A backup, and the data it holds, is a      *)
(* version; `disk.db' and `disk.pointer' say whose each file is.  The      *)
(* archive's encryption and validation are left out.                       *)
(***************************************************************************)
EXTENDS Integers

CONSTANTS
  Callers,     \* requests of the owner that may be open at once
  MaxRestores, \* backups that are inspected
  MaxEvents,   \* calls that fail, ends of the process, and what TailscaleFunnel adds
  None

ASSUME CallersAssumption == None \notin Callers
ASSUME MaintenanceBoundsAssumption ==
  MaxRestores \in Nat /\ MaxEvents \in Nat

Versions == 0..MaxRestores
Addresses == {None, "funnel", "other"}
Rows == [enabled : BOOLEAN, revision : Nat, address : Addresses]
Databases == [version : Versions, row : Rows]

Tasks == {"idle", "drain", "precheck", "stop", "stopping", "closing", "snapshot", "swap",
          "repoint", "prepare", "undoDb", "undoPointer", "restart", "reenter", "enter",
          "backDb", "backPointer", "commit", "down"}
Errors == {"none", "DRAIN_TIMEOUT", "PRECHECK_FAILED", "STOP_FAILED", "REPLACEMENT_FAILED",
           "FRESH_START_FAILED", "ROLLBACK_FAILED", "RESTORE_CLEANUP_FAILED"}

VARIABLES
  host,      \* MaintenanceHost: busy, last error, its task, whether the server is closing
  serving,   \* an application's lifespan has been entered
  service,   \* MaintenanceService: restoring, and the preview with its version
  disk,      \* the two files, the private copy of the database
  goal,      \* what the scheduled restore replaces, and by what
  caller,    \* the requests
  listening, \* the gateway's listener is up
  visitor,   \* a visitor's thread is at work
  download,  \* the operation of the model lane
  bounds,    \* backups inspected and events so far
  torn       \* history: an undo failed, or the process ended between the two writes

hostVars == <<host, serving, service, disk, goal, caller, listening, visitor, download,
              bounds, torn>>

FreshService == [restoring |-> FALSE, preview |-> "none", version |-> 0]
NoGoal == [from |-> 0, to |-> 0]

MaintenanceTypeOK ==
  /\ host \in [busy : BOOLEAN, error : Errors, task : Tasks, closing : BOOLEAN]
  /\ serving \in BOOLEAN /\ listening \in BOOLEAN /\ visitor \in BOOLEAN /\ torn \in BOOLEAN
  /\ service \in [restoring : BOOLEAN, preview : {"none", "fresh", "expired"}, version : Versions]
  /\ disk \in [db : Databases, pointer : Versions, copy : Databases \cup {None}]
  /\ goal \in [from : Versions, to : Versions]
  /\ caller \in [Callers -> {"out", "in", "stale", "verified", "funnel"}]
  /\ download \in {"none", "queued", "running"}
  /\ bounds \in [restores : Versions, events : 0..MaxEvents]

\* The row a backup brings: disabled by the restore, at the next revision, and
\* with the address it had.
RestoredRow(a) == [enabled |-> FALSE, revision |-> 2, address |-> a]

HostInit ==
  /\ host = [busy |-> FALSE, error |-> "none", task |-> "idle", closing |-> FALSE]
  /\ serving = TRUE /\ visitor = FALSE /\ torn = FALSE
  /\ service = FreshService
  /\ listening \in BOOLEAN
  /\ \E a \in Addresses :
       /\ listening <=> a # None
       /\ disk = [db |-> [version |-> 0,
                          row |-> [enabled |-> listening, revision |-> 1, address |-> a]],
                  pointer |-> 0, copy |-> None]
  /\ goal = NoGoal
  /\ caller = [c \in Callers |-> "out"]
  /\ download = "none"
  /\ bounds = [restores |-> 0, events |-> 0]

Active == {c \in Callers : caller[c] # "out"}
Event == bounds.events < MaxEvents /\ bounds' = [bounds EXCEPT !.events = @ + 1]
Fails == Event
Works == UNCHANGED bounds
-----------------------------------------------------------------------------
(***************************************************************************)
(* Requests: __call__ admits them while no maintenance is at work.         *)
(***************************************************************************)
Admit(c) ==
  /\ caller[c] = "out" /\ ~host.busy
  /\ caller' = [caller EXCEPT ![c] = "in"]
  /\ UNCHANGED <<host, serving, service, disk, goal, listening, visitor, download, bounds, torn>>

Leave(c) ==
  /\ caller[c] \in {"in", "verified"}
  /\ caller' = [caller EXCEPT ![c] = "out"]
  /\ UNCHANGED <<host, serving, service, disk, goal, listening, visitor, download, bounds, torn>>

\* _discard.
NoPreview(s) == [s EXCEPT !.preview = "none"]
DiscardExpired(s) == IF s.preview = "expired" THEN NoPreview(s) ELSE s

\* reconcile_host: what the host says is read without the lock ...
Reconcile(c) ==
  /\ caller[c] = "in"
  /\ service.restoring /\ ~host.busy /\ host.error # "none"
  /\ caller' = [caller EXCEPT ![c] = "stale"]
  /\ UNCHANGED <<host, serving, service, disk, goal, listening, visitor, download, bounds, torn>>

\* ... under which the flag is cleared.
ReconcileClears(c) ==
  /\ caller[c] = "stale"
  /\ caller' = [caller EXCEPT ![c] = "in"]
  /\ service' = DiscardExpired([service EXCEPT !.restoring = FALSE])
  /\ UNCHANGED <<host, serving, disk, goal, listening, visitor, download, bounds, torn>>

\* inspect: one preview, for ten minutes.  A request that verified the one
\* before will be refused (_selected): it is as if it had not.
Inspect(c) ==
  /\ caller[c] = "in" /\ ~service.restoring
  /\ bounds.restores < MaxRestores
  /\ bounds' = [bounds EXCEPT !.restores = @ + 1]
  /\ service' = [restoring |-> FALSE, preview |-> "fresh", version |-> bounds.restores + 1]
  /\ caller' = [d \in Callers |-> IF caller[d] = "verified" THEN "in" ELSE caller[d]]
  /\ UNCHANGED <<host, serving, disk, goal, listening, visitor, download, torn>>

\* cancel.
CancelPreview(c) ==
  /\ caller[c] = "in" /\ ~service.restoring /\ service.preview # "none"
  /\ service' = NoPreview(service)
  /\ UNCHANGED <<host, serving, disk, goal, caller, listening, visitor, download, bounds, torn>>

\* The timer of the preview: its password is cleared at once, its directory
\* only outside a restore.
Expire ==
  /\ service.preview = "fresh"
  /\ service' = IF service.restoring THEN [service EXCEPT !.preview = "expired"]
                ELSE NoPreview(service)
  /\ UNCHANGED <<host, serving, disk, goal, caller, listening, visitor, download, bounds, torn>>

\* idle_check, of the work this model has.
Quiet == ~visitor /\ download = "none"

\* verify_restore.
Verify(c) ==
  /\ caller[c] = "in"
  /\ ~service.restoring /\ service.preview = "fresh" /\ Quiet
  /\ caller' = [caller EXCEPT ![c] = "verified"]
  /\ UNCHANGED <<host, serving, service, disk, goal, listening, visitor, download, bounds, torn>>

\* restore, and the host's schedule: refused while another restore is at work
\* or the preview verified a moment ago is no longer the one.
Restore(c) ==
  /\ caller[c] = "verified"
  /\ service.preview = "fresh" /\ ~service.restoring /\ ~host.busy
  /\ caller' = [caller EXCEPT ![c] = "in"]
  /\ service' = [service EXCEPT !.restoring = TRUE]
  /\ host' = [host EXCEPT !.busy = TRUE, !.error = "none", !.task = "drain"]
  /\ goal' = [from |-> disk.db.version, to |-> service.version]
  /\ UNCHANGED <<serving, disk, listening, visitor, download, bounds, torn>>
-----------------------------------------------------------------------------
(***************************************************************************)
(* Work beside the owner's requests.                                       *)
(***************************************************************************)
\* _queue, after _check_idle.
QueueDownload(c) ==
  /\ caller[c] = "in" /\ download = "none"
  /\ download' = "queued"
  /\ UNCHANGED <<host, serving, service, disk, goal, caller, listening, visitor, bounds, torn>>

\* cancel: a future that has not begun is dropped; a running one polls its flag.
CancelDownload(c) ==
  /\ caller[c] = "in" /\ download = "queued"
  /\ download' = "none"
  /\ UNCHANGED <<host, serving, service, disk, goal, caller, listening, visitor, bounds, torn>>

\* _run, to its terminal status; a success writes to the registry.
DownloadRuns ==
  /\ download' = CASE download = "queued" -> "running"
                   [] download = "running" -> "none"
                   [] OTHER -> download
  /\ download # "none"
  /\ UNCHANGED <<host, serving, service, disk, goal, caller, listening, visitor, bounds, torn>>

VisitorComes ==
  /\ listening /\ ~visitor
  /\ visitor' = TRUE
  /\ UNCHANGED <<host, serving, service, disk, goal, caller, listening, download, bounds, torn>>

VisitorEnds ==
  /\ visitor
  /\ visitor' = FALSE
  /\ UNCHANGED <<host, serving, service, disk, goal, caller, listening, download, bounds, torn>>

\* The listener's server ends by itself.
ListenerDies ==
  /\ listening
  /\ listening' = FALSE
  /\ UNCHANGED <<host, serving, service, disk, goal, caller, visitor, download, bounds, torn>>
-----------------------------------------------------------------------------
(***************************************************************************)
(* The host's task: _replace.                                              *)
(***************************************************************************)
GoTo(step) == host' = [host EXCEPT !.task = step]

\* The end of the task: `busy' is what the server's shutdown left it.
Done(error) ==
  host' = [host EXCEPT !.task = "idle", !.error = error, !.busy = host.closing]

\* A return that leaves the host busy: only a new process serves again.
StayClosed(error) == host' = [host EXCEPT !.task = "idle", !.error = error]

Drained ==
  /\ host.task = "drain" /\ Active = {}
  /\ GoTo("precheck")
  /\ UNCHANGED <<serving, service, disk, goal, caller, listening, visitor, download, bounds, torn>>

\* Mutant: the wait for the requests has no end.
DrainWaitsOn ==
  /\ host.task = "drain" /\ Active # {}
  /\ UNCHANGED hostVars

DrainTimesOut ==
  /\ host.task = "drain" /\ Active # {}
  /\ Done("DRAIN_TIMEOUT")
  /\ UNCHANGED <<serving, service, disk, goal, caller, listening, visitor, download, bounds, torn>>

\* before_stop.
PrecheckPasses ==
  /\ host.task = "precheck" /\ service.preview = "fresh" /\ Quiet
  /\ GoTo("stop")
  /\ UNCHANGED <<serving, service, disk, goal, caller, listening, visitor, download, bounds, torn>>

PrecheckFails ==
  /\ host.task = "precheck"
  /\ \/ (service.preview # "fresh" \/ ~Quiet) /\ Works
     \/ Fails
  /\ service' = DiscardExpired([service EXCEPT !.restoring = FALSE])
  /\ Done("PRECHECK_FAILED")
  /\ UNCHANGED <<serving, disk, goal, caller, listening, visitor, download, torn>>

\* _exit: the lifespan's end closes the listener first.
StopBegins ==
  /\ host.task = "stop"
  /\ serving' = FALSE /\ listening' = FALSE
  /\ GoTo("stopping")
  /\ UNCHANGED <<service, disk, goal, caller, visitor, download, bounds, torn>>

\* Mutant: the threads of the gateway are not waited for.
VisitorsAssumedGone ==
  /\ host.task = "stopping"
  /\ download' = IF download = "queued" THEN "none" ELSE download
  /\ GoTo("closing")
  /\ UNCHANGED <<serving, service, disk, goal, caller, listening, visitor, bounds, torn>>

\* No thread of a visitor is left: the lanes are shut, queued work is dropped.
VisitorsGone ==
  /\ host.task = "stopping" /\ ~visitor
  /\ download' = IF download = "queued" THEN "none" ELSE download
  /\ GoTo("closing")
  /\ UNCHANGED <<serving, service, disk, goal, caller, listening, visitor, bounds, torn>>

\* The grace is over, or a part of the application did not stop.
StopFails ==
  /\ host.task = "stopping"
  /\ service' = NoPreview([service EXCEPT !.restoring = FALSE])
  /\ StayClosed("STOP_FAILED")
  /\ UNCHANGED <<serving, disk, goal, caller, listening, visitor, download, bounds, torn>>

\* The lane's thread is waited for; then the maintenance service closes.
Stopped ==
  /\ host.task = "closing" /\ download = "none"
  /\ service' = IF service.restoring THEN service ELSE NoPreview(service)
  /\ GoTo("snapshot")
  /\ UNCHANGED <<serving, disk, goal, caller, listening, visitor, download, bounds, torn>>

\* The end of the service's own _replace in failure, both files as they were.
ReplacementFails ==
  /\ service' = NoPreview([service EXCEPT !.restoring = FALSE])
  /\ host' = [host EXCEPT !.task = "restart", !.error = "REPLACEMENT_FAILED"]

\* The candidate is checked, an encrypted backup of the current data saved.
Snapshot ==
  /\ host.task = "snapshot"
  /\ \/ service.preview = "fresh" /\ Works /\ GoTo("swap") /\ UNCHANGED service
     \/ service.preview # "fresh" /\ Works /\ ReplacementFails
     \/ Fails /\ ReplacementFails
  /\ UNCHANGED <<serving, disk, goal, caller, listening, visitor, download, torn>>

\* A private copy, the gateway's row disabled, and the database replaced.
Swap ==
  /\ host.task = "swap"
  /\ \/ /\ Works /\ GoTo("repoint") /\ UNCHANGED service
        /\ \E a \in Addresses :
             disk' = [disk EXCEPT !.copy = disk.db,
                                  !.db = [version |-> goal.to, row |-> RestoredRow(a)]]
     \/ Fails /\ ReplacementFails /\ UNCHANGED disk
  /\ UNCHANGED <<serving, goal, caller, listening, visitor, download, torn>>

\* _write_pointer.
Repoint ==
  /\ host.task = "repoint"
  /\ \/ Works /\ GoTo("prepare") /\ disk' = [disk EXCEPT !.pointer = goal.to]
     \/ Fails /\ GoTo("undoDb") /\ UNCHANGED disk
  /\ UNCHANGED <<serving, service, goal, caller, listening, visitor, download, torn>>

\* The fresh application is prepared over the restored data.
PrepareFresh ==
  /\ host.task = "prepare"
  /\ \/ Works /\ GoTo("enter")
     \/ Fails /\ GoTo("undoDb")
  /\ UNCHANGED <<serving, service, disk, goal, caller, listening, visitor, download, torn>>

\* The two files are put back.  An undo within _replace that fails raises to
\* the host, which starts an application all the same; one that fails after
\* the fresh application was rejected leaves the host closed.
UndoFails ==
  /\ Fails
  /\ torn' = TRUE
  /\ IF host.task \in {"undoDb", "undoPointer"}
     THEN host' = [host EXCEPT !.task = "restart", !.error = "REPLACEMENT_FAILED"]
     ELSE StayClosed("ROLLBACK_FAILED")
  /\ UNCHANGED <<service, disk>>

PutBackDatabase ==
  /\ host.task \in {"undoDb", "backDb"}
  /\ \/ /\ Works /\ UNCHANGED <<service, torn>>
        /\ disk' = [disk EXCEPT !.db = disk.copy, !.copy = None]
        /\ GoTo(IF host.task = "undoDb" THEN "undoPointer" ELSE "backPointer")
     \/ UndoFails
  /\ UNCHANGED <<serving, goal, caller, listening, visitor, download>>

\* Mutant: only the database is put back.
KeepNewPointer ==
  /\ host.task \in {"undoPointer", "backPointer"}
  /\ service' = NoPreview([service EXCEPT !.restoring = FALSE])
  /\ host' = [host EXCEPT !.task = "restart",
       !.error = IF host.task = "undoPointer" THEN "REPLACEMENT_FAILED" ELSE @]
  /\ UNCHANGED <<serving, disk, goal, caller, listening, visitor, download, bounds, torn>>

PutBackPointer ==
  /\ host.task \in {"undoPointer", "backPointer"}
  /\ \/ /\ Works /\ UNCHANGED torn
        /\ disk' = [disk EXCEPT !.pointer = goal.from]
        /\ service' = NoPreview([service EXCEPT !.restoring = FALSE])
        /\ host' = [host EXCEPT !.task = "restart",
             !.error = IF host.task = "undoPointer" THEN "REPLACEMENT_FAILED" ELSE @]
     \/ UndoFails
  /\ UNCHANGED <<serving, goal, caller, listening, visitor, download>>

\* Another application over the data there is: prepared, then entered.
RestartOld ==
  /\ host.task \in {"restart", "reenter"}
  /\ \/ /\ Works /\ host.task = "restart"
        /\ GoTo("reenter") /\ UNCHANGED <<serving, service, listening>>
     \/ /\ Works /\ host.task = "reenter"
        /\ serving' = TRUE /\ service' = FreshService
        /\ listening' \in {FALSE, disk.db.row.enabled}
        /\ Done(host.error)
     \/ Fails /\ StayClosed("ROLLBACK_FAILED") /\ UNCHANGED <<serving, service, listening>>
  /\ UNCHANGED <<disk, goal, caller, visitor, download, torn>>

\* Mutant: a fresh application that does not start is put back silently.
EnterFreshQuietly ==
  /\ host.task = "enter"
  /\ \/ /\ Works /\ GoTo("commit")
        /\ serving' = TRUE /\ listening' \in {FALSE, disk.db.row.enabled}
     \/ Fails /\ GoTo("backDb") /\ UNCHANGED <<serving, listening>>
  /\ UNCHANGED <<service, disk, goal, caller, visitor, download, torn>>

\* The fresh application's lifespan begins.
EnterFresh ==
  /\ host.task = "enter"
  /\ \/ /\ Works /\ GoTo("commit")
        /\ serving' = TRUE /\ listening' \in {FALSE, disk.db.row.enabled}
     \/ /\ Fails /\ host' = [host EXCEPT !.task = "backDb", !.error = "FRESH_START_FAILED"]
        /\ UNCHANGED <<serving, listening>>
  /\ UNCHANGED <<service, disk, goal, caller, visitor, download, torn>>

\* The private directory, with the copy in it, is removed.
CommitRestore ==
  /\ host.task = "commit"
  /\ \/ Works /\ Done("none")
     \/ Fails /\ Done("RESTORE_CLEANUP_FAILED")
  /\ service' = FreshService
  /\ disk' = [disk EXCEPT !.copy = None]
  /\ UNCHANGED <<serving, goal, caller, listening, visitor, download, torn>>
-----------------------------------------------------------------------------
(***************************************************************************)
(* The process.                                                            *)
(***************************************************************************)
\* What an end of the process leaves behind: the files.
ProcessEnds ==
  /\ host' = [busy |-> TRUE, error |-> "none", task |-> "down", closing |-> FALSE]
  /\ serving' = FALSE /\ listening' = FALSE /\ visitor' = FALSE /\ download' = "none"
  /\ service' = FreshService /\ goal' = NoGoal
  /\ caller' = [c \in Callers |-> "out"]
  /\ disk' = [disk EXCEPT !.copy = None]
  /\ torn' = (torn \/ disk.db.version # disk.pointer)

Crash ==
  /\ host.task # "down" /\ Event
  /\ ProcessEnds

\* The server closes: no request is admitted, the task is waited for.
ServerCloses ==
  /\ host.task # "down" /\ ~host.closing /\ Event
  /\ host' = [host EXCEPT !.closing = TRUE, !.busy = TRUE]
  /\ UNCHANGED <<serving, service, disk, goal, caller, listening, visitor, download, torn>>

ServerClosed ==
  /\ host.closing /\ host.task = "idle" /\ Active = {}
  /\ ProcessEnds
  /\ UNCHANGED bounds

\* _lifespan: an application over the files, then the first requests.
ProcessStarts ==
  /\ host.task = "down"
  /\ host' = [host EXCEPT !.task = "idle", !.busy = FALSE]
  /\ serving' = TRUE /\ listening' \in {FALSE, disk.db.row.enabled}
  /\ UNCHANGED <<service, disk, goal, caller, visitor, download, bounds, torn>>
-----------------------------------------------------------------------------
TaskStep ==
  \/ Drained \/ DrainTimesOut \/ PrecheckPasses \/ PrecheckFails
  \/ StopBegins \/ VisitorsGone \/ StopFails \/ Stopped
  \/ Snapshot \/ Swap \/ Repoint \/ PrepareFresh
  \/ PutBackDatabase \/ PutBackPointer \/ RestartOld \/ EnterFresh \/ CommitRestore

CallerStep(c) ==
  \/ Admit(c) \/ Leave(c) \/ Reconcile(c) \/ ReconcileClears(c)
  \/ Inspect(c) \/ CancelPreview(c) \/ Verify(c) \/ Restore(c)
  \/ QueueDownload(c) \/ CancelDownload(c)

ProcessStep == Crash \/ ServerCloses \/ ServerClosed \/ ProcessStarts

HostStep ==
  \/ \E c \in Callers : CallerStep(c)
  \/ Expire \/ DownloadRuns \/ VisitorComes \/ VisitorEnds \/ ListenerDies
  \/ TaskStep \/ ProcessStep
=============================================================================
