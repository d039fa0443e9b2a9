-------------------------- MODULE LocalPublication --------------------------
(***************************************************************************)
(* The preparation of the owner's local draft as a job                     *)
(* (admin/local_publication.py), the lane that builds and activates its    *)
(* bundle (admin/embedding_reindex.py), and the four locks that their      *)
(* threads and the appearance's (admin/scene.py) take: P is the job's,     *)
(* C the coordinator's, M the bundle manager's, F the draft's.             *)
(*                                                                         *)
(* Clients are request threads.  A lock that a thread takes and releases   *)
(* without taking another is a guard of one step; a lock held over several *)
(* steps is recorded in lock.  What an activation does to the rows and the *)
(* provider is in EmbeddingSwitch, what it does to files in BundleManager. *)
(***************************************************************************)
EXTENDS Naturals, FiniteSets

CONSTANTS
  Clients,
  Profiles,   \* the embedding profiles a preparation may name
  MaxCalls,   \* how many requests are made
  MaxSaves,   \* how often the draft is saved
  None,
  Scenarios    \* the events that may happen, and how many writes may raise

Writes == {"receipt", "row", "outcome", "pointer"}

ASSUME BoundsAssumption == MaxCalls \in Nat /\ MaxSaves \in Nat \ {0}
ASSUME NoneAssumption == None \notin Clients \cup Nat \cup {"lane"} /\ "lane" \notin Clients
ASSUME ScenariosAssumption ==
  Scenarios \subseteq [events : SUBSET ({"crash"} \cup Writes), faults : Nat]

Locks == {"P", "C", "M", "F"}
Threads == Clients \cup {"lane"}

VARIABLES
  job,     \* LocalPublication.job; run is history: the run made for it
  saved,   \* publication.json, with the same history
  draft,   \* the draft's revision
  active,  \* the bundle the manager serves, and its pointer names
  made,    \* the revision each bundle was built from; 0 for a reindex
  lane,    \* the coordinator's one run, until its future is done
  call,    \* what each client is doing
  lock,    \* who holds each lock
  up, calls, env

vars == <<job, saved, draft, active, made, lane, call, lock, up, calls, env>>

NoJob == [state |-> "idle", rev |-> None, profile |-> None, bundle |-> None,
          error |-> "none", run |-> 0]
NoRun == [step |-> "idle"]
NoCall == [step |-> "none"]

MaxRuns == MaxCalls

Free(l) == lock[l] = None
Take(l, t) == lock' = [lock EXCEPT ![l] = t]
Drop(t) == lock' = [l \in Locks |-> IF lock[l] = t THEN None ELSE lock[l]]
At(c, step) == call[c].step = step
Go(c, step) == call' = [call EXCEPT ![c].step = step]
Return(c) == call' = [call EXCEPT ![c] = NoCall] /\ Drop(c)
May(event) == event \in env.events
Raises(write) ==
  May(write) /\ env.faults > 0 /\ env' = [env EXCEPT !.faults = @ - 1]

Begin(c, l, request) ==
  /\ up /\ call[c] = NoCall /\ calls < MaxCalls
  /\ Free(l) /\ Take(l, c)
  /\ call' = [call EXCEPT ![c] = request]
  /\ calls' = calls + 1
  /\ UNCHANGED <<job, saved, draft, active, made, lane, up, env>>

-----------------------------------------------------------------------------
(***************************************************************************)
(* prepare.                                                                *)
(***************************************************************************)
Prepare(c, p, expected) ==
  Begin(c, "P", [step |-> "read", profile |-> p, rev |-> expected])

\* The draft must still be the one the owner saw, and only one preparation runs.
ReadDraft(c) ==
  /\ At(c, "read") /\ Free("F")
  /\ IF call[c].rev # draft THEN Return(c)
     ELSE IF job.state = "preparing"
     THEN IF job.rev = draft /\ job.profile = call[c].profile
          THEN Go(c, "status") /\ UNCHANGED lock ELSE Return(c)
     ELSE Go(c, "check") /\ UNCHANGED lock
  /\ UNCHANGED <<job, saved, draft, active, made, lane, up, calls, env>>

\* The chat profile, the embedding profile or the source marker may refuse.
CheckRefuses(c) ==
  /\ At(c, "check")
  /\ Return(c)
  /\ UNCHANGED <<job, saved, draft, active, made, lane, up, calls, env>>

SetPreparing(c) ==
  /\ At(c, "check")
  /\ job' = [NoJob EXCEPT !.state = "preparing", !.rev = call[c].rev, !.profile = call[c].profile]
  /\ Go(c, "persist")
  /\ UNCHANGED <<saved, draft, active, made, lane, lock, up, calls, env>>

PersistPreparing(c) ==
  /\ At(c, "persist")
  /\ \/ saved' = job /\ Go(c, "queue") /\ UNCHANGED <<lock, env>>
     \/ Raises("receipt") /\ Return(c) /\ UNCHANGED saved
  /\ UNCHANGED <<job, draft, active, made, lane, up, calls>>

Run(p, rev, n) == [step |-> "building", profile |-> p, rev |-> rev, bundle |-> n,
                   stop |-> FALSE, committing |-> FALSE]
NextRun == Cardinality(DOMAIN made) + 1

\* Mutant: the run is submitted and its candidate is not kept.
LaunchUnkept(p, rev) == lane' = Run(p, rev, NextRun) /\ UNCHANGED made

Launch(p, rev) ==
  /\ lane' = Run(p, rev, NextRun)
  /\ made' = [b \in DOMAIN made \cup {NextRun} |-> IF b = NextRun THEN rev ELSE made[b]]

\* Mutant: the run builds whatever draft is newest when it is queued.
QueueNewest(c) ==
  /\ At(c, "queue") /\ Free("C") /\ lane = NoRun
  /\ Launch(call[c].profile, draft)
  /\ job' = [job EXCEPT !.run = NextRun] /\ saved' = job'
  /\ Go(c, "status")
  /\ UNCHANGED <<draft, active, lock, up, calls, env>>

\* coordinator.queue, forced, with the draft that was read.
Queue(c) ==
  /\ At(c, "queue") /\ Free("C") /\ lane = NoRun
  /\ Launch(call[c].profile, call[c].rev)
  /\ job' = [job EXCEPT !.run = NextRun] /\ saved' = job'
  /\ Go(c, "status")
  /\ UNCHANGED <<draft, active, lock, up, calls, env>>

\* queue raises: the lane is in use, or the profile cannot be frozen.
QueueRefuses(c) ==
  /\ At(c, "queue") /\ Free("C")
  /\ job' = [job EXCEPT !.state = "failed",
                        !.error = IF lane = NoRun THEN "refused" ELSE "busy"]
  /\ \/ saved' = job' /\ UNCHANGED env
     \/ Raises("receipt") /\ UNCHANGED saved
  /\ Return(c)
  /\ UNCHANGED <<draft, active, made, lane, up, calls>>

\* status reads the manager and then the draft, under the job's lock.
StatusReadsActive(c) ==
  /\ At(c, "status") /\ Free("M")
  /\ Go(c, "status draft")
  /\ UNCHANGED <<job, saved, draft, active, made, lane, lock, up, calls, env>>

StatusReadsDraft(c) ==
  /\ At(c, "status draft") /\ Free("F")
  /\ Return(c)
  /\ UNCHANGED <<job, saved, draft, active, made, lane, up, calls, env>>

Status(c) == Begin(c, "P", [step |-> "status"])

-----------------------------------------------------------------------------
(***************************************************************************)
(* cancel.                                                                 *)
(***************************************************************************)
Cancel(c) == Begin(c, "P", [step |-> IF job.state = "preparing" THEN "cancel" ELSE "status"])

\* The coordinator cancels by profile, and no longer once the run is committing.
CancelRun(c) ==
  /\ At(c, "cancel") /\ Free("C")
  /\ lane' = IF lane # NoRun /\ lane.profile = job.profile /\ ~lane.committing
             THEN [lane EXCEPT !.stop = TRUE] ELSE lane
  /\ Go(c, "status")
  /\ UNCHANGED <<job, saved, draft, active, made, lock, up, calls, env>>

-----------------------------------------------------------------------------
(***************************************************************************)
(* The other users of the locks: the owner's activation of a profile,      *)
(* which reads the manager under the coordinator's lock; the appearance,   *)
(* which takes the manager's lock under the draft's; and save.             *)
(***************************************************************************)
Activate(c, p) == Begin(c, "C", [step |-> "activate", profile |-> p])

ActivateDecides(c) ==
  /\ At(c, "activate")
  /\ \/ UNCHANGED <<lane, made>>  \* the lane is in use, or the probe failed
     \/ /\ lane = NoRun /\ Free("M")
        /\ \/ UNCHANGED <<lane, made>>  \* the served bundle is compatible
           \/ Launch(call[c].profile, 0)
  /\ Return(c)
  /\ UNCHANGED <<job, saved, draft, active, up, calls, env>>

Apply(c) == active # None /\ Begin(c, "F", [step |-> "apply", bundle |-> active])

\* guard_active_bundle: the bundle must still be the one that was leased.
ApplyGuards(c) ==
  /\ At(c, "apply") /\ Free("M")
  /\ IF active = call[c].bundle THEN Take("M", c) /\ Go(c, "applied") ELSE Return(c)
  /\ UNCHANGED <<job, saved, draft, active, made, lane, up, calls, env>>

\* The appearance is part of the draft.
ApplyCommits(c) ==
  /\ At(c, "applied")
  /\ draft' = IF draft < MaxSaves THEN draft + 1 ELSE draft
  /\ Return(c)
  /\ UNCHANGED <<job, saved, active, made, lane, up, calls, env>>

Save ==
  /\ up /\ Free("F") /\ draft < MaxSaves
  /\ draft' = draft + 1
  /\ UNCHANGED <<job, saved, active, made, lane, call, lock, up, calls, env>>

-----------------------------------------------------------------------------
(***************************************************************************)
(* _run: the lane.                                                         *)
(***************************************************************************)
To(step) == lane' = [lane EXCEPT !.step = step]
In(step) == lane.step = step

\* The builder polls the cancellation and the deadline.
Build ==
  /\ In("building")
  /\ \/ ~lane.stop /\ To("built")
     \/ To("failed")
  /\ UNCHANGED <<job, saved, draft, active, made, call, lock, up, calls, env>>

\* manager.activate: its lock is held until the pointer is written.
Promote ==
  /\ In("built")
  /\ \/ Free("M") /\ Take("M", "lane") /\ To("promoted")
     \/ To("failed") /\ UNCHANGED lock
  /\ UNCHANGED <<job, saved, draft, active, made, call, up, calls, env>>

\* before_commit takes the coordinator's lock under the manager's.
Admit ==
  /\ In("promoted") /\ Free("C")
  /\ \/ /\ ~lane.stop
        /\ lane' = [lane EXCEPT !.step = "admitted", !.committing = TRUE]
        /\ UNCHANGED lock
     \/ To("failed") /\ Drop("lane")  \* cancelled, late, or a hook raised
  /\ UNCHANGED <<job, saved, draft, active, made, call, up, calls, env>>

\* Mutant: the outcome is reported before the manager's lock is released.
PointHeld ==
  /\ In("admitted")
  /\ active' = lane.bundle /\ To("activated")
  /\ UNCHANGED <<job, saved, draft, made, call, lock, up, calls, env>>

\* Mutant: the pointer is replaced before its write is known to have succeeded.
PointEarly ==
  /\ In("admitted")
  /\ active' = lane.bundle
  /\ \/ To("activated") /\ UNCHANGED env
     \/ Raises("pointer") /\ To("failed")
  /\ Drop("lane")
  /\ UNCHANGED <<job, saved, draft, made, call, up, calls>>

Point ==
  /\ In("admitted")
  /\ \/ active' = lane.bundle /\ To("activated") /\ UNCHANGED env
     \/ Raises("pointer") /\ To("failed") /\ UNCHANGED active
  /\ Drop("lane")
  /\ UNCHANGED <<job, saved, draft, made, call, up, calls>>

Outcome(state, bundle, error) ==
  job' = [job EXCEPT !.state = state, !.bundle = bundle, !.error = error]

\* on_finished(bundle): if its write raises it is called once more.
ReportReady ==
  /\ lane.step \in {"activated", "reported"}
  /\ lane.rev = 0 \/ Free("P")
  /\ IF lane.rev = 0 THEN To("leaving") /\ UNCHANGED <<job, saved, env>>
     ELSE /\ Outcome("ready", lane.bundle, "none")
          /\ \/ saved' = job' /\ To("leaving") /\ UNCHANGED env
             \/ /\ Raises("outcome") /\ UNCHANGED saved
                /\ To(IF In("activated") THEN "reported" ELSE "leaving")
  /\ UNCHANGED <<draft, active, made, call, lock, up, calls>>

\* fail_reindex: if it raises, on_finished is not called.
FailRow ==
  /\ In("failed")
  /\ \/ To("row failed") /\ UNCHANGED env
     \/ Raises("row") /\ To("leaving")
  /\ UNCHANGED <<job, saved, draft, active, made, call, lock, up, calls>>

\* Mutant: only what was published is reported.
ReportNoFailure ==
  /\ In("row failed") /\ Free("P")
  /\ To("leaving")
  /\ UNCHANGED <<job, saved, draft, active, made, call, lock, up, calls, env>>

ReportFailed ==
  /\ In("row failed")
  /\ lane.rev = 0 \/ Free("P")
  /\ IF lane.rev = 0 THEN UNCHANGED <<job, saved, env>>
     ELSE /\ Outcome("failed", None, "run")
          /\ \/ saved' = job' /\ UNCHANGED env
             \/ Raises("outcome") /\ UNCHANGED saved
  /\ To("leaving")
  /\ UNCHANGED <<draft, active, made, call, lock, up, calls>>

\* The run leaves the coordinator's tables, and its future is done.
Leave ==
  /\ In("leaving") /\ Free("C")
  /\ lane' = NoRun
  /\ UNCHANGED <<job, saved, draft, active, made, call, lock, up, calls, env>>

-----------------------------------------------------------------------------
Crash ==
  /\ May("crash")
  /\ up /\ up' = FALSE
  /\ job' = NoJob /\ lane' = NoRun
  /\ call' = [c \in Clients |-> NoCall]
  /\ lock' = [l \in Locks |-> None]
  /\ UNCHANGED <<saved, draft, active, made, calls, env>>

\* Mutant: the receipt is taken as it was saved.
Reloaded(receipt) == receipt

\* __init__: a preparation that the crash cut off has failed.
Loaded(receipt) ==
  IF receipt.state = "preparing"
  THEN [receipt EXCEPT !.state = "failed", !.error = "interrupted"] ELSE receipt

\* If that cannot be written, the receipt is taken for a corrupt one.
Restart ==
  /\ ~up /\ up' = TRUE
  /\ \/ job' = Loaded(saved) /\ saved' = job' /\ UNCHANGED env
     \/ /\ saved.state = "preparing" /\ Raises("receipt")
        /\ job' = [NoJob EXCEPT !.state = "failed", !.error = "corrupt"]
        /\ UNCHANGED saved
  /\ UNCHANGED <<draft, active, made, lane, call, lock, calls>>

Init ==
  /\ job = NoJob /\ saved = NoJob
  /\ draft = 1 /\ active = None /\ made = [b \in {} |-> 0]
  /\ lane = NoRun
  /\ call = [c \in Clients |-> NoCall]
  /\ lock = [l \in Locks |-> None]
  /\ up = TRUE /\ calls = 0 /\ env \in Scenarios

Client(c) ==
  \/ ReadDraft(c) \/ CheckRefuses(c) \/ SetPreparing(c) \/ PersistPreparing(c)
  \/ Queue(c) \/ QueueRefuses(c) \/ StatusReadsActive(c) \/ StatusReadsDraft(c)
  \/ CancelRun(c) \/ ActivateDecides(c) \/ ApplyGuards(c) \/ ApplyCommits(c)

Worker ==
  Build \/ Promote \/ Admit \/ Point \/ ReportReady \/ FailRow \/ ReportFailed \/ Leave

Next ==
  \/ \E c \in Clients :
       \/ Client(c) \/ Status(c) \/ Cancel(c) \/ Apply(c)
       \/ \E p \in Profiles : Activate(c, p) \/ \E rev \in 1..draft : Prepare(c, p, rev)
  \/ Worker \/ Save \/ Crash \/ Restart

Spec == Init /\ [][Next]_vars

\* A thread that can go on does, and a lock that is wanted is released in the
\* end: the number of requests is bounded, so nobody is overtaken for ever.
FairSpec == Spec /\ WF_vars(Worker) /\ \A c \in Clients : WF_vars(Client(c))

-----------------------------------------------------------------------------
Jobs == [state : {"idle", "preparing", "ready", "failed"}, rev : 1..MaxSaves \cup {None},
         profile : Profiles \cup {None}, bundle : 1..MaxRuns \cup {None},
         error : {"none", "refused", "busy", "run", "interrupted", "corrupt"}, run : 0..MaxRuns]

TypeOK ==
  /\ job \in Jobs /\ saved \in Jobs
  /\ draft \in 1..MaxSaves /\ active \in DOMAIN made \cup {None}
  /\ DOMAIN made \subseteq 1..MaxRuns /\ \A b \in DOMAIN made : made[b] \in 0..draft
  /\ lane # NoRun => lane.bundle \in DOMAIN made /\ lane.profile \in Profiles
  /\ lock \in [Locks -> Threads \cup {None}]
  /\ up \in BOOLEAN /\ calls \in 0..MaxCalls
  /\ \E s \in Scenarios : \E n \in 0..s.faults : env = [s EXCEPT !.faults = n]

\* The lock a thread has to take for its next step.
Wanted(t) ==
  IF t = "lane"
  THEN CASE lane.step = "promoted" -> {"C"} [] lane.step = "leaving" -> {"C"}
         [] lane.step \in {"activated", "reported", "row failed"} /\ lane.rev # 0 -> {"P"}
         [] OTHER -> {}
  ELSE CASE At(t, "read") \/ At(t, "status draft") -> {"F"}
         [] At(t, "queue") \/ At(t, "cancel") -> {"C"}
         [] At(t, "status") \/ At(t, "apply") -> {"M"}
         [] At(t, "activate") /\ lane = NoRun -> {"M"}
         [] OTHER -> {}

\* The locks are taken in different orders (the coordinator's before the
\* manager's by an activation, after it by the lane), yet no threads ever wait
\* for one another in a circle.
NoCircularWait ==
  \A S \in (SUBSET Threads) \ {{}} :
    \E t \in S : \A l \in Wanted(t) : lock[l] \notin S

\* While a job says it is being prepared, a request or a run is at work on it:
\* otherwise every later preparation is refused until a restart.  (A receipt or
\* a row that cannot be written breaks this: README.md.)
PreparingIsServed ==
  up /\ job.state = "preparing" /\ ~May("receipt") /\ ~May("row") =>
    \/ \E c \in Clients : call[c].step \in {"persist", "queue"}
    \/ lane # NoRun /\ lane.rev = job.rev /\ lane.step # "leaving" /\ lane.bundle = job.run

\* A job that is ready names the bundle built from its revision, also after a
\* restart: status compares the two to tell the owner that the draft is live.
\* (The write of an outcome that raises breaks this: README.md.)
ReadyNamesItsBuild ==
  \A j \in {job, saved} : j.state = "ready" /\ ~May("outcome") =>
    j.bundle \in DOMAIN made /\ made[j.bundle] = j.rev

\* A preparation that failed has not published its bundle.
FailedLeavesActive ==
  job.state = "failed" /\ job.error # "interrupted" /\ job.run # 0 => active # job.run

\* What a job tells the owner is true in every one of its states.
JobTellsTruth == TypeOK /\ PreparingIsServed /\ ReadyNamesItsBuild /\ FailedLeavesActive

\* Every preparation ends, unless its receipt or its failure cannot be written.
PreparationEnds ==
  job.state = "preparing" /\ ~May("receipt") /\ ~May("row") ~> job.state # "preparing"

\* Documented, and not what the code does: see the deviations in README.md.

\* A preparation reported as interrupted has left the served bundle alone.
InterruptedLeavesActive ==
  job.state = "failed" /\ job.error = "interrupted" /\ job.run # 0 => active # job.run

\* A preparation is refused as already running only while a job or another
\* run is at work, not because of a run that has reported its end.
RefusedOnlyWhileRunning ==
  [][\A c \in Clients : At(c, "queue") /\ job'.error = "busy" /\ job.error # "busy"
       => lane.step # "leaving"]_vars
=============================================================================
