------------------------ MODULE LocalPublicationProofs ------------------------
(***************************************************************************)
(* The preparation of the owner's draft is safe for every number of        *)
(* request threads, profiles, requests, saves, crashes and failing writes. *)
(*                                                                         *)
(* A thread's program point tells which locks it holds (LocksHeld): that   *)
(* alone rules out a circle of threads.  What a job tells follows from     *)
(* what its run and its receipt know of one another (LaneKnown, Receipts). *)
(***************************************************************************)
EXTENDS LocalPublication, FiniteSetTheorems, TLAPS

JobSteps == {"read", "check", "persist", "queue", "status", "status draft", "cancel"}
Steps == JobSteps \cup {"none", "activate", "apply", "applied"}
LaneSteps == {"idle", "building", "built", "promoted", "admitted", "activated", "reported",
              "failed", "row failed", "leaving"}

Requests ==
  [step : Steps] \cup [step : Steps, profile : Profiles]
    \cup [step : Steps, profile : Profiles, rev : 1..MaxSaves]
    \cup [step : Steps, bundle : 1..MaxRuns]
Runs == [step : LaneSteps, profile : Profiles, rev : 0..MaxSaves, bundle : 1..MaxRuns,
         stop : BOOLEAN, committing : BOOLEAN]

Shapes == call \in [Clients -> Requests] /\ lane \in Runs \cup {NoRun}

\* The locks a thread holds at its program point.
Holds(t) ==
  IF t = "lane" THEN IF lane.step \in {"promoted", "admitted"} THEN {"M"} ELSE {}
  ELSE IF call[t].step \in JobSteps THEN {"P"}
  ELSE IF At(t, "activate") THEN {"C"}
  ELSE IF At(t, "apply") THEN {"F"}
  ELSE IF At(t, "applied") THEN {"F", "M"} ELSE {}

LocksHeld == \A t \in Threads, l \in Locks : lock[l] = t <=> l \in Holds(t)

\* After a crash nothing of the process is left.
Stopped == ~up => lane = NoRun /\ call = [c \in Clients |-> NoCall]

\* A request that may still start a run: one for the job, one to activate.
BeforeQueue == {"read", "check", "persist", "queue"}
JobOwes == \E c \in Clients : call[c].step \in BeforeQueue
ActivationOwes == \E c \in Clients : At(c, "activate")

\* Every run has been asked for by a request of its own.
RunsCounted ==
  /\ DOMAIN made = 1..Cardinality(DOMAIN made)
  /\ Cardinality(DOMAIN made) \in Nat
  /\ Cardinality(DOMAIN made) + (IF JobOwes THEN 1 ELSE 0) + (IF ActivationOwes THEN 1 ELSE 0)
       <= calls

\* What a preparation knows of the job while it holds its lock.
RequestKnown(c) ==
  /\ call[c].step \in BeforeQueue => call[c].profile \in Profiles /\ call[c].rev \in 1..draft
  /\ At(c, "activate") => call[c].profile \in Profiles
  /\ At(c, "check") => job.state # "preparing"
  /\ call[c].step \in {"persist", "queue"} =>
       job.state = "preparing" /\ job.rev = call[c].rev /\ job.run = 0

RequestsKnown == \A c \in Clients : RequestKnown(c)

\* Before its pointer is written a run has not changed what is served.
Unpublished == {"building", "built", "promoted", "admitted", "failed", "row failed"}

\* A run made for a job is the job's until it has reported its outcome.
LaneKnown ==
  lane # NoRun =>
    /\ lane.bundle \in DOMAIN made /\ made[lane.bundle] = lane.rev
    /\ lane.step \in Unpublished => active # lane.bundle
    /\ lane.step = "reported" => May("outcome")
    /\ lane.rev # 0 /\ lane.step \notin {"reported", "leaving"} =>
         job.state = "preparing" /\ job.run = lane.bundle /\ job.rev = lane.rev /\ saved = job

\* What job j tells is true of the bundles m and of what is served, a; an
\* outcome may have been written twice.
Tells(j, m, a, twice) ==
  /\ j.run # 0 => j.run \in DOMAIN m /\ m[j.run] # 0
  /\ j.state = "ready" /\ ~twice => j.bundle \in DOMAIN m /\ m[j.bundle] = j.rev
  /\ j.state = "failed" /\ j.error # "interrupted" /\ j.run # 0 => a # j.run

Receipts == /\ Tells(job, made, active, May("outcome"))
            /\ Tells(saved, made, active, May("outcome"))

Inv ==
  /\ TypeOK /\ Shapes /\ LocksHeld /\ Stopped /\ RunsCounted
  /\ RequestsKnown /\ LaneKnown /\ Receipts /\ PreparingIsServed

-----------------------------------------------------------------------------
(***************************************************************************)
(* What the helpers of the actions do.                                     *)
(***************************************************************************)
LEMMA EnvKeeps ==
  ASSUME TypeOK
  PROVE  /\ env.faults \in Nat
         /\ \A s \in Scenarios, n \in Nat : env = [s EXCEPT !.faults = n] => env.events = s.events
<1>1. PICK s \in Scenarios : \E n \in 0..s.faults : env = [s EXCEPT !.faults = n]
  BY DEF TypeOK
<1>2. PICK n \in 0..s.faults : env = [s EXCEPT !.faults = n]
  BY <1>1
<1> QED
  BY <1>2, ScenariosAssumption

LEMMA FaultsCount ==
  ASSUME TypeOK, NEW w \in Writes, Raises(w) \/ env' = env
  PROVE  /\ \E s \in Scenarios : \E n \in 0..s.faults : env' = [s EXCEPT !.faults = n]
         /\ env'.events = env.events
<1>1. PICK s \in Scenarios : \E n \in 0..s.faults : env = [s EXCEPT !.faults = n]
  BY DEF TypeOK
<1>2. PICK n \in 0..s.faults : env = [s EXCEPT !.faults = n]
  BY <1>1
<1>3. s.faults \in Nat /\ env.faults = n /\ env.events = s.events
  BY <1>2, ScenariosAssumption
<1>4. CASE Raises(w)
  <2>1. env' = [s EXCEPT !.faults = n - 1] /\ n > 0
    BY <1>2, <1>3, <1>4, ScenariosAssumption DEF Raises
  <2>2. n - 1 \in 0..s.faults
    BY <1>3, <2>1
  <2> QED
    BY <1>3, <2>1, <2>2, ScenariosAssumption
<1> QED
  BY <1>2, <1>4

LEMMA Went ==
  ASSUME call \in [Clients -> Requests], NEW c \in Clients, NEW s \in Steps, Go(c, s)
  PROVE  /\ call' \in [Clients -> Requests]
         /\ call'[c].step = s
         /\ call'[c].profile = call[c].profile /\ call'[c].rev = call[c].rev
         /\ \A d \in Clients : d # c => call'[d] = call[d]
BY DEF Go, Requests

LEMMA Returned ==
  ASSUME call \in [Clients -> Requests], NEW c \in Clients, Return(c)
  PROVE  /\ call' \in [Clients -> Requests]
         /\ call'[c].step = "none"
         /\ \A d \in Clients : d # c => call'[d] = call[d]
         /\ \A l \in Locks : lock'[l] = IF lock[l] = c THEN None ELSE lock[l]
BY DEF Return, NoCall, Requests, Steps, Drop

LEMMA Begun ==
  ASSUME call \in [Clients -> Requests], NEW c \in Clients, NEW l, NEW r \in Requests,
         Begin(c, l, r)
  PROVE  /\ call' \in [Clients -> Requests]
         /\ call'[c] = r
         /\ \A d \in Clients : d # c => call'[d] = call[d]
BY DEF Begin

LEMMA Moved ==
  ASSUME lane \in Runs, NEW s \in LaneSteps \ {"idle"},
         To(s) \/ lane' = [lane EXCEPT !.step = s, !.committing = TRUE]
  PROVE  /\ lane' \in Runs /\ lane' # NoRun /\ lane'.step = s
         /\ lane'.bundle = lane.bundle /\ lane'.rev = lane.rev /\ lane'.profile = lane.profile
BY DEF To, Runs, NoRun

\* Until it leaves, the worker moves its run and nothing else of it.
LEMMA Worked ==
  ASSUME lane \in Runs \cup {NoRun}, Worker
  PROVE  /\ lane # NoRun /\ lane \in Runs
         /\ \/ Leave
            \/ /\ lane' # NoRun /\ lane' \in Runs
               /\ lane'.bundle = lane.bundle /\ lane'.rev = lane.rev
               /\ lane'.profile = lane.profile
<1> USE DEF LaneSteps, In
<1>1. ASSUME NEW s \in LaneSteps, lane.step = s, s # "idle" PROVE lane # NoRun /\ lane \in Runs
  <2>1. NoRun.step = "idle"
    BY DEF NoRun
  <2> QED
    BY <1>1, <2>1
<1>2. CASE Build
  BY <1>1, <1>2, Moved DEF Build
<1>3. CASE Promote
  BY <1>1, <1>3, Moved DEF Promote
<1>4. CASE Admit
  BY <1>1, <1>4, Moved DEF Admit
<1>5. CASE Point
  BY <1>1, <1>5, Moved DEF Point
<1>6. CASE ReportReady
  BY <1>1, <1>6, Moved DEF ReportReady
<1>7. CASE FailRow
  BY <1>1, <1>7, Moved DEF FailRow
<1>8. CASE ReportFailed
  BY <1>1, <1>8, Moved DEF ReportFailed
<1>9. CASE Leave
  BY <1>1, <1>9 DEF Leave
<1> QED
  BY <1>2, <1>3, <1>4, <1>5, <1>6, <1>7, <1>8, <1>9 DEF Worker

\* A run is numbered after all that were made before it.
LEMMA Launched ==
  ASSUME RunsCounted, NEW p, NEW rev, Launch(p, rev)
  PROVE  /\ NextRun \in Nat \ {0} /\ NextRun \notin DOMAIN made
         /\ DOMAIN made' = DOMAIN made \cup {NextRun}
         /\ DOMAIN made' = 1..Cardinality(DOMAIN made')
         /\ Cardinality(DOMAIN made') = Cardinality(DOMAIN made) + 1
         /\ made'[NextRun] = rev
         /\ \A b \in DOMAIN made : made'[b] = made[b]
<1> DEFINE n == Cardinality(DOMAIN made)
<1>1. n \in Nat /\ DOMAIN made = 1..n /\ NextRun = n + 1
  BY DEF RunsCounted, NextRun
<1>2. /\ DOMAIN made' = DOMAIN made \cup {NextRun}
      /\ \A b \in DOMAIN made' : made'[b] = IF b = NextRun THEN rev ELSE made[b]
  BY DEF Launch
<1>3. NextRun \notin DOMAIN made
  BY <1>1
<1>4. DOMAIN made' = 1..n + 1
  BY <1>1, <1>2
<1>5. Cardinality(1..n + 1) = n + 1
  BY <1>1, FS_Interval
<1> QED
  BY <1>1, <1>2, <1>3, <1>4, <1>5

\* The run belongs to a request that was counted.
LEMMA RoomForRun ==
  ASSUME TypeOK, RunsCounted, JobOwes \/ ActivationOwes
  PROVE  NextRun \in 1..MaxRuns
BY BoundsAssumption DEF TypeOK, RunsCounted, NextRun, MaxRuns

-----------------------------------------------------------------------------
(***************************************************************************)
(* The shapes of the requests and of the run.                              *)
(***************************************************************************)
LEMMA RunShapes ==
  ASSUME TypeOK, RunsCounted, JobOwes \/ ActivationOwes,
         NEW p \in Profiles, NEW rev \in 0..draft, Launch(p, rev)
  PROVE  lane' \in Runs
<1>1. NextRun \in 1..MaxRuns
  BY RoomForRun
<1>2. rev \in 0..MaxSaves
  BY BoundsAssumption DEF TypeOK
<1> QED
  BY <1>1, <1>2 DEF Launch, Run, Runs, LaneSteps

LEMMA ShapesKept ==
  ASSUME Inv, [Next]_vars
  PROVE  Shapes'
<1> USE DEF Shapes
<1>0. /\ TypeOK /\ RunsCounted /\ RequestsKnown
      /\ call \in [Clients -> Requests] /\ lane \in Runs \cup {NoRun}
  BY DEF Inv
<1>1. ASSUME NEW c \in Clients, ReadDraft(c) PROVE Shapes'
  BY <1>0, <1>1, Went, Returned DEF ReadDraft, Steps, JobSteps
<1>2. ASSUME NEW c \in Clients, CheckRefuses(c) PROVE Shapes'
  BY <1>0, <1>2, Returned DEF CheckRefuses
<1>3. ASSUME NEW c \in Clients, SetPreparing(c) PROVE Shapes'
  BY <1>0, <1>3, Went DEF SetPreparing, Steps, JobSteps
<1>4. ASSUME NEW c \in Clients, PersistPreparing(c) PROVE Shapes'
  BY <1>0, <1>4, Went, Returned DEF PersistPreparing, Steps, JobSteps
<1>5. ASSUME NEW c \in Clients, Queue(c) PROVE Shapes'
  <2>1. call[c].profile \in Profiles /\ call[c].rev \in 0..draft /\ JobOwes
    BY <1>0, <1>5 DEF Queue, At, RequestsKnown, RequestKnown, BeforeQueue, JobOwes, TypeOK
  <2>2. lane' \in Runs
    BY <1>0, <1>5, <2>1, RunShapes DEF Queue
  <2> QED
    BY <1>0, <1>5, <2>2, Went DEF Queue, Steps, JobSteps
<1>6. ASSUME NEW c \in Clients, QueueRefuses(c) PROVE Shapes'
  BY <1>0, <1>6, Returned DEF QueueRefuses
<1>7. ASSUME NEW c \in Clients, StatusReadsActive(c) PROVE Shapes'
  BY <1>0, <1>7, Went DEF StatusReadsActive, Steps, JobSteps
<1>8. ASSUME NEW c \in Clients, StatusReadsDraft(c) PROVE Shapes'
  BY <1>0, <1>8, Returned DEF StatusReadsDraft
<1>9. ASSUME NEW c \in Clients, CancelRun(c) PROVE Shapes'
  <2>1. lane' \in Runs \cup {NoRun}
    BY <1>0, <1>9 DEF CancelRun, Runs
  <2> QED
    BY <1>0, <1>9, <2>1, Went DEF CancelRun, Steps, JobSteps
<1>10. ASSUME NEW c \in Clients, ActivateDecides(c) PROVE Shapes'
  <2>1. call[c].profile \in Profiles /\ 0 \in 0..draft /\ ActivationOwes
    BY <1>0, <1>10 DEF ActivateDecides, At, RequestsKnown, RequestKnown, ActivationOwes, TypeOK
  <2>2. lane' \in Runs \cup {NoRun}
    BY <1>0, <1>10, <2>1, RunShapes DEF ActivateDecides
  <2> QED
    BY <1>0, <1>10, <2>2, Returned DEF ActivateDecides
<1>11. ASSUME NEW c \in Clients, ApplyGuards(c) PROVE Shapes'
  BY <1>0, <1>11, Went, Returned DEF ApplyGuards, Steps
<1>12. ASSUME NEW c \in Clients, ApplyCommits(c) PROVE Shapes'
  BY <1>0, <1>12, Returned DEF ApplyCommits
<1>13. ASSUME NEW c \in Clients, NEW p \in Profiles, NEW rev \in 1..draft, Prepare(c, p, rev)
       PROVE  Shapes'
  <2>1. rev \in 1..MaxSaves
    BY <1>0, BoundsAssumption DEF TypeOK
  <2>2. [step |-> "read", profile |-> p, rev |-> rev] \in Requests
    BY <2>1 DEF Requests, Steps, JobSteps
  <2> QED
    BY <1>0, <1>13, <2>2, Begun DEF Prepare, Begin
<1>14. ASSUME NEW c \in Clients, Status(c) \/ Cancel(c) PROVE Shapes'
  <2>1. \A t \in {"status", "cancel"} : [step |-> t] \in Requests
    BY DEF Requests, Steps, JobSteps
  <2> QED
    BY <1>0, <1>14, <2>1, Begun DEF Status, Cancel, Begin
<1>15. ASSUME NEW c \in Clients, Apply(c) PROVE Shapes'
  <2>1. [step |-> "apply", bundle |-> active] \in Requests
    BY <1>0, <1>15 DEF Apply, TypeOK, Requests, Steps
  <2> QED
    BY <1>0, <1>15, <2>1, Begun DEF Apply, Begin
<1>16. ASSUME NEW c \in Clients, NEW p \in Profiles, Activate(c, p) PROVE Shapes'
  <2>1. [step |-> "activate", profile |-> p] \in Requests
    BY DEF Requests, Steps
  <2> QED
    BY <1>0, <1>16, <2>1, Begun DEF Activate, Begin
<1>17. ASSUME Worker PROVE Shapes'
  <2>1. lane' \in Runs \cup {NoRun}
    BY <1>0, <1>17, Worked DEF Leave
  <2> QED
    BY <1>0, <1>17, <2>1 DEF Worker, Build, Promote, Admit, Point, ReportReady, FailRow,
                             ReportFailed, Leave
<1>18. ASSUME Crash PROVE Shapes'
  BY <1>18 DEF Crash, NoCall, Requests, Steps
<1>19. ASSUME Save \/ Restart \/ UNCHANGED vars PROVE Shapes'
  BY <1>0, <1>19 DEF Save, Restart, vars
<1> QED
  BY <1>1, <1>2, <1>3, <1>4, <1>5, <1>6, <1>7, <1>8, <1>9, <1>10, <1>11, <1>12, <1>13, <1>14,
     <1>15, <1>16, <1>17, <1>18, <1>19 DEF Next, Client

-----------------------------------------------------------------------------
(***************************************************************************)
(* The locks.                                                              *)
(***************************************************************************)
LEMMA HeldUnchanged ==
  ASSUME LocksHeld, lock' = lock, \A t \in Threads : Holds(t)' = Holds(t)
  PROVE  LocksHeld'
BY DEF LocksHeld

LEMMA HeldTaken ==
  ASSUME LocksHeld, lock \in [Locks -> Threads \cup {None}], NEW c \in Threads, NEW l \in Locks,
         Free(l), Take(l, c), Holds(c)' = Holds(c) \cup {l},
         \A t \in Threads : t # c => Holds(t)' = Holds(t)
  PROVE  LocksHeld' /\ lock' \in [Locks -> Threads \cup {None}]
<1>1. \A k \in Locks : lock'[k] = IF k = l THEN c ELSE lock[k]
  BY DEF Take
<1>2. \A t \in Threads : l \notin Holds(t)
  BY NoneAssumption DEF LocksHeld, Free, Threads
<1>3. lock' \in [Locks -> Threads \cup {None}]
  BY DEF Take
<1>4. ASSUME NEW t \in Threads, NEW k \in Locks PROVE lock'[k] = t <=> k \in Holds(t)'
  BY <1>1, <1>2, <1>4 DEF LocksHeld
<1> QED
  BY <1>3, <1>4 DEF LocksHeld

LEMMA HeldDropped ==
  ASSUME LocksHeld, lock \in [Locks -> Threads \cup {None}], NEW c \in Threads,
         Drop(c), Holds(c)' = {}, \A t \in Threads : t # c => Holds(t)' = Holds(t)
  PROVE  LocksHeld' /\ lock' \in [Locks -> Threads \cup {None}]
<1>1. \A k \in Locks : lock'[k] = IF lock[k] = c THEN None ELSE lock[k]
  BY DEF Drop
<1>2. lock' \in [Locks -> Threads \cup {None}]
  BY DEF Drop
<1>3. ASSUME NEW t \in Threads, NEW k \in Locks PROVE lock'[k] = t <=> k \in Holds(t)'
  BY <1>1, <1>3, NoneAssumption DEF LocksHeld, Threads
<1> QED
  BY <1>2, <1>3 DEF LocksHeld

\* A thread that does not move holds what it held.
LEMMA OthersHold ==
  ASSUME NEW c \in Clients, \A d \in Clients : d # c => call'[d] = call[d],
         Holds("lane")' = Holds("lane")
  PROVE  \A t \in Threads : t # c => Holds(t)' = Holds(t)
<1>1. ASSUME NEW t \in Clients, t # c PROVE Holds(t)' = Holds(t)
  <2>1. call'[t] = call[t] /\ t # "lane"
    BY <1>1, NoneAssumption
  <2> QED
    BY <2>1 DEF Holds, At
<1> QED
  BY <1>1 DEF Threads

LEMMA LaneHolds ==
  /\ Holds("lane") = IF lane.step \in {"promoted", "admitted"} THEN {"M"} ELSE {}
  /\ Holds("lane")' = IF lane'.step \in {"promoted", "admitted"} THEN {"M"} ELSE {}
BY DEF Holds

LEMMA ClientHolds ==
  ASSUME NEW c \in Clients
  PROVE  /\ call[c].step \in JobSteps => Holds(c) = {"P"}
         /\ call'[c].step \in JobSteps => Holds(c)' = {"P"}
         /\ call[c].step = "none" => Holds(c) = {}
         /\ call'[c].step = "none" => Holds(c)' = {}
         /\ call'[c].step = "activate" => Holds(c)' = {"C"}
         /\ call[c].step = "apply" => Holds(c) = {"F"}
         /\ call'[c].step = "apply" => Holds(c)' = {"F"}
         /\ call'[c].step = "applied" => Holds(c)' = {"F", "M"}
BY NoneAssumption DEF Holds, At, JobSteps

LEMMA ClientReturns ==
  ASSUME call \in [Clients -> Requests], lock \in [Locks -> Threads \cup {None}], LocksHeld,
         NEW c \in Clients, Return(c), Holds("lane")' = Holds("lane")
  PROVE  LocksHeld' /\ lock' \in [Locks -> Threads \cup {None}]
<1>1. call'[c].step = "none" /\ \A d \in Clients : d # c => call'[d] = call[d]
  BY Returned
<1>2. Drop(c)
  BY DEF Return
<1>3. Holds(c)' = {}
  BY <1>1, ClientHolds
<1>4. \A t \in Threads : t # c => Holds(t)' = Holds(t)
  BY <1>1, OthersHold
<1> QED
  BY <1>2, <1>3, <1>4, HeldDropped DEF Threads

\* Between two points at which the job's lock is held it stays held.
LEMMA ClientGoes ==
  ASSUME call \in [Clients -> Requests], lock \in [Locks -> Threads \cup {None}], LocksHeld,
         NEW c \in Clients, NEW s \in JobSteps, call[c].step \in JobSteps, Go(c, s),
         lock' = lock, Holds("lane")' = Holds("lane")
  PROVE  LocksHeld' /\ lock' \in [Locks -> Threads \cup {None}]
<1>1. call'[c].step = s /\ \A d \in Clients : d # c => call'[d] = call[d]
  BY Went DEF Steps
<1>2. Holds(c)' = Holds(c)
  BY <1>1, ClientHolds
<1>3. \A t \in Threads : t # c => Holds(t)' = Holds(t)
  BY <1>1, OthersHold
<1> QED
  BY <1>2, <1>3, HeldUnchanged

LEMMA ClientBegins ==
  ASSUME call \in [Clients -> Requests], lock \in [Locks -> Threads \cup {None}], LocksHeld,
         NEW c \in Clients, NEW l \in Locks, NEW r \in Requests, Begin(c, l, r),
         \/ r.step \in JobSteps /\ l = "P"
         \/ r.step = "activate" /\ l = "C"
         \/ r.step = "apply" /\ l = "F"
  PROVE  LocksHeld' /\ lock' \in [Locks -> Threads \cup {None}]
<1>1. call'[c] = r /\ \A d \in Clients : d # c => call'[d] = call[d]
  BY Begun
<1>2. Holds("lane")' = Holds("lane")
  BY LaneHolds DEF Begin
<1>3. Holds(c)' = {l} /\ Holds(c) = {}
  BY <1>1, ClientHolds DEF Begin, NoCall
<1>4. \A t \in Threads : t # c => Holds(t)' = Holds(t)
  BY <1>1, <1>2, OthersHold
<1>5. Free(l) /\ Take(l, c) /\ c \in Threads
  BY DEF Begin, Threads
<1> QED
  BY <1>3, <1>4, <1>5, HeldTaken

LEMMA WorkerHolds ==
  ASSUME lock \in [Locks -> Threads \cup {None}], LocksHeld, call' = call,
         \/ lock' = lock /\ Holds("lane")' = Holds("lane")
         \/ Free("M") /\ Take("M", "lane") /\ Holds("lane") = {} /\ Holds("lane")' = {"M"}
         \/ Drop("lane") /\ Holds("lane")' = {}
  PROVE  LocksHeld' /\ lock' \in [Locks -> Threads \cup {None}]
<1>1. \A t \in Threads : t # "lane" => Holds(t)' = Holds(t)
  BY DEF Threads, Holds, At
<1>2. "M" \in Locks /\ "lane" \in Threads
  BY DEF Locks, Threads
<1>3. CASE lock' = lock /\ Holds("lane")' = Holds("lane")
  BY <1>1, <1>3, HeldUnchanged
<1>4. CASE Free("M") /\ Take("M", "lane") /\ Holds("lane") = {} /\ Holds("lane")' = {"M"}
  BY <1>1, <1>2, <1>4, HeldTaken
<1>5. CASE Drop("lane") /\ Holds("lane")' = {}
  BY <1>1, <1>2, <1>5, HeldDropped
<1> QED
  BY <1>3, <1>4, <1>5

LEMMA LocksHeldKept ==
  ASSUME Inv, [Next]_vars
  PROVE  LocksHeld' /\ lock' \in [Locks -> Threads \cup {None}]
<1> DEFINE Goal == LocksHeld' /\ lock' \in [Locks -> Threads \cup {None}]
<1>0. /\ TypeOK /\ LocksHeld /\ Stopped /\ RunsCounted
      /\ call \in [Clients -> Requests] /\ lane \in Runs \cup {NoRun}
      /\ lock \in [Locks -> Threads \cup {None}]
  BY DEF Inv, Shapes, TypeOK
<1>1. ASSUME NEW c \in Clients, ReadDraft(c) PROVE Goal
  <2>1. Holds("lane")' = Holds("lane") /\ call[c].step \in JobSteps
    BY <1>1, LaneHolds DEF ReadDraft, At, JobSteps
  <2>2. \/ Return(c)
        \/ \E s \in {"status", "check"} : Go(c, s) /\ lock' = lock
    BY <1>1 DEF ReadDraft
  <2> QED
    BY <1>0, <2>1, <2>2, ClientReturns, ClientGoes DEF JobSteps
<1>2. ASSUME NEW c \in Clients, CheckRefuses(c) \/ StatusReadsDraft(c) \/ ApplyCommits(c) PROVE Goal
  BY <1>0, <1>2, LaneHolds, ClientReturns DEF CheckRefuses, StatusReadsDraft, ApplyCommits
<1>3. ASSUME NEW c \in Clients, SetPreparing(c) PROVE Goal
  BY <1>0, <1>3, LaneHolds, ClientGoes DEF SetPreparing, At, JobSteps
<1>4. ASSUME NEW c \in Clients, PersistPreparing(c) PROVE Goal
  <2>1. Holds("lane")' = Holds("lane") /\ call[c].step \in JobSteps
    BY <1>4, LaneHolds DEF PersistPreparing, At, JobSteps
  <2>2. \/ Return(c)
        \/ Go(c, "queue") /\ lock' = lock
    BY <1>4 DEF PersistPreparing
  <2> QED
    BY <1>0, <2>1, <2>2, ClientReturns, ClientGoes DEF JobSteps
<1>5. ASSUME NEW c \in Clients, Queue(c) PROVE Goal
  <2>1. lane.step = "idle" /\ lane'.step = "building" /\ call[c].step \in JobSteps
    BY <1>5 DEF Queue, Launch, Run, NoRun, At, JobSteps
  <2>2. Holds("lane")' = Holds("lane")
    BY <2>1, LaneHolds
  <2> QED
    BY <1>0, <1>5, <2>1, <2>2, ClientGoes DEF Queue, JobSteps
<1>6. ASSUME NEW c \in Clients, QueueRefuses(c) PROVE Goal
  BY <1>0, <1>6, LaneHolds, ClientReturns DEF QueueRefuses
<1>7. ASSUME NEW c \in Clients, StatusReadsActive(c) PROVE Goal
  BY <1>0, <1>7, LaneHolds, ClientGoes DEF StatusReadsActive, At, JobSteps
<1>8. ASSUME NEW c \in Clients, CancelRun(c) PROVE Goal
  <2>1. lane'.step = lane.step
    BY <1>0, <1>8 DEF CancelRun, Runs
  <2> QED
    BY <1>0, <1>8, <2>1, LaneHolds, ClientGoes DEF CancelRun, At, JobSteps
<1>9. ASSUME NEW c \in Clients, ActivateDecides(c) PROVE Goal
  <2>1. \/ lane' = lane
        \/ lane.step = "idle" /\ lane'.step = "building"
    BY <1>9 DEF ActivateDecides, Launch, Run, NoRun
  <2> QED
    BY <1>0, <1>9, <2>1, LaneHolds, ClientReturns DEF ActivateDecides
<1>10. ASSUME NEW c \in Clients, ApplyGuards(c) PROVE Goal
  <2>1. Holds("lane")' = Holds("lane")
    BY <1>10, LaneHolds DEF ApplyGuards
  <2>2. CASE Return(c)
    BY <1>0, <2>1, <2>2, ClientReturns
  <2>3. CASE Take("M", c) /\ Go(c, "applied")
    <3>1. call'[c].step = "applied" /\ \A d \in Clients : d # c => call'[d] = call[d]
      BY <1>0, <2>3, Went DEF Steps
    <3>2. Holds(c) = {"F"} /\ Holds(c)' = {"F", "M"}
      BY <1>10, <3>1, ClientHolds DEF ApplyGuards, At
    <3>3. \A t \in Threads : t # c => Holds(t)' = Holds(t)
      BY <2>1, <3>1, OthersHold
    <3>4. Free("M") /\ "M" \in Locks /\ c \in Threads /\ Holds(c)' = Holds(c) \cup {"M"}
      BY <1>10, <3>2 DEF ApplyGuards, Locks, Threads
    <3> QED
      BY <1>0, <2>3, <3>3, <3>4, HeldTaken
  <2> QED
    BY <1>10, <2>2, <2>3 DEF ApplyGuards
<1>11. ASSUME NEW c \in Clients, NEW p \in Profiles, NEW rev \in 1..draft, Prepare(c, p, rev)
       PROVE  Goal
  <2>1. rev \in 1..MaxSaves
    BY <1>0, BoundsAssumption DEF TypeOK
  <2>2. [step |-> "read", profile |-> p, rev |-> rev] \in Requests
    BY <2>1 DEF Requests, Steps, JobSteps
  <2> QED
    BY <1>0, <1>11, <2>2, ClientBegins DEF Prepare, Locks, JobSteps
<1>12. ASSUME NEW c \in Clients, Status(c) \/ Cancel(c) PROVE Goal
  <2>1. \A t \in {"status", "cancel"} : [step |-> t] \in Requests
    BY DEF Requests, Steps, JobSteps
  <2>2. PICK t \in {"status", "cancel"} : Begin(c, "P", [step |-> t])
    BY <1>12 DEF Status, Cancel
  <2> QED
    BY <1>0, <2>1, <2>2, ClientBegins DEF Locks, JobSteps
<1>13. ASSUME NEW c \in Clients, Apply(c) PROVE Goal
  <2>1. [step |-> "apply", bundle |-> active] \in Requests
    BY <1>0, <1>13 DEF Apply, TypeOK, Requests, Steps
  <2> QED
    BY <1>0, <1>13, <2>1, ClientBegins DEF Apply, Locks
<1>14. ASSUME NEW c \in Clients, NEW p \in Profiles, Activate(c, p) PROVE Goal
  <2>1. [step |-> "activate", profile |-> p] \in Requests
    BY DEF Requests, Steps
  <2> QED
    BY <1>0, <1>14, <2>1, ClientBegins DEF Activate, Locks
<1>15. ASSUME Worker PROVE Goal
  <2>0. /\ lane \in Runs
        /\ \A s \in LaneSteps \ {"idle"} : To(s) => lane'.step = s
    BY <1>0, <1>15, Worked, Moved
  <2>1. CASE Build \/ ReportReady \/ FailRow \/ ReportFailed
    <3>1. lane.step \notin {"promoted", "admitted"} /\ lane'.step \notin {"promoted", "admitted"}
      BY <2>0, <2>1 DEF Build, ReportReady, FailRow, ReportFailed, In, LaneSteps
    <3> QED
      BY <1>0, <2>1, <3>1, LaneHolds, WorkerHolds DEF Build, ReportReady, FailRow, ReportFailed
  <2>2. CASE Promote
    BY <1>0, <2>0, <2>2, LaneHolds, WorkerHolds DEF Promote, In, LaneSteps
  <2>3. CASE Admit
    <3>1. CASE To("failed") /\ Drop("lane")
      BY <1>0, <2>0, <2>3, <3>1, LaneHolds, WorkerHolds DEF Admit, LaneSteps
    <3>2. CASE lane' = [lane EXCEPT !.step = "admitted", !.committing = TRUE] /\ lock' = lock
      <4>1. lane'.step = "admitted"
        BY <2>0, <3>2, Moved DEF LaneSteps
      <4> QED
        BY <1>0, <2>3, <3>2, <4>1, LaneHolds, WorkerHolds DEF Admit, In
    <3> QED
      BY <2>3, <3>1, <3>2 DEF Admit
  <2>4. CASE Point
    BY <1>0, <2>0, <2>4, LaneHolds, WorkerHolds DEF Point, LaneSteps
  <2>5. CASE Leave
    BY <1>0, <2>0, <2>5, LaneHolds, WorkerHolds DEF Leave, In, NoRun
  <2> QED
    BY <1>15, <2>1, <2>2, <2>3, <2>4, <2>5 DEF Worker
<1>16. ASSUME Crash PROVE Goal
  <2>1. \A c \in Clients : Holds(c)' = {}
    BY <1>16, ClientHolds DEF Crash, NoCall
  <2>2. Holds("lane")' = {}
    BY <1>16, LaneHolds DEF Crash, NoRun
  <2>3. \A l \in Locks : lock'[l] = None
    BY <1>16 DEF Crash
  <2>4. \A t \in Threads, l \in Locks : lock'[l] = t <=> l \in Holds(t)'
    BY <2>1, <2>2, <2>3, NoneAssumption DEF Threads
  <2>5. lock' \in [Locks -> Threads \cup {None}]
    BY <1>16 DEF Crash
  <2> QED
    BY <2>4, <2>5 DEF LocksHeld
<1>17. ASSUME Save \/ Restart \/ UNCHANGED vars PROVE Goal
  <2>1. call' = call /\ lane' = lane /\ lock' = lock
    BY <1>17 DEF Save, Restart, vars
  <2> QED
    BY <1>0, <2>1, LaneHolds, WorkerHolds
<1> QED
  BY <1>1, <1>2, <1>3, <1>4, <1>5, <1>6, <1>7, <1>8, <1>9, <1>10, <1>11, <1>12, <1>13, <1>14,
     <1>15, <1>16, <1>17 DEF Next, Client

-----------------------------------------------------------------------------
(***************************************************************************)
(* No threads wait for one another in a circle.                            *)
(***************************************************************************)
LEMMA ClientWants ==
  ASSUME NEW c \in Clients
  PROVE  /\ Wanted(c) \subseteq Locks \ {"P"}
         /\ "P" \in Holds(c) => Wanted(c) \subseteq {"F", "C", "M"}
         /\ "C" \in Holds(c) => Wanted(c) \subseteq {"M"}
         /\ "C" \in Holds(c) /\ lane # NoRun => Wanted(c) = {}
         /\ "F" \in Holds(c) => Wanted(c) \subseteq {"M"}
         /\ "M" \in Holds(c) => Wanted(c) = {}
<1>1. c # "lane"
  BY NoneAssumption
<1> DEFINE s == call[c].step
<1>2. Holds(c) = IF s \in JobSteps THEN {"P"} ELSE IF s = "activate" THEN {"C"}
                 ELSE IF s = "apply" THEN {"F"} ELSE IF s = "applied" THEN {"F", "M"} ELSE {}
  BY <1>1 DEF Holds, At
<1>3. Wanted(c) = CASE s = "read" \/ s = "status draft" -> {"F"}
                    [] s = "queue" \/ s = "cancel" -> {"C"}
                    [] s = "status" \/ s = "apply" -> {"M"}
                    [] s = "activate" /\ lane = NoRun -> {"M"}
                    [] OTHER -> {}
  BY <1>1 DEF Wanted, At
<1>4. Wanted(c) \in {{}, {"F"}, {"C"}, {"M"}}
  BY <1>3
<1>5. s = "activate" => Wanted(c) \subseteq {"M"} /\ (lane # NoRun => Wanted(c) = {})
  BY <1>3
<1>6. s \in {"apply", "applied"} => Wanted(c) \subseteq {"M"} /\ (s = "applied" => Wanted(c) = {})
  BY <1>3
<1>7. /\ "P" \in Holds(c) => s \in JobSteps
      /\ "C" \in Holds(c) => s = "activate"
      /\ "F" \in Holds(c) => s \in {"apply", "applied"}
      /\ "M" \in Holds(c) => s = "applied"
  BY <1>2
<1>8. Wanted(c) \subseteq {"F", "C", "M"} /\ Wanted(c) \subseteq Locks \ {"P"}
  BY <1>4 DEF Locks
<1> QED
  BY <1>5, <1>6, <1>7, <1>8

LEMMA LaneWants ==
  /\ Wanted("lane") \subseteq Locks
  /\ Holds("lane") \subseteq {"M"}
  /\ "M" \in Holds("lane") => lane # NoRun /\ Wanted("lane") \subseteq {"C"}
<1>1. Wanted("lane") \subseteq Locks
  BY DEF Wanted, Locks
<1>2. ASSUME "M" \in Holds("lane") PROVE lane # NoRun /\ Wanted("lane") \subseteq {"C"}
  <2>1. lane.step \in {"promoted", "admitted"}
    BY <1>2, LaneHolds
  <2>2. Wanted("lane") \subseteq {"C"}
    BY <2>1 DEF Wanted
  <2> QED
    BY <2>1, <2>2 DEF NoRun
<1> QED
  BY <1>1, <1>2, LaneHolds

\* From the locks that are taken last to the one that is taken first: none is
\* held by a thread of a circle.
LEMMA NoCircle ==
  ASSUME LocksHeld
  PROVE  NoCircularWait
<1>1. SUFFICES ASSUME NEW S \in SUBSET Threads, S # {},
                      \A t \in S : \E l \in Wanted(t) : lock[l] \in S
               PROVE  FALSE
  BY DEF NoCircularWait
<1> USE DEF Locks, Threads
<1>2. ASSUME NEW l \in Locks, lock[l] \in S PROVE l \in Holds(lock[l])
  BY <1>2 DEF LocksHeld
<1>3. lock["M"] \notin S
  <2>1. SUFFICES ASSUME lock["M"] \in S PROVE FALSE
    OBVIOUS
  <2>2. lock["M"] = "lane"
    BY <1>1, <1>2, <2>1, ClientWants
  <2>3. lane # NoRun /\ lock["C"] \in S
    BY <1>1, <1>2, <2>1, <2>2, LaneWants
  <2>4. lock["C"] \in Clients
    BY <1>2, <2>3, LaneWants
  <2> QED
    BY <1>1, <1>2, <2>3, <2>4, ClientWants
<1>4. \A l \in {"F", "C", "P"} : lock[l] \in S => lock[l] \in Clients
  BY <1>2, LaneWants
<1>5. lock["F"] \notin S /\ lock["C"] \notin S
  BY <1>1, <1>2, <1>3, <1>4, ClientWants
<1>6. lock["P"] \notin S
  BY <1>1, <1>2, <1>3, <1>4, <1>5, ClientWants
<1>7. PICK t \in S : TRUE
  BY <1>1
<1> QED
  BY <1>1, <1>3, <1>5, <1>6, <1>7, ClientWants, LaneWants

-----------------------------------------------------------------------------
(***************************************************************************)
(* Requests: what each may still start, and what it knows of the job.      *)
(***************************************************************************)
LEMMA AloneOnJob ==
  ASSUME LocksHeld, NEW c \in Clients, call[c].step \in JobSteps
  PROVE  \A d \in Clients : d # c => call[d].step \notin JobSteps
<1>1. lock["P"] = c
  BY ClientHolds DEF LocksHeld, Threads, Locks
<1> QED
  BY <1>1, ClientHolds DEF LocksHeld, Threads, Locks

LEMMA NobodyOnJob ==
  ASSUME LocksHeld, Free("P")
  PROVE  \A d \in Clients : call[d].step \notin JobSteps
BY ClientHolds, NoneAssumption DEF LocksHeld, Threads, Locks, Free

LEMMA AloneActivating ==
  ASSUME LocksHeld, NEW c \in Clients, At(c, "activate")
  PROVE  \A d \in Clients : d # c => ~At(d, "activate")
<1>1. \A d \in Clients : At(d, "activate") => Holds(d) = {"C"}
  BY NoneAssumption DEF Holds, At, JobSteps
<1>2. lock["C"] = c
  BY <1>1 DEF LocksHeld, Threads, Locks
<1> QED
  BY <1>1, <1>2 DEF LocksHeld, Threads, Locks

\* The steps of a request, after its first.
LEMMA ClientStep ==
  ASSUME call \in [Clients -> Requests], NEW c \in Clients, Client(c)
  PROVE  /\ \A d \in Clients : d # c => call'[d] = call[d]
         /\ call[c].step # "none"
         /\ call'[c].step \notin {"read", "activate", "apply"}
         /\ call'[c].step = "check" => ReadDraft(c) /\ job.state # "preparing"
         /\ call'[c].step = "persist" => SetPreparing(c)
         /\ call'[c].step = "queue" => PersistPreparing(c)
         /\ call'[c].step \in BeforeQueue =>
              /\ call[c].step \in BeforeQueue
              /\ call'[c].profile = call[c].profile /\ call'[c].rev = call[c].rev
<1> DEFINE t == call'[c].step
<1>1. /\ \A s \in Steps : Go(c, s) =>
           /\ t = s /\ call'[c].profile = call[c].profile /\ call'[c].rev = call[c].rev
           /\ \A d \in Clients : d # c => call'[d] = call[d]
      /\ Return(c) => t = "none" /\ \A d \in Clients : d # c => call'[d] = call[d]
  BY Went, Returned
<1>2. CASE Return(c)
  <2>1. call[c].step # "none"
    BY DEF Client, At, ReadDraft, CheckRefuses, SetPreparing, PersistPreparing, Queue,
           QueueRefuses, StatusReadsActive, StatusReadsDraft, CancelRun, ActivateDecides,
           ApplyGuards, ApplyCommits
  <2> QED
    BY <1>1, <1>2, <2>1 DEF BeforeQueue
<1>3. CASE ReadDraft(c) /\ ~Return(c)
  <2>1. \E s \in {"status", "check"} : Go(c, s) /\ (s = "check" => job.state # "preparing")
    BY <1>3 DEF ReadDraft
  <2>2. call[c].step = "read"
    BY <1>3 DEF ReadDraft, At
  <2> QED
    BY <1>1, <1>3, <2>1, <2>2 DEF Steps, JobSteps, BeforeQueue
<1>4. CASE SetPreparing(c)
  <2>1. \E s \in {"persist"} : Go(c, s)
    BY <1>4 DEF SetPreparing
  <2>2. call[c].step = "check"
    BY <1>4 DEF SetPreparing, At
  <2>3. t = "persist"
    BY <1>1, <2>1 DEF Steps, JobSteps
  <2> QED
    BY <1>1, <1>4, <2>1, <2>2, <2>3 DEF Steps, JobSteps, BeforeQueue
<1>5. CASE PersistPreparing(c) /\ ~Return(c)
  <2>1. \E s \in {"queue"} : Go(c, s)
    BY <1>5 DEF PersistPreparing
  <2>2. call[c].step = "persist"
    BY <1>5 DEF PersistPreparing, At
  <2>3. t = "queue"
    BY <1>1, <2>1 DEF Steps, JobSteps
  <2> QED
    BY <1>1, <1>5, <2>1, <2>2, <2>3 DEF Steps, JobSteps, BeforeQueue
<1>6. CASE Queue(c) \/ CancelRun(c) \/ StatusReadsActive(c) \/ (ApplyGuards(c) /\ ~Return(c))
  <2>1. \E s \in {"status", "status draft", "applied"} : Go(c, s)
    BY <1>6 DEF Queue, CancelRun, StatusReadsActive, ApplyGuards
  <2>2. call[c].step # "none"
    BY <1>6 DEF Queue, CancelRun, StatusReadsActive, ApplyGuards, At
  <2> QED
    BY <1>1, <2>1, <2>2 DEF Steps, JobSteps, BeforeQueue
<1>7. (CheckRefuses(c) \/ QueueRefuses(c) \/ StatusReadsDraft(c) \/ ActivateDecides(c)
         \/ ApplyCommits(c)) => Return(c)
  BY DEF CheckRefuses, QueueRefuses, StatusReadsDraft, ActivateDecides, ApplyCommits
<1> QED
  BY <1>2, <1>3, <1>4, <1>5, <1>6, <1>7 DEF Client

\* The first step of a request.
Beginning(c) ==
  \/ Status(c) \/ Cancel(c) \/ Apply(c)
  \/ \E p \in Profiles : Activate(c, p) \/ \E rev \in 1..draft : Prepare(c, p, rev)

LEMMA BeginStep ==
  ASSUME Inv, NEW c \in Clients, Beginning(c)
  PROVE  /\ \A d \in Clients : d # c => call'[d] = call[d]
         /\ up /\ call[c].step = "none" /\ calls < MaxCalls /\ calls' = calls + 1
         /\ UNCHANGED <<job, saved, draft, active, made, lane, up, env>>
         /\ call'[c].step \in {"status", "cancel", "apply", "activate", "read"}
         /\ call'[c].step = "activate" => call'[c].profile \in Profiles
         /\ call'[c].step = "read" => call'[c].profile \in Profiles /\ call'[c].rev \in 1..draft
<1>0. call \in [Clients -> Requests]
  BY DEF Inv, Shapes
<1>1. \A l, r : Begin(c, l, r) => /\ \A d \in Clients : d # c => call'[d] = call[d]
                                  /\ call'[c] = r
  <2> TAKE l, r
  <2> HAVE Begin(c, l, r)
  <2>1. call' = [call EXCEPT ![c] = r]
    BY DEF Begin
  <2> QED
    BY <1>0, <2>1
<1>2. \A l, r : Begin(c, l, r) =>
        /\ up /\ call[c].step = "none" /\ calls < MaxCalls /\ calls' = calls + 1
        /\ UNCHANGED <<job, saved, draft, active, made, lane, up, env>>
  BY DEF Begin, NoCall
<1>3. CASE Status(c) \/ Cancel(c) \/ Apply(c)
  BY <1>1, <1>2, <1>3 DEF Status, Cancel, Apply
<1>4. ASSUME NEW p \in Profiles, Activate(c, p)
      PROVE  Begin(c, "C", [step |-> "activate", profile |-> p])
  BY <1>4 DEF Activate
<1>5. ASSUME NEW p \in Profiles, NEW rev \in 1..draft, Prepare(c, p, rev)
      PROVE  Begin(c, "P", [step |-> "read", profile |-> p, rev |-> rev])
  BY <1>5 DEF Prepare
<1>6. ASSUME NEW p \in Profiles, Activate(c, p)
      PROVE  call'[c].step = "activate" /\ call'[c].profile \in Profiles
  <2>1. call'[c] = [step |-> "activate", profile |-> p]
    BY <1>1, <1>6 DEF Activate
  <2> QED
    BY <2>1
<1>7. ASSUME NEW p \in Profiles, NEW rev \in 1..draft, Prepare(c, p, rev)
      PROVE  call'[c].step = "read" /\ call'[c].profile \in Profiles /\ call'[c].rev \in 1..draft
  <2>1. call'[c] = [step |-> "read", profile |-> p, rev |-> rev]
    BY <1>1, <1>7 DEF Prepare
  <2> QED
    BY <2>1
<1>8. CASE \E p \in Profiles : Activate(c, p)
  BY <1>1, <1>2, <1>4, <1>6, <1>8
<1>9. CASE \E p \in Profiles, rev \in 1..draft : Prepare(c, p, rev)
  BY <1>1, <1>2, <1>5, <1>7, <1>9
<1> QED
  BY <1>3, <1>8, <1>9 DEF Beginning

LEMMA NextSplits ==
  ASSUME Next
  PROVE  (\E c \in Clients : Client(c) \/ Beginning(c)) \/ Worker \/ Save \/ Crash \/ Restart
BY DEF Next, Beginning

LEMMA CountKept ==
  ASSUME TypeOK, RunsCounted, made' = made, calls' = calls,
         JobOwes' => JobOwes, ActivationOwes' => ActivationOwes
  PROVE  RunsCounted'
BY BoundsAssumption DEF RunsCounted, TypeOK

\* A request that starts a run no longer owes one; the others owe what they did.
LEMMA RunsCountedKept ==
  ASSUME Inv, [Next]_vars
  PROVE  RunsCounted' /\ calls' \in 0..MaxCalls
<1>0. /\ TypeOK /\ LocksHeld /\ Stopped /\ RunsCounted
      /\ call \in [Clients -> Requests] /\ lane \in Runs \cup {NoRun}
      /\ calls \in 0..MaxCalls /\ MaxCalls \in Nat
  BY BoundsAssumption DEF Inv, Shapes, TypeOK
<1>1. ASSUME NEW c \in Clients, Client(c), made' = made PROVE RunsCounted' /\ calls' = calls
  <2>1. calls' = calls
    BY <1>1 DEF Client, ReadDraft, CheckRefuses, SetPreparing, PersistPreparing, Queue,
                QueueRefuses, StatusReadsActive, StatusReadsDraft, CancelRun, ActivateDecides,
                ApplyGuards, ApplyCommits
  <2>2. JobOwes' => JobOwes
    BY <1>0, <1>1, ClientStep DEF JobOwes
  <2>3. ActivationOwes' => ActivationOwes
    BY <1>0, <1>1, ClientStep DEF ActivationOwes, At
  <2> QED
    BY <1>0, <1>1, <2>1, <2>2, <2>3, CountKept
<1>2. ASSUME NEW c \in Clients, Client(c), made' # made PROVE RunsCounted' /\ calls' = calls
  <2>0. \/ Queue(c) /\ Launch(call[c].profile, call[c].rev)
        \/ ActivateDecides(c) /\ Launch(call[c].profile, 0)
    BY <1>2 DEF Client, ReadDraft, CheckRefuses, SetPreparing, PersistPreparing, Queue,
                QueueRefuses, StatusReadsActive, StatusReadsDraft, CancelRun, ActivateDecides,
                ApplyGuards, ApplyCommits
  <2>1. /\ DOMAIN made' = 1..Cardinality(DOMAIN made')
        /\ Cardinality(DOMAIN made') = Cardinality(DOMAIN made) + 1
    BY <1>0, <2>0, Launched
  <2>2. calls' = calls
    BY <2>0 DEF Queue, ActivateDecides
  <2>3. \A d \in Clients : d # c => call'[d] = call[d]
    BY <1>0, <1>2, ClientStep
  <2>4. CASE Queue(c)
    <3>1. call[c].step = "queue" /\ call'[c].step = "status"
      BY <1>0, <2>4, Went DEF Queue, At, Steps, JobSteps
    <3>2. JobOwes /\ ~JobOwes'
      BY <1>0, <2>3, <3>1, AloneOnJob DEF JobOwes, BeforeQueue, JobSteps
    <3>3. ActivationOwes' => ActivationOwes
      BY <2>3, <3>1 DEF ActivationOwes, At
    <3> QED
      BY <1>0, <2>1, <2>2, <3>2, <3>3 DEF RunsCounted
  <2>5. CASE ActivateDecides(c)
    <3>1. At(c, "activate") /\ call'[c].step = "none"
      BY <1>0, <2>5, Returned DEF ActivateDecides
    <3>2. ActivationOwes /\ ~ActivationOwes'
      BY <1>0, <2>3, <3>1, AloneActivating DEF ActivationOwes, At
    <3>3. JobOwes' => JobOwes
      BY <2>3, <3>1 DEF JobOwes, BeforeQueue
    <3> QED
      BY <1>0, <2>1, <2>2, <3>2, <3>3 DEF RunsCounted
  <2> QED
    BY <2>0, <2>4, <2>5
<1>3. ASSUME NEW c \in Clients, Beginning(c) PROVE RunsCounted' /\ calls' \in 0..MaxCalls
  <2>1. /\ \A d \in Clients : d # c => call'[d] = call[d]
        /\ calls < MaxCalls /\ calls' = calls + 1 /\ made' = made
        /\ call'[c].step \in {"status", "cancel", "apply", "activate", "read"}
    BY <1>3, BeginStep
  <2>2. (JobOwes' => JobOwes) \/ (ActivationOwes' => ActivationOwes)
    BY <2>1 DEF JobOwes, ActivationOwes, BeforeQueue, At
  <2>3. \/ (JobOwes' => JobOwes) /\ (ActivationOwes' => ActivationOwes)
        \/ ~JobOwes /\ JobOwes' /\ (ActivationOwes' => ActivationOwes)
        \/ (JobOwes' => JobOwes) /\ ~ActivationOwes /\ ActivationOwes'
    BY <2>2
  <2> QED
    BY <1>0, <2>1, <2>3 DEF RunsCounted
<1>4. ASSUME Worker \/ Save \/ UNCHANGED vars PROVE RunsCounted' /\ calls' = calls
  <2>1. call' = call /\ made' = made /\ calls' = calls
    BY <1>4 DEF Worker, Build, Promote, Admit, Point, ReportReady, FailRow, ReportFailed, Leave,
                Save, vars
  <2> QED
    BY <1>0, <2>1, CountKept DEF JobOwes, ActivationOwes, At
<1>5. ASSUME Crash PROVE RunsCounted' /\ calls' = calls
  <2>1. made' = made /\ calls' = calls
    BY <1>5 DEF Crash
  <2>2. ~JobOwes' /\ ~ActivationOwes'
    BY <1>5 DEF Crash, JobOwes, ActivationOwes, At, NoCall, BeforeQueue
  <2> QED
    BY <1>0, <2>1, <2>2, CountKept
<1>6. ASSUME Restart PROVE RunsCounted' /\ calls' = calls
  BY <1>0, <1>6, CountKept DEF Restart, JobOwes, ActivationOwes, At
<1> QED
  BY <1>0, <1>1, <1>2, <1>3, <1>4, <1>5, <1>6, NextSplits

LEMMA DraftGrows ==
  ASSUME TypeOK, [Next]_vars
  PROVE  draft \in Nat /\ draft' \in 1..MaxSaves /\ draft <= draft'
<1>1. draft' \in {draft} \/ (draft < MaxSaves /\ draft' = draft + 1)
  BY DEF Next, Client, Worker, ReadDraft, CheckRefuses, SetPreparing, PersistPreparing, Queue,
         QueueRefuses, StatusReadsActive, StatusReadsDraft, CancelRun, ActivateDecides,
         ApplyGuards, ApplyCommits, Status, Cancel, Apply, Activate, Prepare, Begin, Build,
         Promote, Admit, Point, ReportReady, FailRow, ReportFailed, Leave, Save, Crash, Restart,
         vars
<1> QED
  BY <1>1, BoundsAssumption DEF TypeOK

\* Only who holds the job's lock changes the job.
LEMMA JobMoves ==
  ASSUME LocksHeld
  PROVE  /\ \A c \in Clients : Client(c) => job' = job \/ call[c].step \in JobSteps
         /\ Worker => job' = job \/ Free("P")
<1>1. ASSUME NEW c \in Clients, Client(c) PROVE job' = job \/ call[c].step \in JobSteps
  BY <1>1 DEF Client, ReadDraft, CheckRefuses, SetPreparing, PersistPreparing, Queue,
         QueueRefuses, StatusReadsActive, StatusReadsDraft, CancelRun, ActivateDecides,
         ApplyGuards, ApplyCommits, At, JobSteps
<1>2. ASSUME Worker PROVE job' = job \/ Free("P")
  BY <1>2 DEF Worker, Build, Promote, Admit, Point, ReportReady, FailRow, ReportFailed, Leave
<1> QED
  BY <1>1, <1>2

LEMMA RequestKept ==
  ASSUME NEW d \in Clients, RequestKnown(d), call'[d] = call[d], draft \in Nat, draft' \in Nat,
         draft <= draft', job' = job \/ call[d].step \notin JobSteps
  PROVE  RequestKnown(d)'
<1>1. call[d].rev \in 1..draft => call[d].rev \in 1..draft'
  OBVIOUS
<1> QED
  BY <1>1 DEF RequestKnown, At, JobSteps, BeforeQueue

LEMMA RequestsKnownKept ==
  ASSUME Inv, [Next]_vars
  PROVE  RequestsKnown'
<1>0. /\ TypeOK /\ LocksHeld /\ job \in Jobs
      /\ call \in [Clients -> Requests]
      /\ \A d \in Clients : RequestKnown(d)
      /\ draft \in Nat /\ draft' \in Nat /\ draft <= draft'
  BY DraftGrows, BoundsAssumption DEF Inv, Shapes, TypeOK, RequestsKnown
<1>1. ASSUME NEW c \in Clients, Client(c) PROVE RequestsKnown'
  <2>1. \A d \in Clients : d # c => call'[d] = call[d]
    BY <1>0, <1>1, ClientStep
  <2>2. ASSUME NEW d \in Clients, d # c PROVE RequestKnown(d)'
    <3>1. job' = job \/ call[d].step \notin JobSteps
      BY <1>0, <1>1, <2>2, JobMoves, AloneOnJob
    <3> QED
      BY <1>0, <2>1, <2>2, <3>1, RequestKept
  <2>3. RequestKnown(c)'
    <3> DEFINE t == call'[c].step
    <3>1. t # "activate"
      BY <1>0, <1>1, ClientStep
    <3>2. t \in BeforeQueue => call'[c].profile \in Profiles /\ call'[c].rev \in 1..draft'
      BY <1>0, <1>1, ClientStep DEF RequestKnown
    <3>3. t = "check" => job'.state # "preparing"
      BY <1>0, <1>1, ClientStep DEF ReadDraft
    <3>4. ASSUME t = "persist"
          PROVE  job'.state = "preparing" /\ job'.rev = call'[c].rev /\ job'.run = 0
      <4>1. SetPreparing(c) /\ call'[c].rev = call[c].rev
        BY <1>0, <1>1, <3>4, ClientStep DEF BeforeQueue
      <4> QED
        BY <4>1 DEF SetPreparing, NoJob
    <3>5. ASSUME t = "queue"
          PROVE  job'.state = "preparing" /\ job'.rev = call'[c].rev /\ job'.run = 0
      <4>1. PersistPreparing(c) /\ call'[c].rev = call[c].rev
        BY <1>0, <1>1, <3>5, ClientStep DEF BeforeQueue
      <4> QED
        BY <1>0, <4>1 DEF PersistPreparing, RequestKnown, At
    <3> QED
      BY <3>1, <3>2, <3>3, <3>4, <3>5 DEF RequestKnown, At
  <2> QED
    BY <2>2, <2>3 DEF RequestsKnown
<1>2. ASSUME NEW c \in Clients, Beginning(c) PROVE RequestsKnown'
  <2>1. /\ \A d \in Clients : d # c => call'[d] = call[d]
        /\ job' = job /\ draft' = draft
        /\ call'[c].step \in {"status", "cancel", "apply", "activate", "read"}
        /\ call'[c].step = "activate" => call'[c].profile \in Profiles
        /\ call'[c].step = "read" => call'[c].profile \in Profiles /\ call'[c].rev \in 1..draft
    BY <1>2, BeginStep
  <2>2. RequestKnown(c)'
    BY <2>1 DEF RequestKnown, At, BeforeQueue
  <2> QED
    BY <1>0, <2>1, <2>2, RequestKept DEF RequestsKnown
<1>3. ASSUME Worker PROVE RequestsKnown'
  <2>1. call' = call
    BY <1>3 DEF Worker, Build, Promote, Admit, Point, ReportReady, FailRow, ReportFailed, Leave
  <2>2. \A d \in Clients : job' = job \/ call[d].step \notin JobSteps
    BY <1>0, <1>3, JobMoves, NobodyOnJob
  <2> QED
    BY <1>0, <2>1, <2>2, RequestKept DEF RequestsKnown
<1>4. ASSUME Save \/ UNCHANGED vars PROVE RequestsKnown'
  BY <1>0, <1>4, RequestKept DEF RequestsKnown, Save, vars
<1>5. ASSUME Crash \/ Restart PROVE RequestsKnown'
  <2>1. \A c \in Clients : call'[c].step = "none"
    BY <1>5 DEF Inv, Stopped, Crash, Restart, NoCall
  <2> QED
    BY <2>1 DEF RequestsKnown, RequestKnown, At, BeforeQueue
<1> QED
  BY <1>1, <1>2, <1>3, <1>4, <1>5, NextSplits

-----------------------------------------------------------------------------
(***************************************************************************)
(* What the job tells.                                                     *)
(***************************************************************************)
LEMMA EventsKept ==
  ASSUME TypeOK, [Next]_vars
  PROVE  /\ env'.events = env.events
         /\ \E s \in Scenarios : \E n \in 0..s.faults : env' = [s EXCEPT !.faults = n]
<1>1. env' = env \/ \E w \in Writes : Raises(w)
  BY DEF Next, Client, Worker, ReadDraft, CheckRefuses, SetPreparing, PersistPreparing, Queue,
         QueueRefuses, StatusReadsActive, StatusReadsDraft, CancelRun, ActivateDecides,
         ApplyGuards, ApplyCommits, Status, Cancel, Apply, Activate, Prepare, Begin, Build,
         Promote, Admit, Point, ReportReady, FailRow, ReportFailed, Leave, Save, Crash, Restart,
         vars, Writes
<1>2. "row" \in Writes
  BY DEF Writes
<1> QED
  BY <1>1, <1>2, FaultsCount

LEMMA TellsKept ==
  ASSUME NEW j, NEW m, NEW a, NEW twice, NEW n, Tells(j, m, a, twice),
         DOMAIN m \subseteq DOMAIN n, \A b \in DOMAIN m : n[b] = m[b]
  PROVE  Tells(j, n, a, twice)
BY DEF Tells

\* The invariants that say what the job, its receipt and its run tell.
Truth ==
  /\ job \in Jobs /\ saved \in Jobs
  /\ active \in DOMAIN made \cup {None}
  /\ \A b \in DOMAIN made : made[b] \in 0..draft
  /\ LaneKnown /\ Receipts /\ PreparingIsServed

LEMMA InvFacts ==
  ASSUME Inv
  PROVE  /\ TypeOK /\ Truth /\ LocksHeld /\ RunsCounted /\ Stopped
         /\ call \in [Clients -> Requests] /\ lane \in Runs \cup {NoRun}
         /\ \A c \in Clients : RequestKnown(c)
         /\ draft \in Nat /\ draft \in 1..MaxSaves
         /\ 0 \notin DOMAIN made /\ DOMAIN made \subseteq 1..MaxRuns /\ MaxRuns \in Nat
         /\ None \notin DOMAIN made
BY BoundsAssumption, NoneAssumption
   DEF Inv, Shapes, TypeOK, Truth, RequestsKnown, MaxRuns

\* Steps that leave the job, its receipt and its run alone.
LEMMA TruthUnchanged ==
  ASSUME Inv, UNCHANGED <<job, saved, active, made, lane, up>>,
         env'.events = env.events, draft' \in Nat, draft <= draft',
         \A c \in Clients : call[c].step \in {"persist", "queue"} => call'[c] = call[c]
  PROVE  Truth'
<1>1. job' \in Jobs /\ saved' \in Jobs /\ active' \in DOMAIN made' \cup {None}
  BY InvFacts DEF Truth
<1>2. \A b \in DOMAIN made' : made'[b] \in 0..draft'
  BY InvFacts DEF Truth
<1>3. LaneKnown' /\ Receipts'
  BY InvFacts DEF Truth, LaneKnown, Receipts, May
<1>4. PreparingIsServed'
  BY InvFacts DEF Truth, PreparingIsServed, May
<1> QED
  BY <1>1, <1>2, <1>3, <1>4 DEF Truth

\* While a preparation is under way no run is the job's.
LEMMA NoRunOfTheJob ==
  ASSUME Inv, NEW c \in Clients, call[c].step \in {"check", "persist", "queue"},
         lane # NoRun, lane.rev # 0
  PROVE  lane.step \in {"reported", "leaving"}
<1>1. job.state # "preparing" \/ job.run = 0
  BY InvFacts DEF RequestKnown, At
<1> QED
  BY <1>1, InvFacts DEF Truth, LaneKnown

LEMMA TruthOfRequest ==
  ASSUME Inv, [Next]_vars, NEW c \in Clients, Client(c)
  PROVE  Truth'
<1>0. /\ env'.events = env.events /\ draft' \in Nat /\ draft <= draft'
      /\ \A d \in Clients : d # c => call'[d] = call[d]
  BY InvFacts, EventsKept, DraftGrows, ClientStep
<1>1. CASE ReadDraft(c) \/ CheckRefuses(c) \/ StatusReadsActive(c) \/ StatusReadsDraft(c)
             \/ ApplyGuards(c) \/ ApplyCommits(c)
  <2>1. UNCHANGED <<job, saved, active, made, lane, up>> /\ call[c].step \notin {"persist", "queue"}
    BY <1>1 DEF ReadDraft, CheckRefuses, StatusReadsActive, StatusReadsDraft, ApplyGuards,
                ApplyCommits, At
  <2> QED
    BY <1>0, <2>1, TruthUnchanged
<1>2. CASE SetPreparing(c)
  <2>1. At(c, "check") /\ call[c].rev \in 1..draft /\ call[c].profile \in Profiles
    BY <1>2, InvFacts DEF SetPreparing, RequestKnown, At, BeforeQueue
  <2>2. /\ job' \in Jobs /\ job'.state = "preparing" /\ job'.run = 0
    <3>1. job' = [state |-> "preparing", rev |-> call[c].rev, profile |-> call[c].profile,
                  bundle |-> None, error |-> "none", run |-> 0]
      BY <1>2 DEF SetPreparing, NoJob
    <3>2. call[c].rev \in 1..MaxSaves /\ 0 \in 0..MaxRuns
      BY <2>1, InvFacts, BoundsAssumption
    <3> QED
      BY <2>1, <3>1, <3>2 DEF Jobs
  <2>3. UNCHANGED <<saved, active, made, lane, draft>>
    BY <1>2 DEF SetPreparing
  <2>4. call'[c].step = "persist"
    BY <1>2, InvFacts, Went DEF SetPreparing, Steps, JobSteps
  <2>5. LaneKnown'
    BY <1>0, <2>1, <2>3, InvFacts, NoRunOfTheJob DEF Truth, LaneKnown, At, May
  <2>6. Receipts'
    BY <1>0, <2>2, <2>3, InvFacts DEF Truth, Receipts, Tells, May
  <2>7. PreparingIsServed'
    BY <2>4 DEF PreparingIsServed
  <2> QED
    BY <2>2, <2>3, <2>5, <2>6, <2>7, InvFacts DEF Truth
<1>3. CASE PersistPreparing(c)
  <2>1. At(c, "persist") /\ job.run = 0 /\ job.state = "preparing"
    BY <1>3, InvFacts DEF PersistPreparing, RequestKnown, At
  <2>2. UNCHANGED <<job, active, made, lane, draft>> /\ saved' \in {job, saved}
    BY <1>3 DEF PersistPreparing
  <2>3. LaneKnown'
    BY <1>0, <2>1, <2>2, InvFacts, NoRunOfTheJob DEF Truth, LaneKnown, At, May
  <2>4. Receipts'
    BY <1>0, <2>2, InvFacts DEF Truth, Receipts, Tells, May
  <2>5. PreparingIsServed'
    <3>1. CASE Go(c, "queue")
      BY <3>1, InvFacts, Went DEF Steps, JobSteps, PreparingIsServed
    <3>2. CASE Raises("receipt")
      BY <1>0, <3>2 DEF Raises, May, PreparingIsServed
    <3> QED
      BY <1>3, <3>1, <3>2 DEF PersistPreparing
  <2> QED
    BY <2>2, <2>3, <2>4, <2>5, InvFacts DEF Truth
<1>4. CASE Queue(c)
  <2>1. /\ call[c].step = "queue" /\ call[c].rev \in 1..draft /\ call[c].profile \in Profiles
        /\ job.state = "preparing" /\ job.rev = call[c].rev
    BY <1>4, InvFacts DEF Queue, RequestKnown, At, BeforeQueue
  <2>2. /\ NextRun \in 1..MaxRuns /\ NextRun \notin DOMAIN made /\ NextRun # 0
        /\ DOMAIN made' = DOMAIN made \cup {NextRun}
        /\ made'[NextRun] = call[c].rev /\ \A b \in DOMAIN made : made'[b] = made[b]
    BY <1>4, <2>1, InvFacts, Launched, RoomForRun DEF Queue, JobOwes, BeforeQueue
  <2>3. /\ lane'.step = "building" /\ lane'.rev = call[c].rev /\ lane'.bundle = NextRun
        /\ lane' # NoRun
    BY <1>4 DEF Queue, Launch, Run, NoRun
  <2>4. /\ job' \in Jobs /\ job'.state = "preparing" /\ job'.rev = call[c].rev
        /\ job'.run = NextRun /\ saved' = job' /\ active' = active /\ draft' = draft
    <3>1. job \in Jobs /\ NextRun \in 0..MaxRuns
      BY <2>2, InvFacts DEF Truth
    <3>2. job' = [job EXCEPT !.run = NextRun]
      BY <1>4 DEF Queue
    <3> QED
      BY <1>4, <2>1, <3>1, <3>2 DEF Queue, Jobs
  <2>5. active' \in DOMAIN made' \cup {None} /\ active' # NextRun
    BY <2>2, <2>4, InvFacts, NoneAssumption DEF Truth
  <2>6. \A b \in DOMAIN made' : made'[b] \in 0..draft'
    BY <2>1, <2>2, <2>4, InvFacts DEF Truth
  <2>7. LaneKnown'
    BY <1>0, <2>2, <2>3, <2>4, <2>5 DEF LaneKnown
  <2>8. Receipts'
    BY <2>1, <2>2, <2>4 DEF Receipts, Tells
  <2>9. PreparingIsServed'
    BY <2>3, <2>4 DEF PreparingIsServed
  <2> QED
    BY <2>4, <2>5, <2>6, <2>7, <2>8, <2>9 DEF Truth
<1>5. CASE QueueRefuses(c)
  <2>1. call[c].step = "queue" /\ job.run = 0
    BY <1>5, InvFacts DEF QueueRefuses, RequestKnown, At
  <2>2. /\ job' \in Jobs /\ job'.state = "failed" /\ job'.run = 0
        /\ saved' \in {job', saved} /\ UNCHANGED <<active, made, lane, draft>>
    <3>1. PICK e \in {"refused", "busy"} : job' = [job EXCEPT !.state = "failed", !.error = e]
      BY <1>5 DEF QueueRefuses
    <3>2. job \in Jobs
      BY InvFacts DEF Truth
    <3>3. job' \in Jobs /\ job'.state = "failed" /\ job'.run = 0
      BY <2>1, <3>1, <3>2 DEF Jobs
    <3> QED
      BY <1>5, <3>3 DEF QueueRefuses
  <2>3. LaneKnown'
    BY <1>0, <2>1, <2>2, InvFacts, NoRunOfTheJob DEF Truth, LaneKnown, May
  <2>4. Receipts'
    BY <1>0, <2>2, InvFacts DEF Truth, Receipts, Tells, May
  <2>5. PreparingIsServed'
    BY <2>2 DEF PreparingIsServed
  <2> QED
    BY <2>2, <2>3, <2>4, <2>5, InvFacts DEF Truth
<1>6. CASE CancelRun(c)
  <2>1. /\ UNCHANGED <<job, saved, active, made, draft, up>>
        /\ call[c].step \notin {"persist", "queue"}
    BY <1>6 DEF CancelRun, At
  <2>2. \/ lane' = lane
        \/ /\ lane # NoRun /\ lane' # NoRun
           /\ lane'.step = lane.step /\ lane'.rev = lane.rev /\ lane'.bundle = lane.bundle
    <3>1. lane' \in {lane} \/ (lane # NoRun /\ lane' = [lane EXCEPT !.stop = TRUE])
      BY <1>6 DEF CancelRun
    <3>2. CASE lane # NoRun /\ lane' = [lane EXCEPT !.stop = TRUE]
      <4>1. lane \in Runs
        BY <3>2, InvFacts
      <4> QED
        BY <3>2, <4>1 DEF Runs, NoRun
    <3> QED
      BY <3>1, <3>2
  <2>3. LaneKnown'
    BY <1>0, <2>1, <2>2, InvFacts DEF Truth, LaneKnown, May
  <2>4. Receipts'
    BY <1>0, <2>1, InvFacts DEF Truth, Receipts, May
  <2>5. PreparingIsServed'
    BY <1>0, <2>1, <2>2, InvFacts DEF Truth, PreparingIsServed, May
  <2> QED
    BY <2>1, <2>3, <2>4, <2>5, InvFacts DEF Truth
<1>7. CASE ActivateDecides(c) /\ UNCHANGED <<lane, made>>
  <2>1. UNCHANGED <<job, saved, active, made, lane, up>> /\ call[c].step = "activate"
    BY <1>7 DEF ActivateDecides, At
  <2> QED
    BY <1>0, <2>1, TruthUnchanged
<1>8. CASE ActivateDecides(c) /\ ~UNCHANGED <<lane, made>>
  <2>1. /\ call[c].step = "activate" /\ lane = NoRun /\ Launch(call[c].profile, 0)
        /\ UNCHANGED <<job, saved, active, draft, up>>
    BY <1>8 DEF ActivateDecides, At
  <2>2. /\ NextRun \in Nat /\ NextRun \notin DOMAIN made /\ NextRun # 0
        /\ DOMAIN made' = DOMAIN made \cup {NextRun}
        /\ made'[NextRun] = 0 /\ \A b \in DOMAIN made : made'[b] = made[b]
    BY <2>1, InvFacts, Launched
  <2>3. lane'.step = "building" /\ lane'.rev = 0 /\ lane'.bundle = NextRun /\ lane' # NoRun
    BY <2>1 DEF Launch, Run, NoRun
  <2>4. active' \in DOMAIN made' \cup {None} /\ active' # NextRun
    BY <2>1, <2>2, InvFacts, NoneAssumption DEF Truth
  <2>5. \A b \in DOMAIN made' : made'[b] \in 0..draft'
    BY <2>1, <2>2, InvFacts DEF Truth
  <2>6. LaneKnown'
    BY <2>2, <2>3, <2>4 DEF LaneKnown
  <2>7. Receipts'
    BY <1>0, <2>1, <2>2, InvFacts, TellsKept DEF Truth, Receipts, May
  <2>8. PreparingIsServed'
    BY <1>0, <2>1, InvFacts DEF Truth, PreparingIsServed, May
  <2> QED
    BY <2>1, <2>4, <2>5, <2>6, <2>7, <2>8, InvFacts DEF Truth
<1> QED
  BY <1>1, <1>2, <1>3, <1>4, <1>5, <1>6, <1>7, <1>8 DEF Client

\* The record of a job after an outcome.
LEMMA OutcomeIs ==
  ASSUME job \in Jobs, NEW st \in {"ready", "failed"}, NEW b \in 1..MaxRuns \cup {None},
         NEW e \in {"none", "run"}, Outcome(st, b, e)
  PROVE  /\ job' \in Jobs /\ job'.state = st /\ job'.bundle = b /\ job'.error = e
         /\ job'.rev = job.rev /\ job'.run = job.run
BY DEF Outcome, Jobs

LEMMA TruthOfWorker ==
  ASSUME Inv, [Next]_vars, Worker
  PROVE  Truth'
<1>0. /\ env'.events = env.events
      /\ lane # NoRun /\ lane \in Runs /\ job \in Jobs
      /\ \/ Leave
         \/ lane' # NoRun /\ lane'.bundle = lane.bundle /\ lane'.rev = lane.rev
      /\ \A s \in LaneSteps \ {"idle"} : To(s) => lane'.step = s
  BY InvFacts, EventsKept, Worked, Moved DEF Truth
<1>1. UNCHANGED <<draft, made, call, up>>
  BY DEF Worker, Build, Promote, Admit, Point, ReportReady, FailRow, ReportFailed, Leave
<1>2. CASE Build \/ Promote \/ Admit \/ FailRow
  <2>1. UNCHANGED <<job, saved, active>> /\ ~Leave
    BY <1>2 DEF Build, Promote, Admit, FailRow, Leave, In
  <2>2. \/ /\ lane.step \in Unpublished
           /\ lane'.step \in Unpublished
        \/ /\ lane.step \in Unpublished
           /\ lane'.step = "leaving" /\ May("row")
    <3>1. CASE Build \/ Promote \/ FailRow
      BY <1>0, <3>1 DEF Build, Promote, FailRow, In, Raises, LaneSteps, Unpublished
    <3>2. CASE Admit
      <4>1. lane' = [lane EXCEPT !.step = "admitted", !.committing = TRUE]
              => lane'.step = "admitted"
        BY <1>0, Moved DEF LaneSteps
      <4> QED
        BY <1>0, <3>2, <4>1 DEF Admit, In, LaneSteps, Unpublished
    <3> QED
      BY <1>2, <3>1, <3>2
  <2>3. LaneKnown'
    BY <1>0, <1>1, <2>1, <2>2, InvFacts DEF Truth, LaneKnown, Unpublished
  <2>4. Receipts'
    BY <1>0, <1>1, <2>1, InvFacts DEF Truth, Receipts, May
  <2>5. PreparingIsServed'
    BY <1>0, <1>1, <2>1, <2>2, InvFacts DEF Truth, PreparingIsServed, May, Unpublished
  <2> QED
    BY <1>1, <2>1, <2>3, <2>4, <2>5, InvFacts DEF Truth
<1>3. CASE Point
  <2>1. UNCHANGED <<job, saved>> /\ lane.step = "admitted" /\ ~Leave
    BY <1>3 DEF Point, In, Leave
  <2>2. \/ active' = lane.bundle /\ lane'.step = "activated"
        \/ active' = active /\ lane'.step = "failed"
    BY <1>0, <1>3 DEF Point, LaneSteps
  <2>3. /\ lane.bundle \in DOMAIN made /\ made[lane.bundle] = lane.rev
        /\ active # lane.bundle
        /\ lane.rev # 0 => job.state = "preparing" /\ job.run = lane.bundle /\ job.rev = lane.rev
                           /\ saved = job
    BY <1>0, <2>1, InvFacts DEF Truth, LaneKnown, Unpublished
  <2>4. LaneKnown'
    BY <1>0, <1>1, <2>1, <2>2, <2>3 DEF LaneKnown, Unpublished
  <2>5. Receipts'
    <3>1. ASSUME NEW j \in {job, saved} PROVE Tells(j, made, active', May("outcome"))
      BY <2>2, <2>3, InvFacts DEF Truth, Receipts, Tells
    <3> QED
      BY <1>0, <1>1, <2>1, <3>1 DEF Receipts, May
  <2>6. PreparingIsServed'
    BY <1>0, <1>1, <2>1, <2>2, InvFacts DEF Truth, PreparingIsServed, May
  <2>7. active' \in DOMAIN made' \cup {None}
    BY <1>1, <2>2, <2>3, InvFacts DEF Truth
  <2> QED
    BY <1>1, <2>1, <2>4, <2>5, <2>6, <2>7, InvFacts DEF Truth
<1>4. CASE ReportReady
  <2>1. active' = active /\ lane.step \in {"activated", "reported"} /\ ~Leave
    BY <1>4 DEF ReportReady, Leave, In
  <2>2. CASE lane.rev = 0
    <3>1. UNCHANGED <<job, saved>> /\ lane'.step = "leaving"
      BY <1>0, <1>4, <2>2 DEF ReportReady, LaneSteps
    <3>2. LaneKnown'
      BY <1>0, <1>1, <2>1, <2>2, <3>1, InvFacts DEF Truth, LaneKnown, Unpublished
    <3>3. Receipts'
      BY <1>0, <1>1, <2>1, <3>1, InvFacts DEF Truth, Receipts, May
    <3>4. PreparingIsServed'
      <4>1. ~(lane.rev = job.rev /\ lane.bundle = job.run /\ job.state = "preparing")
        <5>1. lane.bundle \in DOMAIN made /\ made[lane.bundle] = 0
          BY <1>0, <2>2, InvFacts DEF Truth, LaneKnown
        <5>2. job.run # 0 => made[job.run] # 0
          BY InvFacts DEF Truth, Receipts, Tells
        <5> QED
          BY <5>1, <5>2, InvFacts
      <4> QED
        BY <1>0, <1>1, <3>1, <4>1, InvFacts DEF Truth, PreparingIsServed, May
    <3> QED
      BY <1>1, <2>1, <3>1, <3>2, <3>3, <3>4, InvFacts DEF Truth
  <2>3. CASE lane.rev # 0
    <3>1. /\ Outcome("ready", lane.bundle, "none")
          /\ \/ saved' = job' /\ lane'.step = "leaving"
             \/ /\ Raises("outcome") /\ saved' = saved
                /\ lane'.step = IF lane.step = "activated" THEN "reported" ELSE "leaving"
      BY <1>0, <1>4, <2>1, <2>3 DEF ReportReady, In, LaneSteps
    <3>2. lane.bundle \in 1..MaxRuns
      BY <1>0 DEF Runs
    <3>3. /\ job' \in Jobs /\ job'.state = "ready" /\ job'.bundle = lane.bundle
          /\ job'.rev = job.rev /\ job'.run = job.run
      BY <1>0, <3>1, <3>2, OutcomeIs
    <3>4. /\ lane.bundle \in DOMAIN made /\ made[lane.bundle] = lane.rev
          /\ lane.step = "reported" => May("outcome")
          /\ lane.step = "activated" => job.rev = lane.rev
      BY <1>0, <2>3, InvFacts DEF Truth, LaneKnown
    <3>5. LaneKnown'
      BY <1>0, <1>1, <2>1, <3>1, <3>4 DEF LaneKnown, Unpublished, Raises, May
    <3>6. Tells(job', made, active, May("outcome"))
      BY <2>1, <3>3, <3>4, InvFacts DEF Truth, Receipts, Tells
    <3>7. saved' \in {job', saved}
      BY <3>1
    <3>8. Receipts'
      BY <1>0, <1>1, <2>1, <3>6, <3>7, InvFacts DEF Truth, Receipts, May
    <3>9. PreparingIsServed'
      BY <3>3 DEF PreparingIsServed
    <3> QED
      BY <1>1, <2>1, <3>3, <3>5, <3>7, <3>8, <3>9, InvFacts DEF Truth
  <2> QED
    BY <2>2, <2>3
<1>5. CASE ReportFailed
  <2>1. active' = active /\ lane.step = "row failed" /\ lane'.step = "leaving" /\ ~Leave
    BY <1>0, <1>5 DEF ReportFailed, Leave, In, LaneSteps
  <2>2. LaneKnown'
    BY <1>0, <1>1, <2>1, InvFacts DEF Truth, LaneKnown, Unpublished
  <2>3. CASE lane.rev = 0
    <3>1. UNCHANGED <<job, saved>>
      BY <1>5, <2>3 DEF ReportFailed
    <3>2. Receipts'
      BY <1>0, <1>1, <2>1, <3>1, InvFacts DEF Truth, Receipts, May
    <3>3. PreparingIsServed'
      <4>1. ~(lane.rev = job.rev /\ lane.bundle = job.run /\ job.state = "preparing")
        <5>1. lane.bundle \in DOMAIN made /\ made[lane.bundle] = 0
          BY <1>0, <2>3, InvFacts DEF Truth, LaneKnown
        <5>2. job.run # 0 => made[job.run] # 0
          BY InvFacts DEF Truth, Receipts, Tells
        <5> QED
          BY <5>1, <5>2, InvFacts
      <4> QED
        BY <1>0, <1>1, <3>1, <4>1, InvFacts DEF Truth, PreparingIsServed, May
    <3> QED
      BY <1>1, <2>1, <2>2, <3>1, <3>2, <3>3, InvFacts DEF Truth
  <2>4. CASE lane.rev # 0
    <3>1. Outcome("failed", None, "run") /\ saved' \in {job', saved}
      BY <1>5, <2>4 DEF ReportFailed
    <3>2. /\ job' \in Jobs /\ job'.state = "failed"
          /\ job'.rev = job.rev /\ job'.run = job.run
      BY <1>0, <3>1, OutcomeIs
    <3>3. job.run = lane.bundle /\ active # lane.bundle
      BY <1>0, <2>1, <2>4, InvFacts DEF Truth, LaneKnown, Unpublished
    <3>4. Tells(job', made, active, May("outcome"))
      BY <3>2, <3>3, InvFacts DEF Truth, Receipts, Tells
    <3>5. Receipts'
      BY <1>0, <1>1, <2>1, <3>1, <3>4, InvFacts DEF Truth, Receipts, May
    <3>6. PreparingIsServed'
      BY <3>2 DEF PreparingIsServed
    <3> QED
      BY <1>1, <2>1, <2>2, <3>1, <3>2, <3>5, <3>6, InvFacts DEF Truth
  <2> QED
    BY <2>3, <2>4
<1>6. CASE Leave
  <2>1. lane.step = "leaving" /\ lane' = NoRun /\ UNCHANGED <<job, saved, active>>
    BY <1>6 DEF Leave, In
  <2>2. LaneKnown'
    BY <2>1 DEF LaneKnown
  <2>3. Receipts'
    BY <1>0, <1>1, <2>1, InvFacts DEF Truth, Receipts, May
  <2>4. PreparingIsServed'
    BY <1>0, <1>1, <2>1, InvFacts DEF Truth, PreparingIsServed, May
  <2> QED
    BY <1>1, <2>1, <2>2, <2>3, <2>4, InvFacts DEF Truth
<1> QED
  BY <1>2, <1>3, <1>4, <1>5, <1>6 DEF Worker

LEMMA TruthKept ==
  ASSUME Inv, [Next]_vars
  PROVE  Truth'
<1>0. env'.events = env.events /\ draft' \in Nat /\ draft <= draft'
  BY InvFacts, EventsKept, DraftGrows
<1>1. ASSUME NEW c \in Clients, Beginning(c) PROVE Truth'
  <2>1. /\ UNCHANGED <<job, saved, active, made, lane, up>>
        /\ call[c].step = "none" /\ \A d \in Clients : d # c => call'[d] = call[d]
    BY <1>1, BeginStep
  <2> QED
    BY <1>0, <2>1, TruthUnchanged
<1>2. ASSUME Save \/ UNCHANGED vars PROVE Truth'
  <2>1. UNCHANGED <<job, saved, active, made, lane, up, call>>
    BY <1>2 DEF Save, vars
  <2> QED
    BY <1>0, <2>1, TruthUnchanged
<1>3. ASSUME Crash PROVE Truth'
  <2>1. job' = NoJob /\ lane' = NoRun /\ up' = FALSE /\ UNCHANGED <<saved, draft, active, made>>
    BY <1>3 DEF Crash
  <2>2. NoJob \in Jobs /\ NoJob.run = 0 /\ NoJob.state = "idle"
    BY InvFacts DEF NoJob, Jobs
  <2>3. Receipts'
    BY <1>0, <2>1, <2>2, InvFacts DEF Truth, Receipts, Tells, May
  <2> QED
    BY <2>1, <2>2, <2>3, InvFacts DEF Truth, LaneKnown, PreparingIsServed
<1>4. ASSUME Restart PROVE Truth'
  <2>1. /\ \/ job' = Loaded(saved) /\ saved' = job'
           \/ /\ job' = [NoJob EXCEPT !.state = "failed", !.error = "corrupt"]
              /\ saved' = saved
        /\ lane' = NoRun /\ UNCHANGED <<draft, active, made>>
    BY <1>4, InvFacts DEF Restart, Stopped
  <2>2. /\ job' \in Jobs /\ saved' \in Jobs /\ job'.state # "preparing"
        /\ Tells(job', made, active, May("outcome")) /\ Tells(saved', made, active, May("outcome"))
    <3>1. saved \in Jobs /\ Tells(saved, made, active, May("outcome"))
      BY InvFacts DEF Truth, Receipts
    <3>2. CASE job' = [NoJob EXCEPT !.state = "failed", !.error = "corrupt"] /\ saved' = saved
      <4>1. NoJob \in Jobs /\ NoJob.run = 0
        BY InvFacts DEF NoJob, Jobs
      <4>2. job' \in Jobs /\ job'.state = "failed" /\ job'.run = 0
        BY <3>2, <4>1 DEF Jobs
      <4> QED
        BY <3>1, <3>2, <4>2 DEF Tells
    <3>3. CASE job' = Loaded(saved) /\ saved' = job' /\ saved.state = "preparing"
      <4>1. job' = [saved EXCEPT !.state = "failed", !.error = "interrupted"]
        BY <3>3 DEF Loaded
      <4>2. /\ job' \in Jobs /\ job'.state = "failed" /\ job'.error = "interrupted"
            /\ job'.run = saved.run
        BY <3>1, <4>1 DEF Jobs
      <4> QED
        BY <3>1, <3>3, <4>2 DEF Tells
    <3>4. CASE job' = Loaded(saved) /\ saved' = job' /\ saved.state # "preparing"
      BY <3>1, <3>4 DEF Loaded
    <3> QED
      BY <2>1, <3>2, <3>3, <3>4
  <2>3. Receipts'
    BY <1>0, <2>1, <2>2 DEF Receipts, May
  <2> QED
    BY <2>1, <2>2, <2>3, InvFacts DEF Truth, LaneKnown, PreparingIsServed
<1> QED
  BY <1>1, <1>2, <1>3, <1>4, TruthOfRequest, TruthOfWorker, NextSplits

-----------------------------------------------------------------------------
(***************************************************************************)
(* The invariant, and the theorems.                                        *)
(***************************************************************************)
LEMMA StoppedKept ==
  ASSUME Inv, [Next]_vars
  PROVE  Stopped' /\ up' \in BOOLEAN
<1>0. up \in BOOLEAN
  BY InvFacts DEF TypeOK
<1>1. ASSUME NEW c \in Clients, Client(c) PROVE up /\ up' = up
  <2>1. call[c].step # "none"
    BY <1>1, InvFacts, ClientStep
  <2>2. up
    BY <2>1, InvFacts DEF Stopped, NoCall
  <2> QED
    BY <1>1, <2>2 DEF Client, ReadDraft, CheckRefuses, SetPreparing, PersistPreparing, Queue,
         QueueRefuses, StatusReadsActive, StatusReadsDraft, CancelRun, ActivateDecides,
         ApplyGuards, ApplyCommits
<1>2. ASSUME NEW c \in Clients, Beginning(c) PROVE up /\ up' = up
  BY <1>2, BeginStep
<1>3. ASSUME Worker PROVE up /\ up' = up
  <2>1. up
    BY <1>3, InvFacts, Worked DEF Stopped
  <2> QED
    BY <1>3, <2>1 DEF Worker, Build, Promote, Admit, Point, ReportReady, FailRow, ReportFailed,
                      Leave
<1>4. ASSUME Save \/ Restart PROVE up'
  BY <1>4 DEF Save, Restart
<1>5. ASSUME Crash PROVE Stopped' /\ up' \in BOOLEAN
  BY <1>5 DEF Crash, Stopped
<1>6. ASSUME UNCHANGED vars PROVE Stopped' /\ up' \in BOOLEAN
  BY <1>0, <1>6, InvFacts DEF vars, Stopped
<1>7. ASSUME Restart \/ Save PROVE up' \in BOOLEAN
  BY <1>0, <1>7 DEF Restart, Save
<1> QED
  BY <1>0, <1>1, <1>2, <1>3, <1>4, <1>5, <1>6, <1>7, NextSplits DEF Stopped

LEMMA InvInit ==
  ASSUME Init
  PROVE  Inv
<1>1. NoJob \in Jobs /\ NoJob.run = 0 /\ NoJob.state = "idle"
  BY BoundsAssumption DEF NoJob, Jobs, MaxRuns
<1>2. DOMAIN made = {} /\ Cardinality(DOMAIN made) = 0
  BY FS_EmptySet DEF Init
<1>3. TypeOK
  <2>1. PICK s \in Scenarios : env = s
    BY DEF Init
  <2>2. s.faults \in Nat /\ env = [s EXCEPT !.faults = s.faults] /\ s.faults \in 0..s.faults
    BY <2>1, ScenariosAssumption
  <2> QED
    BY <1>1, <1>2, <2>2, BoundsAssumption DEF Init, TypeOK, MaxRuns
<1>4. Shapes
  BY DEF Init, Shapes, NoCall, Requests, Steps
<1>5. LocksHeld
  <2>1. \A c \in Clients : Holds(c) = {}
    BY ClientHolds DEF Init, NoCall
  <2>2. Holds("lane") = {}
    BY LaneHolds DEF Init, NoRun
  <2> QED
    BY <2>1, <2>2, NoneAssumption DEF Init, LocksHeld, Threads
<1>6. RunsCounted
  <2>1. ~JobOwes /\ ~ActivationOwes
    BY DEF Init, JobOwes, ActivationOwes, BeforeQueue, At, NoCall
  <2> QED
    BY <1>2, <2>1 DEF Init, RunsCounted
<1>7. RequestsKnown
  BY DEF Init, RequestsKnown, RequestKnown, BeforeQueue, At, NoCall
<1>8. Stopped /\ LaneKnown
  BY DEF Init, Stopped, LaneKnown
<1>9. Receipts /\ PreparingIsServed
  BY <1>1 DEF Init, Receipts, Tells, PreparingIsServed
<1> QED
  BY <1>3, <1>4, <1>5, <1>6, <1>7, <1>8, <1>9 DEF Inv

LEMMA InvStep ==
  ASSUME Inv, [Next]_vars
  PROVE  Inv'
<1>1. Shapes' /\ LocksHeld' /\ lock' \in [Locks -> Threads \cup {None}]
  BY ShapesKept, LocksHeldKept
<1>2. Stopped' /\ up' \in BOOLEAN
  BY StoppedKept
<1>3. RunsCounted' /\ calls' \in 0..MaxCalls
  BY RunsCountedKept
<1>4. RequestsKnown' /\ Truth'
  BY RequestsKnownKept, TruthKept
<1>5. draft' \in 1..MaxSaves
  BY InvFacts, DraftGrows
<1>6. \E s \in Scenarios : \E n \in 0..s.faults : env' = [s EXCEPT !.faults = n]
  BY InvFacts, EventsKept
<1>7. DOMAIN made' \subseteq 1..MaxRuns
  <2>1. /\ Cardinality(DOMAIN made') \in Nat /\ DOMAIN made' = 1..Cardinality(DOMAIN made')
        /\ Cardinality(DOMAIN made') <= calls'
    BY <1>3 DEF RunsCounted
  <2> QED
    BY <1>3, <2>1, BoundsAssumption DEF MaxRuns
<1>8. lane' # NoRun => lane'.bundle \in DOMAIN made' /\ lane'.profile \in Profiles
  <2>1. lane' \in Runs \cup {NoRun}
    BY <1>1 DEF Shapes
  <2> QED
    BY <1>4, <2>1 DEF Truth, LaneKnown, Runs
<1>9. TypeOK'
  BY <1>1, <1>2, <1>3, <1>4, <1>5, <1>6, <1>7, <1>8 DEF TypeOK, Truth
<1> QED
  BY <1>1, <1>2, <1>3, <1>4, <1>9 DEF Inv, Truth

LEMMA InvHolds == Spec => []Inv
BY InvInit, InvStep, PTL DEF Spec

\* The job's lock, the coordinator's, the bundle manager's and the draft's are
\* taken in different orders by requests, activations, applies and the lane's
\* worker, and still no threads ever wait for one another in a circle.
THEOREM LocksAreSafe == Spec => []NoCircularWait
<1>1. Inv => NoCircularWait
  BY NoCircle DEF Inv
<1> QED
  BY <1>1, InvHolds, PTL

\* A job that says "preparing" is being prepared, one that says "ready" names
\* the bundle that was built from its revision, and one that failed has left
\* the served bundle alone.
THEOREM JobsTellTheTruth == Spec => []JobTellsTruth
<1>1. Inv => JobTellsTruth
  <2>1. ASSUME Inv, NEW j \in {job, saved}, j.state = "ready", ~May("outcome")
        PROVE  j.bundle \in DOMAIN made /\ made[j.bundle] = j.rev
    BY <2>1 DEF Inv, Receipts, Tells
  <2>2. ASSUME Inv PROVE FailedLeavesActive
    BY <2>2 DEF Inv, Receipts, Tells, FailedLeavesActive
  <2> QED
    BY <2>1, <2>2 DEF Inv, JobTellsTruth, ReadyNamesItsBuild
<1> QED
  BY <1>1, InvHolds, PTL

=============================================================================
