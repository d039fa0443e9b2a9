---------------------------- MODULE BundleManager ----------------------------
(***************************************************************************)
(* BundleManager (bundles/manager.py): the retained bundle directories,    *)
(* the pointer file active.json, the row bundle_state, and the handles     *)
(* that readers lease while activations, pins, crashes and restarts        *)
(* replace the bundle they read.                                           *)
(*                                                                         *)
(* The manager's lock is held from the first to the last step of an        *)
(* operation; it is cut into steps where the process can stop or a call    *)
(* can raise, that is between its writes to the file system and the        *)
(* database.  All bundles here have the embedding the manager expects.     *)
(***************************************************************************)
EXTENDS Naturals, FiniteSets

CONSTANTS
  BundleCount,  \* bundles by identifier, which sort by build time
  Readers,      \* requests that lease a reader
  Keep,         \* keep_valid_bundles
  None,
  Scenarios    \* the events that may happen, and how many calls may raise

ASSUME BundleCountAssumption == BundleCount \in Nat \ {0}
ASSUME KeepAssumption == Keep \in Nat /\ Keep >= 2
ASSUME NoneAssumption == None \notin Nat /\ IsFiniteSet(Readers)
ASSUME ScenariosAssumption ==
  Scenarios \subseteq [events : SUBSET {"pin", "crash", "cli"}, faults : Nat]

Bundles == 1..BundleCount
\* One handle each for the active, the previous and the promoted bundle and for
\* what the readers still hold.
Handles == 1..(Cardinality(Readers) + 3)

VARIABLES
  dirs,      \* directories under bundles/validated
  pointer,   \* bundle named by active.json
  saved,     \* the row bundle_state
  up,        \* the process is running
  active,    \* _active, a handle
  previous,  \* _previous, a handle
  pinned,    \* _pinned
  handle,    \* the _LiveBundle objects
  lease,     \* the handle each reader holds
  op,        \* the operation that holds the lock
  env,       \* the scenario, and how many calls may still raise
  trail      \* history: the bundle last served, and the one served before it

disk == <<dirs, pointer, saved>>
memory == <<active, previous, pinned, handle, lease>>
vars == <<disk, memory, up, op, env, trail>>

Idle == [kind |-> "none", step |-> "idle", id |-> None, new |-> None,
         active |-> None, previous |-> None]
Closed == [id |-> None, retired |-> FALSE, open |-> FALSE]

\* Mutant: the handle is recorded in place of the bundle it reads.
HandleOf(h) == h

IdOf(h) == IF h = None THEN None ELSE handle[h].id

Leases(h, ls) == {r \in Readers : ls[r] = h}
Free == {h \in Handles : h \notin {active, previous} /\ Leases(h, lease) = {}}

\* Mutant: a retired handle is closed whoever still reads it.
CloseIfRetiredBusy(hs, ls, h) ==
  IF h # None /\ hs[h].retired THEN [hs EXCEPT ![h].open = FALSE] ELSE hs

\* _close_if_retired.
CloseIfRetired(hs, ls, h) ==
  IF h # None /\ hs[h].retired /\ Leases(h, ls) = {}
  THEN [hs EXCEPT ![h].open = FALSE] ELSE hs

\* Nothing refers to a closed handle any more that nobody holds.
Collect(hs, a, p, ls) ==
  [h \in Handles |-> IF h \in {a, p} \/ Leases(h, ls) # {} \/ hs[h].open THEN hs[h] ELSE Closed]

Retire(hs, h) == IF h = None THEN hs ELSE [hs EXCEPT ![h].retired = TRUE]

\* The first of some identifiers, but for one, whose directory is there.
FirstRetained(ids, but) ==
  LET first(k) == ids[k] \in dirs \ {but} /\ \A j \in 1..(k - 1) : ids[j] \notin dirs \ {but}
  IN  IF \E k \in DOMAIN ids : first(k) THEN ids[CHOOSE k \in DOMAIN ids : first(k)] ELSE None

\* Mutant: the recorded state is not consulted.
RestoredPointer == FirstRetained(<<saved.pinned, pointer>>, None)

\* _restore_persisted_bundles: what a new manager takes for active and previous.
RestoredActive == FirstRetained(<<saved.pinned, pointer, saved.active>>, None)
RestoredPrevious == FirstRetained(<<saved.previous, saved.active>>, RestoredActive)

\* _persist_state writes what this manager has in memory.
Persisted(a, p, pin) == [active |-> a, previous |-> p, pinned |-> pin]

-----------------------------------------------------------------------------
(***************************************************************************)
(* Readers.                                                                *)
(***************************************************************************)
Unlocked == up /\ op = Idle

Acquire(r) ==
  /\ Unlocked
  /\ lease[r] = None /\ active # None
  /\ lease' = [lease EXCEPT ![r] = active]
  /\ UNCHANGED <<disk, up, active, previous, pinned, handle, op, env, trail>>

Release(r) ==
  /\ Unlocked
  /\ lease[r] # None
  /\ lease' = [lease EXCEPT ![r] = None]
  /\ handle' = Collect(CloseIfRetired(handle, lease', lease[r]), active, previous, lease')
  /\ UNCHANGED <<disk, up, active, previous, pinned, op, env, trail>>

-----------------------------------------------------------------------------
(***************************************************************************)
(* activate.                                                               *)
(***************************************************************************)
\* An operation starts by opening its bundle under a new handle.
Start(kind, b) ==
  LET h == CHOOSE h \in Free : TRUE IN
  /\ op' = [kind |-> kind, step |-> "opened", id |-> b, new |-> h,
            active |-> active, previous |-> previous]
  /\ handle' = [handle EXCEPT ![h] = [id |-> b, retired |-> FALSE, open |-> TRUE]]
  /\ UNCHANGED <<pointer, saved, up, active, previous, pinned, lease, env, trail>>

\* Mutant: a pin does not keep other candidates out.
ActivateUnpinned(b) ==
  /\ Unlocked
  /\ b \notin dirs
  /\ dirs' = dirs \cup {b}
  /\ Start("activate", b)

\* The candidate is renamed into place.  A candidate that is pinned away, active
\* or already present is discarded instead, which changes nothing.
Activate(b) ==
  /\ Unlocked
  /\ b \notin dirs
  /\ pinned \in {None, b}
  /\ dirs' = dirs \cup {b}
  /\ Start("activate", b)

\* _write_pointer, after the callers' hooks.
WritePointer ==
  /\ op.step = "opened"
  /\ pointer' = op.id
  /\ op' = [op EXCEPT !.step = "pointed"]
  /\ UNCHANGED <<dirs, saved, memory, up, env, trail>>

\* The handles change places and _persist_state records them.
Promote ==
  /\ op.kind = "activate" /\ op.step = "pointed"
  /\ active' = op.new
  /\ previous' = active
  /\ handle' = Retire(Retire(handle, active), previous)
  /\ saved' = Persisted(op.id, IdOf(active), pinned)
  /\ op' = [op EXCEPT !.step = "persisted"]
  /\ UNCHANGED <<dirs, pointer, up, pinned, lease, env, trail>>

\* Mutant: only the active bundle is kept.
KeptAfterActiveOnly == dirs \cap {IdOf(active)}

\* _cleanup_unreferenced: unprotected directories go, lowest name first.
KeptAfter ==
  LET protected == dirs \cap {IdOf(active), IdOf(previous), pinned}
      spare == dirs \ protected
      surplus == IF Cardinality(dirs) > Keep THEN Cardinality(dirs) - Keep ELSE 0
  IN  protected \cup {b \in spare : Cardinality({c \in spare : c < b}) >= surplus}

\* The commit hook has run: close what nobody reads and clean up.
Finish ==
  /\ op.step = "persisted"
  /\ LET hs == CloseIfRetired(CloseIfRetired(handle, lease, op.active), lease, op.previous)
     IN  handle' = Collect(hs, active, previous, lease)
  /\ dirs' = KeptAfter
  /\ trail' = <<op.id, IdOf(op.active)>>
  /\ op' = Idle
  /\ UNCHANGED <<pointer, saved, up, active, previous, pinned, lease, env>>

May(event) == event \in env.events
Fault(n) == env.faults >= n /\ env' = [env EXCEPT !.faults = @ - n]

\* Opening the index, a hook or the pointer write raises.
AbortEarly ==
  /\ op.kind = "activate" /\ op.step = "opened"
  /\ Fault(1)
  /\ handle' = [handle EXCEPT ![op.new] = Closed]
  /\ dirs' = dirs \ {op.id}
  /\ op' = Idle
  /\ UNCHANGED <<pointer, saved, up, active, previous, pinned, lease, trail>>

\* Mutant: the handle that was active stays retired.
AbortLateRetired ==
  /\ op.kind = "activate" /\ op.step \in {"pointed", "persisted"}
  /\ active' = op.active
  /\ previous' = op.previous
  /\ handle' = handle
  /\ \/ Fault(1) /\ saved' = Persisted(IdOf(op.active), IdOf(op.previous), pinned)
     \/ Fault(2) /\ saved' = saved
  /\ op' = [op EXCEPT !.step = "undone"]
  /\ UNCHANGED <<dirs, pointer, up, pinned, lease, trail>>

\* _persist_state or the commit hook raises: memory is put back and recorded
\* again, and what that second _persist_state raises is ignored.
AbortLate ==
  /\ op.kind = "activate" /\ op.step \in {"pointed", "persisted"}
  /\ active' = op.active
  /\ previous' = op.previous
  /\ handle' = IF op.active = None THEN handle
               ELSE [handle EXCEPT ![op.active].retired = FALSE]
  /\ \/ Fault(1) /\ saved' = Persisted(IdOf(op.active), IdOf(op.previous), pinned)
     \/ Fault(2) /\ saved' = saved
  /\ op' = [op EXCEPT !.step = "undone"]
  /\ UNCHANGED <<dirs, pointer, up, pinned, lease, trail>>

\* _fail_closed_restore_pointer: rewritten, or else unlinked, or else left.
RestorePointer ==
  \/ pointer' = IdOf(op.active) /\ UNCHANGED env
  \/ pointer' = None /\ Fault(1)
  \/ pointer' = pointer /\ Fault(2)

AbortPointer ==
  /\ op.step = "undone"
  /\ RestorePointer
  /\ op' = [op EXCEPT !.step = "unpointed"]
  /\ UNCHANGED <<dirs, saved, memory, up, trail>>

\* The roll back hook runs, and the candidate goes.
AbortDirectory ==
  /\ op.step = "unpointed"
  /\ handle' = [handle EXCEPT ![op.new] = Closed]
  /\ dirs' = dirs \ {op.id}
  /\ op' = Idle
  /\ UNCHANGED <<pointer, saved, up, active, previous, pinned, lease, env, trail>>

-----------------------------------------------------------------------------
(***************************************************************************)
(* pin and unpin, by the owner in the running process.                     *)
(***************************************************************************)
Pin ==
  /\ May("pin")
  /\ Unlocked
  /\ IdOf(previous) \in dirs \ {IdOf(active)}
  /\ UNCHANGED dirs
  /\ Start("pin", IdOf(previous))

PinPersist ==
  /\ op.kind = "pin" /\ op.step = "pointed"
  /\ saved' = Persisted(op.id, IdOf(active), op.id)
  /\ active' = op.new
  /\ previous' = active
  /\ pinned' = op.id
  /\ LET hs == Retire(Retire(handle, active), previous)
     IN  handle' = Collect(CloseIfRetired(CloseIfRetired(hs, lease, active), lease, previous),
                           op.new, active, lease)
  /\ trail' = <<op.id, IdOf(active)>>
  /\ op' = Idle
  /\ UNCHANGED <<dirs, pointer, up, lease, env>>

\* The pointer write or _persist_state raises.
PinFails ==
  /\ op.kind = "pin" /\ op.step \in {"opened", "pointed"}
  /\ env.faults > 0
  /\ \/ pointer' = IdOf(op.active) /\ Fault(1)
     \/ pointer' = None /\ Fault(2)
     \/ pointer' = pointer /\ Fault(3)
  /\ handle' = [handle EXCEPT ![op.new] = Closed]
  /\ op' = Idle
  /\ UNCHANGED <<dirs, saved, up, active, previous, pinned, lease, trail>>

Unpin ==
  /\ May("pin")
  /\ Unlocked
  /\ pinned' = None
  /\ saved' = Persisted(IdOf(active), IdOf(previous), None)
  /\ UNCHANGED <<dirs, pointer, up, active, previous, handle, lease, op, env, trail>>

(***************************************************************************)
(* "reponpc bundle pin" and "unpin" run a manager of their own, which      *)
(* restores itself from the disk and is not held up by the server's lock.  *)
(***************************************************************************)
CliPin(b) ==
  /\ May("cli")
  /\ b \in dirs
  /\ IF RestoredActive = b
     THEN saved' = Persisted(b, RestoredPrevious, b) /\ UNCHANGED pointer
     ELSE saved' = Persisted(b, RestoredActive, b) /\ pointer' = b
  /\ UNCHANGED <<dirs, memory, up, op, env, trail>>

CliUnpin ==
  /\ May("cli")
  /\ saved' = Persisted(RestoredActive, RestoredPrevious, None)
  /\ UNCHANGED <<dirs, pointer, memory, up, op, env, trail>>

-----------------------------------------------------------------------------
(***************************************************************************)
(* Crash and restart.                                                      *)
(***************************************************************************)
Crash ==
  /\ May("crash")
  /\ up
  /\ up' = FALSE
  /\ active' = None /\ previous' = None /\ pinned' = None
  /\ handle' = [h \in Handles |-> Closed]
  /\ lease' = [r \in Readers |-> None]
  /\ op' = [Idle EXCEPT !.id = op.id]
  /\ UNCHANGED <<disk, env, trail>>

\* op.id still tells, as history, what the crash interrupted.
Restart ==
  /\ ~up
  /\ up' = TRUE
  /\ pinned' = saved.pinned
  /\ active' = IF RestoredActive = None THEN None ELSE 1
  /\ previous' = IF RestoredPrevious = None THEN None ELSE 2
  /\ handle' = [handle EXCEPT
                  ![1] = IF RestoredActive = None THEN Closed
                         ELSE [id |-> RestoredActive, retired |-> FALSE, open |-> TRUE],
                  ![2] = IF RestoredPrevious = None THEN Closed
                         ELSE [id |-> RestoredPrevious, retired |-> TRUE, open |-> TRUE]]
  /\ trail' = IF RestoredActive = trail[1] THEN trail ELSE <<RestoredActive, trail[1]>>
  /\ op' = Idle
  /\ UNCHANGED <<disk, lease, env>>

Init ==
  /\ dirs = {} /\ pointer = None
  /\ saved = Persisted(None, None, None)
  /\ up = TRUE
  /\ active = None /\ previous = None /\ pinned = None
  /\ handle = [h \in Handles |-> Closed]
  /\ lease = [r \in Readers |-> None]
  /\ op = Idle /\ env \in Scenarios
  /\ trail = <<None, None>>

Operation ==
  WritePointer \/ Promote \/ Finish \/ AbortEarly \/ AbortLate \/ AbortPointer
  \/ AbortDirectory \/ PinPersist \/ PinFails

Next ==
  \/ \E r \in Readers : Acquire(r) \/ Release(r)
  \/ \E b \in Bundles : Activate(b) \/ CliPin(b)
  \/ up /\ Operation
  \/ Pin \/ Unpin \/ CliUnpin \/ Crash \/ Restart

Spec == Init /\ [][Next]_vars

-----------------------------------------------------------------------------
TypeOK ==
  /\ dirs \subseteq Bundles
  /\ pointer \in Bundles \cup {None}
  /\ saved \in [active : Bundles \cup {None}, previous : Bundles \cup {None},
                pinned : Bundles \cup {None}]
  /\ up \in BOOLEAN
  /\ active \in Handles \cup {None} /\ previous \in Handles \cup {None}
  /\ pinned \in Bundles \cup {None}
  /\ handle \in [Handles -> [id : Bundles \cup {None}, retired : BOOLEAN, open : BOOLEAN]]
  /\ lease \in [Readers -> Handles \cup {None}]
  /\ op \in [kind : {"none", "activate", "pin"},
             step : {"idle", "opened", "pointed", "persisted", "undone", "unpointed"},
             id : Bundles \cup {None}, new : Handles \cup {None},
             active : Handles \cup {None}, previous : Handles \cup {None}]
  /\ \E s \in Scenarios : \E n \in 0..s.faults : env = [s EXCEPT !.faults = n]
  /\ trail \in (Bundles \cup {None}) \X (Bundles \cup {None})

\* A reader never loses its index under it, through activations, roll backs and
\* pins, what is served is open, and no handle is forgotten open that is neither
\* served nor kept nor leased.  (The types are checked with it.)
HandlesFollowLeases ==
  /\ TypeOK
  /\ \A r \in Readers : lease[r] # None => handle[lease[r]].open
  /\ active # None => handle[active].open /\ ~handle[active].retired
  /\ Unlocked => \A h \in Handles : handle[h].open =>
                   h \in {active, previous} \/ Leases(h, lease) # {}

\* Nobody cleans up what is served or can be rolled back to.
ServedIsRetained ==
  \A h \in {active, previous} \ {None} : handle[h].id \in dirs

\* An operation that raises leaves the service as it was before it began.
Restored ==
  up /\ up' /\ op # Idle /\ op' = Idle /\ (active' = None \/ active' # op.new)
    => /\ active' = op.active /\ previous' = op.previous /\ pinned' = pinned
       /\ op.active # None => handle'[op.active].open /\ ~handle'[op.active].retired
       /\ op.kind = "activate" => dirs' = dirs \ {op.id}
AbortRestoresService == [][Restored]_vars

\* A process that stops at any point of an activation comes back serving what
\* it served, or what it was about to serve.  (With pins it may not: README.md.)
RestartServes ==
  [][up' /\ ~up /\ ~May("pin")
     => \/ active' # None /\ handle'[active'].id \in {trail[1], op.id}
        \/ active' = None /\ trail[1] = None]_vars

\* Failures and crashes leave a service, the one before or the one begun.
ServiceSurvives == AbortRestoresService /\ RestartServes

\* An activation in the server never lifts a pin or goes around it.  (It does
\* with a pin of the CLI: README.md.)
PinKept ==
  ~May("cli") /\ op.kind = "activate" /\ op' # op /\ saved' # saved /\ saved.pinned # None
    => saved'.pinned = saved.pinned /\ saved'.active = saved.active
PinHolds == [][PinKept]_vars

\* Documented, and not what the code does: see the deviations in README.md.

\* The files a request leased with its reader are there until it is done.
LeasedFilesExist == \A r \in Readers : lease[r] # None => handle[lease[r]].id \in dirs

\* The bundle kept for a roll back is the one that was served before.
PreviousIsLastServed ==
  Unlocked /\ previous # None => handle[previous].id = trail[2]
=============================================================================
