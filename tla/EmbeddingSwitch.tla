--------------------------- MODULE EmbeddingSwitch ---------------------------
(***************************************************************************)
(* The switch of the embedding profile: the registry's rows and its switch *)
(* intent (admin/embedding_profiles.py), the lane that reindexes           *)
(* (admin/embedding_reindex.py), the active pointer and the provider of    *)
(* the runtime (main.py), which a crash, a cancellation or an exception    *)
(* can catch in the middle.                                                *)
(*                                                                         *)
(* Three threads act: the owner's activation (queue), the lane's worker    *)
(* (_run) and another request of the owner on a profile (the editor).      *)
(* Directories, retention and pins of bundles are in BundleManager.        *)
(***************************************************************************)
EXTENDS Naturals, FiniteSets, Sequences

CONSTANTS
  Profiles,
  Identities,  \* what makes two embeddings comparable
  IdentityOf,  \* the identity each profile is created with
  MaxRuns,     \* how often the lane is used
  None,
  Scenarios    \* the profiles there are, the events that may happen, how many calls may raise

ASSUME IdentityAssumption == IdentityOf \in [Profiles -> Identities]
ASSUME BoundsAssumption == MaxRuns \in Nat
Bundles == 1..MaxRuns
Providers == Profiles \X Identities
Intents == [gen : 1..MaxRuns, from : Profiles \cup {None}, fromBundle : Bundles \cup {None},
            to : Profiles, toBundle : Bundles]

ASSUME NoneAssumption == None \notin Profiles \cup Identities \cup Nat \cup Providers \cup Intents
ASSUME ScenariosAssumption ==
  Scenarios \subseteq
    [profiles : SUBSET Profiles, faults : Nat,
     events : SUBSET {"crash", "cancel", "shutdown", "probe", "edit", "norollback"}]

VARIABLES
  row,       \* the table embedding_profiles
  intent,    \* the table embedding_switch_intent
  pointer,   \* bundle named by active.json
  served,    \* the bundle manager's active bundle
  provider,  \* the runtime's embedding provider
  runs,      \* identity each run builds; the run's number names its bundle
  owner,     \* the call of queue
  editor,    \* an update, a deletion or a probe by another request
  lane,      \* the lane's run
  seen,      \* <<thread, profile>>: the row is as the thread has read it
  up,        \* the process is running
  closed,    \* _closed
  env        \* the scenario, and how many calls may still raise

disk == <<row, intent, pointer>>
service == <<served, provider>>
vars == <<disk, service, runs, owner, editor, lane, seen, up, closed, env>>

NoCall == [step |-> "none"]
NoPrior == [profile |-> None, status |-> None, bundle |-> None, provider |-> None,
            served |-> None, known |-> FALSE]
Idle == [step |-> "idle", stop |-> "no", committing |-> FALSE, profile |-> None,
         ident |-> None, gen |-> 0, frozen |-> FALSE, provider |-> None, bundle |-> None,
         prior |-> NoPrior]

Tests == {"never", "ok", "failed", "cleared"}
Cleared(test) == IF test = "failed" THEN "cleared" ELSE test

\* Every write of a row changes its updated_at.
Untouched(ps) == {s \in seen : s[2] \notin ps}

Active(rows) == {p \in Profiles : rows[p].here /\ rows[p].active}
TheActive(rows) == IF Active(rows) = {} THEN None ELSE CHOOSE p \in Active(rows) : TRUE
Serves(i) == served # None /\ runs[served] = i

May(event) == event \in env.events
Fault == env.faults > 0 /\ env' = [env EXCEPT !.faults = @ - 1]

-----------------------------------------------------------------------------
(***************************************************************************)
(* Rows.                                                                   *)
(***************************************************************************)
Retired(rows) ==
  [p \in Profiles |-> IF p \in Active(rows)
                      THEN [rows[p] EXCEPT !.active = FALSE, !.status = "last_known_good"]
                      ELSE rows[p]]

Activated(rows, p) == [Retired(rows) EXCEPT ![p].active = TRUE, ![p].status = "ready"]

\* activate_reindexed and reconcile_active_bundle also record the bundle.
ActivatedWith(rows, p, b) ==
  [Activated(rows, p) EXCEPT ![p].bundle = b, ![p].test = Cleared(@)]

\* A row frozen for a run, the row of a run that ended, and its rollback: the row of
\* the run and the row that was active before it.
Frozen(rows, p, gen) == [rows EXCEPT ![p].status = "reindexing", ![p].gen = gen]
Unfrozen(rows, p, test) == [rows EXCEPT ![p].status = "reindex_required", ![p].test = test]
Released(rows, p) ==
  [rows EXCEPT ![p].active = FALSE, ![p].status = "reindexing", ![p].bundle = None]
Restored(rows, q, status, bundle) ==
  [rows EXCEPT ![q].active = TRUE, ![q].status = status, ![q].bundle = bundle]

\* update and delete.
Updated(rows, p, ident) ==
  [rows EXCEPT ![p].ident = ident, ![p].test = "never", ![p].status = "reindex_required"]
Deleted(rows, p) == [rows EXCEPT ![p].here = FALSE]

\* What probe stores of a test that passed or failed.  Whether the profile is
\* active is what probe read before it called the provider.
Probed(r, active, passed) ==
  [r EXCEPT !.test = IF passed THEN "ok" ELSE "failed",
            !.status = IF passed /\ Serves(r.ident) THEN "ready"
                       ELSE IF active THEN "last_known_good"
                       ELSE IF passed THEN "reindex_required" ELSE "probe_failed"]

\* Mutant: a probe stores its result whatever happened to the row meanwhile.
ProbeWritesAlways(thread, p, active, passed) ==
  IF row[p].here THEN [row EXCEPT ![p] = Probed(@, active, passed)] ELSE row

\* The update is bound to the updated_at that probe has read.
ProbeWrites(thread, p, active, passed) ==
  IF row[p].here /\ <<thread, p>> \in seen
  THEN [row EXCEPT ![p] = Probed(@, active, passed)] ELSE row

\* Mutants: a restart recovers nothing, or records a status of its own.
RecoveredNothing(rows) == rows
RecoveredInterrupted(rows) ==
  [p \in Profiles |-> IF rows[p].status = "reindexing" /\ ~rows[p].active
                      THEN [rows[p] EXCEPT !.status = "interrupted"] ELSE rows[p]]

\* recover_interrupted_reindexes.
Recovered(rows) ==
  [p \in Profiles |-> IF rows[p].status = "reindexing" /\ ~rows[p].active
                      THEN [rows[p] EXCEPT !.status = "reindex_required", !.test = "failed"]
                      ELSE rows[p]]

\* The profile the intent names for a bundle.
Intended(b) ==
  IF intent = None THEN None
  ELSE IF intent.toBundle = b THEN intent.to
  ELSE IF intent.fromBundle = b THEN intent.from ELSE None

\* The profiles reconcile_active_bundle may select for a bundle: the first
\* condition that some profile of the same identity meets.
Selectable(rows, b) ==
  LET matching == {p \in Profiles : rows[p].here /\ rows[p].ident = runs[b]}
      tested == {p \in matching : rows[p].test # "never"}
      tiers == << {p \in matching : p = Intended(b)},
                  matching \cap Active(rows),
                  {p \in tested : rows[p].bundle = b},
                  {p \in tested : rows[p].status = "last_known_good"} >>
      met == {n \in 1..4 : tiers[n] # {}}
  IN  IF met = {} THEN {} ELSE tiers[CHOOSE n \in met : \A k \in met : n <= k]

\* reconcile_active_bundle.
Reconcile(b) ==
  LET rows == Recovered(row) IN
  IF b = None
  THEN /\ row' = [p \in Profiles |->
                    IF p \in Active(rows)
                    THEN [rows[p] EXCEPT !.active = FALSE, !.status = "reindex_required",
                                         !.test = "failed"]
                    ELSE rows[p]]
       /\ intent' = intent
  ELSE IF Selectable(rows, b) = {} THEN row' = rows /\ intent' = intent
  ELSE /\ \E p \in Selectable(rows, b) : row' = ActivatedWith(rows, p, b)
       /\ intent' = None

\* The rows a step has written: those it changed, and the active ones, which an
\* activation always rewrites.
Written == {p \in Profiles : row'[p] # row[p]} \cup Active(row')
Changed == {p \in Profiles : row'[p] # row[p]}

-----------------------------------------------------------------------------
(***************************************************************************)
(* queue: the owner activates a profile.                                   *)
(***************************************************************************)
\* queue holds the coordinator's lock until it returns, and refuses a profile
\* while the lane is in use.  A forced call skips the test of a tested profile.
Queue(p, force) ==
  /\ up /\ ~closed
  /\ owner = NoCall /\ lane = Idle
  /\ row[p].here
  /\ Len(runs) < MaxRuns
  /\ owner' = [step |-> IF force /\ row[p].test # "never" THEN "decide" ELSE "probe",
               profile |-> p, force |-> force, row |-> row[p]]
  /\ seen' = seen \cup {<<"owner", p>>}
  /\ UNCHANGED <<disk, service, runs, editor, lane, up, closed, env>>

QueueProbes ==
  /\ owner.step = "probe"
  /\ LET p == owner.profile IN
     /\ \E passed \in BOOLEAN : row' = ProbeWrites("owner", p, owner.row.active, passed)
     /\ seen' = Untouched(Changed) \cup {<<"owner", p>>}
     /\ owner' = IF row[p].here THEN [owner EXCEPT !.step = "decide", !.row = row'[p]]
                 ELSE NoCall
  /\ UNCHANGED <<intent, pointer, service, runs, editor, lane, up, closed, env>>

Compatible ==
  /\ ~owner.force
  /\ owner.row.status = "ready"
  /\ Serves(owner.row.ident)

\* A compatible profile takes over the bundle that is served: first the provider,
QueueSwitchesProvider ==
  /\ owner.step = "decide"
  /\ owner.row.test # "failed" /\ Compatible
  /\ provider' = <<owner.profile, owner.row.ident>>
  /\ owner' = [owner EXCEPT !.step = "switched", !.row = provider]
  /\ UNCHANGED <<disk, served, runs, editor, lane, seen, up, closed, env>>

\* then the rows, or, if activate raises, the provider back.
QueueActivates ==
  /\ owner.step = "switched"
  /\ LET p == owner.profile
         r == row[p] IN
     \/ /\ r.here /\ r.status = "ready" /\ Serves(r.ident)
        /\ row' = Activated(row, p)
        /\ seen' = Untouched(Written)
        /\ UNCHANGED <<provider, env>>
     \/ /\ IF r.here /\ r.status = "ready" /\ Serves(r.ident) THEN Fault ELSE UNCHANGED env
        /\ provider' = owner.row
        /\ UNCHANGED <<row, seen>>
  /\ owner' = NoCall
  /\ UNCHANGED <<intent, pointer, served, runs, editor, lane, up, closed>>

\* What begin_reindex requires of the row it freezes.
MayFreeze(p) ==
  /\ row[p].here /\ ~row[p].active /\ row[p].test = "ok"
  /\ \A q \in Profiles \ {p} : row[q].here => row[q].status # "reindexing"

Run(p, ident, gen, frozen) ==
  [step |-> "building", stop |-> "no", committing |-> FALSE, profile |-> p,
   ident |-> ident, gen |-> gen, frozen |-> frozen, provider |-> <<p, owner.row.ident>>,
   bundle |-> Len(runs) + 1, prior |-> NoPrior]

\* The lane starts, with a frozen row or, for a forced refresh of the active
\* profile, with the row as it was read.
QueueSubmits ==
  /\ owner.step = "decide"
  /\ owner.row.test # "failed" /\ ~Compatible
  /\ LET p == owner.profile
         refresh == owner.force /\ owner.row.active IN
     /\ refresh \/ MayFreeze(p)
     /\ row' = IF refresh THEN row
               ELSE Frozen(row, p, Len(runs) + 1)
     /\ lane' = IF refresh THEN Run(p, owner.row.ident, owner.row.gen, FALSE)
                ELSE Run(p, row[p].ident, Len(runs) + 1, TRUE)
     /\ runs' = Append(runs, lane'.ident)
     /\ seen' = Untouched(Changed)
                \cup (IF <<"owner", p>> \in seen THEN {<<"lane", p>>} ELSE {})
  /\ owner' = NoCall
  /\ UNCHANGED <<intent, pointer, service, editor, up, closed, env>>

QueueRefuses ==
  /\ owner.step = "decide"
  /\ \/ owner.row.test = "failed"
     \/ ~Compatible /\ ~(owner.force /\ owner.row.active) /\ ~MayFreeze(owner.profile)
  /\ owner' = NoCall
  /\ UNCHANGED <<disk, service, runs, editor, lane, seen, up, closed, env>>

\* cancel waits for queue, and answers False once the lane is committing.
Cancel ==
  /\ May("cancel")
  /\ up /\ owner = NoCall
  /\ lane # Idle /\ ~lane.committing
  /\ lane' = [lane EXCEPT !.stop = "cancel"]
  /\ UNCHANGED <<disk, service, runs, owner, editor, seen, up, closed, env>>

Shutdown ==
  /\ May("shutdown")
  /\ up /\ ~closed /\ owner = NoCall
  /\ closed' = TRUE
  /\ lane' = IF lane # Idle /\ lane.stop = "no" THEN [lane EXCEPT !.stop = "shutdown"] ELSE lane
  /\ UNCHANGED <<disk, service, runs, owner, editor, seen, up, env>>

-----------------------------------------------------------------------------
(***************************************************************************)
(* _run: the lane's worker.  From Flip to Commit or Undo it holds the      *)
(* bundle manager's lock.                                                  *)
(***************************************************************************)
To(step) == lane' = [lane EXCEPT !.step = step]

\* The builder stops when it is cancelled or its deadline passes, and it cannot
\* build a profile with the provider of another identity.
Build ==
  /\ lane.step = "building"
  /\ lane.stop = "no" /\ lane.provider[2] = lane.ident
  /\ To("built")
  /\ UNCHANGED <<disk, service, runs, owner, editor, seen, up, closed, env>>

BuildFails ==
  /\ lane.step = "building"
  /\ To("failed")
  /\ UNCHANGED <<disk, service, runs, owner, editor, seen, up, closed, env>>

\* The row is still the one the run was started for.
Current ==
  LET p == lane.profile
      r == row[p] IN
  IF lane.frozen THEN r.here /\ r.gen = lane.gen /\ r.status = "reindexing" /\ ~r.active
  ELSE <<"lane", p>> \in seen

\* activate_reindexed records the intent and moves the active flag in one
\* transaction; a refresh of the active profile writes nothing yet.
Flip ==
  /\ lane.step = "built" /\ Current
  /\ LET p == lane.profile
         q == TheActive(row)
         old == IF q = None THEN NoPrior ELSE row[q]
     IN  /\ row' = IF lane.frozen THEN ActivatedWith(row, p, lane.bundle) ELSE row
         /\ intent' = IF lane.frozen
                      THEN [gen |-> lane.gen, from |-> q, fromBundle |-> old.bundle,
                            to |-> p, toBundle |-> lane.bundle]
                      ELSE intent
         /\ lane' = [lane EXCEPT !.step = "flipped",
                       !.prior = [profile |-> q, status |-> old.status, bundle |-> old.bundle,
                                  provider |-> provider, served |-> served, known |-> TRUE]]
         /\ seen' = IF lane.frozen THEN Untouched(Written) ELSE seen
  /\ UNCHANGED <<pointer, service, runs, owner, editor, up, closed, env>>

FlipRefused ==
  /\ lane.step = "built"
  /\ ~Current \/ lane.stop # "no"
  /\ To("failed")
  /\ UNCHANGED <<disk, service, runs, owner, editor, seen, up, closed, env>>

SwitchProvider ==
  /\ lane.step = "flipped"
  /\ \/ provider' = lane.provider /\ To("switched") /\ UNCHANGED env
     \/ Fault /\ To("undoing") /\ UNCHANGED provider
  /\ UNCHANGED <<disk, served, runs, owner, editor, seen, up, closed>>

\* Mutant: a cancellation is not looked at again before the commit.
AdmitUnasked ==
  /\ lane.step = "switched"
  /\ owner = NoCall
  /\ \/ lane' = [lane EXCEPT !.step = "admitted", !.committing = TRUE]
     \/ To("undoing")
  /\ UNCHANGED <<disk, service, runs, owner, editor, seen, up, closed, env>>

\* before_commit: the last look at the cancellation and the deadline, under the
\* coordinator's lock.
Admit ==
  /\ lane.step = "switched"
  /\ owner = NoCall
  /\ \/ lane.stop = "no" /\ lane' = [lane EXCEPT !.step = "admitted", !.committing = TRUE]
     \/ To("undoing")
  /\ UNCHANGED <<disk, service, runs, owner, editor, seen, up, closed, env>>

Point ==
  /\ lane.step = "admitted"
  /\ \/ pointer' = lane.bundle /\ To("pointed") /\ UNCHANGED env
     \/ Fault /\ To("undoing") /\ UNCHANGED pointer
  /\ UNCHANGED <<row, intent, service, runs, owner, editor, seen, up, closed>>

\* The new bundle is taken for active and recorded in bundle_state.
Promote ==
  /\ lane.step = "pointed"
  /\ \/ served' = lane.bundle /\ To("promoted") /\ UNCHANGED env
     \/ Fault /\ To("unpointing") /\ UNCHANGED served
  /\ UNCHANGED <<disk, provider, runs, owner, editor, seen, up, closed>>

\* The commit hook: the intent goes, or the refreshed row names its new bundle.
Commit ==
  /\ lane.step = "promoted"
  /\ \/ /\ IF lane.frozen
           THEN /\ intent' = IF intent # None /\ intent.gen = lane.gen THEN None ELSE intent
                /\ UNCHANGED <<row, seen>>
           ELSE Reconcile(lane.bundle) /\ seen' = Untouched(Written)
        /\ To("activated") /\ UNCHANGED <<served, env>>
     \/ Fault /\ served' = lane.prior.served /\ To("unpointing") /\ UNCHANGED <<row, intent, seen>>
  /\ UNCHANGED <<pointer, provider, runs, owner, editor, up, closed>>

Unpoint ==
  /\ lane.step = "unpointing"
  /\ pointer' = lane.prior.served
  /\ To("undoing")
  /\ UNCHANGED <<row, intent, service, runs, owner, editor, seen, up, closed, env>>

\* The rollback hook of activate_reindexed.
RowsBack ==
  LET p == lane.profile
      prior == lane.prior
  IN  IF ~(row[p].here /\ row[p].active /\ row[p].gen = lane.gen)
      THEN row' = row /\ intent' = intent
      ELSE /\ row' = IF prior.profile = None \/ ~row[prior.profile].here THEN Released(row, p)
                     ELSE Restored(Released(row, p), prior.profile, prior.status, prior.bundle)
           /\ intent' = IF intent # None /\ intent.gen = lane.gen THEN None ELSE intent

\* Mutant: only the provider is put back.
UndoProviderOnly ==
  /\ lane.step = "undoing"
  /\ provider' = lane.prior.provider
  /\ To("failed")
  /\ UNCHANGED <<row, intent, seen, pointer, served, runs, owner, editor, up, closed, env>>

\* Mutant: only the rows are put back.
UndoRowsOnly ==
  /\ lane.step = "undoing"
  /\ IF lane.frozen THEN RowsBack ELSE Reconcile(lane.prior.served)
  /\ seen' = Untouched(Written)
  /\ To("failed")
  /\ UNCHANGED <<pointer, service, runs, owner, editor, up, closed, env>>

\* _run_rollback: the provider and then the rows are put back; what the hooks
\* raise is suppressed.
Undo ==
  /\ lane.step = "undoing"
  /\ provider' = lane.prior.provider
  /\ \/ /\ IF lane.frozen THEN RowsBack ELSE Reconcile(lane.prior.served)
        /\ seen' = Untouched(Written) /\ UNCHANGED env
     \/ May("norollback") /\ Fault /\ UNCHANGED <<row, intent, seen>>
  /\ To("failed")
  /\ UNCHANGED <<pointer, served, runs, owner, editor, up, closed>>

\* fail_reindex, whose error a caller that reports source failures leaves out.
Fail ==
  /\ lane.step = "failed"
  /\ LET p == lane.profile
         r == row[p] IN
     IF r.here /\ r.gen = lane.gen /\ ~r.active /\ r.status = "reindexing"
     THEN /\ \E test \in {"failed", r.test} : row' = Unfrozen(row, p, test)
          /\ seen' = Untouched({p})
     ELSE UNCHANGED <<row, seen>>
  /\ lane' = Idle
  /\ UNCHANGED <<intent, pointer, service, runs, owner, editor, up, closed, env>>

\* on_finished has been called: the run leaves the lane.
Finish ==
  /\ lane.step = "activated"
  /\ lane' = Idle
  /\ UNCHANGED <<disk, service, runs, owner, editor, seen, up, closed, env>>

-----------------------------------------------------------------------------
(***************************************************************************)
(* Another request of the owner: update, delete or probe.                  *)
(***************************************************************************)
EditorReads(kind, p) ==
  /\ up /\ editor = NoCall
  /\ row[p].here
  /\ \/ kind = "probe" /\ May("probe")
     \/ /\ kind \in {"update", "delete"} /\ May("edit")
        /\ ~row[p].active /\ row[p].status # "reindexing"
  /\ editor' = [step |-> kind, profile |-> p, active |-> row[p].active]
  /\ seen' = {s \in seen : s[1] # "editor"} \cup {<<"editor", p>>}
  /\ UNCHANGED <<disk, service, runs, owner, lane, up, closed, env>>

EditorProbes ==
  /\ editor.step = "probe"
  /\ \E passed \in BOOLEAN :
       row' = ProbeWrites("editor", editor.profile, editor.active, passed)
  /\ seen' = Untouched(Changed)
  /\ editor' = NoCall
  /\ UNCHANGED <<intent, pointer, service, runs, owner, lane, up, closed, env>>

EditorUpdates ==
  /\ editor.step = "update"
  /\ \E i \in Identities : row' = Updated(row, editor.profile, i)
  /\ seen' = Untouched({editor.profile})
  /\ editor' = NoCall
  /\ UNCHANGED <<intent, pointer, service, runs, owner, lane, up, closed, env>>

\* The intent's foreign keys keep the profiles it names.
EditorDeletes ==
  /\ editor.step = "delete"
  /\ row' = IF intent # None /\ editor.profile \in {intent.from, intent.to} THEN row
            ELSE Deleted(row, editor.profile)
  /\ seen' = Untouched(Changed)
  /\ editor' = NoCall
  /\ UNCHANGED <<intent, pointer, service, runs, owner, lane, up, closed, env>>

-----------------------------------------------------------------------------
(***************************************************************************)
(* Crash and restart.                                                      *)
(***************************************************************************)
\* lane still tells, as history, what the crash interrupted.
Crash ==
  /\ May("crash")
  /\ up
  /\ up' = FALSE
  /\ served' = None /\ provider' = None
  /\ owner' = NoCall /\ editor' = NoCall /\ seen' = {} /\ closed' = FALSE
  /\ lane' = [lane EXCEPT !.step = "lost"]
  /\ UNCHANGED <<disk, runs, env>>

\* The manager reopens the bundle of the pointer, the rows are reconciled with
\* it, and the provider is that of the active profile.
Restart ==
  /\ ~up
  /\ up' = TRUE
  /\ served' = pointer
  /\ Reconcile(pointer)
  /\ provider' = IF Active(row') = {} THEN None
                 ELSE <<TheActive(row'), row'[TheActive(row')].ident>>
  /\ lane' = Idle
  /\ UNCHANGED <<pointer, runs, owner, editor, seen, closed, env>>

Init ==
  /\ env \in Scenarios
  /\ row = [p \in Profiles |-> [here |-> p \in env.profiles, active |-> FALSE, status |-> "probe",
                                ident |-> IdentityOf[p], gen |-> 0, bundle |-> None,
                                test |-> "never"]]
  /\ intent = None /\ pointer = None /\ served = None /\ provider = None
  /\ runs = <<>>
  /\ owner = NoCall /\ editor = NoCall /\ lane = Idle
  /\ seen = {} /\ up = TRUE /\ closed = FALSE

Owner ==
  \/ \E p \in Profiles, force \in BOOLEAN : Queue(p, force)
  \/ QueueProbes \/ QueueSwitchesProvider \/ QueueActivates \/ QueueSubmits \/ QueueRefuses

Worker ==
  Build \/ BuildFails \/ Flip \/ FlipRefused \/ SwitchProvider \/ Admit \/ Point \/ Promote
  \/ Commit \/ Unpoint \/ Undo \/ Fail \/ Finish

Editor ==
  \/ \E p \in Profiles, kind \in {"probe", "update", "delete"} : EditorReads(kind, p)
  \/ EditorProbes \/ EditorUpdates \/ EditorDeletes

Next == Owner \/ Worker \/ Editor \/ Cancel \/ Shutdown \/ Crash \/ Restart

Spec == Init /\ [][Next]_vars

-----------------------------------------------------------------------------
TypeOK ==
  /\ row \in [Profiles -> [here : BOOLEAN, active : BOOLEAN, ident : Identities,
                           status : {"probe", "reindex_required", "reindexing", "ready",
                                     "last_known_good", "probe_failed"},
                           gen : 0..MaxRuns, bundle : Bundles \cup {None}, test : Tests]]
  /\ intent \in Intents \cup {None}
  /\ pointer \in Bundles \cup {None} /\ served \in Bundles \cup {None}
  /\ provider \in Providers \cup {None}
  /\ runs \in Seq(Identities) /\ Len(runs) <= MaxRuns
  /\ lane.step \in {"idle", "building", "built", "flipped", "switched", "admitted", "pointed",
                    "promoted", "activated", "unpointing", "undoing", "failed", "lost"}
  /\ seen \subseteq {"owner", "editor", "lane"} \X Profiles
  /\ up \in BOOLEAN /\ closed \in BOOLEAN
  /\ \E s \in Scenarios : \E n \in 0..s.faults : env = [s EXCEPT !.faults = n]

\* No switch is under way: neither the lane nor the owner's call is between
\* its first and its last change.
Settled ==
  /\ up /\ owner.step # "switched"
  /\ lane.step \in {"idle", "building", "built", "activated", "failed"}

\* Two profiles have one identity, so that one may take over the other's bundle.
Twins == \E p, q \in env.profiles : p # q /\ IdentityOf[p] = IdentityOf[q]

\* No owner edits rows meanwhile, no rollback raises, and no probe meets a crash
\* where a profile may be active for a bundle that its row does not name.
Undisturbed ==
  ~May("edit") /\ ~May("norollback") /\ ~(May("crash") /\ May("probe") /\ Twins)

\* The bundle that is served, the one active profile and the provider that
\* embeds the questions belong together whenever no switch is under way,
\* through cancellations, failures at every step, crashes and restarts.  (What
\* Undisturbed excludes can break it: README.md.)
ServiceMatchesRegistry ==
  Settled /\ Undisturbed =>
    IF served = None THEN Active(row) = {}
    ELSE \E p \in Profiles :
           /\ Active(row) = {p} /\ row[p].ident = runs[served]
           /\ row[p].status \in {"ready", "last_known_good"}
           /\ provider = <<p, row[p].ident>>

\* Questions are embedded as the passages of the served bundle were, whatever
\* an editor does to the rows meanwhile and whichever rollback raises, until the
\* process crashes: a restart takes the provider from the rows as it finds them.
ProviderMatchesBundle ==
  Settled /\ ~May("crash") /\ served # None => provider # None /\ provider[2] = runs[served]

\* The rows, the bundle and the provider agree, and have their types.
RegistryServes == TypeOK /\ ServiceMatchesRegistry /\ ProviderMatchesBundle

\* A cancellation that cancel has accepted is never followed by the switch.
CancelWins == lane.stop = "cancel" => lane.bundle \notin {served, pointer}

\* A run that fails, at any step, leaves the profile, the bundle and the
\* provider that were active before it, as long as its rollback does not raise.
FailedLeavesPrior ==
  lane.step = "failed" /\ lane.prior.known /\ Undisturbed =>
    /\ TheActive(row) = lane.prior.profile
    /\ served = lane.prior.served /\ pointer = served
    /\ provider = lane.prior.provider

\* Every reindex is settled: once the lane is free no row says "reindexing",
\* which would keep all profiles from being reindexed.
ReindexSettles ==
  up /\ lane = Idle => \A p \in Profiles : row[p].here => row[p].status # "reindexing"

\* Documented, and not what the code does: see the deviations in README.md.

\* The profile that is served cannot be deleted or changed.
ActiveIsKept == Settled /\ served # None =>
                  \E p \in Active(row) : row[p].ident = runs[served]

\* A reindex builds one frozen profile: its row stays as it was frozen.
FrozenStaysFrozen ==
  lane.frozen /\ lane.step \in {"building", "built"} => row[lane.profile].status = "reindexing"

\* A restart that still serves the bundle served before the crash keeps the
\* profile that was active with it.
RestartKeepsProfile ==
  [][~up /\ up' => TheActive(row') =
       IF lane.prior.known /\ served' = lane.prior.served THEN lane.prior.profile
       ELSE TheActive(row)]_vars

\* A restart settles the switch that the crash interrupted: no intent is left.
IntentSettled == up /\ lane = Idle => intent = None
=============================================================================
