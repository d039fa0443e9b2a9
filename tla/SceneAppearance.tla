--------------------------- MODULE SceneAppearance ---------------------------
(***************************************************************************)
(* Applying an appearance (AdminSceneService.apply, admin/scene.py): one   *)
(* change of two stores, the owner's saved draft (LocalPortfolioStore,     *)
(* admin/local_portfolio.py) and the row scene_appearance_state, made      *)
(* recoverable by a journal in that row and a private copy of the draft.   *)
(*                                                                         *)
(* One lock covers the draft, the row and their recovery; the manager's    *)
(* lock keeps the source bundle active during the final two writes.  A     *)
(* crash or an exception may come between any two durable writes.          *)
(*                                                                         *)
(* A proposal is the background it asks for; what else it sets, and the    *)
(* sprite, follow the background and the bundle and are left out.          *)
(***************************************************************************)
EXTENDS Naturals, FiniteSets, Sequences

CONSTANTS
  Clients,       \* owner sessions that apply an appearance
  Images,        \* background images
  Texts,         \* what else the owner writes in a draft
  Revisions,     \* the revisions an owner may write in a draft
  FirstBundles,  \* the bundles at hand: what the public profile of each shows
  MaxApplies,    \* how often an apply gets as far as its backup
  MaxBundles,    \* how many bundles there may be
  None,
  Scenarios    \* the events that may happen, and how many writes may raise

Views == [rev : Nat, bg : Images \cup {None}]
SavedDrafts == [text : Texts, rev : Nat, bg : Images \cup {None}]
Drafts == {None} \cup SavedDrafts
Pointers ==
  [issued : Nat, source : Nat \cup {None}, srcrev : Nat \cup {None},
   rev : Nat \cup {None}, bg : Images \cup {None}]
Journals == [id : 1..MaxApplies, old : Drafts, new : Drafts, pointer : Pointers]

ASSUME BundlesAssumption == FirstBundles \in Seq(Views) /\ FirstBundles # <<>>
ASSUME BoundsAssumption == {MaxApplies, MaxBundles} \subseteq Nat
ASSUME RevisionsAssumption == Revisions \subseteq Nat
ASSUME ClientsAssumption == Clients \cap {"free", "reader"} = {}
\* What is missing is none of what might be there.
ASSUME NoneAssumption ==
  /\ None \notin Clients \cup Images \cup Texts \cup Nat \cup {"free", "reader"}
  /\ None \notin Views \cup SavedDrafts \cup Journals
ASSUME ScenariosAssumption ==
  Scenarios \subseteq [events : SUBSET {"crash", "save", "build", "switch"}, faults : Nat]

VARIABLES
  draft,    \* local-portfolio/draft.json; a draft's revision is its content
  state,    \* the row scene_appearance_state without its journal
  journal,  \* journal_json
  backups,  \* the recovery files, by backup_id
  bundles,  \* what each bundle's own public profile shows
  active,   \* the bundle manager's active bundle
  build,    \* what the running full build has read of the draft
  lock,     \* holder of the portfolio lock
  guard,    \* holder of the manager's lock in guard_active_bundle
  client,   \* each owner session
  rec,      \* how far the lock's holder is in _recover_unlocked
  applies,  \* backups written so far
  env,       \* the scenario, and how many writes may still raise
  shown,    \* history: what the public has been shown, revision by revision
  meant     \* history: the draft as saves and committed applies make it

stores == <<draft, state, journal, backups>>
bundling == <<bundles, active, build, shown, meant>>
running == <<lock, guard, client, rec>>
counts == <<applies, env>>
vars == <<stores, bundling, running, counts>>

Larger(a, b) == IF a > b THEN a ELSE b

NoSight == [bundle |-> None, rev |-> None, draft |-> None, issued |-> None]
IdleClient == [step |-> "idle", seen |-> NoSight, lease |-> NoSight,
               id |-> None, new |-> None, rev |-> None, bg |-> None]

\* _binding_matches: the row overlays the bundle it was applied on.
Bound(s, b) == s.source = b /\ s.rev # None /\ s.srcrev = bundles[b].rev

\* _snapshot_from_lease: what the public profile of bundle b shows.
ViewOf(s, b) == IF Bound(s, b) THEN [rev |-> s.rev, bg |-> s.bg] ELSE bundles[b]
View == ViewOf(state, active)

\* The public's revision and background, of which bundle, and whether the row
\* overlays it.
Exhibit ==
  [bundle |-> active, applied |-> Bound(state, active), rev |-> View.rev, bg |-> View.bg]

May(event) == event \in env.events
Fault == env.faults > 0 /\ env' = [env EXCEPT !.faults = @ - 1]

Release(c) == lock' = "free" /\ client' = [client EXCEPT ![c] = IdleClient]

-----------------------------------------------------------------------------
(***************************************************************************)
(* Recovery, under the lock: the old draft comes back, then the journal    *)
(* goes, then the backup, which nothing reads any more.  Every method that *)
(* reads the row recovers first, so the steps below find no journal; only  *)
(* LocalPortfolioStore's own methods do not.                               *)
(***************************************************************************)
\* The exception handler of apply runs with the lock held.
Failed(c) == lock = c /\ client[c].step = "failed"

Recoverable ==
  /\ journal.pointer = state
  /\ [id |-> journal.id, raw |-> journal.old] \in backups
  /\ draft \in {journal.old, journal.new}

\* SCENE_RECOVERY_FAILED: the holder leaves and the journal stays.
RecoveryFails ==
  /\ lock' = "free"
  /\ rec' = "no"
  /\ client' = [c \in Clients |-> IF lock = c THEN IdleClient ELSE client[c]]

\* Mutant: recovery forgets the draft and only clears the journal.
RestoreNothing ==
  /\ journal # None /\ rec = "no" /\ Recoverable
  /\ lock = "free" \/ \E c \in Clients : Failed(c)
  /\ lock' = IF lock = "free" THEN "reader" ELSE lock
  /\ rec' = "restored"
  /\ UNCHANGED <<stores, bundling, guard, client, counts>>

Restore ==
  /\ journal # None /\ rec = "no" /\ Recoverable
  /\ lock = "free" \/ \E c \in Clients : Failed(c)
  /\ \/ /\ draft' = journal.old
        /\ lock' = IF lock = "free" THEN "reader" ELSE lock
        /\ rec' = "restored"
        /\ UNCHANGED <<client, counts>>
     \/ /\ Fault
        /\ RecoveryFails
        /\ UNCHANGED <<draft, applies>>
  /\ UNCHANGED <<state, journal, backups, bundling, guard>>

ClearJournal ==
  /\ rec = "restored"
  /\ \/ /\ journal' = None
        /\ backups' = {b \in backups : b.id # journal.id}
        /\ rec' = "no"
        /\ lock' = IF lock = "reader" THEN "free" ELSE lock
        /\ UNCHANGED <<client, counts>>
     \/ /\ Fault
        /\ RecoveryFails
        /\ UNCHANGED <<journal, backups, applies>>
  /\ UNCHANGED <<draft, state, bundling, guard>>

-----------------------------------------------------------------------------
(***************************************************************************)
(* apply.                                                                  *)
(***************************************************************************)
Sight == [bundle |-> active, rev |-> View.rev, draft |-> draft, issued |-> state.issued]

\* scene_state: what the owner sees and sends back as "expected".
Look(c) ==
  /\ client[c].step = "idle" /\ applies < MaxApplies
  /\ lock = "free" /\ journal = None
  /\ client' = [client EXCEPT ![c].step = "looked", ![c].seen = Sight]
  /\ UNCHANGED <<stores, bundling, lock, guard, rec, counts>>

\* apply takes its reader lease and snapshot; the lock is free again after.
Lease(c) ==
  /\ client[c].step = "looked"
  /\ lock = "free" /\ journal = None
  /\ client' = [client EXCEPT ![c].step = "leased", ![c].lease = Sight]
  /\ UNCHANGED <<stores, bundling, lock, guard, rec, counts>>

\* Mutant: the pointer of this moment is not compared with the snapshot's.
ExpectedWithoutIssued(c) ==
  LET seen == client[c].seen
      lease == client[c].lease
  IN /\ seen.bundle = lease.bundle
     /\ seen.rev = lease.rev
     /\ seen.draft = draft
     /\ active = lease.bundle

\* _expected_matches, and the bundle is still the active one.
Expected(c) ==
  LET seen == client[c].seen
      lease == client[c].lease
  IN /\ state.issued = lease.issued
     /\ seen.bundle = lease.bundle
     /\ seen.rev = lease.rev
     /\ seen.draft = draft
     /\ active = lease.bundle

DraftRev == IF draft = None THEN 0 ELSE draft.rev

\* Mutant: the highest revision known is used again.
NewRevisionReused(c) ==
  Larger(state.issued, Larger(bundles[client[c].lease.bundle].rev, DraftRev))

NewRevision(c) == Larger(state.issued, Larger(bundles[client[c].lease.bundle].rev, DraftRev)) + 1

\* build_scene_draft_locked: only the scene of the saved draft changes.
NewDraft(d, rev, bg) == IF d = None THEN None ELSE [d EXCEPT !.rev = rev, !.bg = bg]

Conflict(c) ==
  /\ client[c].step = "leased"
  /\ lock = "free" /\ journal = None /\ ~Expected(c)
  /\ client' = [client EXCEPT ![c] = IdleClient]
  /\ UNCHANGED <<stores, bundling, lock, guard, rec, counts>>

\* The proposal is accepted and the old draft copied to the recovery file.
Backup(c, bg) ==
  /\ client[c].step = "leased"
  /\ lock = "free" /\ journal = None /\ Expected(c)
  /\ applies < MaxApplies
  /\ \/ /\ lock' = c
        /\ applies' = applies + 1
        /\ backups' = backups \cup {[id |-> applies', raw |-> draft]}
        /\ client' = [client EXCEPT ![c].step = "backed", ![c].id = applies',
                                    ![c].rev = NewRevision(c), ![c].bg = bg,
                                    ![c].new = NewDraft(draft, NewRevision(c), bg)]
        /\ UNCHANGED env
     \/ /\ Fault
        /\ client' = [client EXCEPT ![c] = IdleClient]
        /\ UNCHANGED <<backups, lock, applies>>
  /\ UNCHANGED <<draft, state, journal, bundling, guard, rec>>

JournalOf(c) ==
  [id |-> client[c].id, old |-> draft, new |-> client[c].new, pointer |-> state]

\* A failing COMMIT may have committed.  The handler writes the old draft
\* again, which changes nothing, and apply ends.
WriteJournal(c) ==
  /\ client[c].step = "backed"
  /\ \/ /\ journal' = JournalOf(c)
        /\ client' = [client EXCEPT ![c].step = "journaled"]
        /\ UNCHANGED <<lock, counts>>
     \/ /\ Fault
        /\ journal' \in {None, JournalOf(c)}
        /\ Release(c)
        /\ UNCHANGED applies
  /\ UNCHANGED <<draft, state, backups, bundling, guard, rec>>

\* guard_active_bundle
Guard(c) ==
  /\ client[c].step = "journaled"
  /\ guard = None
  /\ IF active = client[c].lease.bundle
     THEN guard' = c /\ client' = [client EXCEPT ![c].step = "guarded"]
     ELSE guard' = guard /\ client' = [client EXCEPT ![c].step = "failed"]
  /\ UNCHANGED <<stores, bundling, lock, rec, counts>>

\* Mutant: the manager's lock is not given back when the write fails.
WriteDraftKeepsGuard(c) ==
  /\ client[c].step = "guarded" /\ Fault
  /\ client' = [client EXCEPT ![c].step = "failed"]
  /\ UNCHANGED <<stores, bundling, guard, lock, rec, applies>>

WriteDraft(c) ==
  /\ client[c].step = "guarded"
  /\ \/ /\ draft' = IF client[c].new = None THEN draft ELSE client[c].new
        /\ client' = [client EXCEPT ![c].step = "written"]
        /\ UNCHANGED <<guard, counts>>
     \/ /\ Fault
        /\ client' = [client EXCEPT ![c].step = "failed"]
        /\ guard' = None
        /\ UNCHANGED <<draft, applies>>
  /\ UNCHANGED <<state, journal, backups, bundling, lock, rec>>

Published(c) ==
  [issued |-> client[c].rev, source |-> client[c].lease.bundle,
   srcrev |-> bundles[client[c].lease.bundle].rev, rev |-> client[c].rev, bg |-> client[c].bg]

\* The draft that is meant from now on carries the scene that the row has.
Means(c) == meant' = NewDraft(meant, client[c].rev, client[c].bg)

\* Mutant: the pointer is written and the journal left for later.
CommitPointerOnly(c) ==
  /\ client[c].step = "written"
  /\ state' = Published(c) /\ Means(c)
  /\ client' = [client EXCEPT ![c].step = "committed"]
  /\ guard' = None
  /\ UNCHANGED <<draft, journal, backups, bundles, active, build, lock, rec, counts>>
  /\ shown' = shown \cup {Exhibit'}

\* One transaction replaces the pointer and clears the journal; when its
\* COMMIT raises, it may have committed.
CommitPointer(c) ==
  /\ client[c].step = "written"
  /\ \/ /\ state' = Published(c) /\ journal' = None /\ Means(c)
        /\ client' = [client EXCEPT ![c].step = "committed"]
        /\ UNCHANGED counts
     \/ /\ Fault
        /\ \/ state' = Published(c) /\ journal' = None /\ Means(c)
           \/ UNCHANGED <<state, journal, meant>>
        /\ client' = [client EXCEPT ![c].step = "failed"]
        /\ UNCHANGED applies
  /\ guard' = None
  /\ UNCHANGED <<draft, backups, bundles, active, build, lock, rec>>
  /\ shown' = shown \cup {Exhibit'}

\* _remove_backup and the answer: success, also when the handler finds that
\* the publication is committed after all; otherwise the error.
Finish(c) ==
  /\ client[c].step = "committed" \/ (Failed(c) /\ rec = "no" /\ journal = None)
  /\ backups' = {b \in backups : b.id # client[c].id}
  /\ Release(c)
  /\ UNCHANGED <<draft, state, journal, bundling, guard, rec, counts>>

-----------------------------------------------------------------------------
(***************************************************************************)
(* The draft's other uses and the bundles.                                 *)
(***************************************************************************)
\* LocalPortfolioStore.save, by an owner who has read the present draft.  All
\* is stored as it is written, the revision too, which may go back or run
\* ahead; only the applied background is kept.  A save over a pending journal
\* does not last: the recovery puts the old draft back or refuses.
Save ==
  /\ May("save") /\ lock = "free"
  /\ \E t \in Texts, r \in Revisions :
       draft' = [text |-> t, rev |-> r, bg |-> IF draft = None THEN None ELSE draft.bg]
  /\ meant' = IF journal = None THEN draft' ELSE meant
  /\ UNCHANGED <<state, journal, backups, bundles, active, build, shown, running, counts>>

\* LocalPublication.prepare reads the draft; the lane builds a bundle of it.
StartBuild ==
  /\ May("build") /\ lock = "free"
  /\ draft # None /\ build = None /\ Len(bundles) < MaxBundles
  /\ build' = [rev |-> draft.rev, bg |-> draft.bg]
  /\ UNCHANGED <<stores, bundles, active, shown, meant, running, counts>>

ActivateBuild ==
  /\ build # None /\ guard = None
  /\ bundles' = Append(bundles, build)
  /\ active' = Len(bundles')
  /\ build' = None
  /\ UNCHANGED <<stores, meant, running, counts>>
  /\ shown' = shown \cup {Exhibit'}

\* Another bundle is activated or the manager rolls back to it.
Switch ==
  /\ May("switch") /\ guard = None
  /\ \E b \in DOMAIN bundles \ {active} : active' = b
  /\ UNCHANGED <<stores, bundles, build, meant, running, counts>>
  /\ shown' = shown \cup {Exhibit'}

Crash ==
  /\ May("crash")
  /\ lock # "free" \/ build # None
  /\ client' = [c \in Clients |-> IdleClient]
  /\ lock' = "free" /\ guard' = None /\ rec' = "no" /\ build' = None
  /\ UNCHANGED <<stores, bundles, active, shown, meant, counts>>

-----------------------------------------------------------------------------
Init ==
  /\ draft \in {None} \cup [text : Texts, rev : Revisions, bg : {None}]
  /\ state = [issued |-> 0, source |-> None, srcrev |-> None, rev |-> None, bg |-> None]
  /\ journal = None /\ backups = {}
  /\ bundles = FirstBundles /\ active = 1 /\ build = None
  /\ lock = "free" /\ guard = None /\ rec = "no"
  /\ client = [c \in Clients |-> IdleClient]
  /\ applies = 0 /\ env \in Scenarios
  /\ shown = {Exhibit} /\ meant = draft

Apply(c) ==
  \/ Look(c) \/ Lease(c) \/ Conflict(c)
  \/ \E bg \in Images \cup {None} : Backup(c, bg)
  \/ WriteJournal(c) \/ Guard(c) \/ WriteDraft(c) \/ CommitPointer(c)
  \/ Finish(c)

Next ==
  \/ \E c \in Clients : Apply(c)
  \/ Restore \/ ClearJournal
  \/ Save \/ StartBuild \/ ActivateBuild \/ Switch \/ Crash

Spec == Init /\ [][Next]_vars

-----------------------------------------------------------------------------
(***************************************************************************)
(* Properties.                                                             *)
(***************************************************************************)
\* Every variable has its type; the lock's holder is at work and the manager's
\* lock is only held by the holder of the portfolio lock.
TypeOK ==
  /\ draft \in Drafts
  /\ state \in Pointers
  /\ journal \in {None} \cup Journals
  /\ backups \subseteq [id : 1..MaxApplies, raw : Drafts]
  /\ meant \in Drafts
  /\ bundles \in Seq(Views) /\ active \in DOMAIN bundles /\ build \in {None} \cup Views
  /\ lock \in {"free", "reader"} \cup Clients
  /\ guard \in {None, lock}
  /\ rec \in {"no", "restored"} /\ (rec = "restored" => lock # "free" /\ journal # None)
  /\ \A c \in Clients :
       (lock = c) <=> client[c].step \in {"backed", "journaled", "guarded", "written",
                                         "committed", "failed"}
  /\ applies \in 0..MaxApplies
  /\ \E s \in Scenarios : \E n \in 0..s.faults : env = [s EXCEPT !.faults = n]

\* Draft and row change together: whenever no journal is pending, the draft on
\* disk is the one the owner saved last with the scenes of exactly those
\* applies that the row has committed, neither a scene that was never
\* published nor a published one that is missing, and no saved text is lost.
\* While a journal is pending its old draft is that one.  A crash, a failed
\* write or a failed recovery may come anywhere between
\* (docs/A5_VISITOR_APPEARANCE_EXPORT_CONTRACT.md: "failure and restart
\* restore a complete old or new state").  (The types are checked with it.)
PairAgrees ==
  /\ TypeOK
  /\ meant = IF journal = None THEN draft ELSE journal.old

\* A pending journal can be recovered, by its writer's handler and, once the
\* writer is gone, by whoever takes the lock.
JournalRecovers ==
  journal # None /\ rec = "no" /\ (lock = "free" \/ \E c \in Clients : Failed(c)) => Recoverable

\* An apply replaces what its owner has seen: at its commit the active bundle,
\* the revision it shows and the draft (before the apply's own write) are the
\* ones scene_state showed, whatever applied, saved or activated in between.
NoLostUpdate ==
  [][state' # state =>
       \E c \in Clients :
         /\ client[c].step = "written"
         /\ client[c].seen.bundle = active
         /\ client[c].seen.rev = View.rev
         /\ client[c].seen.draft = journal.old]_vars

\* A revision that applies issue names one background, and so does a revision
\* within one bundle, whatever revisions the owner saves meanwhile, builds,
\* activates and rolls back to: a cached /api/public/scene-background?rev= is
\* right as long as the bundle stays (the same contract: "A monotonic
\* appearance issuance counter prevents a reused `rev` from naming different
\* background bytes").  Two bundles may show one revision with two backgrounds.
RevNamesOneBackground ==
  \A v, w \in shown :
    v.rev = w.rev /\ (v.bundle = w.bundle \/ (v.applied /\ w.applied)) => v.bg = w.bg
=============================================================================
