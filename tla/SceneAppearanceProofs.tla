------------------------ MODULE SceneAppearanceProofs ------------------------
(***************************************************************************)
(* The safety of an apply, for every number of owners, images, applies,    *)
(* bundles, crashes and failing writes.                                    *)
(*                                                                         *)
(* The argument follows the draft that counts: the draft itself, or, while *)
(* a journal is pending, the old draft the journal leads back to.  It      *)
(* changes at a commit and at a save, and nowhere else.                    *)
(***************************************************************************)
EXTENDS SceneAppearance, TLAPS

\* The draft that counts.
Settled == IF journal = None THEN draft ELSE journal.old

\* It is the one that saves and committed applies have made.
Kept == Settled = meant /\ meant \in Drafts

Sights == [bundle : Nat \cup {None}, rev : Nat \cup {None}, draft : Drafts,
           issued : Nat \cup {None}]
ClientSteps == {"idle", "looked", "leased", "backed", "journaled", "guarded", "written",
                "committed", "failed"}
ClientRecords ==
  [step : ClientSteps, seen : Sights, lease : Sights, id : 1..MaxApplies \cup {None},
   new : Drafts, rev : Nat \cup {None}, bg : Images \cup {None}]

\* A snapshot is of the bundle it names, if nothing has been issued since.
LeaseKnown(k) ==
  k.step = "leased" =>
    /\ k.lease.bundle \in DOMAIN bundles
    /\ k.lease.issued \in Nat /\ k.lease.issued <= state.issued
    /\ k.lease.issued = state.issued => k.lease.rev = ViewOf(state, k.lease.bundle).rev

\* From its backup to its commit an apply replaces what its owner has seen.
ApplyKnown(k) ==
  k.step \in {"backed", "journaled", "guarded", "written"} =>
    /\ k.lease.bundle \in DOMAIN bundles /\ k.seen.bundle = k.lease.bundle
    /\ k.seen.rev = ViewOf(state, k.lease.bundle).rev
    /\ k.seen.draft = Settled
    /\ k.rev \in Nat /\ k.rev > state.issued /\ k.rev > bundles[k.lease.bundle].rev
    /\ k.id # None
    /\ k.new = NewDraft(Settled, k.rev, k.bg)

\* How far its writes have come.
WritesKnown(k) ==
  /\ k.step = "backed" => journal = None /\ [id |-> k.id, raw |-> draft] \in backups
  /\ k.step \in {"journaled", "guarded", "written"} =>
       /\ journal # None /\ journal.new = k.new
       /\ draft = IF k.step = "written" THEN journal.new ELSE journal.old
  /\ k.step \in {"guarded", "written"} => guard # None /\ active = k.lease.bundle
  /\ k.step = "committed" => journal = None

ClientKnown(k) == LeaseKnown(k) /\ ApplyKnown(k) /\ WritesKnown(k)

\* A pending journal names the row as it is and a backup that is still there.
JournalKnown ==
  /\ journal # None => /\ journal.pointer = state
                       /\ [id |-> journal.id, raw |-> journal.old] \in backups
  /\ rec = "restored" => /\ draft = journal.old
                         /\ lock \in Clients => client[lock].step = "failed"
  /\ guard # None => guard \in Clients /\ client[guard].step \in {"guarded", "written"}

\* The row's revision is the last one issued, higher than its bundle's own.
RevisionsKnown ==
  state.rev # None => /\ state.rev = state.issued
                      /\ state.source \in DOMAIN bundles
                      /\ state.rev > bundles[state.source].rev

\* The types, in parts.
Holding == {"backed", "journaled", "guarded", "written", "committed", "failed"}

StoreTypes ==
  /\ draft \in Drafts /\ state \in Pointers /\ journal \in {None} \cup Journals
  /\ backups \subseteq [id : 1..MaxApplies, raw : Drafts]
  /\ bundles \in Seq(Views) /\ active \in DOMAIN bundles /\ build \in {None} \cup Views
  /\ applies \in 0..MaxApplies

LockKnown ==
  /\ lock \in {"free", "reader"} \cup Clients
  /\ guard \in {None, lock}
  /\ rec \in {"no", "restored"} /\ (rec = "restored" => lock # "free" /\ journal # None)
  /\ \A c \in Clients : (lock = c) <=> client[c].step \in Holding

EnvKnown == \E s \in Scenarios : \E n \in 0..s.faults : env = [s EXCEPT !.faults = n]

Inv ==
  /\ StoreTypes /\ LockKnown /\ EnvKnown
  /\ client \in [Clients -> ClientRecords]
  /\ \A c \in Clients : ClientKnown(client[c])
  /\ JournalKnown /\ RevisionsKnown
  /\ Kept

-----------------------------------------------------------------------------
(***************************************************************************)
(* Lemmas about the parts.                                                 *)
(***************************************************************************)
LEMMA InvTypes ==
  ASSUME Inv
  PROVE  TypeOK
BY DEF Inv, StoreTypes, LockKnown, EnvKnown, Kept, TypeOK, Holding

Waiting(k) == k.step \in {"idle", "looked", "leased"}

\* Whoever does not hold the lock waits.
LEMMA OthersWait ==
  ASSUME Inv, NEW d \in Clients, lock # d
  PROVE  Waiting(client[d])
BY DEF Inv, LockKnown, ClientRecords, ClientSteps, Holding, Waiting

LEMMA FreeMeansFree ==
  ASSUME Inv, lock = "free" \/ lock = "reader"
  PROVE  guard = None /\ \A d \in Clients : lock # d /\ Waiting(client[d])
BY ClientsAssumption, OthersWait DEF Inv, LockKnown, JournalKnown

LEMMA ViewTyped ==
  ASSUME StoreTypes, NEW b \in DOMAIN bundles
  PROVE  /\ ViewOf(state, b) \in Views /\ bundles[b] \in Views
         /\ ViewOf(state, b).rev \in Nat
<1>1. bundles[b] \in Views
  BY DEF StoreTypes
<1>2. CASE Bound(state, b)
  <2>1. state.rev \in Nat /\ state.bg \in Images \cup {None}
    BY <1>2 DEF StoreTypes, Pointers, Bound
  <2> QED
    BY <1>1, <1>2, <2>1 DEF ViewOf, Views
<1>3. CASE ~Bound(state, b)
  BY <1>1, <1>3 DEF ViewOf, Views
<1> QED
  BY <1>1, <1>2, <1>3

LEMMA FaultKnown ==
  ASSUME EnvKnown, Fault
  PROVE  EnvKnown'
<1>1. PICK s \in Scenarios : \E n \in 0..s.faults : env = [s EXCEPT !.faults = n]
  BY DEF EnvKnown
<1>2. PICK n \in 0..s.faults : env = [s EXCEPT !.faults = n]
  BY <1>1
<1>3. s.faults \in Nat /\ env.faults = n
  BY <1>2, ScenariosAssumption
<1>4. n - 1 \in 0..s.faults
  BY <1>3 DEF Fault
<1>5. env' = [env EXCEPT !.faults = n - 1]
  BY <1>3 DEF Fault
<1>6. s \in [events : SUBSET {"crash", "save", "build", "switch"}, faults : Nat]
  BY ScenariosAssumption
<1>7. env' = [s EXCEPT !.faults = n - 1]
  BY <1>2, <1>5, <1>6
<1> QED
  BY <1>4, <1>7 DEF EnvKnown

\* What the stores and bundles may do while a snapshot stays true: the row is
\* the same or issues a higher revision, and bundles are only added.
Forward ==
  /\ state' = state \/ (state'.issued \in Nat /\ state'.issued > state.issued)
  /\ \A b \in DOMAIN bundles : b \in DOMAIN bundles' /\ bundles'[b] = bundles[b]

LEMMA WaitingKnown ==
  ASSUME StoreTypes, NEW k \in ClientRecords, Waiting(k), LeaseKnown(k), Forward
  PROVE  ClientKnown(k)'
<1>1. ASSUME k.step = "leased" PROVE LeaseKnown(k)'
  <2>1. k.lease.bundle \in DOMAIN bundles /\ k.lease.issued \in Nat /\ state.issued \in Nat
    BY <1>1 DEF LeaseKnown, StoreTypes, Pointers
  <2>2. k.lease.bundle \in DOMAIN bundles' /\ bundles'[k.lease.bundle] = bundles[k.lease.bundle]
    BY <2>1 DEF Forward
  <2>3. CASE state' = state
    BY <1>1, <2>1, <2>2, <2>3 DEF LeaseKnown, ViewOf, Bound
  <2>4. CASE state'.issued \in Nat /\ state'.issued > state.issued
    BY <1>1, <2>1, <2>2, <2>4 DEF LeaseKnown
  <2> QED
    BY <2>3, <2>4 DEF Forward
<1>2. LeaseKnown(k)'
  BY <1>1 DEF LeaseKnown
<1>3. ApplyKnown(k)' /\ WritesKnown(k)'
  BY DEF Waiting, ApplyKnown, WritesKnown
<1> QED
  BY <1>2, <1>3 DEF ClientKnown

LEMMA IdleKnown ==
  IdleClient \in ClientRecords /\ Waiting(IdleClient) /\ ClientKnown(IdleClient)
    /\ ClientKnown(IdleClient)' /\ IdleClient.step = "idle"
<1>1. NoSight \in Sights
  BY DEF NoSight, Sights, Drafts
<1>2. IdleClient \in ClientRecords
  BY <1>1 DEF IdleClient, ClientRecords, ClientSteps, Drafts
<1> QED
  BY <1>2 DEF IdleClient, Waiting, ClientKnown, LeaseKnown, ApplyKnown, WritesKnown

\* One client moves and all others wait.
LEMMA ClientMoves ==
  ASSUME Inv, NEW c \in Clients, NEW k \in ClientRecords, ClientKnown(k)', Forward,
         client' = [client EXCEPT ![c] = k],
         \A d \in Clients \ {c} : Waiting(client[d])
  PROVE  /\ client' \in [Clients -> ClientRecords] /\ client'[c] = k
         /\ \A d \in Clients \ {c} : client'[d] = client[d]
         /\ \A d \in Clients : ClientKnown(client[d])'
<1>1. /\ client' \in [Clients -> ClientRecords] /\ client'[c] = k
      /\ \A d \in Clients \ {c} : client'[d] = client[d]
  BY DEF Inv
<1>2. \A q \in ClientRecords : Waiting(q) /\ ClientKnown(q) => ClientKnown(q)'
  BY WaitingKnown DEF Inv, ClientKnown
<1>3. ASSUME NEW d \in Clients PROVE ClientKnown(client[d])'
  <2>1. CASE d = c
    <3>1. client'[d] = k
      BY <1>1, <2>1
    <3> QED
      BY <3>1 DEF ClientKnown, LeaseKnown, ApplyKnown, WritesKnown
  <2>2. CASE d # c
    <3>1. /\ client'[d] = client[d] /\ client[d] \in ClientRecords
          /\ Waiting(client[d]) /\ ClientKnown(client[d])
      BY <1>1, <2>2 DEF Inv
    <3>2. ApplyKnown(client[d])' /\ WritesKnown(client[d])'
      BY <3>1 DEF Waiting, ApplyKnown, WritesKnown
    <3>3. PICK q \in ClientRecords : q = client[d]
      BY <3>1
    <3>4. LeaseKnown(q)'
      BY <1>2, <3>1, <3>3 DEF ClientKnown
    <3>5. client'[d] = q
      BY <3>1, <3>3
    <3>6. LeaseKnown(client[d])'
      BY <3>4, <3>5 DEF LeaseKnown, ViewOf, Bound
    <3> QED
      BY <3>2, <3>6 DEF ClientKnown
  <2> QED
    BY <2>1, <2>2
<1> QED
  BY <1>1, <1>3

\* Who holds the lock is at work, when it is kept, taken and given back.
LEMMA LockKept ==
  ASSUME Inv, NEW c \in Clients, lock = c, lock' = c, client'[c].step \in Holding,
         \A d \in Clients \ {c} : client'[d] = client[d]
  PROVE  \A d \in Clients : (lock' = d) <=> client'[d].step \in Holding
BY DEF Inv, LockKnown

LEMMA LockTaken ==
  ASSUME Inv, NEW c \in Clients, lock = "free", lock' = c, client'[c].step \in Holding,
         \A d \in Clients \ {c} : client'[d] = client[d]
  PROVE  \A d \in Clients : (lock' = d) <=> client'[d].step \in Holding
BY ClientsAssumption DEF Inv, LockKnown

LEMMA LockGiven ==
  ASSUME Inv, NEW c \in Clients, lock \in {"free", c}, lock' = "free", Waiting(client'[c]),
         \A d \in Clients \ {c} : client'[d] = client[d]
  PROVE  \A d \in Clients : (lock' = d) <=> client'[d].step \in Holding
BY ClientsAssumption DEF Inv, LockKnown, Waiting, Holding

\* The draft that counts stays while the stores do.
LEMMA StoresStay ==
  ASSUME Inv, UNCHANGED stores, UNCHANGED <<bundles, meant>>
  PROVE  /\ Forward /\ Settled' = Settled /\ Kept' /\ RevisionsKnown'
BY DEF stores, Forward, Settled, Inv, Kept, RevisionsKnown

-----------------------------------------------------------------------------
(***************************************************************************)
(* The steps of an apply.                                                  *)
(***************************************************************************)
LEMMA WaitingMoves ==
  ASSUME Inv, lock = "free", NEW c \in Clients, NEW k \in ClientRecords,
         Waiting(k), LeaseKnown(k), client' = [client EXCEPT ![c] = k],
         UNCHANGED <<stores, bundling, lock, guard, rec, applies>>, EnvKnown'
  PROVE  Inv'
<1>1. guard = None /\ \A d \in Clients : lock # d /\ Waiting(client[d])
  BY FreeMeansFree
<1>2. Forward /\ RevisionsKnown' /\ Kept'
  BY StoresStay DEF bundling
<1>3. ClientKnown(k)'
  BY <1>2, WaitingKnown DEF Inv
<1>4. /\ client' \in [Clients -> ClientRecords] /\ client'[c] = k
      /\ \A d \in Clients \ {c} : client'[d] = client[d]
      /\ \A d \in Clients : ClientKnown(client[d])'
  BY <1>1, <1>2, <1>3, ClientMoves
<1>5. LockKnown'
  <2>1. \A d \in Clients : (lock' = d) <=> client'[d].step \in Holding
    BY <1>4, LockGiven
  <2> QED
    BY <2>1 DEF Inv, LockKnown, stores
<1>6. JournalKnown'
  BY <1>1, ClientsAssumption DEF Inv, JournalKnown, stores, LockKnown
<1> QED
  BY <1>2, <1>4, <1>5, <1>6 DEF Inv, StoreTypes, stores, bundling

LEMMA SightTyped ==
  ASSUME StoreTypes
  PROVE  /\ Sight \in Sights /\ Sight.bundle = active /\ Sight.issued = state.issued
         /\ Sight.rev = ViewOf(state, active).rev /\ active \in DOMAIN bundles
         /\ Sight.issued \in Nat
<1>1. active \in DOMAIN bundles /\ active \in Nat /\ state.issued \in Nat /\ draft \in Drafts
  BY DEF StoreTypes, Pointers
<1>2. ViewOf(state, active).rev \in Nat
  BY <1>1, ViewTyped
<1> QED
  BY <1>1, <1>2 DEF Sight, Sights, View

LEMMA LookStep ==
  ASSUME Inv, NEW c \in Clients, Look(c)
  PROVE  Inv'
<1> DEFINE k == [client[c] EXCEPT !.step = "looked", !.seen = Sight]
<1>1. client[c] \in ClientRecords /\ Sight \in Sights
  BY SightTyped DEF Inv
<1>2. client' = [client EXCEPT ![c] = k]
  BY <1>1 DEF Look, Inv
<1>3. k \in ClientRecords /\ k.step = "looked"
  BY <1>1 DEF ClientRecords, ClientSteps
<1> SUFFICES ASSUME NEW q \in ClientRecords, q = k PROVE Inv'
  BY <1>3
<1>4. client' = [client EXCEPT ![c] = q]
  BY <1>2
<1> HIDE DEF k
<1>5. Waiting(q) /\ LeaseKnown(q)
  BY <1>3 DEF Waiting, LeaseKnown
<1>6. /\ lock = "free" /\ EnvKnown'
      /\ UNCHANGED <<stores, bundling, lock, guard, rec, applies>>
  BY DEF Look, Inv, EnvKnown, counts
<1> QED
  BY <1>4, <1>5, <1>6, WaitingMoves

LEMMA LeaseStep ==
  ASSUME Inv, NEW c \in Clients, Lease(c)
  PROVE  Inv'
<1> DEFINE k == [client[c] EXCEPT !.step = "leased", !.lease = Sight]
<1>1. client[c] \in ClientRecords /\ Sight \in Sights
  BY SightTyped DEF Inv
<1>2. client' = [client EXCEPT ![c] = k]
  BY <1>1 DEF Lease, Inv
<1>3. k \in ClientRecords /\ k.step = "leased" /\ k.lease = Sight
  BY <1>1 DEF ClientRecords, ClientSteps
<1> SUFFICES ASSUME NEW q \in ClientRecords, q = k PROVE Inv'
  BY <1>3
<1>4. client' = [client EXCEPT ![c] = q]
  BY <1>2
<1> HIDE DEF k
<1>5. Waiting(q) /\ LeaseKnown(q)
  BY <1>3, SightTyped DEF Waiting, LeaseKnown, Inv
<1>6. /\ lock = "free" /\ EnvKnown'
      /\ UNCHANGED <<stores, bundling, lock, guard, rec, applies>>
  BY DEF Lease, Inv, EnvKnown, counts
<1> QED
  BY <1>4, <1>5, <1>6, WaitingMoves

LEMMA ConflictStep ==
  ASSUME Inv, NEW c \in Clients, Conflict(c)
  PROVE  Inv'
<1>1. /\ lock = "free" /\ EnvKnown' /\ client' = [client EXCEPT ![c] = IdleClient]
      /\ UNCHANGED <<stores, bundling, lock, guard, rec, applies>>
  BY DEF Conflict, Inv, EnvKnown, counts
<1> QED
  BY <1>1, IdleKnown, WaitingMoves DEF ClientKnown

\* The revision of an apply is higher than all that its bundle, the draft and
\* the row know of.
LEMMA NewRevisionHigher ==
  ASSUME Inv, NEW c \in Clients, client[c].lease.bundle \in DOMAIN bundles
  PROVE  /\ NewRevision(c) \in Nat /\ NewRevision(c) > state.issued
         /\ NewRevision(c) > bundles[client[c].lease.bundle].rev
<1>1. bundles[client[c].lease.bundle].rev \in Nat
  BY ViewTyped DEF Inv, Views
<1>2. state.issued \in Nat
  BY DEF Inv, StoreTypes, Pointers
<1>3. DraftRev \in Nat
  BY DEF DraftRev, Inv, StoreTypes, Drafts, SavedDrafts
<1> QED
  BY <1>1, <1>2, <1>3 DEF NewRevision, Larger

LEMMA BackupStep ==
  ASSUME Inv, NEW c \in Clients, NEW bg \in Images \cup {None}, Backup(c, bg)
  PROVE  Inv'
<1>1. /\ client[c].step = "leased" /\ lock = "free" /\ journal = None /\ Expected(c)
      /\ applies < MaxApplies
      /\ UNCHANGED <<draft, state, journal, bundling, guard, rec>>
  BY DEF Backup
<1>2. guard = None /\ \A d \in Clients : lock # d /\ Waiting(client[d])
  BY <1>1, FreeMeansFree
<1>3. client[c] \in ClientRecords /\ LeaseKnown(client[c])
  BY DEF Inv, ClientKnown
<1>4. CASE UNCHANGED <<backups, lock, applies>> /\ Fault
           /\ client' = [client EXCEPT ![c] = IdleClient]
  BY <1>1, <1>4, IdleKnown, WaitingMoves, FaultKnown DEF ClientKnown, stores, Inv
<1>5. CASE /\ lock' = c /\ applies' = applies + 1
           /\ backups' = backups \cup {[id |-> applies', raw |-> draft]}
           /\ client' = [client EXCEPT ![c].step = "backed", ![c].id = applies',
                                       ![c].rev = NewRevision(c), ![c].bg = bg,
                                       ![c].new = NewDraft(draft, NewRevision(c), bg)]
           /\ UNCHANGED env
  <2> DEFINE n == applies + 1
             r == NewRevision(c)
             new == NewDraft(draft, r, bg)
             k == [client[c] EXCEPT !.step = "backed", !.id = n, !.rev = r, !.bg = bg,
                                    !.new = new]
  <2>1. n \in 1..MaxApplies /\ n \in 0..MaxApplies /\ n # None /\ applies' = n
    BY <1>1, <1>5, BoundsAssumption, NoneAssumption DEF Inv, StoreTypes
  <2>2. client[c].lease.bundle \in DOMAIN bundles
    BY <1>1, <1>3 DEF LeaseKnown
  <2>3. r \in Nat /\ r > state.issued /\ r > bundles[client[c].lease.bundle].rev
    BY <2>2, NewRevisionHigher
  <2>4. new \in Drafts /\ draft \in Drafts
    BY <2>3 DEF NewDraft, Inv, StoreTypes, Drafts, SavedDrafts
  <2>5. client' = [client EXCEPT ![c] = k]
    BY <1>3, <1>5, <2>1 DEF Inv
  <2>6. new = NewDraft(draft, r, bg)
    OBVIOUS
  <2> HIDE DEF n, r, new
  <2>7. /\ k \in ClientRecords /\ k.step = "backed" /\ k.id = n /\ k.rev = r /\ k.bg = bg
        /\ k.new = new /\ k.seen = client[c].seen /\ k.lease = client[c].lease
    BY <1>3, <2>1, <2>3, <2>4 DEF ClientRecords, ClientSteps
  <2>8. Forward
    BY <1>1 DEF Forward, bundling
  <2>9. Settled = draft /\ Settled' = draft /\ draft' = draft
    BY <1>1 DEF Settled
  <2> SUFFICES ASSUME NEW q \in ClientRecords, q = k PROVE Inv'
    BY <2>7
  <2>10. client' = [client EXCEPT ![c] = q]
    BY <2>5
  <2> HIDE DEF k
  <2>11. LeaseKnown(q)'
    BY <2>7 DEF LeaseKnown
  <2>12. ApplyKnown(q)'
    <3>1. /\ q.lease.bundle \in DOMAIN bundles /\ q.seen.bundle = q.lease.bundle
          /\ q.seen.rev = ViewOf(state, q.lease.bundle).rev /\ q.seen.draft = draft
      BY <1>1, <1>3, <2>7 DEF Expected, LeaseKnown
    <3>2. q.rev \in Nat /\ q.rev > state.issued /\ q.id # None
          /\ q.rev > bundles[q.lease.bundle].rev
      BY <2>1, <2>3, <2>7
    <3>3. q.new = NewDraft(draft, q.rev, q.bg)
      BY <2>6, <2>7
    <3> QED
      BY <1>1, <2>9, <3>1, <3>2, <3>3 DEF ApplyKnown, NewDraft, ViewOf, Bound, bundling
  <2>13. WritesKnown(q)'
    <3>1. [id |-> q.id, raw |-> draft] \in backups'
      BY <1>5, <2>1, <2>7
    <3> QED
      BY <1>1, <2>7, <3>1 DEF WritesKnown
  <2>14. /\ client' \in [Clients -> ClientRecords] /\ client'[c] = q
         /\ \A d \in Clients \ {c} : client'[d] = client[d]
         /\ \A d \in Clients : ClientKnown(client[d])'
    BY <1>2, <2>8, <2>10, <2>11, <2>12, <2>13, ClientMoves DEF ClientKnown
  <2>15. \A d \in Clients : (lock' = d) <=> client'[d].step \in Holding
    BY <1>1, <1>5, <2>7, <2>14, LockTaken DEF Holding
  <2>16. LockKnown'
    BY <1>1, <1>2, <1>5, <2>15 DEF Inv, LockKnown
  <2>17. StoreTypes'
    BY <1>1, <1>5, <2>1, <2>4 DEF Inv, StoreTypes, bundling
  <2>18. JournalKnown'
    BY <1>1, <1>2 DEF Inv, LockKnown, JournalKnown
  <2>19. RevisionsKnown' /\ Kept'
    BY <1>1, <2>9 DEF Inv, RevisionsKnown, Kept, bundling
  <2>20. EnvKnown'
    BY <1>5 DEF Inv, EnvKnown
  <2> QED
    BY <2>14, <2>16, <2>17, <2>18, <2>19, <2>20 DEF Inv
<1> QED
  BY <1>4, <1>5 DEF Backup

LEMMA Holds ==
  ASSUME Inv, NEW c \in Clients, client[c].step \in Holding
  PROVE  /\ lock = c /\ \A d \in Clients \ {c} : lock # d /\ Waiting(client[d])
         /\ client[c].step \notin {"guarded", "written"} => guard = None
         /\ client[c].step \in {"guarded", "written"} => guard = c
         /\ client[c].step # "failed" => rec = "no"
<1>1. lock = c
  BY DEF Inv, LockKnown
<1>2. \A d \in Clients \ {c} : lock # d /\ Waiting(client[d])
  BY <1>1, OthersWait
<1>3. client[c].step \notin {"guarded", "written"} => guard = None
  BY <1>1 DEF Inv, LockKnown, JournalKnown
<1>4. client[c].step \in {"guarded", "written"} => guard = c
  BY <1>1 DEF Inv, LockKnown, ClientKnown, WritesKnown
<1>5. client[c].step # "failed" => rec = "no"
  BY <1>1 DEF Inv, LockKnown, JournalKnown
<1> QED
  BY <1>1, <1>2, <1>3, <1>4, <1>5

\* The holder goes on, or gives the lock back.
LEMMA HolderMoves ==
  ASSUME Inv, NEW c \in Clients, client[c].step \in Holding, NEW k \in ClientRecords,
         ClientKnown(k)', Forward, client' = [client EXCEPT ![c] = k],
         (k.step \in Holding /\ lock' = c) \/ (Waiting(k) /\ lock' = "free")
  PROVE  /\ client' \in [Clients -> ClientRecords] /\ client'[c] = k
         /\ \A d \in Clients : ClientKnown(client[d])'
         /\ \A d \in Clients : (lock' = d) <=> client'[d].step \in Holding
<1>1. /\ client' \in [Clients -> ClientRecords] /\ client'[c] = k
      /\ \A d \in Clients \ {c} : client'[d] = client[d]
      /\ \A d \in Clients : ClientKnown(client[d])'
  BY ClientMoves, Holds
<1> QED
  BY <1>1, Holds, LockKept, LockGiven

LEMMA JournalTyped ==
  ASSUME Inv, NEW c \in Clients, client[c].step = "backed"
  PROVE  /\ JournalOf(c) \in Journals /\ JournalOf(c) # None
         /\ JournalOf(c).old = draft /\ JournalOf(c).new = client[c].new
         /\ JournalOf(c).pointer = state
         /\ [id |-> JournalOf(c).id, raw |-> draft] \in backups
<1>1. client[c] \in ClientRecords /\ ApplyKnown(client[c]) /\ WritesKnown(client[c])
  BY DEF Inv, ClientKnown
<1>2. client[c].id \in 1..MaxApplies /\ client[c].new \in Drafts
  BY <1>1 DEF ClientRecords, ApplyKnown
<1>3. draft \in Drafts /\ state \in Pointers
  BY DEF Inv, StoreTypes
<1>4. JournalOf(c) \in Journals
  BY <1>2, <1>3 DEF JournalOf, Journals
<1>5. JournalOf(c) # None
  BY <1>4, NoneAssumption
<1> QED
  BY <1>1, <1>4, <1>5 DEF JournalOf, WritesKnown

\* What is known of an apply rests on stores that stay.
LEMMA ApplyCarries ==
  ASSUME NEW p \in ClientRecords, NEW q \in ClientRecords, ApplyKnown(p),
         p.step \in {"backed", "journaled", "guarded", "written"},
         q.lease = p.lease, q.seen = p.seen, q.rev = p.rev, q.id = p.id, q.new = p.new,
         q.bg = p.bg, Settled' = Settled, UNCHANGED state, Forward
  PROVE  ApplyKnown(q)'
BY DEF ApplyKnown, NewDraft, ViewOf, Bound, Forward

LEMMA WriteJournalStep ==
  ASSUME Inv, NEW c \in Clients, WriteJournal(c)
  PROVE  Inv'
<1>1. client[c].step = "backed" /\ journal = None /\ rec = "no" /\ guard = None
  BY Holds DEF WriteJournal, Inv, ClientKnown, WritesKnown, Holding
<1>2. UNCHANGED <<draft, state, backups, bundling, guard, rec>>
  BY DEF WriteJournal
<1>3. client[c] \in ClientRecords /\ ClientKnown(client[c])
  BY DEF Inv
<1>4. /\ JournalOf(c) \in Journals /\ JournalOf(c) # None
      /\ JournalOf(c).old = draft /\ JournalOf(c).new = client[c].new
      /\ JournalOf(c).pointer = state /\ [id |-> JournalOf(c).id, raw |-> draft] \in backups
  BY <1>1, JournalTyped
<1>5. journal' \in {None, JournalOf(c)} /\ UNCHANGED applies
  BY DEF WriteJournal, counts
<1>6. Settled' = Settled /\ Settled = draft /\ Forward
  BY <1>1, <1>2, <1>4, <1>5 DEF Settled, Forward, bundling
<1>7. StoreTypes' /\ RevisionsKnown' /\ Kept'
  BY <1>2, <1>4, <1>5, <1>6 DEF Inv, StoreTypes, RevisionsKnown, Kept, bundling
<1>8. JournalKnown'
  BY <1>1, <1>2, <1>4, <1>5 DEF JournalKnown
<1>9. CASE /\ journal' = JournalOf(c) /\ UNCHANGED <<lock, counts>>
           /\ client' = [client EXCEPT ![c].step = "journaled"]
  <2> DEFINE k == [client[c] EXCEPT !.step = "journaled"]
  <2>1. client' = [client EXCEPT ![c] = k]
    BY <1>9
  <2>2. /\ k \in ClientRecords /\ k.step = "journaled" /\ k.id = client[c].id
        /\ k.rev = client[c].rev /\ k.new = client[c].new
        /\ k.seen = client[c].seen /\ k.lease = client[c].lease /\ k.bg = client[c].bg
    BY <1>3 DEF ClientRecords, ClientSteps
  <2> SUFFICES ASSUME NEW q \in ClientRecords, q = k PROVE Inv'
    BY <2>2
  <2>3. client' = [client EXCEPT ![c] = q]
    BY <2>1
  <2> HIDE DEF k
  <2>4. LeaseKnown(q)' /\ WritesKnown(q)'
    BY <1>2, <1>4, <1>9, <2>2 DEF LeaseKnown, WritesKnown
  <2>5. ApplyKnown(q)'
    <3>1. PICK p \in ClientRecords : p = client[c]
      BY <1>3
    <3>2. /\ ApplyKnown(p) /\ p.step = "backed" /\ q.lease = p.lease /\ q.seen = p.seen
          /\ q.rev = p.rev /\ q.id = p.id /\ q.new = p.new /\ q.bg = p.bg
      BY <1>1, <1>3, <2>2, <3>1 DEF ClientKnown
    <3> QED
      BY <1>2, <1>6, <3>2, ApplyCarries DEF bundling
  <2>6. lock' = c /\ EnvKnown'
    BY <1>1, <1>9, Holds DEF Inv, EnvKnown, counts, Holding
  <2>7. /\ client' \in [Clients -> ClientRecords]
        /\ \A d \in Clients : ClientKnown(client[d])'
        /\ \A d \in Clients : (lock' = d) <=> client'[d].step \in Holding
    BY <1>1, <1>6, <2>2, <2>3, <2>4, <2>5, <2>6, HolderMoves DEF ClientKnown, Holding
  <2>8. LockKnown'
    BY <1>1, <1>2, <2>6, <2>7 DEF LockKnown
  <2> QED
    BY <1>7, <1>8, <2>6, <2>7, <2>8 DEF Inv
<1>10. CASE Fault /\ Release(c)
  <2>1. /\ client' = [client EXCEPT ![c] = IdleClient] /\ lock' = "free" /\ EnvKnown'
    BY <1>10, FaultKnown DEF Inv, Release
  <2>2. /\ client' \in [Clients -> ClientRecords]
        /\ \A d \in Clients : ClientKnown(client[d])'
        /\ \A d \in Clients : (lock' = d) <=> client'[d].step \in Holding
    BY <1>1, <1>6, <2>1, IdleKnown, HolderMoves DEF Holding
  <2>3. LockKnown'
    BY <1>1, <1>2, <2>1, <2>2 DEF LockKnown
  <2> QED
    BY <1>7, <1>8, <2>1, <2>2, <2>3 DEF Inv
<1> QED
  BY <1>9, <1>10 DEF WriteJournal

\* The holder's step moves, and nothing else of it: what is known of the apply
\* depends on stores that stay.
LEMMA StepMoves ==
  ASSUME Inv, NEW c \in Clients, client[c].step \in Holding,
         NEW to \in Holding, client' = [client EXCEPT ![c].step = to], lock' = lock,
         Forward,
         \A q \in ClientRecords :
           q.step = to /\ q.new = client[c].new /\ q.lease = client[c].lease => WritesKnown(q)',
         \/ to \in {"committed", "failed"}
         \/ /\ to \in {"guarded", "written"} /\ client[c].step \in {"journaled", "guarded"}
            /\ Settled' = Settled /\ UNCHANGED <<state, bundles>>
  PROVE  /\ client' \in [Clients -> ClientRecords] /\ client'[c].step = to
         /\ \A d \in Clients : ClientKnown(client[d])'
         /\ \A d \in Clients : (lock' = d) <=> client'[d].step \in Holding
<1> DEFINE k == [client[c] EXCEPT !.step = to]
<1>1. client[c] \in ClientRecords /\ ClientKnown(client[c])
  BY DEF Inv
<1>2. client' = [client EXCEPT ![c] = k]
  OBVIOUS
<1>3. /\ k \in ClientRecords /\ k.step = to /\ k.id = client[c].id
      /\ k.rev = client[c].rev /\ k.new = client[c].new
      /\ k.seen = client[c].seen /\ k.lease = client[c].lease /\ k.bg = client[c].bg
  BY <1>1 DEF ClientRecords, ClientSteps, Holding
<1> SUFFICES ASSUME NEW q \in ClientRecords, q = k
             PROVE  /\ client' \in [Clients -> ClientRecords] /\ client'[c].step = to
                    /\ \A d \in Clients : ClientKnown(client[d])'
                    /\ \A d \in Clients : (lock' = d) <=> client'[d].step \in Holding
  BY <1>3
<1>4. client' = [client EXCEPT ![c] = q] /\ q.step = to
  BY <1>2, <1>3
<1>5. LeaseKnown(q)'
  BY <1>4 DEF LeaseKnown, Holding
<1>6. ApplyKnown(q)'
  <2>1. CASE to \in {"committed", "failed"}
    BY <1>4, <2>1 DEF ApplyKnown
  <2>2. CASE to \notin {"committed", "failed"}
    <3>1. PICK p \in ClientRecords : p = client[c]
      BY <1>1
    <3>2. /\ ApplyKnown(p) /\ p.step \in {"journaled", "guarded"} /\ q.lease = p.lease
          /\ q.seen = p.seen /\ q.rev = p.rev /\ q.id = p.id /\ q.new = p.new /\ q.bg = p.bg
      BY <1>1, <1>3, <2>2, <3>1 DEF ClientKnown
    <3>3. Settled' = Settled /\ UNCHANGED state
      BY <2>2
    <3> QED
      BY <3>2, <3>3, ApplyCarries
  <2> QED
    BY <2>1, <2>2
<1>7. WritesKnown(q)'
  BY <1>3
<1>8. lock' = c
  BY Holds
<1>9. ClientKnown(q)'
  BY <1>5, <1>6, <1>7 DEF ClientKnown
<1> HIDE DEF k
<1> QED
  BY <1>4, <1>8, <1>9, HolderMoves

LEMMA GuardStep ==
  ASSUME Inv, NEW c \in Clients, Guard(c)
  PROVE  Inv'
<1>1. /\ client[c].step = "journaled" /\ client[c].step \in Holding
      /\ UNCHANGED <<stores, bundling, lock, rec, counts>>
  BY DEF Guard, Holding
<1>2. lock = c /\ rec = "no"
  BY <1>1, Holds
<1>3. WritesKnown(client[c])
  BY DEF Inv, ClientKnown
<1>4. Settled' = Settled /\ Forward /\ Kept' /\ RevisionsKnown'
  BY <1>1, StoresStay DEF bundling
<1>5. StoreTypes' /\ EnvKnown'
  BY <1>1 DEF Inv, StoreTypes, EnvKnown, stores, bundling, counts
<1>6. CASE /\ active = client[c].lease.bundle /\ guard' = c
           /\ client' = [client EXCEPT ![c].step = "guarded"]
  <2>1. \A q \in ClientRecords :
          q.step = "guarded" /\ q.new = client[c].new /\ q.lease = client[c].lease
            => WritesKnown(q)'
    BY <1>1, <1>3, <1>6, NoneAssumption DEF WritesKnown, stores, bundling
  <2>2. /\ client' \in [Clients -> ClientRecords] /\ client'[c].step = "guarded"
        /\ \A d \in Clients : ClientKnown(client[d])'
        /\ \A d \in Clients : (lock' = d) <=> client'[d].step \in Holding
    BY <1>1, <1>4, <1>6, <2>1, StepMoves DEF Holding, stores, bundling
  <2>3. LockKnown'
    BY <1>1, <1>2, <1>6, <2>2 DEF Inv, LockKnown, stores
  <2>4. JournalKnown'
    BY <1>1, <1>2, <1>6, <2>2 DEF Inv, JournalKnown, stores
  <2> QED
    BY <1>4, <1>5, <2>2, <2>3, <2>4 DEF Inv
<1>7. CASE guard' = guard /\ client' = [client EXCEPT ![c].step = "failed"]
  <2>1. \A q \in ClientRecords :
          q.step = "failed" /\ q.new = client[c].new /\ q.lease = client[c].lease
            => WritesKnown(q)'
    BY DEF WritesKnown
  <2>2. /\ client' \in [Clients -> ClientRecords] /\ client'[c].step = "failed"
        /\ \A d \in Clients : ClientKnown(client[d])'
        /\ \A d \in Clients : (lock' = d) <=> client'[d].step \in Holding
    BY <1>1, <1>4, <1>7, <2>1, StepMoves DEF Holding
  <2>3. LockKnown'
    BY <1>1, <1>2, <1>7, <2>2 DEF Inv, LockKnown, stores
  <2>4. JournalKnown'
    BY <1>1, <1>2, <1>7, <2>2, Holds DEF Inv, JournalKnown, stores
  <2> QED
    BY <1>4, <1>5, <2>2, <2>3, <2>4 DEF Inv
<1> QED
  BY <1>6, <1>7 DEF Guard

LEMMA WriteDraftStep ==
  ASSUME Inv, NEW c \in Clients, WriteDraft(c)
  PROVE  Inv'
<1>1. /\ client[c].step = "guarded" /\ client[c].step \in Holding
      /\ UNCHANGED <<state, journal, backups, bundling, lock, rec>>
  BY DEF WriteDraft, Holding
<1>2. lock = c /\ rec = "no" /\ guard = c
  BY <1>1, Holds
<1>3. /\ client[c] \in ClientRecords /\ WritesKnown(client[c]) /\ ApplyKnown(client[c])
      /\ journal # None /\ journal.new = client[c].new /\ draft = journal.old
  BY <1>1 DEF Inv, ClientKnown, WritesKnown
<1>4. Settled' = Settled /\ Settled = draft /\ Forward
  BY <1>1, <1>3 DEF Settled, Forward, bundling
<1>5. Kept'
  BY <1>1, <1>4 DEF Inv, Kept, bundling
<1>6. CASE /\ draft' = IF client[c].new = None THEN draft ELSE client[c].new
           /\ client' = [client EXCEPT ![c].step = "written"] /\ UNCHANGED <<guard, counts>>
  <2>1. client[c].new = NewDraft(draft, client[c].rev, client[c].bg)
    BY <1>1, <1>3, <1>4 DEF ApplyKnown
  <2>2. draft' = client[c].new /\ draft' \in Drafts
    <3>1. draft \in Drafts /\ client[c].new \in Drafts
      BY <1>3 DEF Inv, StoreTypes, ClientRecords
    <3>2. client[c].new = None <=> draft = None
      <4>1. CASE draft \in SavedDrafts
        <5>1. /\ client[c].rev \in Nat /\ client[c].bg \in Images \cup {None}
          BY <1>1, <1>3 DEF ApplyKnown, ClientRecords
        <5>2. [draft EXCEPT !.rev = client[c].rev, !.bg = client[c].bg] \in SavedDrafts
          BY <4>1, <5>1 DEF SavedDrafts
        <5> QED
          BY <2>1, <4>1, <5>2, NoneAssumption DEF NewDraft
      <4> QED
        BY <2>1, <3>1, <4>1 DEF NewDraft, Drafts
    <3> QED
      BY <1>6, <3>1, <3>2
  <2>3. \A q \in ClientRecords :
          q.step = "written" /\ q.new = client[c].new /\ q.lease = client[c].lease
            => WritesKnown(q)'
    BY <1>1, <1>2, <1>3, <1>6, <2>2 DEF WritesKnown, bundling
  <2>4. /\ client' \in [Clients -> ClientRecords] /\ client'[c].step = "written"
        /\ \A d \in Clients : ClientKnown(client[d])'
        /\ \A d \in Clients : (lock' = d) <=> client'[d].step \in Holding
    BY <1>1, <1>4, <1>6, <2>3, StepMoves DEF Holding, bundling
  <2>5. LockKnown'
    BY <1>1, <1>2, <1>6, <2>4 DEF Inv, LockKnown
  <2>6. JournalKnown'
    BY <1>1, <1>2, <1>6, <2>4 DEF Inv, JournalKnown
  <2>7. StoreTypes' /\ EnvKnown'
    BY <1>1, <1>6, <2>2 DEF Inv, StoreTypes, EnvKnown, bundling, counts
  <2>8. RevisionsKnown'
    BY <1>1, <1>4, <2>2 DEF Inv, RevisionsKnown, bundling
  <2> QED
    BY <1>5, <2>4, <2>5, <2>6, <2>7, <2>8 DEF Inv
<1>7. CASE /\ Fault /\ client' = [client EXCEPT ![c].step = "failed"] /\ guard' = None
           /\ UNCHANGED <<draft, applies>>
  <2>1. \A q \in ClientRecords :
          q.step = "failed" /\ q.new = client[c].new /\ q.lease = client[c].lease
            => WritesKnown(q)'
    BY DEF WritesKnown
  <2>2. /\ client' \in [Clients -> ClientRecords] /\ client'[c].step = "failed"
        /\ \A d \in Clients : ClientKnown(client[d])'
        /\ \A d \in Clients : (lock' = d) <=> client'[d].step \in Holding
    BY <1>1, <1>4, <1>7, <2>1, StepMoves DEF Holding
  <2>3. LockKnown'
    BY <1>1, <1>2, <1>7, <2>2 DEF Inv, LockKnown
  <2>4. JournalKnown'
    BY <1>1, <1>2, <1>7, <2>2 DEF Inv, JournalKnown
  <2>5. StoreTypes' /\ EnvKnown'
    BY <1>1, <1>7, FaultKnown DEF Inv, StoreTypes, bundling
  <2>6. RevisionsKnown'
    BY <1>1, <1>4, <1>7 DEF Inv, RevisionsKnown, bundling
  <2> QED
    BY <1>5, <2>2, <2>3, <2>4, <2>5, <2>6 DEF Inv
<1> QED
  BY <1>6, <1>7 DEF WriteDraft

\* At its commit the row that an apply publishes is higher than the last one
\* and than its bundle's own, and its draft is the one that was meant, with
\* the scene of the row.
LEMMA PublishedAgrees ==
  ASSUME Inv, NEW c \in Clients, client[c].step = "written"
  PROVE  /\ Published(c) \in Pointers
         /\ Published(c).issued = client[c].rev /\ Published(c).rev = client[c].rev
         /\ Published(c).bg = client[c].bg /\ Published(c).source = client[c].lease.bundle
         /\ client[c].lease.bundle \in DOMAIN bundles
         /\ client[c].rev > bundles[client[c].lease.bundle].rev
         /\ client[c].rev \in Nat /\ client[c].rev > state.issued
         /\ draft = NewDraft(meant, client[c].rev, client[c].bg) /\ draft \in Drafts
<1>1. client[c] \in ClientRecords /\ WritesKnown(client[c]) /\ ApplyKnown(client[c])
  BY DEF Inv, ClientKnown
<1>2. /\ client[c].rev \in Nat /\ client[c].rev > state.issued
      /\ client[c].rev > bundles[client[c].lease.bundle].rev
      /\ client[c].bg \in Images \cup {None} /\ client[c].lease.bundle \in DOMAIN bundles
      /\ draft = client[c].new /\ client[c].new = NewDraft(Settled, client[c].rev, client[c].bg)
  BY <1>1 DEF ApplyKnown, WritesKnown, ClientRecords
<1>3. client[c].lease.bundle \in Nat /\ bundles[client[c].lease.bundle].rev \in Nat
  <2>1. bundles \in Seq(Views)
    BY DEF Inv, StoreTypes
  <2> QED
    BY <1>2, <2>1, ViewTyped DEF Inv, Views
<1>4. /\ Published(c) \in Pointers
      /\ Published(c).issued = client[c].rev /\ Published(c).rev = client[c].rev
      /\ Published(c).bg = client[c].bg /\ Published(c).source = client[c].lease.bundle
  BY <1>2, <1>3 DEF Published, Pointers
<1> QED
  BY <1>2, <1>4 DEF Inv, Kept, StoreTypes

LEMMA CommitPointerStep ==
  ASSUME Inv, NEW c \in Clients, CommitPointer(c)
  PROVE  Inv'
<1>1. /\ client[c].step = "written" /\ client[c].step \in Holding
      /\ guard' = None
      /\ UNCHANGED <<draft, backups, bundles, active, build, lock, rec>>
  BY DEF CommitPointer, Holding
<1>2. lock = c /\ rec = "no"
  BY <1>1, Holds
<1>3. PICK to \in {"committed", "failed"} :
        /\ client' = [client EXCEPT ![c].step = to] /\ UNCHANGED applies /\ EnvKnown'
        /\ \/ state' = Published(c) /\ journal' = None /\ Means(c)
           \/ to = "failed" /\ UNCHANGED <<state, journal, meant>>
  BY FaultKnown DEF CommitPointer, Inv, EnvKnown, counts
<1>4. \A q \in ClientRecords :
        q.step = to /\ q.new = client[c].new /\ q.lease = client[c].lease => WritesKnown(q)'
  BY <1>3 DEF WritesKnown
<1>5. Forward
  BY <1>1, <1>3, PublishedAgrees DEF Forward
<1>6. /\ client' \in [Clients -> ClientRecords] /\ client'[c].step = to
      /\ \A d \in Clients : ClientKnown(client[d])'
      /\ \A d \in Clients : (lock' = d) <=> client'[d].step \in Holding
  <2>1. to \in Holding /\ lock' = lock
    BY <1>1 DEF Holding
  <2> QED
    BY <1>1, <1>3, <1>4, <1>5, <2>1, StepMoves
<1>7. LockKnown'
  BY <1>1, <1>2, <1>6 DEF Inv, LockKnown
<1>8. JournalKnown'
  BY <1>1, <1>2, <1>3 DEF Inv, JournalKnown
<1>9. StoreTypes'
  BY <1>1, <1>3, PublishedAgrees DEF Inv, StoreTypes
<1>10. RevisionsKnown' /\ Kept'
  <2>1. CASE state' = Published(c) /\ journal' = None /\ Means(c)
    <3>1. Settled' = draft
      BY <1>1, <2>1 DEF Settled
    <3> QED
      BY <1>1, <2>1, <3>1, PublishedAgrees DEF RevisionsKnown, Kept, Means
  <2>2. CASE UNCHANGED <<state, journal, meant>>
    BY <1>1, <2>2, StoresStay DEF stores
  <2> QED
    BY <1>3, <2>1, <2>2
<1> QED
  BY <1>3, <1>6, <1>7, <1>8, <1>9, <1>10 DEF Inv

LEMMA FinishStep ==
  ASSUME Inv, NEW c \in Clients, Finish(c)
  PROVE  Inv'
<1>1. /\ client[c].step \in {"committed", "failed"} /\ client[c].step \in Holding
      /\ client' = [client EXCEPT ![c] = IdleClient] /\ lock' = "free"
      /\ backups' \subseteq backups
      /\ UNCHANGED <<draft, state, journal, bundling, guard, rec, counts>>
  BY DEF Finish, Failed, Holding, Release
<1>2. lock = c /\ guard = None
  BY <1>1, Holds
<1>3. journal = None /\ rec = "no"
  BY <1>1 DEF Finish, Failed, Inv, ClientKnown, WritesKnown, LockKnown
<1>4. Settled' = Settled /\ Forward
  BY <1>1 DEF Settled, Forward, bundling
<1>5. /\ client' \in [Clients -> ClientRecords]
      /\ \A d \in Clients : ClientKnown(client[d])'
      /\ \A d \in Clients : (lock' = d) <=> client'[d].step \in Holding
  BY <1>1, <1>4, IdleKnown, HolderMoves
<1>6. LockKnown' /\ JournalKnown'
  BY <1>1, <1>2, <1>3, <1>5 DEF Inv, LockKnown, JournalKnown
<1>7. StoreTypes' /\ EnvKnown' /\ RevisionsKnown' /\ Kept'
  BY <1>1, <1>4 DEF Inv, StoreTypes, EnvKnown, RevisionsKnown, Kept, bundling, counts
<1> QED
  BY <1>5, <1>6, <1>7 DEF Inv

LEMMA ApplyStep ==
  ASSUME Inv, NEW c \in Clients, Apply(c)
  PROVE  Inv'
BY LookStep, LeaseStep, ConflictStep, BackupStep, WriteJournalStep, GuardStep, WriteDraftStep,
   CommitPointerStep, FinishStep DEF Apply

-----------------------------------------------------------------------------
(***************************************************************************)
(* Recovery, the draft's other uses and the bundles.                       *)
(***************************************************************************)
\* A recovery is done by whoever finds the lock free, or by the holder whose
\* apply has failed; nobody is inside the manager's lock.
LEMMA Recoverer ==
  ASSUME Inv, \/ lock = "free" \/ \E c \in Clients : Failed(c)
              \/ rec = "restored"
  PROVE  /\ guard = None
         /\ lock \in {"free", "reader"} \/ (lock \in Clients /\ client[lock].step = "failed")
         /\ \A d \in Clients : client[d].step = "failed" \/ Waiting(client[d])
<1>1. lock \in {"free", "reader"} \/ (lock \in Clients /\ client[lock].step = "failed")
  BY DEF Inv, LockKnown, JournalKnown, Failed
<1>2. ASSUME NEW d \in Clients PROVE client[d].step = "failed" \/ Waiting(client[d])
  <2>1. CASE lock = d
    BY <1>1, <2>1, ClientsAssumption
  <2>2. CASE lock # d
    BY <2>2, OthersWait
  <2> QED
    BY <2>1, <2>2
<1>3. guard = None
  BY <1>1, ClientsAssumption DEF Inv, LockKnown, JournalKnown
<1> QED
  BY <1>1, <1>2, <1>3

\* Clients that wait or have failed stay known.
LEMMA ClientsStay ==
  ASSUME Inv, client' = client, Forward,
         \A d \in Clients : client[d].step = "failed" \/ Waiting(client[d])
  PROVE  \A d \in Clients : ClientKnown(client[d])'
<1>1. \A q \in ClientRecords : Waiting(q) /\ ClientKnown(q) => ClientKnown(q)'
  BY WaitingKnown DEF Inv, ClientKnown
<1> SUFFICES ASSUME NEW d \in Clients PROVE ClientKnown(client[d])'
  OBVIOUS
<1>2. PICK q \in ClientRecords : q = client[d] /\ q = client'[d]
  BY DEF Inv
<1>3. CASE Waiting(q)
  <2>1. LeaseKnown(q)'
    BY <1>1, <1>2, <1>3 DEF Inv, ClientKnown
  <2>2. LeaseKnown(client[d])'
    BY <1>2, <2>1 DEF LeaseKnown, ViewOf, Bound
  <2> QED
    BY <1>2, <1>3, <2>2 DEF Waiting, ClientKnown, ApplyKnown, WritesKnown
<1>4. CASE q.step = "failed"
  BY <1>2, <1>4 DEF ClientKnown, LeaseKnown, ApplyKnown, WritesKnown
<1> QED
  BY <1>2, <1>3, <1>4

\* All requests but those that wait are gone: the holder's, or everyone's.
LEMMA ClientsLeave ==
  ASSUME Inv, Forward, lock' = "free", guard' = None, rec' = "no",
         client' \in [Clients -> ClientRecords],
         \A d \in Clients : client'[d] = IdleClient \/ (client'[d] = client[d] /\ lock # d)
  PROVE  /\ \A d \in Clients : ClientKnown(client[d])'
         /\ LockKnown'
<1>1. \A q \in ClientRecords : Waiting(q) /\ ClientKnown(q) => ClientKnown(q)'
  BY WaitingKnown DEF Inv, ClientKnown
<1>2. ASSUME NEW d \in Clients PROVE ClientKnown(client[d])' /\ Waiting(client'[d])
  <2>1. Waiting(client'[d])
    BY IdleKnown, OthersWait
  <2>2. PICK q \in ClientRecords : q = client'[d]
    OBVIOUS
  <2>3. LeaseKnown(q)'
    BY <1>1, <2>1, <2>2, IdleKnown DEF Inv, ClientKnown
  <2>4. LeaseKnown(client[d])'
    BY <2>2, <2>3 DEF LeaseKnown, ViewOf, Bound
  <2> QED
    BY <2>1, <2>4 DEF Waiting, ClientKnown, ApplyKnown, WritesKnown
<1>3. LockKnown'
  BY <1>2, ClientsAssumption DEF LockKnown, Waiting, Holding
<1> QED
  BY <1>2, <1>3

LEMMA RecoveryFailsStep ==
  ASSUME Inv, Fault, RecoveryFails, lock = "free" \/ (\E c \in Clients : Failed(c)) \/ rec = "restored",
         UNCHANGED <<stores, bundling, guard, applies>>
  PROVE  Inv'
<1>1. guard = None
  BY Recoverer
<1>2. Forward /\ RevisionsKnown' /\ Kept'
  BY StoresStay DEF bundling
<1>3. client' \in [Clients -> ClientRecords]
  BY IdleKnown DEF RecoveryFails, Inv
<1>4. LockKnown' /\ \A d \in Clients : ClientKnown(client[d])'
  BY <1>1, <1>2, <1>3, ClientsLeave DEF RecoveryFails
<1>5. JournalKnown'
  BY <1>1 DEF Inv, JournalKnown, RecoveryFails, stores
<1> QED
  BY <1>2, <1>3, <1>4, <1>5, FaultKnown DEF Inv, StoreTypes, stores, bundling

LEMMA RestoreStep ==
  ASSUME Inv, Restore
  PROVE  Inv'
<1>1. /\ journal # None /\ rec = "no" /\ Recoverable
      /\ lock = "free" \/ \E c \in Clients : Failed(c)
      /\ UNCHANGED <<state, journal, backups, bundling, guard>>
  BY DEF Restore
<1>2. CASE Fault /\ RecoveryFails /\ UNCHANGED <<draft, applies>>
  BY <1>1, <1>2, RecoveryFailsStep DEF stores
<1>3. CASE /\ draft' = journal.old /\ lock' = IF lock = "free" THEN "reader" ELSE lock
           /\ rec' = "restored" /\ UNCHANGED <<client, counts>>
  <2>1. /\ guard = None
        /\ lock \in {"free", "reader"} \/ (lock \in Clients /\ client[lock].step = "failed")
        /\ \A d \in Clients : client[d].step = "failed" \/ Waiting(client[d])
    BY <1>1, Recoverer
  <2>2. Settled' = Settled /\ Settled = journal.old /\ draft' \in Drafts /\ Forward
    BY <1>1, <1>3 DEF Settled, Forward, bundling, Inv, StoreTypes, Journals
  <2>3. \A d \in Clients : ClientKnown(client[d])'
    BY <1>3, <2>1, <2>2, ClientsStay
  <2>4. LockKnown'
    BY <1>1, <1>3, <2>1, ClientsAssumption DEF Inv, LockKnown
  <2>5. JournalKnown'
    BY <1>1, <1>3, <2>1, ClientsAssumption DEF Inv, JournalKnown
  <2>6. StoreTypes' /\ EnvKnown'
    BY <1>1, <1>3, <2>2 DEF Inv, StoreTypes, EnvKnown, bundling, counts
  <2>7. RevisionsKnown' /\ Kept'
    BY <1>1, <1>3, <2>2 DEF Inv, RevisionsKnown, Kept, bundling
  <2> QED
    BY <1>3, <2>3, <2>4, <2>5, <2>6, <2>7 DEF Inv
<1> QED
  BY <1>2, <1>3 DEF Restore

LEMMA ClearJournalStep ==
  ASSUME Inv, ClearJournal
  PROVE  Inv'
<1>1. rec = "restored" /\ UNCHANGED <<draft, state, bundling, guard>>
  BY DEF ClearJournal
<1>2. CASE Fault /\ RecoveryFails /\ UNCHANGED <<journal, backups, applies>>
  BY <1>1, <1>2, RecoveryFailsStep DEF stores
<1>3. CASE /\ journal' = None /\ backups' \subseteq backups /\ rec' = "no"
           /\ lock' = IF lock = "reader" THEN "free" ELSE lock
           /\ UNCHANGED <<client, counts>>
  <2>1. /\ guard = None
        /\ lock \in {"free", "reader"} \/ (lock \in Clients /\ client[lock].step = "failed")
        /\ \A d \in Clients : client[d].step = "failed" \/ Waiting(client[d])
    BY <1>1, Recoverer
  <2>2. journal # None /\ draft = journal.old
    BY <1>1 DEF Inv, LockKnown, JournalKnown
  <2>3. Settled' = Settled /\ Settled = draft /\ Forward
    BY <1>1, <1>3, <2>2 DEF Settled, Forward, bundling
  <2>4. \A d \in Clients : ClientKnown(client[d])'
    BY <1>3, <2>1, <2>3, ClientsStay
  <2>5. LockKnown'
    BY <1>1, <1>3, <2>1, ClientsAssumption DEF Inv, LockKnown
  <2>6. JournalKnown'
    BY <1>1, <1>3, <2>1 DEF Inv, JournalKnown
  <2>7. StoreTypes' /\ EnvKnown'
    BY <1>1, <1>3 DEF Inv, StoreTypes, EnvKnown, bundling, counts
  <2>8. RevisionsKnown' /\ Kept'
    BY <1>1, <2>3 DEF Inv, RevisionsKnown, Kept, bundling
  <2> QED
    BY <1>3, <2>4, <2>5, <2>6, <2>7, <2>8 DEF Inv
<1> QED
  BY <1>2, <1>3 DEF ClearJournal

\* A save over a pending journal leaves the draft that counts alone.
LEMMA SaveStep ==
  ASSUME Inv, Save
  PROVE  Inv'
<1>1. /\ lock = "free" /\ meant' = IF journal = None THEN draft' ELSE meant
      /\ UNCHANGED <<state, journal, backups, bundles, active, build, shown, running, counts>>
  BY DEF Save
<1>2. draft' \in Drafts
  <2>1. PICK t \in Texts, r \in Revisions :
          draft' = [text |-> t, rev |-> r, bg |-> IF draft = None THEN None ELSE draft.bg]
    BY DEF Save
  <2>2. (IF draft = None THEN None ELSE draft.bg) \in Images \cup {None}
    BY DEF Inv, StoreTypes, Drafts, SavedDrafts
  <2> QED
    BY <2>1, <2>2, RevisionsAssumption DEF Drafts, SavedDrafts
<1>3. guard = None /\ \A d \in Clients : lock # d /\ Waiting(client[d])
  BY <1>1, FreeMeansFree
<1>4. rec = "no" /\ Forward
  BY <1>1 DEF Inv, LockKnown, Forward
<1>5. \A d \in Clients : ClientKnown(client[d])'
  BY <1>1, <1>3, <1>4, ClientsStay DEF running
<1>6. StoreTypes' /\ EnvKnown' /\ LockKnown' /\ client' \in [Clients -> ClientRecords]
  BY <1>1, <1>2 DEF Inv, StoreTypes, EnvKnown, LockKnown, running, counts
<1>7. JournalKnown'
  BY <1>1, <1>3, <1>4 DEF Inv, JournalKnown, running
<1>8. RevisionsKnown'
  BY <1>1 DEF Inv, RevisionsKnown
<1>9. Kept'
  BY <1>1, <1>2 DEF Inv, Kept, Settled
<1> QED
  BY <1>5, <1>6, <1>7, <1>8, <1>9 DEF Inv

LEMMA StartBuildStep ==
  ASSUME Inv, StartBuild
  PROVE  Inv'
<1>1. /\ lock = "free" /\ draft # None /\ build' = [rev |-> draft.rev, bg |-> draft.bg]
      /\ UNCHANGED <<stores, bundles, active, meant, running, counts>>
  BY DEF StartBuild
<1>2. draft \in SavedDrafts
  BY <1>1 DEF Inv, StoreTypes, Drafts
<1>3. build' \in Views
  BY <1>1, <1>2 DEF SavedDrafts, Views
<1>4. \A d \in Clients : Waiting(client[d])
  BY <1>1, FreeMeansFree
<1>5. Forward /\ Settled' = Settled
  BY <1>1 DEF Forward, Settled, stores
<1>6. \A d \in Clients : ClientKnown(client[d])'
  BY <1>1, <1>4, <1>5, ClientsStay DEF running
<1>7. StoreTypes' /\ EnvKnown' /\ LockKnown' /\ client' \in [Clients -> ClientRecords]
  BY <1>1, <1>3 DEF Inv, StoreTypes, EnvKnown, LockKnown, stores, running, counts
<1>8. JournalKnown' /\ RevisionsKnown' /\ Kept'
  BY <1>1, <1>3, <1>5 DEF Inv, JournalKnown, RevisionsKnown, Kept, stores, running
<1> QED
  BY <1>6, <1>7, <1>8 DEF Inv

\* While nobody is inside the manager's lock bundles may be added and activated.
LEMMA BundlesMove ==
  ASSUME Inv, guard = None, UNCHANGED <<stores, meant, running, counts>>, Forward,
         bundles' \in Seq(Views), active' \in DOMAIN bundles', build' \in {None} \cup Views
  PROVE  Inv'
<1>1. Settled' = Settled
  BY DEF Settled, stores
<1>2. ASSUME NEW d \in Clients PROVE ClientKnown(client[d])'
  <2>1. PICK q \in ClientRecords : q = client[d] /\ q = client'[d] /\ ClientKnown(q)
    BY DEF Inv, running
  <2>2. q.step \notin {"guarded", "written"}
    BY <2>1, Holds DEF Holding, Inv, ClientKnown, WritesKnown
  <2>3. ApplyKnown(q)'
    <3>1. CASE q.step \in {"backed", "journaled", "guarded", "written"}
      BY <1>1, <2>1, <3>1, ApplyCarries DEF ClientKnown, stores
    <3>2. CASE q.step \notin {"backed", "journaled", "guarded", "written"}
      BY <3>2 DEF ApplyKnown
    <3> QED
      BY <3>1, <3>2
  <2>4. WritesKnown(q)'
    BY <2>1, <2>2 DEF ClientKnown, WritesKnown, stores
  <2>5. LeaseKnown(q)'
    <3>1. CASE Waiting(q)
      BY <2>1, <3>1, WaitingKnown DEF ClientKnown, Inv
    <3>2. CASE ~Waiting(q)
      BY <3>2 DEF Waiting, LeaseKnown
    <3> QED
      BY <3>1, <3>2
  <2>6. LeaseKnown(client[d])' /\ ApplyKnown(client[d])' /\ WritesKnown(client[d])'
    <3>1. LeaseKnown(client[d])'
      BY <2>1, <2>5 DEF LeaseKnown, ViewOf, Bound
    <3>2. ApplyKnown(client[d])'
      BY <2>1, <2>3 DEF ApplyKnown, ViewOf, Bound
    <3>3. WritesKnown(client[d])'
      BY <2>1, <2>4 DEF WritesKnown
    <3> QED
      BY <3>1, <3>2, <3>3
  <2> QED
    BY <2>6 DEF ClientKnown
<1>3. StoreTypes' /\ EnvKnown' /\ LockKnown' /\ client' \in [Clients -> ClientRecords]
  BY DEF Inv, StoreTypes, EnvKnown, LockKnown, stores, running, counts
<1>4. JournalKnown' /\ RevisionsKnown' /\ Kept'
  BY <1>1 DEF Inv, JournalKnown, RevisionsKnown, Forward, Kept, stores, running
<1> QED
  BY <1>2, <1>3, <1>4 DEF Inv

LEMMA ActivateBuildStep ==
  ASSUME Inv, ActivateBuild
  PROVE  Inv'
<1>1. /\ build # None /\ guard = None /\ bundles' = Append(bundles, build)
      /\ active' = Len(bundles') /\ build' = None
      /\ UNCHANGED <<stores, meant, running, counts>>
  BY DEF ActivateBuild
<1>2. bundles \in Seq(Views) /\ build \in Views
  BY <1>1 DEF Inv, StoreTypes
<1>3. /\ bundles' \in Seq(Views) /\ active' \in DOMAIN bundles'
      /\ \A b \in DOMAIN bundles : b \in DOMAIN bundles' /\ bundles'[b] = bundles[b]
  BY <1>1, <1>2
<1>4. Forward
  BY <1>1, <1>3 DEF Forward, stores
<1> QED
  BY <1>1, <1>3, <1>4, BundlesMove

LEMMA SwitchStep ==
  ASSUME Inv, Switch
  PROVE  Inv'
<1>1. /\ guard = None /\ active' \in DOMAIN bundles
      /\ UNCHANGED <<stores, bundles, build, meant, running, counts>>
  BY DEF Switch
<1>2. Forward
  BY <1>1 DEF Forward, stores
<1> QED
  BY <1>1, <1>2, BundlesMove DEF Inv, StoreTypes

LEMMA CrashStep ==
  ASSUME Inv, Crash
  PROVE  Inv'
<1>1. /\ client' = [c \in Clients |-> IdleClient]
      /\ lock' = "free" /\ guard' = None /\ rec' = "no" /\ build' = None
      /\ UNCHANGED <<stores, bundles, active, meant, counts>>
  BY DEF Crash
<1>2. Forward /\ Settled' = Settled
  BY <1>1 DEF Forward, Settled, stores
<1>3. client' \in [Clients -> ClientRecords] /\ \A d \in Clients : client'[d] = IdleClient
  BY <1>1, IdleKnown
<1>4. LockKnown' /\ \A d \in Clients : ClientKnown(client[d])'
  BY <1>1, <1>2, <1>3, ClientsLeave
<1>5. StoreTypes' /\ EnvKnown' /\ JournalKnown'
  BY <1>1 DEF Inv, StoreTypes, EnvKnown, JournalKnown, stores, counts
<1>6. RevisionsKnown' /\ Kept'
  BY <1>1, <1>2 DEF Inv, RevisionsKnown, Kept, stores
<1> QED
  BY <1>3, <1>4, <1>5, <1>6 DEF Inv

-----------------------------------------------------------------------------
(***************************************************************************)
(* The theorems.                                                           *)
(***************************************************************************)
LEMMA InitInv ==
  ASSUME Init
  PROVE  Inv
<1>1. /\ draft \in {None} \cup [text : Texts, rev : Revisions, bg : {None}] /\ meant = draft
      /\ journal = None /\ backups = {} /\ bundles = FirstBundles /\ active = 1 /\ build = None
      /\ lock = "free" /\ guard = None /\ rec = "no" /\ applies = 0 /\ env \in Scenarios
      /\ client = [c \in Clients |-> IdleClient]
      /\ state = [issued |-> 0, source |-> None, srcrev |-> None, rev |-> None, bg |-> None]
  BY DEF Init
<1>2. draft \in Drafts
  BY <1>1, RevisionsAssumption DEF Drafts, SavedDrafts
<1>3. state \in Pointers /\ state.rev = None
  BY <1>1 DEF Pointers
<1>4. bundles \in Seq(Views) /\ active \in DOMAIN bundles
  BY <1>1, BundlesAssumption
<1>5. StoreTypes
  BY <1>1, <1>2, <1>3, <1>4, BoundsAssumption DEF StoreTypes
<1>6. client \in [Clients -> ClientRecords] /\ \A c \in Clients : client[c] = IdleClient
  BY <1>1, IdleKnown
<1>7. \A c \in Clients : ClientKnown(client[c])
  BY <1>6, IdleKnown
<1>8. LockKnown
  BY <1>1, <1>6, IdleKnown, ClientsAssumption DEF LockKnown, Holding
<1>9. EnvKnown
  <2>1. env \in [events : SUBSET {"crash", "save", "build", "switch"}, faults : Nat]
    BY <1>1, ScenariosAssumption
  <2>2. env = [env EXCEPT !.faults = env.faults] /\ env.faults \in 0..env.faults
    BY <2>1
  <2> QED
    BY <1>1, <2>2 DEF EnvKnown
<1>10. JournalKnown
  BY <1>1 DEF JournalKnown
<1>11. Settled = draft
  BY <1>1 DEF Settled
<1>12. RevisionsKnown /\ Kept
  BY <1>1, <1>2, <1>3, <1>11 DEF RevisionsKnown, Kept
<1> QED
  BY <1>5, <1>6, <1>7, <1>8, <1>9, <1>10, <1>12 DEF Inv

LEMMA NextInv ==
  ASSUME Inv, [Next]_vars
  PROVE  Inv'
<1>1. CASE UNCHANGED vars
  <2>1. UNCHANGED <<stores, bundles, meant>> /\ client' = client
    BY <1>1 DEF vars, bundling, running
  <2>2. Forward /\ Settled' = Settled /\ Kept' /\ RevisionsKnown'
    BY <2>1, StoresStay
  <2>3. ASSUME NEW d \in Clients PROVE ClientKnown(client[d])'
    BY <1>1, <2>2
       DEF Inv, ClientKnown, LeaseKnown, ApplyKnown, WritesKnown, ViewOf, Bound, vars,
           stores, bundling, running
  <2>4. StoreTypes' /\ LockKnown' /\ EnvKnown' /\ JournalKnown'
        /\ client' \in [Clients -> ClientRecords]
    BY <1>1 DEF Inv, StoreTypes, LockKnown, EnvKnown, JournalKnown, vars, stores, bundling,
                running, counts
  <2> QED
    BY <2>2, <2>3, <2>4 DEF Inv
<1>2. CASE Next
  BY <1>2, ApplyStep, RestoreStep, ClearJournalStep, SaveStep, StartBuildStep,
     ActivateBuildStep, SwitchStep, CrashStep DEF Next
<1> QED
  BY <1>1, <1>2

LEMMA SpecInv == Spec => []Inv
<1>1. Init => Inv
  BY InitInv
<1>2. Inv /\ [Next]_vars => Inv'
  BY NextInv
<1> QED
  BY <1>1, <1>2, PTL DEF Spec

\* Draft and row change together, whatever crashes, fails, is saved or built
\* meanwhile (AdminSceneService.apply and _recover_unlocked, admin/scene.py).
THEOREM PairsAgree == Spec => []PairAgrees
<1>1. Inv => PairAgrees
  BY InvTypes DEF Inv, PairAgrees, Kept, Settled
<1> QED
  BY <1>1, SpecInv, PTL

\* An apply never replaces what its owner has not seen (_expected_matches and
\* guard_active_bundle).
THEOREM NoUpdateIsLost == Spec => NoLostUpdate
<1> DEFINE Seen == \E c \in Clients :
                     /\ client[c].step = "written"
                     /\ client[c].seen.bundle = active
                     /\ client[c].seen.rev = View.rev
                     /\ client[c].seen.draft = journal.old
<1>1. ASSUME Inv, [Next]_vars PROVE state' # state => Seen
  <2>1. ASSUME state' # state PROVE \E c \in Clients : CommitPointer(c)
    BY <1>1, <2>1
       DEF Next, Apply, Look, Lease, Conflict, Backup, WriteJournal, Guard, WriteDraft, Finish,
           Restore, ClearJournal, Save, StartBuild, ActivateBuild, Switch, Crash, vars, stores
  <2>2. ASSUME NEW c \in Clients, CommitPointer(c) PROVE Seen
    <3>1. client[c].step = "written" /\ ApplyKnown(client[c]) /\ WritesKnown(client[c])
      BY <1>1, <2>2 DEF CommitPointer, Inv, ClientKnown
    <3>2. Settled = journal.old
      BY <3>1 DEF WritesKnown, Settled
    <3> QED
      BY <3>1, <3>2 DEF ApplyKnown, WritesKnown, View
  <2> QED
    BY <2>1, <2>2
<1> HIDE DEF Seen
<1>2. ASSUME Inv, [Next]_vars PROVE [state' # state => Seen]_vars
  BY <1>1, <1>2
<1>3. Spec => [][state' # state => Seen]_vars
  BY <1>2, SpecInv, PTL DEF Spec
<1> QED
  BY <1>3 DEF NoLostUpdate, Seen

-----------------------------------------------------------------------------
(***************************************************************************)
(* What holds while nobody saves after an interruption.                     *)
(***************************************************************************)
\* The event does not happen in a run in which a write may be interrupted: a
\* save does not recover before it writes the draft.
Uninterrupted(event) ==
  \A s \in Scenarios : event \in s.events => "crash" \notin s.events /\ s.faults = 0

\* Without saves after an interruption a journal's draft is one of its two.
DraftRecovers ==
  /\ journal # None => draft \in {journal.old, journal.new}
  /\ journal # None /\ lock = "free" => ~May("save")

LEMMA EventsStay ==
  ASSUME Inv, [Next]_vars
  PROVE  env'.events = env.events
<1>1. ASSUME Fault PROVE env'.events = env.events
  <2>1. PICK s \in Scenarios : \E n \in 0..s.faults : env = [s EXCEPT !.faults = n]
    BY DEF Inv, EnvKnown
  <2>2. env \in [events : SUBSET {"crash", "save", "build", "switch"}, faults : Nat]
    BY <2>1, ScenariosAssumption
  <2> QED
    BY <1>1, <2>2 DEF Fault
<1> QED
  BY <1>1
     DEF Next, Apply, Look, Lease, Conflict, Backup, WriteJournal, Guard, WriteDraft, CommitPointer,
         Finish, Restore, ClearJournal, Save, StartBuild, ActivateBuild, Switch, Crash, vars, counts

LEMMA InterruptionExcludes ==
  ASSUME Inv, NEW event, Uninterrupted(event), Fault \/ May("crash")
  PROVE  ~May(event)
<1>1. PICK s \in Scenarios : \E n \in 0..s.faults : env = [s EXCEPT !.faults = n]
  BY DEF Inv, EnvKnown
<1>2. env.events = s.events /\ env.faults \in 0..s.faults /\ s.faults \in Nat
  BY <1>1, ScenariosAssumption
<1> QED
  BY <1>2 DEF Uninterrupted, May, Fault

\* A journal is left behind by an interruption only.
LEMMA LeftBehind ==
  ASSUME Inv, [Next]_vars, journal' # None, lock' = "free"
  PROVE  (journal # None /\ lock = "free") \/ Fault \/ May("crash")
<1>1. CASE UNCHANGED <<journal, lock>>
  BY <1>1
<1>2. ASSUME NEW c \in Clients, Apply(c)
      PROVE  (journal # None /\ lock = "free") \/ Fault
  <2>1. CASE \/ Look(c) \/ Lease(c) \/ Conflict(c)
             \/ \E bg \in Images \cup {None} : Backup(c, bg)
    BY <2>1 DEF Look, Lease, Conflict, Backup, stores
  <2>2. CASE WriteJournal(c) \/ Guard(c) \/ WriteDraft(c) \/ CommitPointer(c)
    <3>1. client[c].step \in Holding
      BY <2>2 DEF WriteJournal, Guard, WriteDraft, CommitPointer, Holding
    <3>2. lock = c /\ c # "free"
      BY <3>1, Holds, ClientsAssumption
    <3> QED
      BY <2>2, <3>2 DEF WriteJournal, Guard, WriteDraft, CommitPointer, stores
  <2>3. CASE Finish(c)
    BY <2>3 DEF Finish, Inv, ClientKnown, WritesKnown
  <2> QED
    BY <1>2, <2>1, <2>2, <2>3 DEF Apply
<1>3. CASE Restore \/ ClearJournal
  BY <1>3, ClientsAssumption DEF Restore, ClearJournal
<1>4. CASE Save \/ StartBuild \/ ActivateBuild \/ Switch \/ Crash
  BY <1>4 DEF Save, StartBuild, ActivateBuild, Switch, Crash, running, stores
<1> QED
  BY <1>1, <1>2, <1>3, <1>4 DEF Next, vars, stores, running

LEMMA LeftAlone ==
  ASSUME Inv, [Next]_vars, NEW event, Uninterrupted(event),
         journal # None /\ lock = "free" => ~May(event)
  PROVE  (journal # None /\ lock = "free" => ~May(event))'
BY LeftBehind, InterruptionExcludes, EventsStay DEF May

LEMMA DraftRecoversStep ==
  ASSUME Inv, DraftRecovers, Uninterrupted("save"), [Next]_vars
  PROVE  DraftRecovers'
<1>1. (journal # None /\ lock = "free" => ~May("save"))'
  BY LeftAlone DEF DraftRecovers
<1>2. CASE UNCHANGED <<draft, journal>>
  BY <1>1, <1>2 DEF DraftRecovers
<1>3. ASSUME NEW c \in Clients, Apply(c), journal' # None
      PROVE  draft' \in {journal'.old, journal'.new}
  <2>1. CASE WriteJournal(c)
    <3>1. client[c].step = "backed" /\ journal' = JournalOf(c) /\ draft' = draft
      BY <1>3, <2>1 DEF WriteJournal
    <3> QED
      BY <3>1, JournalTyped
  <2>2. CASE WriteDraft(c)
    <3>1. journal' = journal /\ journal.new = client[c].new
      BY <2>2 DEF WriteDraft, Inv, ClientKnown, WritesKnown
    <3> QED
      BY <1>3, <2>2, <3>1 DEF WriteDraft, DraftRecovers
  <2>3. CASE CommitPointer(c)
    BY <1>3, <2>3 DEF CommitPointer, DraftRecovers
  <2>4. CASE UNCHANGED <<draft, journal>>
    BY <1>3, <2>4 DEF DraftRecovers
  <2> QED
    BY <1>3, <2>1, <2>2, <2>3, <2>4
       DEF Apply, Look, Lease, Conflict, Backup, Guard, Finish, stores
<1>4. CASE Restore \/ ClearJournal
  BY <1>1, <1>4 DEF Restore, ClearJournal, DraftRecovers
<1>5. CASE Save
  BY <1>1, <1>5 DEF Save, DraftRecovers
<1>6. CASE StartBuild \/ ActivateBuild \/ Switch \/ Crash
  BY <1>2, <1>6 DEF StartBuild, ActivateBuild, Switch, Crash, stores
<1> QED
  BY <1>1, <1>2, <1>3, <1>4, <1>5, <1>6 DEF Next, vars, stores, DraftRecovers

\* A journal that is left behind by a crash, a failing write or a failing
\* recovery leads back to the pair it was written for, unless the owner saves
\* before anything recovers (_recover_unlocked, admin/scene.py).
THEOREM JournalsRecover ==
  ASSUME Uninterrupted("save")
  PROVE  Spec => []JournalRecovers
<1>1. Init => DraftRecovers
  BY DEF Init, DraftRecovers
<1>2. Inv /\ DraftRecovers /\ [Next]_vars => DraftRecovers'
  BY DraftRecoversStep
<1>3. Inv /\ DraftRecovers => JournalRecovers
  BY DEF Inv, JournalKnown, DraftRecovers, JournalRecovers, Recoverable
<1>4. Spec => []Inv
  BY SpecInv
<1> QED
  BY <1>1, <1>2, <1>3, <1>4, PTL DEF Spec

-----------------------------------------------------------------------------
(***************************************************************************)
(* Revisions and backgrounds.                                              *)
(***************************************************************************)
\* What has been shown: a bundle's own view, or one the row has overlaid it
\* with, whose revision is higher.
Exhibits == [bundle : Nat, applied : BOOLEAN, rev : Nat, bg : Images \cup {None}]

Own(v) ==
  /\ v.bundle \in DOMAIN bundles
  /\ v.rev = bundles[v.bundle].rev /\ v.bg = bundles[v.bundle].bg
Laid(v) ==
  /\ v.bundle \in DOMAIN bundles
  /\ v.rev > bundles[v.bundle].rev /\ v.rev <= state.issued
  /\ v.rev = state.issued => v.bg = state.bg

ShownKnown ==
  /\ shown \subseteq Exhibits
  /\ \A v \in shown : IF v.applied THEN Laid(v) ELSE Own(v)
  /\ \A v, w \in shown : v.applied /\ w.applied /\ v.rev = w.rev => v.bg = w.bg

\* What is shown now is the active bundle's own or the row's last.
Latest(v) ==
  /\ v \in Exhibits
  /\ IF v.applied THEN Laid(v) /\ v.rev = state.issued /\ v.bg = state.bg ELSE Own(v)

LEMMA ExhibitKnown ==
  ASSUME Inv
  PROVE  Latest(Exhibit)
<1>1. active \in DOMAIN bundles /\ active \in Nat /\ state \in Pointers
  BY DEF Inv, StoreTypes
<1>2. View \in Views
  BY <1>1, ViewTyped DEF View, Inv
<1>3. /\ Exhibit \in Exhibits /\ Exhibit.bundle = active
      /\ Exhibit.applied = Bound(state, active)
      /\ Exhibit.rev = View.rev /\ Exhibit.bg = View.bg
  BY <1>1, <1>2 DEF Exhibit, Exhibits, Views, Bound
<1>4. CASE Bound(state, active)
  <2>1. state.source = active /\ state.rev # None
    BY <1>4 DEF Bound
  <2>2. state.rev = state.issued /\ state.rev > bundles[active].rev /\ state.issued \in Nat
    BY <1>1, <2>1 DEF Inv, RevisionsKnown, Pointers
  <2>3. View.rev = state.rev /\ View.bg = state.bg
    BY <1>4 DEF View, ViewOf
  <2> QED
    BY <1>1, <1>3, <1>4, <2>2, <2>3 DEF Laid, Latest
<1>5. CASE ~Bound(state, active)
  BY <1>1, <1>3, <1>5 DEF View, ViewOf, Own, Latest
<1> QED
  BY <1>4, <1>5

\* A step that shows nothing but what is shown after it keeps this.
LEMMA ShowsMore ==
  ASSUME Inv, Inv', Forward, ShownKnown,
         shown' = shown \/ shown' = shown \cup {Exhibit'}
  PROVE  ShownKnown'
<1>1. Latest(Exhibit)'
  BY ExhibitKnown, PTL
<1>2. state.issued \in Nat /\ state'.issued \in Nat
  BY DEF Inv, StoreTypes, Pointers
<1>3. PICK e : e = Exhibit' /\ shown' \subseteq shown \cup {e}
  OBVIOUS
<1>4. /\ e \in Exhibits
      /\ IF e.applied THEN Laid(e)' /\ e.rev = state'.issued /\ e.bg = state'.bg ELSE Own(e)'
  BY <1>1, <1>3 DEF Latest, Laid, Own
<1>5. ASSUME NEW v \in shown
      PROVE  /\ v \in Exhibits /\ v.rev \in Nat
             /\ IF v.applied THEN Laid(v)' ELSE Own(v)'
  <2>1. v \in Exhibits /\ v.rev \in Nat
    BY DEF ShownKnown, Exhibits
  <2>2. CASE v.applied
    <3>1. Laid(v)
      BY <2>2 DEF ShownKnown
    <3> QED
      BY <1>2, <2>1, <2>2, <3>1 DEF Laid, Forward
  <2>3. CASE ~v.applied
    <3>1. Own(v)
      BY <2>3 DEF ShownKnown
    <3> QED
      BY <2>1, <2>3, <3>1 DEF Own, Forward
  <2> QED
    BY <2>1, <2>2, <2>3
<1>6. ASSUME NEW v \in shown, v.applied, e.applied, v.rev = e.rev
      PROVE  v.bg = e.bg
  BY <1>4, <1>5, <1>6 DEF Laid
<1>7. shown' \subseteq Exhibits /\ \A v \in shown' : IF v.applied THEN Laid(v)' ELSE Own(v)'
  BY <1>3, <1>4, <1>5
<1>8. \A v, w \in shown' : v.applied /\ w.applied /\ v.rev = w.rev => v.bg = w.bg
  BY <1>3, <1>6 DEF ShownKnown
<1> QED
  BY <1>7, <1>8 DEF ShownKnown, Laid, Own

LEMMA ShownKnownStep ==
  ASSUME Inv, Inv', ShownKnown, [Next]_vars
  PROVE  ShownKnown'
<1>1. shown' = shown \/ shown' = shown \cup {Exhibit'}
  BY DEF Next, Apply, Look, Lease, Conflict, Backup, WriteJournal, Guard, WriteDraft,
         CommitPointer, Finish, Restore, ClearJournal, Save, StartBuild, ActivateBuild, Switch,
         Crash, vars, bundling
<1>2. Forward
  <2>1. CASE \E c \in Clients : CommitPointer(c)
    BY <2>1, PublishedAgrees DEF CommitPointer, Forward
  <2>2. CASE ActivateBuild
    BY <2>2 DEF ActivateBuild, Forward, stores, Inv, StoreTypes
  <2>3. CASE UNCHANGED <<state, bundles>>
    BY <2>3 DEF Forward
  <2> QED
    BY <2>1, <2>2, <2>3
       DEF Next, Apply, Look, Lease, Conflict, Backup, WriteJournal, Guard, WriteDraft,
           Finish, Restore, ClearJournal, Save, StartBuild, Switch, Crash, vars, bundling, stores
<1> QED
  BY <1>1, <1>2, ShowsMore

\* Whatever the owner saves, and whatever is built, activated and interrupted,
\* a revision names one background within a bundle and among all that applies
\* have issued (the issuance counter of apply, admin/scene.py).
THEOREM RevisionsNameOne == Spec => []RevNamesOneBackground
<1>1. Init => ShownKnown
  <2> SUFFICES ASSUME Init PROVE ShownKnown
    OBVIOUS
  <2>1. shown = {Exhibit} /\ Inv
    BY InitInv DEF Init
  <2>2. Latest(Exhibit)
    BY <2>1, ExhibitKnown
  <2> QED
    BY <2>1, <2>2 DEF ShownKnown, Latest
<1>2. Inv /\ Inv' /\ ShownKnown /\ [Next]_vars => ShownKnown'
  BY ShownKnownStep
<1>3. ShownKnown => RevNamesOneBackground
  <2> SUFFICES ASSUME ShownKnown, NEW v \in shown, NEW w \in shown, v.rev = w.rev,
                      v.bundle = w.bundle \/ (v.applied /\ w.applied)
               PROVE  v.bg = w.bg
    BY DEF RevNamesOneBackground
  <2>1. v \in Exhibits /\ w \in Exhibits
    BY DEF ShownKnown
  <2>2. CASE v.applied /\ w.applied
    BY <2>2 DEF ShownKnown
  <2>3. CASE ~v.applied /\ ~w.applied
    BY <2>3 DEF ShownKnown, Own
  <2>4. CASE v.applied # w.applied
    <3>1. bundles[v.bundle].rev # v.rev \/ bundles[w.bundle].rev # w.rev
      BY <2>1, <2>4 DEF ShownKnown, Laid, Own, Exhibits
    <3> QED
      BY <2>1, <2>4, <3>1 DEF ShownKnown, Laid, Own, Exhibits
  <2> QED
    BY <2>1, <2>2, <2>3, <2>4 DEF Exhibits
<1> QED
  BY <1>1, <1>2, <1>3, SpecInv, PTL DEF Spec
=============================================================================
