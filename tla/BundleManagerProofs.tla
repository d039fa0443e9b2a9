------------------------ MODULE BundleManagerProofs ------------------------
(***************************************************************************)
(* The safety of BundleManager, for every number of bundles and readers    *)
(* and whatever may raise, stop or be pinned; and, for at most two calls   *)
(* that raise, what a restart serves.                                      *)
(***************************************************************************)
EXTENDS BundleManager, FiniteSetTheorems, TLAPS

\* What the operation that holds the lock relies on, from its first step on:
\* its own handle is open and nobody's yet, and what it must put back if it
\* fails is open, retained and not the bundle it would remove.
OperationKnown ==
  /\ op.step = "idle" => op.new = None /\ op.active = None /\ op.previous = None
  /\ op.step # "idle" =>
       /\ up /\ op.kind \in {"activate", "pin"} /\ op.id \in dirs
       /\ op.kind = "pin" => op.step \in {"opened", "pointed"}
       /\ op.new \in Handles \ {op.active, op.previous}
       /\ handle[op.new].id = op.id /\ handle[op.new].open /\ ~handle[op.new].retired
       /\ \A r \in Readers : lease[r] # op.new
       /\ op.active # None => handle[op.active].open
       /\ \A h \in {op.active, op.previous} \ {None} :
            handle[h].id \in dirs /\ (op.kind = "activate" => handle[h].id # op.id)
       /\ IF op.step = "persisted"
          THEN /\ active = op.new /\ previous = op.active
               /\ op.previous # None => handle[op.previous].retired
          ELSE active = op.active /\ previous = op.previous

\* A handle that is open is served, kept or leased; one that is not retired is
\* served or kept.
OpenIsHeld ==
  \A h \in Handles : handle[h].open =>
    \/ h \in {active, previous, op.new, op.active, op.previous}
    \/ handle[h].retired /\ \E r \in Readers : lease[r] = h

\* A process that has stopped has left nothing but its files.
DownIsEmpty ==
  ~up => /\ active = None /\ previous = None /\ op.step = "idle"
         /\ \A h \in Handles : ~handle[h].open
         /\ \A r \in Readers : lease[r] = None

\* Without the CLI, memory and row agree on the pin, whose directory is there:
\* no activation is under way.
PinKnown ==
  ~May("cli") =>
    /\ up => pinned = saved.pinned
    /\ saved.pinned # None => saved.pinned \in dirs /\ op.kind # "activate"

ReadersServed ==
  /\ \A r \in Readers : lease[r] # None => handle[lease[r]].open
  /\ active # None => handle[active].open /\ ~handle[active].retired

Inv ==
  /\ TypeOK /\ ReadersServed /\ OperationKnown /\ OpenIsHeld /\ DownIsEmpty
  /\ ServedIsRetained /\ PinKnown
-----------------------------------------------------------------------------
(***************************************************************************)
(* The helpers.                                                            *)
(***************************************************************************)
Operations ==
  [kind : {"none", "activate", "pin"},
   step : {"idle", "opened", "pointed", "persisted", "undone", "unpointed"},
   id : Bundles \cup {None}, new : Handles \cup {None},
   active : Handles \cup {None}, previous : Handles \cup {None}]
Live == [id : Bundles \cup {None}, retired : BOOLEAN, open : BOOLEAN]

Leased(h, ls) == \E r \in Readers : ls[r] = h

\* Between hs and fs: a handle of some is closed if it is retired and nobody
\* leases it.
Closing(some, hs, fs, ls) ==
  \A k \in Handles :
    /\ fs[k].id = hs[k].id /\ fs[k].retired = hs[k].retired
    /\ fs[k].open => hs[k].open /\ ~(k \in some /\ hs[k].retired /\ ~Leased(k, ls))
    /\ hs[k].open => fs[k].open \/ (k \in some /\ hs[k].retired /\ ~Leased(k, ls))

\* The same, where what is closed and not kept may be forgotten.
Reaping(some, kept, hs, fs, ls) ==
  \A k \in Handles :
    /\ \/ fs[k].id = hs[k].id /\ fs[k].retired = hs[k].retired
       \/ k \notin kept /\ ~fs[k].open /\ ~Leased(k, ls)
    /\ fs[k].open => hs[k].open /\ ~(k \in some /\ hs[k].retired /\ ~Leased(k, ls))
    /\ hs[k].open => fs[k].open \/ (k \in some /\ hs[k].retired /\ ~Leased(k, ls))

\* The numbers of the handles and of the bundles are not None, and there are
\* enough handles for a restart.
LEMMA NumbersKnown ==
  /\ None \notin Handles /\ None \notin Bundles /\ {1, 2} \subseteq Handles
  /\ Closed \in Live
<1>1. Cardinality(Readers) \in Nat
  BY NoneAssumption, FS_CardinalityType
<1> QED
  BY <1>1, NoneAssumption, BundleCountAssumption DEF Handles, Bundles, Closed, Live

\* Retiring a handle sets its flag.
LEMMA RetireKeeps ==
  ASSUME NEW hs \in [Handles -> Live], NEW h \in Handles \cup {None}
  PROVE  /\ Retire(hs, h) \in [Handles -> Live]
         /\ \A k \in Handles :
              /\ Retire(hs, h)[k].id = hs[k].id /\ Retire(hs, h)[k].open = hs[k].open
              /\ Retire(hs, h)[k].retired = (hs[k].retired \/ k = h)
  BY NumbersKnown DEF Retire, Live

LEMMA RetireBothKeeps ==
  ASSUME NEW hs \in [Handles -> Live], NEW x \in Handles \cup {None}, NEW y \in Handles \cup {None}
  PROVE  LET rs == Retire(Retire(hs, x), y)
         IN  /\ rs \in [Handles -> Live]
             /\ \A k \in Handles :
                  /\ rs[k].id = hs[k].id /\ rs[k].open = hs[k].open
                  /\ rs[k].retired = (hs[k].retired \/ k = x \/ k = y)
<1> DEFINE fs == Retire(hs, x)
           rs == Retire(fs, y)
<1>1. /\ fs \in [Handles -> Live]
      /\ \A k \in Handles :
           /\ fs[k].id = hs[k].id /\ fs[k].open = hs[k].open
           /\ fs[k].retired = (hs[k].retired \/ k = x)
  BY RetireKeeps
<1> HIDE DEF fs
<1>2. /\ rs \in [Handles -> Live]
      /\ \A k \in Handles :
           /\ rs[k].id = fs[k].id /\ rs[k].open = fs[k].open
           /\ rs[k].retired = (fs[k].retired \/ k = y)
  BY <1>1, RetireKeeps
<1> HIDE DEF rs
<1>3. \A k \in Handles :
        /\ rs[k].id = hs[k].id /\ rs[k].open = hs[k].open
        /\ rs[k].retired = (hs[k].retired \/ k = x \/ k = y)
  BY <1>1, <1>2
<1> QED
  BY <1>2, <1>3 DEF fs, rs

\* A retired handle is closed when nobody leases it.
LEMMA CloseKeeps ==
  ASSUME NEW hs \in [Handles -> Live], NEW h \in Handles \cup {None},
         NEW ls \in [Readers -> Handles \cup {None}]
  PROVE  CloseIfRetired(hs, ls, h) \in [Handles -> Live] /\ Closing({h}, hs, CloseIfRetired(hs, ls, h), ls)
<1>1. Leases(h, ls) = {} <=> ~Leased(h, ls)
  BY DEF Leases, Leased
<1>2. CASE h # None /\ hs[h].retired /\ ~Leased(h, ls)
  BY <1>1, <1>2 DEF CloseIfRetired, Live, Closing
<1>3. CASE ~(h # None /\ hs[h].retired /\ ~Leased(h, ls))
  <2>1. CloseIfRetired(hs, ls, h) = hs
    BY <1>1, <1>3 DEF CloseIfRetired
  <2> QED
    BY <1>3, <2>1, NumbersKnown DEF Closing
<1> QED
  BY <1>2, <1>3

\* What is forgotten is closed, and neither served, kept nor leased.
LEMMA CollectKeeps ==
  ASSUME NEW hs \in [Handles -> Live], NEW a, NEW p, NEW ls \in [Readers -> Handles \cup {None}]
  PROVE  /\ Collect(hs, a, p, ls) \in [Handles -> Live]
         /\ \A k \in Handles :
              /\ Collect(hs, a, p, ls)[k].open = hs[k].open
              /\ \/ Collect(hs, a, p, ls)[k] = hs[k]
                 \/ k \notin {a, p} /\ ~hs[k].open /\ ~Leased(k, ls)
<1>1. \A k \in Handles : hs[k] \in Live /\ hs[k].open \in BOOLEAN
  BY DEF Live
<1>2. \A k \in Handles : Leases(k, ls) # {} <=> Leased(k, ls)
  BY DEF Leases, Leased
<1>3. \A k \in Handles :
        Collect(hs, a, p, ls)[k] =
          IF k \in {a, p} \/ Leased(k, ls) \/ hs[k].open THEN hs[k] ELSE Closed
  BY <1>2 DEF Collect
<1>4. Collect(hs, a, p, ls) \in [Handles -> Live]
  BY NumbersKnown DEF Collect
<1>5. Closed.open = FALSE
  BY DEF Closed
<1> QED
  BY <1>1, <1>3, <1>4, <1>5

\* Both together, for one handle and for two.
LEMMA ReapKeeps ==
  ASSUME NEW hs \in [Handles -> Live], NEW x \in Handles \cup {None},
         NEW a, NEW p, NEW ls \in [Readers -> Handles \cup {None}]
  PROVE  LET fs == Collect(CloseIfRetired(hs, ls, x), a, p, ls)
         IN  fs \in [Handles -> Live] /\ Reaping({x}, {a, p}, hs, fs, ls)
<1> DEFINE cs == CloseIfRetired(hs, ls, x)
<1>1. cs \in [Handles -> Live] /\ Closing({x}, hs, cs, ls)
  BY CloseKeeps
<1> HIDE DEF cs
<1>2. /\ Collect(cs, a, p, ls) \in [Handles -> Live]
      /\ \A k \in Handles :
           /\ Collect(cs, a, p, ls)[k].open = cs[k].open
           /\ \/ Collect(cs, a, p, ls)[k] = cs[k]
              \/ k \notin {a, p} /\ ~cs[k].open /\ ~Leased(k, ls)
  BY <1>1, CollectKeeps
<1>3. Reaping({x}, {a, p}, hs, Collect(cs, a, p, ls), ls)
  BY <1>1, <1>2 DEF Closing, Reaping
<1> QED
  BY <1>2, <1>3 DEF cs

LEMMA ReapBothKeeps ==
  ASSUME NEW hs \in [Handles -> Live], NEW x \in Handles \cup {None}, NEW y \in Handles \cup {None},
         NEW a, NEW p, NEW ls \in [Readers -> Handles \cup {None}]
  PROVE  LET fs == Collect(CloseIfRetired(CloseIfRetired(hs, ls, x), ls, y), a, p, ls)
         IN  fs \in [Handles -> Live] /\ Reaping({x, y}, {a, p}, hs, fs, ls)
<1> DEFINE cs == CloseIfRetired(hs, ls, x)
           fs == Collect(CloseIfRetired(cs, ls, y), a, p, ls)
<1>1. cs \in [Handles -> Live] /\ Closing({x}, hs, cs, ls)
  BY CloseKeeps
<1> HIDE DEF cs
<1>2. fs \in [Handles -> Live] /\ Reaping({y}, {a, p}, cs, fs, ls)
  BY <1>1, ReapKeeps
<1> HIDE DEF fs
<1>3. Reaping({x, y}, {a, p}, hs, fs, ls)
  BY <1>1, <1>2 DEF Closing, Reaping
<1> QED
  BY <1>2, <1>3 DEF cs, fs

\* One handle is always free: there are more than the served, the kept and the
\* leased ones.
LEMMA FreeExists ==
  ASSUME lease \in [Readers -> Handles \cup {None}]
  PROVE  Free # {}
<1> DEFINE held == {lease[r] : r \in Readers}
           served == held \cup {active}
           used == served \cup {previous}
           n == Cardinality(Readers)
<1>1. IsFiniteSet(Readers) /\ Cardinality(Readers) \in Nat
  BY NoneAssumption, FS_CardinalityType
<1>2. IsFiniteSet(held) /\ Cardinality(held) <= Cardinality(Readers) /\ Cardinality(held) \in Nat
  <2>1. lease \in Surjection(Readers, held)
    BY DEF Surjection
  <2>2. IsFiniteSet(held) /\ Cardinality(held) <= Cardinality(Readers)
    BY <1>1, <2>1, FS_Surjection
  <2> QED
    BY <2>2, FS_CardinalityType
<1> HIDE DEF held
<1>3. ASSUME NEW S, NEW x, NEW m \in Nat, IsFiniteSet(S), Cardinality(S) <= m
      PROVE  IsFiniteSet(S \cup {x}) /\ Cardinality(S \cup {x}) <= m + 1
  <2>1. IsFiniteSet(S \cup {x}) /\ Cardinality(S) \in Nat
    BY <1>3, FS_AddElement, FS_CardinalityType
  <2>2. Cardinality(S \cup {x}) = Cardinality(S) \/ Cardinality(S \cup {x}) = Cardinality(S) + 1
    <3>1. CASE x \in S
      BY <1>3, <3>1, FS_AddElement
    <3>2. CASE x \notin S
      BY <1>3, <3>2, FS_AddElement
    <3> QED
      BY <3>1, <3>2
  <2> QED
    BY <1>3, <2>1, <2>2
<1>4. IsFiniteSet(used) /\ Cardinality(used) <= n + 2 /\ Cardinality(used) \in Nat
  <2>1. IsFiniteSet(served) /\ Cardinality(served) <= n + 1
    BY <1>1, <1>2, <1>3
  <2>2. n + 1 \in Nat
    BY <1>1
  <2> HIDE DEF served
  <2>3. IsFiniteSet(used) /\ Cardinality(used) <= (n + 1) + 1
    BY <1>3, <2>1, <2>2
  <2> QED
    BY <1>1, <2>3, FS_CardinalityType
<1>5. Cardinality(Handles) = Cardinality(Readers) + 3
  BY <1>1, FS_Interval DEF Handles
<1>6. ~(Handles \subseteq used)
  BY <1>1, <1>4, <1>5, FS_Subset
<1>7. PICK h \in Handles : h \notin used
  BY <1>6
<1>8. h \in Free
  BY <1>7 DEF Free, Leases, held
<1> QED
  BY <1>8

\* What a restart or the CLI finds on the disk is there.
LEMMA RestoredIsThere ==
  /\ RestoredActive \in dirs \cup {None}
  /\ RestoredPrevious \in dirs \cup {None}
<1>1. ASSUME NEW ids, NEW but PROVE FirstRetained(ids, but) \in dirs \cup {None}
  BY DEF FirstRetained
<1> QED
  BY <1>1 DEF RestoredActive, RestoredPrevious

\* A clean-up removes only directories that are not protected.
LEMMA CleanupKeeps ==
  /\ KeptAfter \subseteq dirs
  /\ dirs \cap {IdOf(active), IdOf(previous), pinned} \subseteq KeptAfter
  BY DEF KeptAfter

\* What may still raise, or be counted down, stays within a scenario.
LEMMA FaultsKeep ==
  ASSUME TypeOK, NEW n \in Nat
  PROVE  /\ Fault(n) => /\ \E s \in Scenarios : \E k \in 0..s.faults : env' = [s EXCEPT !.faults = k]
                        /\ env'.events = env.events
<1> SUFFICES ASSUME Fault(n) PROVE
      /\ \E s \in Scenarios : \E k \in 0..s.faults : env' = [s EXCEPT !.faults = k]
      /\ env'.events = env.events
  OBVIOUS
<1>1. PICK s \in Scenarios : \E k \in 0..s.faults : env = [s EXCEPT !.faults = k]
  BY DEF TypeOK
<1>2. PICK k \in 0..s.faults : env = [s EXCEPT !.faults = k]
  BY <1>1
<1>3. s \in [events : SUBSET {"pin", "crash", "cli"}, faults : Nat]
  BY <1>1, ScenariosAssumption
<1>4. env.faults = k /\ env.events = s.events /\ env.faults >= n
  BY <1>2, <1>3 DEF Fault
<1>5. k - n \in 0..s.faults
  BY <1>3, <1>4
<1>6. env' = [s EXCEPT !.faults = k - n]
  BY <1>2, <1>3, <1>4 DEF Fault
<1> QED
  BY <1>3, <1>4, <1>5, <1>6
-----------------------------------------------------------------------------
(***************************************************************************)
(* The invariant, one action after the other.                              *)
(***************************************************************************)
LEMMA InitEstablishes == Init => Inv
<1> SUFFICES ASSUME Init PROVE Inv
  OBVIOUS
<1>1. TypeOK
  <2>1. PICK s \in Scenarios : env = s
    BY DEF Init
  <2>2. s \in [events : SUBSET {"pin", "crash", "cli"}, faults : Nat]
    BY <2>1, ScenariosAssumption
  <2>3. env = [s EXCEPT !.faults = s.faults] /\ s.faults \in 0..s.faults
    BY <2>1, <2>2
  <2> QED
    BY <2>1, <2>3, NumbersKnown DEF Init, TypeOK, Idle, Persisted, Live
<1> QED
  BY <1>1 DEF Init, Inv, ReadersServed, OperationKnown, OpenIsHeld, DownIsEmpty,
    ServedIsRetained, PinKnown, Idle, Closed, Persisted

\* The types the steps below argue from.
LEMMA TypesKnown ==
  ASSUME TypeOK
  PROVE  /\ handle \in [Handles -> Live] /\ lease \in [Readers -> Handles \cup {None}]
         /\ active \in Handles \cup {None} /\ previous \in Handles \cup {None}
         /\ \A h \in Handles : /\ h # None /\ handle[h].id \in Bundles \cup {None}
                              /\ handle[h].open \in BOOLEAN /\ handle[h].retired \in BOOLEAN
         /\ \A r \in Readers : lease[r] \in Handles \cup {None}
  BY NumbersKnown DEF TypeOK, Live

\* Acquiring adds the served handle to what is leased.
LEMMA AcquireKeeps ==
  ASSUME Inv, NEW r \in Readers, Acquire(r)
  PROVE  Inv'
<1> USE DEF Inv, Acquire, Unlocked, disk
<1>1. TypeOK' /\ lease' \in [Readers -> Handles \cup {None}] /\ lease'[r] = active
      /\ \A q \in Readers \ {r} : lease'[q] = lease[q]
  BY DEF TypeOK
<1>2. OpenIsHeld'
  <2> SUFFICES ASSUME NEW h \in Handles, handle[h].open
               PROVE  \/ h \in {active, previous, op.new, op.active, op.previous}
                      \/ handle[h].retired /\ \E q \in Readers : lease'[q] = h
    BY DEF OpenIsHeld
  <2>1. \A q \in Readers : lease[q] = h => q # r
    BY NumbersKnown
  <2> QED
    BY <1>1, <2>1 DEF OpenIsHeld
<1> QED
  BY <1>1, <1>2 DEF ReadersServed, OperationKnown, DownIsEmpty, ServedIsRetained, PinKnown, May, Idle

\* Releasing closes the handle if it is retired and this was its last reader.
LEMMA ReleaseKeeps ==
  ASSUME Inv, NEW r \in Readers, Release(r)
  PROVE  Inv'
<1> USE DEF Inv, disk
<1>1. /\ lease' \in [Readers -> Handles \cup {None}] /\ lease'[r] = None
      /\ \A q \in Readers \ {r} : lease'[q] = lease[q]
      /\ lease[r] \in Handles
  BY DEF TypeOK, Release
<1>2. handle' \in [Handles -> Live] /\ Reaping({lease[r]}, {active, previous}, handle, handle', lease')
  <2>1. handle' = Collect(CloseIfRetired(handle, lease', lease[r]), active, previous, lease')
    BY DEF Release
  <2> QED
    BY <1>1, <2>1, TypesKnown, ReapKeeps
<1>3. op = Idle /\ up /\ UNCHANGED <<dirs, pointer, saved, up, active, previous, pinned, op, env, trail>>
  BY DEF Release, Unlocked
<1>4. TypeOK'
  BY <1>1, <1>2, <1>3 DEF TypeOK, Live
<1>5. ReadersServed'
  BY <1>1, <1>2, <1>3, TypesKnown DEF ReadersServed, Reaping, Leased
<1>6. OpenIsHeld'
  BY <1>1, <1>2, <1>3, TypesKnown DEF OpenIsHeld, Idle, Reaping, Leased
<1>7. ServedIsRetained'
  BY <1>1, <1>2, <1>3, TypesKnown DEF ServedIsRetained, Reaping
<1> QED
  BY <1>1, <1>3, <1>4, <1>5, <1>6, <1>7 DEF OperationKnown, DownIsEmpty, PinKnown, May, Idle

\* An operation starts with a handle that nobody has.
LEMMA StartKeeps ==
  ASSUME Inv, Unlocked, NEW kind \in {"activate", "pin"}, NEW b \in Bundles, Start(kind, b),
         dirs \subseteq dirs', dirs' \subseteq Bundles, b \in dirs',
         kind = "activate" => b \notin dirs /\ pinned \in {None, b}
  PROVE  Inv'
<1> DEFINE h == CHOOSE h \in Free : TRUE
<1>1. h \in Handles /\ h \notin {active, previous} /\ (\A r \in Readers : lease[r] # h) /\ h # None
  <2>1. h \in Free
    BY TypesKnown, FreeExists DEF Inv
  <2> QED
    BY <2>1, NumbersKnown DEF Free, Leases
<1>2. /\ op = Idle /\ up
      /\ UNCHANGED <<pointer, saved, up, active, previous, pinned, lease, env, trail>>
      /\ op' = [kind |-> kind, step |-> "opened", id |-> b, new |-> h,
                active |-> active, previous |-> previous]
      /\ handle' = [handle EXCEPT ![h] = [id |-> b, retired |-> FALSE, open |-> TRUE]]
  BY DEF Start, Unlocked
<1> HIDE DEF h
<1>3. /\ handle' \in [Handles -> Live]
      /\ handle'[h].id = b /\ ~handle'[h].retired /\ handle'[h].open
      /\ \A k \in Handles \ {h} : handle'[k] = handle[k]
  BY <1>1, <1>2, TypesKnown DEF Inv, Live
<1>4. TypeOK'
  <2>1. op' \in Operations
    BY <1>1, <1>2, TypesKnown DEF Inv, Operations
  <2>2. dirs' \subseteq Bundles
    OBVIOUS
  <2> QED
    BY <1>2, <1>3, <2>1, <2>2 DEF Inv, TypeOK, Live, Operations
<1>5. ReadersServed'
  BY <1>1, <1>2, <1>3, TypesKnown DEF Inv, ReadersServed
<1>6. \A k \in {active, previous} \ {None} : handle'[k].id \in dirs /\ handle'[k].id = handle[k].id
  BY <1>1, <1>3, TypesKnown DEF Inv, ServedIsRetained
<1>7. OperationKnown'
  BY <1>1, <1>2, <1>3, <1>6, TypesKnown DEF Inv, OperationKnown, ReadersServed
<1>8. OpenIsHeld'
  BY <1>1, <1>2, <1>3, TypesKnown DEF Inv, OpenIsHeld, Idle, OperationKnown
<1>9. ServedIsRetained'
  BY <1>2, <1>6 DEF ServedIsRetained
<1>10. PinKnown'
  BY <1>2 DEF Inv, PinKnown, May
<1> QED
  BY <1>2, <1>4, <1>5, <1>7, <1>8, <1>9, <1>10 DEF Inv, DownIsEmpty

LEMMA ActivateKeeps ==
  ASSUME Inv, NEW b \in Bundles, Activate(b)
  PROVE  Inv'
<1>1. dirs \subseteq Bundles
  BY DEF Inv, TypeOK
<1> QED
  BY <1>1, StartKeeps DEF Activate

LEMMA PinKeeps == Inv /\ Pin => Inv'
<1> SUFFICES ASSUME Inv, Pin PROVE Inv'
  OBVIOUS
<1>1. dirs \subseteq Bundles /\ IdOf(previous) \in dirs
  BY DEF Inv, TypeOK, Pin
<1> QED
  BY <1>1, StartKeeps DEF Pin

\* The pointer is written, or put back.
LEMMA PointerKeeps ==
  ASSUME Inv, up, WritePointer \/ AbortPointer
  PROVE  Inv'
<1>1. /\ UNCHANGED <<dirs, saved, active, previous, pinned, handle, lease, up, trail>>
      /\ op.step # "idle" /\ op.step # "persisted" /\ op.kind = op'.kind /\ op.id = op'.id
      /\ op.new = op'.new /\ op.active = op'.active /\ op.previous = op'.previous
      /\ op'.step \in {"pointed", "unpointed"}
      /\ op.step = "undone" => op.kind = "activate"
      /\ op'.step = "unpointed" => op.step = "undone"
  BY DEF Inv, TypeOK, OperationKnown, WritePointer, AbortPointer, memory
<1>2. pointer' \in Bundles \cup {None}
  <2>1. op.id \in Bundles
    BY <1>1 DEF Inv, TypeOK, OperationKnown
  <2>2. IdOf(op.active) \in Bundles \cup {None}
    BY TypesKnown DEF Inv, TypeOK, IdOf
  <2> QED
    BY <2>1, <2>2 DEF Inv, TypeOK, WritePointer, AbortPointer, RestorePointer
<1>3. /\ \E s \in Scenarios : \E k \in 0..s.faults : env' = [s EXCEPT !.faults = k]
      /\ env'.events = env.events
  <2>1. env' = env \/ Fault(1) \/ Fault(2)
    BY DEF WritePointer, AbortPointer, RestorePointer
  <2>2. TypeOK /\ \E s \in Scenarios : \E k \in 0..s.faults : env = [s EXCEPT !.faults = k]
    BY DEF Inv, TypeOK
  <2> QED
    BY <2>1, <2>2, FaultsKeep
<1>4. op' \in Operations
  BY DEF Inv, TypeOK, WritePointer, AbortPointer, Operations
<1>5. TypeOK'
  BY <1>1, <1>2, <1>3, <1>4 DEF Inv, TypeOK, Operations
<1>6. OperationKnown'
  BY <1>1 DEF Inv, OperationKnown
<1> QED
  BY <1>1, <1>3, <1>5, <1>6
    DEF Inv, ReadersServed, OpenIsHeld, DownIsEmpty, ServedIsRetained, PinKnown, May

\* The handles change places: the two that served are retired, still open.
LEMMA PromoteKeeps ==
  ASSUME Inv, up, Promote
  PROVE  Inv'
<1>1. /\ op.step = "pointed" /\ op.kind = "activate" /\ op.step # "idle" /\ op.step # "persisted"
      /\ UNCHANGED <<dirs, pointer, up, pinned, lease, env, trail>>
      /\ active' = op.new /\ previous' = active
      /\ saved' = Persisted(op.id, IdOf(active), pinned)
      /\ op' = [op EXCEPT !.step = "persisted"]
  BY DEF Promote
<1>2. /\ op.id \in dirs /\ op.new \in Handles /\ op.new # None
      /\ op.new # active /\ op.new # previous
      /\ active = op.active /\ previous = op.previous
  BY <1>1, NumbersKnown DEF Inv, OperationKnown
<1>3. /\ handle' \in [Handles -> Live]
      /\ \A k \in Handles :
           /\ handle'[k].id = handle[k].id /\ handle'[k].open = handle[k].open
           /\ handle'[k].retired = (handle[k].retired \/ k = active \/ k = previous)
  BY <1>1, TypesKnown, RetireBothKeeps DEF Inv, Promote
<1>4. op' \in Operations /\ op'.step = "persisted" /\ op'.kind = op.kind /\ op'.id = op.id
      /\ op'.new = op.new /\ op'.active = op.active /\ op'.previous = op.previous
  BY <1>1 DEF Inv, TypeOK, Operations
<1>5. TypeOK'
  <2>1. IdOf(active) \in Bundles \cup {None} /\ op.id \in Bundles
    BY <1>2, TypesKnown DEF Inv, TypeOK, IdOf
  <2> QED
    BY <1>1, <1>2, <1>3, <1>4, <2>1 DEF Inv, TypeOK, Live, Operations, Persisted
<1>6. ReadersServed'
  BY <1>1, <1>2, <1>3, TypesKnown DEF Inv, ReadersServed, OperationKnown
<1>7. OperationKnown'
  BY <1>1, <1>2, <1>3, <1>4, TypesKnown DEF Inv, OperationKnown
<1>8. OpenIsHeld'
  BY <1>1, <1>2, <1>3, <1>4, TypesKnown DEF Inv, OpenIsHeld
<1>9. ServedIsRetained'
  BY <1>1, <1>2, <1>3, TypesKnown DEF Inv, ServedIsRetained, OperationKnown
<1>10. PinKnown'
  BY <1>1, <1>4 DEF Inv, PinKnown, May, Persisted
<1> QED
  BY <1>1, <1>5, <1>6, <1>7, <1>8, <1>9, <1>10 DEF Inv, DownIsEmpty

\* The retired handles that nobody reads are closed, and what is protected stays.
LEMMA FinishKeeps ==
  ASSUME Inv, up, Finish
  PROVE  Inv'
<1>1. /\ op.step = "persisted" /\ op.step # "idle"
      /\ UNCHANGED <<pointer, saved, up, active, previous, pinned, lease, env>>
      /\ dirs' = KeptAfter /\ op' = Idle /\ trail' = <<op.id, IdOf(op.active)>>
  BY DEF Finish
<1>2. /\ op.id \in dirs /\ op.new \in Handles /\ op.active \in Handles \cup {None}
      /\ op.previous \in Handles \cup {None}
      /\ active = op.new /\ previous = op.active /\ op.new # op.previous /\ op.new # op.active
      /\ active # None /\ ~handle[active].retired
      /\ op.previous # None => handle[op.previous].retired
  BY <1>1, NumbersKnown DEF Inv, OperationKnown, TypeOK
<1>3. handle' \in [Handles -> Live]
      /\ Reaping({op.active, op.previous}, {active, previous}, handle, handle', lease)
  <2>1. handle' = Collect(CloseIfRetired(CloseIfRetired(handle, lease, op.active), lease, op.previous),
                          active, previous, lease)
    BY DEF Finish
  <2> QED
    BY <1>2, <2>1, TypesKnown, ReapBothKeeps DEF Inv
<1>4. /\ dirs' \subseteq dirs
      /\ \A h \in {active, previous} \ {None} : handle'[h].id \in dirs'
      /\ pinned \in dirs => pinned \in dirs'
  <2>1. \A h \in {active, previous} \ {None} : handle'[h].id = IdOf(h) /\ IdOf(h) \in dirs
    BY <1>2, <1>3, TypesKnown DEF Inv, ServedIsRetained, IdOf, Reaping
  <2> QED
    BY <1>1, <2>1, CleanupKeeps
<1>5. TypeOK'
  <2>1. op' \in Operations
    BY <1>1 DEF Idle, Operations
  <2>2. op.id \in Bundles /\ IdOf(op.active) \in Bundles \cup {None}
    BY <1>2, TypesKnown DEF Inv, TypeOK, IdOf
  <2> QED
    BY <1>1, <1>3, <1>4, <2>1, <2>2 DEF Inv, TypeOK, Live, Operations
<1>6. ReadersServed'
  BY <1>1, <1>2, <1>3, TypesKnown DEF Inv, ReadersServed, Reaping, Leased
<1>7. OpenIsHeld'
  <2> SUFFICES ASSUME NEW h \in Handles, handle'[h].open
               PROVE  \/ h \in {active, previous}
                      \/ handle'[h].retired /\ \E r \in Readers : lease[r] = h
    BY <1>1 DEF OpenIsHeld
  <2>1. handle[h].open /\ handle'[h].retired = handle[h].retired
        /\ ~(h \in {op.active, op.previous} /\ handle[h].retired /\ \A r \in Readers : lease[r] # h)
    BY <1>3 DEF Reaping, Leased
  <2> QED
    BY <1>2, <2>1, TypesKnown DEF Inv, OpenIsHeld
<1>8. ServedIsRetained'
  BY <1>1, <1>4 DEF ServedIsRetained
<1>9. PinKnown'
  BY <1>1, <1>4 DEF Inv, PinKnown, May, Idle
<1> QED
  BY <1>1, <1>5, <1>6, <1>7, <1>8, <1>9 DEF Inv, OperationKnown, DownIsEmpty, Idle

\* An operation that fails gives up its handle; an activation takes its
\* directory away with it.
LEMMA GiveUpKeeps ==
  ASSUME Inv, op.step \notin {"idle", "persisted"},
         handle' = [handle EXCEPT ![op.new] = Closed],
         dirs' = (IF op.kind = "activate" THEN dirs \ {op.id} ELSE dirs),
         op' = Idle, pointer' \in Bundles \cup {None},
         UNCHANGED <<saved, up, active, previous, pinned, lease, trail>>,
         \E s \in Scenarios : \E k \in 0..s.faults : env' = [s EXCEPT !.faults = k],
         env'.events = env.events
  PROVE  Inv'
<1>1. /\ up /\ op.new \in Handles /\ op.new # active /\ op.new # previous
      /\ \A r \in Readers : lease[r] # op.new
      /\ active = op.active /\ previous = op.previous
      /\ op.kind \in {"activate", "pin"}
  BY DEF Inv, OperationKnown
<1>2. /\ handle' \in [Handles -> Live] /\ ~handle'[op.new].open
      /\ \A k \in Handles \ {op.new} : handle'[k] = handle[k]
  BY <1>1, TypesKnown, NumbersKnown DEF Inv, Closed
<1>3. TypeOK'
  <2>1. op' \in Operations /\ dirs' \subseteq Bundles
    BY DEF Inv, TypeOK, Idle, Operations
  <2> QED
    BY <1>2, <2>1 DEF Inv, TypeOK, Live, Operations
<1>4. ReadersServed'
  BY <1>1, <1>2, TypesKnown DEF Inv, ReadersServed
<1>5. OpenIsHeld'
  BY <1>1, <1>2, TypesKnown DEF Inv, OpenIsHeld
<1>6. ServedIsRetained'
  <2> SUFFICES ASSUME NEW h \in {active, previous} \ {None} PROVE handle'[h].id \in dirs'
    BY DEF ServedIsRetained
  <2>1. handle'[h] = handle[h]
    BY <1>1, <1>2, TypesKnown DEF Inv
  <2>2. handle[h].id \in dirs /\ (op.kind = "activate" => handle[h].id # op.id)
    BY <1>1 DEF Inv, OperationKnown
  <2> QED
    BY <2>1, <2>2
<1>7. PinKnown'
  BY <1>1 DEF Inv, PinKnown, May, Idle
<1> QED
  BY <1>1, <1>3, <1>4, <1>5, <1>6, <1>7 DEF Inv, OperationKnown, DownIsEmpty, Idle

LEMMA AbortEarlyKeeps ==
  ASSUME Inv, AbortEarly
  PROVE  Inv'
<1>1. TypeOK /\ Fault(1) /\ pointer \in Bundles \cup {None}
  BY DEF Inv, TypeOK, AbortEarly
<1>2. /\ \E s \in Scenarios : \E k \in 0..s.faults : env' = [s EXCEPT !.faults = k]
      /\ env'.events = env.events
  BY <1>1, FaultsKeep
<1> QED
  BY <1>1, <1>2, GiveUpKeeps DEF AbortEarly

LEMMA AbortDirectoryKeeps ==
  ASSUME Inv, AbortDirectory
  PROVE  Inv'
<1>1. op.kind = "activate" /\ pointer \in Bundles \cup {None} /\ op.step = "unpointed"
  BY DEF Inv, TypeOK, OperationKnown, AbortDirectory
<1>2. \E s \in Scenarios : \E k \in 0..s.faults : env' = [s EXCEPT !.faults = k]
  BY DEF Inv, TypeOK, AbortDirectory
<1> QED
  BY <1>1, <1>2, GiveUpKeeps DEF AbortDirectory

LEMMA PinFailsKeeps ==
  ASSUME Inv, PinFails
  PROVE  Inv'
<1>1. TypeOK /\ (Fault(1) \/ Fault(2) \/ Fault(3)) /\ op.kind = "pin"
  BY DEF Inv, PinFails
<1>2. /\ \E s \in Scenarios : \E k \in 0..s.faults : env' = [s EXCEPT !.faults = k]
      /\ env'.events = env.events
  BY <1>1, FaultsKeep
<1>3. pointer' \in Bundles \cup {None}
  <2>1. IdOf(op.active) \in Bundles \cup {None}
    BY TypesKnown DEF Inv, TypeOK, IdOf
  <2> QED
    BY <2>1 DEF Inv, TypeOK, PinFails
<1> QED
  BY <1>1, <1>2, <1>3, GiveUpKeeps DEF PinFails

\* Memory is put back: what was served before is open and no longer retired.
LEMMA AbortLateKeeps ==
  ASSUME Inv, AbortLate
  PROVE  Inv'
<1>1. /\ op.kind = "activate" /\ op.step \in {"pointed", "persisted"}
      /\ active' = op.active /\ previous' = op.previous
      /\ handle' = IF op.active = None THEN handle ELSE [handle EXCEPT ![op.active].retired = FALSE]
      /\ op' = [op EXCEPT !.step = "undone"]
      /\ UNCHANGED <<dirs, pointer, up, pinned, lease, trail>>
      /\ Fault(1) \/ Fault(2)
      /\ saved' = saved \/ saved' = Persisted(IdOf(op.active), IdOf(op.previous), pinned)
  BY DEF AbortLate
<1>2. /\ up /\ op.new \in Handles /\ op.new # op.active /\ op.new # op.previous
      /\ op.id \in dirs
      /\ op.active \in Handles \cup {None} /\ op.previous \in Handles \cup {None}
      /\ op.active # None => handle[op.active].open
      /\ {active, previous} \subseteq {op.new, op.active, op.previous}
  BY <1>1 DEF Inv, OperationKnown, TypeOK
<1>3. /\ \E s \in Scenarios : \E k \in 0..s.faults : env' = [s EXCEPT !.faults = k]
      /\ env'.events = env.events
  BY <1>1, FaultsKeep DEF Inv
<1>4. /\ handle' \in [Handles -> Live]
      /\ \A k \in Handles : /\ handle'[k].id = handle[k].id /\ handle'[k].open = handle[k].open
                           /\ k # op.active => handle'[k].retired = handle[k].retired
      /\ op.active # None => ~handle'[op.active].retired
  <2>1. CASE op.active = None
    BY <1>1, <2>1, TypesKnown DEF Inv
  <2>2. CASE op.active # None
    <3>1. op.active \in Handles /\ handle \in [Handles -> Live]
      BY <1>2, <2>2, TypesKnown DEF Inv
    <3>2. handle' = [handle EXCEPT ![op.active].retired = FALSE]
      BY <1>1, <2>2
    <3>3. handle'[op.active] = [handle[op.active] EXCEPT !.retired = FALSE]
          /\ \A k \in Handles \ {op.active} : handle'[k] = handle[k]
      BY <3>1, <3>2
    <3> QED
      BY <3>1, <3>2, <3>3 DEF Live
  <2> QED
    BY <2>1, <2>2
<1>5. op' \in Operations /\ op'.step = "undone" /\ op'.kind = op.kind /\ op'.id = op.id
      /\ op'.new = op.new /\ op'.active = op.active /\ op'.previous = op.previous
  BY <1>1 DEF Inv, TypeOK, Operations
<1>6. TypeOK'
  <2>1. IdOf(op.active) \in Bundles \cup {None} /\ IdOf(op.previous) \in Bundles \cup {None}
    BY <1>2, TypesKnown DEF Inv, IdOf
  <2> QED
    BY <1>1, <1>2, <1>3, <1>4, <1>5, <2>1 DEF Inv, TypeOK, Live, Operations, Persisted
<1>7. ReadersServed'
  BY <1>1, <1>2, <1>4, TypesKnown DEF Inv, ReadersServed
<1>8. OperationKnown'
  BY <1>1, <1>2, <1>4, <1>5, TypesKnown DEF Inv, OperationKnown
<1>9. OpenIsHeld'
  BY <1>1, <1>2, <1>4, <1>5, TypesKnown DEF Inv, OpenIsHeld
<1>10. ServedIsRetained'
  BY <1>1, <1>2, <1>4, TypesKnown DEF Inv, ServedIsRetained, OperationKnown
<1>11. PinKnown'
  BY <1>1, <1>2, <1>3, <1>5 DEF Inv, PinKnown, May, Persisted
<1> QED
  BY <1>1, <1>2, <1>6, <1>7, <1>8, <1>9, <1>10, <1>11 DEF Inv, DownIsEmpty

\* A pin puts the new handle in the place of the active one, the active one in
\* the place of the previous one, and closes what nobody reads.
LEMMA PinPersistKeeps ==
  ASSUME Inv, PinPersist
  PROVE  Inv'
<1>1. /\ op.kind = "pin" /\ op.step = "pointed"
      /\ active' = op.new /\ previous' = active /\ pinned' = op.id
      /\ saved' = Persisted(op.id, IdOf(active), op.id)
      /\ trail' = <<op.id, IdOf(active)>> /\ op' = Idle
      /\ UNCHANGED <<dirs, pointer, up, lease, env>>
  BY DEF PinPersist
<1>2. /\ up /\ op.new \in Handles /\ op.new # active /\ op.new # previous
      /\ op.id \in dirs /\ handle[op.new].id = op.id
      /\ handle[op.new].open /\ ~handle[op.new].retired
      /\ active = op.active /\ previous = op.previous
  BY <1>1 DEF Inv, OperationKnown
<1>3. PICK rs \in [Handles -> Live] :
        /\ rs = Retire(Retire(handle, active), previous)
        /\ \A k \in Handles :
             /\ rs[k].id = handle[k].id /\ rs[k].open = handle[k].open
             /\ rs[k].retired = (handle[k].retired \/ k = active \/ k = previous)
  BY RetireBothKeeps, TypesKnown DEF Inv
<1>4. handle' \in [Handles -> Live] /\ Reaping({active, previous}, {op.new, active}, rs, handle', lease)
  <2>1. handle' = Collect(CloseIfRetired(CloseIfRetired(rs, lease, active), lease, previous),
                          op.new, active, lease)
    BY <1>3 DEF PinPersist
  <2> QED
    BY <2>1, TypesKnown, ReapBothKeeps DEF Inv
<1>5. TypeOK'
  <2>1. op' \in Operations /\ op.id \in Bundles /\ IdOf(active) \in Bundles \cup {None}
    BY <1>1, <1>2, TypesKnown DEF Inv, TypeOK, Idle, Operations, IdOf
  <2> QED
    BY <1>1, <1>2, <1>4, <2>1 DEF Inv, TypeOK, Live, Operations, Persisted
<1>6. ReadersServed'
  BY <1>1, <1>2, <1>3, <1>4, TypesKnown DEF Inv, ReadersServed, Reaping, Leased
<1>7. OpenIsHeld'
  BY <1>1, <1>2, <1>3, <1>4, TypesKnown DEF Inv, OpenIsHeld, Reaping, Leased
<1>8. ServedIsRetained'
  BY <1>1, <1>2, <1>3, <1>4, TypesKnown DEF Inv, ServedIsRetained, Reaping
<1>9. PinKnown'
  BY <1>1, <1>2 DEF Inv, PinKnown, May, Persisted, Idle
<1> QED
  BY <1>1, <1>2, <1>5, <1>6, <1>7, <1>8, <1>9 DEF Inv, OperationKnown, DownIsEmpty, Idle

\* Lifting the pin, in the server or by the command line, touches only the row,
\* or the row and the pointer.
LEMMA PinLiftKeeps ==
  ASSUME Inv, Unpin \/ CliUnpin \/ \E b \in Bundles : CliPin(b)
  PROVE  Inv'
<1>1. /\ UNCHANGED <<dirs, up, active, previous, handle, lease, op, env, trail>>
      /\ Unpin \/ (UNCHANGED pinned /\ May("cli"))
  BY DEF Unpin, CliUnpin, CliPin, memory
<1>2. pinned' \in Bundles \cup {None} /\ pointer' \in Bundles \cup {None}
  BY DEF Inv, TypeOK, Unpin, CliUnpin, CliPin, memory
<1>3. saved' \in [active : Bundles \cup {None}, previous : Bundles \cup {None},
                 pinned : Bundles \cup {None}]
  <2>1. RestoredActive \in Bundles \cup {None} /\ RestoredPrevious \in Bundles \cup {None}
    BY RestoredIsThere DEF Inv, TypeOK
  <2>2. IdOf(active) \in Bundles \cup {None} /\ IdOf(previous) \in Bundles \cup {None}
    BY TypesKnown DEF Inv, IdOf
  <2> QED
    BY <2>1, <2>2 DEF Unpin, CliUnpin, CliPin, Persisted
<1>4. TypeOK'
  BY <1>1, <1>2, <1>3 DEF Inv, TypeOK
<1>5. PinKnown'
  <2>1. CASE Unpin
    BY <2>1 DEF Unpin, PinKnown, May, Persisted
  <2>2. CASE May("cli")
    BY <1>1, <2>2 DEF PinKnown, May
  <2> QED
    BY <1>1, <2>1, <2>2
<1> QED
  BY <1>1, <1>4, <1>5
    DEF Inv, ReadersServed, OperationKnown, OpenIsHeld, DownIsEmpty, ServedIsRetained

LEMMA CrashKeeps ==
  ASSUME Inv, Crash
  PROVE  Inv'
<1>1. op' \in Operations /\ op'.step = "idle" /\ op'.kind = "none"
      /\ op'.new = None /\ op'.active = None /\ op'.previous = None
  BY DEF Inv, TypeOK, Crash, Idle, Operations
<1>2. handle' \in [Handles -> Live] /\ \A h \in Handles : ~handle'[h].open
  BY NumbersKnown DEF Crash, Closed
<1>3. TypeOK'
  BY <1>1, <1>2 DEF Inv, TypeOK, Crash, Live, Operations, disk
<1> QED
  BY <1>1, <1>2, <1>3 DEF Inv, Crash, disk, ReadersServed, OperationKnown, OpenIsHeld, DownIsEmpty,
    ServedIsRetained, PinKnown, May

\* A restart serves from the disk what it finds there.
LEMMA RestartKeeps ==
  ASSUME Inv, Restart
  PROVE  Inv'
<1> DEFINE a == RestoredActive
           p == RestoredPrevious
           served == IF a = None THEN Closed ELSE [id |-> a, retired |-> FALSE, open |-> TRUE]
           kept == IF p = None THEN Closed ELSE [id |-> p, retired |-> TRUE, open |-> TRUE]
<1>1. /\ up' = TRUE /\ pinned' = saved.pinned
      /\ active' = (IF a = None THEN None ELSE 1) /\ previous' = (IF p = None THEN None ELSE 2)
      /\ handle' = [handle EXCEPT ![1] = served, ![2] = kept]
      /\ trail' = (IF a = trail[1] THEN trail ELSE <<a, trail[1]>>)
      /\ op' = Idle /\ UNCHANGED <<dirs, pointer, saved, lease, env>>
  BY DEF Restart, disk
<1>2. a \in dirs \cup {None} /\ p \in dirs \cup {None} /\ dirs \subseteq Bundles
  BY RestoredIsThere DEF Inv, TypeOK
<1> HIDE DEF a, p, served, kept
<1>3. /\ \A h \in Handles : ~handle[h].open
      /\ \A r \in Readers : lease[r] = None
      /\ 1 \in Handles /\ 2 \in Handles /\ 1 # None /\ 2 # None
  BY NumbersKnown DEF Inv, DownIsEmpty, Restart
<1>4. /\ handle' \in [Handles -> Live]
      /\ IF a = None THEN ~handle'[1].open
         ELSE handle'[1].id = a /\ ~handle'[1].retired /\ handle'[1].open
      /\ IF p = None THEN ~handle'[2].open ELSE handle'[2].id = p
      /\ \A h \in Handles \ {1, 2} : handle'[h] = handle[h]
  <2>1. served \in Live /\ kept \in Live
    BY <1>2 DEF served, kept, Live, Closed
  <2>2. handle' \in [Handles -> Live] /\ handle'[1] = served /\ handle'[2] = kept
        /\ \A h \in Handles \ {1, 2} : handle'[h] = handle[h]
    BY <1>1, <1>3, <2>1, TypesKnown DEF Inv
  <2> QED
    BY <2>2 DEF served, kept, Closed
<1>5. TypeOK'
  <2>1. op' \in Operations
    BY <1>1 DEF Idle, Operations
  <2>2. trail' \in (Bundles \cup {None}) \X (Bundles \cup {None})
    BY <1>1, <1>2 DEF Inv, TypeOK
  <2>3. active' \in Handles \cup {None} /\ previous' \in Handles \cup {None}
    BY <1>1, <1>3
  <2>4. pinned' \in Bundles \cup {None} /\ up' \in BOOLEAN
    BY <1>1 DEF Inv, TypeOK
  <2> QED
    BY <1>1, <1>4, <2>1, <2>2, <2>3, <2>4 DEF Inv, TypeOK, Live, Operations
<1>6. ReadersServed'
  BY <1>1, <1>3, <1>4 DEF ReadersServed
<1>7. OpenIsHeld'
  BY <1>1, <1>3, <1>4 DEF OpenIsHeld
<1>8. ServedIsRetained'
  <2>1. active' # None => handle'[active'].id \in dirs'
    BY <1>1, <1>2, <1>4
  <2>2. previous' # None => handle'[previous'].id \in dirs'
    BY <1>1, <1>2, <1>4
  <2> QED
    BY <2>1, <2>2 DEF ServedIsRetained
<1>9. PinKnown'
  BY <1>1 DEF Inv, PinKnown, May, Idle
<1> QED
  BY <1>1, <1>5, <1>6, <1>7, <1>8, <1>9 DEF Inv, OperationKnown, DownIsEmpty, Idle

\* Every step keeps the invariant.
LEMMA NextKeeps == Inv /\ [Next]_vars => Inv'
<1> SUFFICES ASSUME Inv, [Next]_vars PROVE Inv'
  OBVIOUS
<1>1. CASE \E r \in Readers : Acquire(r) \/ Release(r)
  BY <1>1, AcquireKeeps, ReleaseKeeps
<1>2. CASE \E b \in Bundles : Activate(b) \/ CliPin(b)
  BY <1>2, ActivateKeeps, PinLiftKeeps
<1>3. CASE up /\ Operation
  <2>1. CASE WritePointer \/ AbortPointer
    BY <1>3, <2>1, PointerKeeps
  <2>2. CASE Promote \/ Finish
    BY <1>3, <2>2, PromoteKeeps, FinishKeeps
  <2>3. CASE AbortEarly \/ AbortDirectory \/ PinFails
    BY <2>3, AbortEarlyKeeps, AbortDirectoryKeeps, PinFailsKeeps
  <2>4. CASE AbortLate \/ PinPersist
    BY <2>4, AbortLateKeeps, PinPersistKeeps
  <2> QED
    BY <1>3, <2>1, <2>2, <2>3, <2>4 DEF Operation
<1>4. CASE Pin \/ Unpin \/ CliUnpin \/ Crash \/ Restart
  BY <1>4, PinKeeps, PinLiftKeeps, CrashKeeps, RestartKeeps
<1>5. CASE UNCHANGED vars
  BY <1>5 DEF Inv, TypeOK, ReadersServed, OperationKnown, OpenIsHeld, DownIsEmpty, ServedIsRetained,
    PinKnown, May, vars, disk, memory
<1> QED
  BY <1>1, <1>2, <1>3, <1>4, <1>5 DEF Next

\* The invariant holds of every reachable state.
THEOREM InvHolds == Spec => []Inv
  BY InitEstablishes, NextKeeps, PTL DEF Spec
-----------------------------------------------------------------------------
(***************************************************************************)
(* What it gives.                                                          *)
(***************************************************************************)
\* A reader never loses its index under it, what is served is open, and no
\* handle is forgotten open (_close_if_retired and its callers).
THEOREM HandlesAlwaysFollowLeases == Spec => []HandlesFollowLeases
<1>1. Inv => HandlesFollowLeases
  <2> SUFFICES ASSUME Inv PROVE HandlesFollowLeases
    OBVIOUS
  <2>1. ASSUME Unlocked, NEW h \in Handles, handle[h].open
        PROVE  h \in {active, previous} \/ Leases(h, lease) # {}
    BY <2>1, NumbersKnown DEF Inv, Unlocked, OpenIsHeld, Idle, Leases
  <2> QED
    BY <2>1 DEF Inv, ReadersServed, HandlesFollowLeases
<1> QED
  BY <1>1, InvHolds, PTL

\* What is served, and what can be rolled back to, keeps its directory
\* (_cleanup_unreferenced and the removal of a failed candidate).
THEOREM ServedAlwaysRetained == Spec => []ServedIsRetained
<1>1. Inv => ServedIsRetained
  BY DEF Inv
<1> QED
  BY <1>1, InvHolds, PTL

\* An activation in the server never lifts a pin or goes around it (activate
\* and pin, under the manager's lock).
THEOREM PinAlwaysHolds == Spec => PinHolds
<1>1. Inv /\ [Next]_vars => [PinKept]_vars
  BY DEF Inv, PinKnown, PinKept
<1> QED
  BY <1>1, InvHolds, PTL DEF Spec, PinHolds

\* An activation or a pin that raises, wherever it does and whatever raises
\* again while it is undone, leaves memory and directories as it found them.
THEOREM AbortAlwaysRestores == Spec => AbortRestoresService
<1>1. Inv /\ [Next]_vars => [Restored]_vars
  <2> SUFFICES ASSUME Inv, Next, up, up', op # Idle, op' = Idle, active' = None \/ active' # op.new
               PROVE  /\ active' = op.active /\ previous' = op.previous /\ pinned' = pinned
                      /\ op.active # None => handle'[op.active].open /\ ~handle'[op.active].retired
                      /\ op.kind = "activate" => dirs' = dirs \ {op.id}
    BY DEF Restored
  <2>1. op' # op
    OBVIOUS
  <2>2. AbortEarly \/ AbortDirectory \/ PinFails \/ Finish \/ PinPersist
    <3>1. ~(\E r \in Readers : Acquire(r) \/ Release(r))
      BY DEF Acquire, Release, Unlocked
    <3>2. ~(\E b \in Bundles : Activate(b) \/ CliPin(b))
      BY <2>1 DEF Activate, Unlocked, CliPin
    <3>3. ~(Pin \/ Unpin \/ CliUnpin \/ Crash \/ Restart)
      BY <2>1 DEF Pin, Unpin, Unlocked, CliUnpin, Crash, Restart
    <3>4. ~(WritePointer \/ Promote \/ AbortLate \/ AbortPointer)
      BY DEF WritePointer, Promote, AbortLate, AbortPointer, Idle, Inv, TypeOK
    <3> QED
      BY <3>1, <3>2, <3>3, <3>4 DEF Next, Operation
  <2>3. ~Finish /\ ~PinPersist
    <3>1. op.step # "idle" => op.new # None
      BY NumbersKnown DEF Inv, OperationKnown
    <3>2. Finish => active' = op.new /\ op.step # "idle"
      BY DEF Inv, OperationKnown, Finish
    <3>3. PinPersist => active' = op.new /\ op.step # "idle"
      BY DEF PinPersist
    <3> QED
      BY <3>1, <3>2, <3>3
  <2>4. /\ op.step # "idle" /\ op.step # "persisted"
        /\ UNCHANGED <<active, previous, pinned>>
        /\ handle' = [handle EXCEPT ![op.new] = Closed]
        /\ op.kind = "activate" => dirs' = dirs \ {op.id}
    BY <2>2, <2>3 DEF AbortEarly, AbortDirectory, PinFails
  <2>5. active = op.active /\ previous = op.previous /\ op.new # op.active
    BY <2>4 DEF Inv, OperationKnown
  <2>6. op.active # None => handle'[op.active] = handle[op.active]
    BY <2>4, <2>5, TypesKnown DEF Inv
  <2> QED
    BY <2>4, <2>5, <2>6 DEF Inv, ReadersServed
<1> QED
  BY <1>1, InvHolds, PTL DEF Spec, AbortRestoresService
-----------------------------------------------------------------------------
(***************************************************************************)
(* The service after a crash.                                              *)
(***************************************************************************)
\* At most two calls raise, as in the scenarios of the runs: a third one can
\* unlink the pointer while the row names a removed candidate.  And a crash does
\* not come after a pin of the CLI.
FewFaults == \A s \in Scenarios : s.faults <= 2 /\ ~({"crash", "cli"} \subseteq s.events)

\* The bundle served before what is under way.
Serving == IF op.step = "idle" THEN IdOf(active) ELSE IdOf(op.active)

\* The bundle that a restart finds when nothing is pinned.
Found == IF pointer \in dirs THEN pointer ELSE IF saved.active \in dirs THEN saved.active ELSE None

NothingPinned == saved.pinned = None /\ pinned = None /\ op.kind # "pin"

\* The pointer names a directory that is there; where it was unlinked, nothing
\* can raise any more that would leave the row behind.
PointerFound == pointer \in dirs \cup {None} /\ (pointer = None => saved.active = None \/ env.faults = 0)

\* While an operation has not settled, the pointer names its bundle; otherwise it
\* names what is served, or the row does.
Recorded ==
  up => /\ trail[1] = Serving
        /\ trail[1] = None => saved.active \notin dirs \ {op.id}
        /\ IF op.step \in {"pointed", "persisted", "undone"} THEN pointer = op.id
           ELSE pointer = trail[1] \/ (pointer = None /\ saved.active = trail[1])
        /\ op.step = "undone" => env.faults <= 1 /\ (saved.active = trail[1] \/ env.faults = 0)

FoundAfterCrash == ~up => Found = trail[1] \/ (Found # None /\ Found = op.id)

Disk == NothingPinned /\ PointerFound /\ Recorded /\ FoundAfterCrash

\* The invariant about what a restart finds.
RestartInv ==
  /\ env.faults \in 0..2
  /\ ~({"crash", "cli"} \subseteq env.events)
  /\ ~up => May("crash")
  /\ ~May("pin") /\ ~May("cli") => Disk

\* A scenario does not change, and what may raise only shrinks.
LEMMA ScenarioKept ==
  ASSUME FewFaults, TypeOK
  PROVE  env.faults \in 0..2 /\ ~({"crash", "cli"} \subseteq env.events)
<1>1. PICK s \in Scenarios : \E n \in 0..s.faults : env = [s EXCEPT !.faults = n]
  BY DEF TypeOK
<1>2. PICK n \in 0..s.faults : env = [s EXCEPT !.faults = n]
  BY <1>1
<1>3. s \in [events : SUBSET {"pin", "crash", "cli"}, faults : Nat]
  BY ScenariosAssumption
<1>4. s.faults <= 2 /\ ~({"crash", "cli"} \subseteq s.events) /\ s.faults \in Nat
  BY <1>3 DEF FewFaults
<1>5. env.faults = n /\ env.events = s.events
  BY <1>2, <1>3
<1> QED
  BY <1>4, <1>5

\* What a restart takes for active is what it finds, unless something is pinned.
LEMMA FoundIsRestored ==
  ASSUME Inv, saved.pinned = None
  PROVE  RestoredActive = Found
<1> DEFINE ids == <<saved.pinned, pointer, saved.active>>
           first(k) == ids[k] \in dirs \ {None} /\ \A j \in 1..(k - 1) : ids[j] \notin dirs \ {None}
<1>1. ids[1] = None /\ ids[2] = pointer /\ ids[3] = saved.active /\ DOMAIN ids = 1..3
  OBVIOUS
<1>2. None \notin dirs
  BY NumbersKnown DEF Inv, TypeOK
<1>3. RestoredActive = IF \E k \in 1..3 : first(k) THEN ids[CHOOSE k \in 1..3 : first(k)] ELSE None
  BY <1>1 DEF RestoredActive, FirstRetained
<1> HIDE DEF ids
<1>4. CASE pointer \in dirs
  <2>1. \A k \in 1..3 : first(k) <=> k = 2
    BY <1>1, <1>2, <1>4
  <2>2. (CHOOSE k \in 1..3 : first(k)) = 2
    BY <2>1
  <2> QED
    BY <1>1, <1>3, <1>4, <2>1, <2>2 DEF Found
<1>5. CASE pointer \notin dirs /\ saved.active \in dirs
  <2>1. \A k \in 1..3 : first(k) <=> k = 3
    BY <1>1, <1>2, <1>5
  <2>2. (CHOOSE k \in 1..3 : first(k)) = 3
    BY <2>1
  <2> QED
    BY <1>1, <1>3, <1>5, <2>1, <2>2 DEF Found
<1>6. CASE pointer \notin dirs /\ saved.active \notin dirs
  <2>1. \A k \in 1..3 : ~first(k)
    BY <1>1, <1>2, <1>6
  <2> QED
    BY <1>3, <1>6, <2>1 DEF Found
<1> QED
  BY <1>4, <1>5, <1>6

LEMMA FaultCounts ==
  ASSUME TypeOK, NEW n \in Nat, Fault(n)
  PROVE  env'.events = env.events /\ env'.faults = env.faults - n /\ env.faults >= n
<1>1. PICK s \in Scenarios : \E k \in 0..s.faults : env = [s EXCEPT !.faults = k]
  BY DEF TypeOK
<1>2. PICK k \in 0..s.faults : env = [s EXCEPT !.faults = k]
  BY <1>1
<1>3. s \in [events : SUBSET {"pin", "crash", "cli"}, faults : Nat]
  BY ScenariosAssumption
<1> QED
  BY <1>2, <1>3 DEF Fault

\* Whatever happens, the scenario stays the same and what may raise only shrinks.
LEMMA ScenarioLasts ==
  ASSUME Inv, RestartInv, [Next]_vars
  PROVE  env'.faults \in 0..2 /\ env'.events = env.events /\ (~up' => May("crash"))
<1>1. env' = env \/ Fault(1) \/ Fault(2) \/ Fault(3)
  BY DEF Next, Operation, Acquire, Release, Activate, Start, CliPin, WritePointer, Promote, Finish,
    AbortEarly, AbortLate, AbortPointer, RestorePointer, AbortDirectory, PinPersist, PinFails, Pin,
    Unpin, CliUnpin, Crash, Restart, vars
<1>2. env'.faults \in 0..2 /\ env'.events = env.events
  <2>1. CASE env' = env
    BY <2>1 DEF RestartInv
  <2>2. CASE Fault(1) \/ Fault(2) \/ Fault(3)
    BY <2>2, FaultCounts DEF Inv, RestartInv
  <2> QED
    BY <1>1, <2>1, <2>2
<1>3. up' = up \/ Crash \/ Restart
  BY DEF Next, Operation, Acquire, Release, Activate, Start, CliPin, WritePointer, Promote, Finish,
    AbortEarly, AbortLate, AbortPointer, AbortDirectory, PinPersist, PinFails, Pin, Unpin, CliUnpin,
    vars
<1> QED
  BY <1>2, <1>3 DEF RestartInv, Crash, Restart

\* What is served is retained, and is not what an activation brings.
LEMMA ServingRetained ==
  ASSUME Inv, up
  PROVE  /\ Serving \in dirs \cup {None}
         /\ None \notin dirs
         /\ op.kind = "activate" /\ op.step # "idle" => op.id \in dirs /\ op.id # Serving
<1>1. None \notin dirs
  BY NumbersKnown DEF Inv, TypeOK
<1>2. op.active \in Handles \cup {None} /\ active \in Handles \cup {None}
  BY DEF Inv, TypeOK
<1>3. CASE op.step = "idle"
  BY <1>1, <1>2, <1>3 DEF Inv, TypeOK, ServedIsRetained, Serving, IdOf
<1>4. CASE op.step # "idle"
  BY <1>1, <1>2, <1>4 DEF Inv, OperationKnown, Serving, IdOf
<1> QED
  BY <1>1, <1>3, <1>4

\* A reader that comes or goes changes nothing of it.
LEMMA ReadersLeaveDisk ==
  ASSUME Inv, Disk, NEW r \in Readers, Acquire(r) \/ Release(r)
  PROVE  Disk'
<1>1. op = Idle /\ up /\ UNCHANGED <<dirs, pointer, saved, up, active, previous, pinned, op, env, trail>>
  BY DEF Acquire, Release, Unlocked, disk
<1>2. Serving' = Serving
  <2>1. CASE Acquire(r)
    BY <1>1, <2>1 DEF Acquire, Serving, IdOf
  <2>2. CASE Release(r)
    <3>1. lease' \in [Readers -> Handles \cup {None}] /\ lease[r] \in Handles
      BY <2>2 DEF Inv, TypeOK, Release
    <3>2. Reaping({lease[r]}, {active, previous}, handle, handle', lease')
      BY <2>2, <3>1, TypesKnown, ReapKeeps DEF Inv, Release
    <3>3. active # None => handle'[active].id = handle[active].id
      BY <3>2 DEF Inv, TypeOK, Reaping
    <3> QED
      BY <1>1, <3>3 DEF Serving, IdOf, Idle
  <2> QED
    BY <2>1, <2>2
<1> QED
  BY <1>1, <1>2 DEF Disk, NothingPinned, PointerFound, Recorded, FoundAfterCrash, Found

\* A candidate is renamed into place: at most its own directory becomes one that
\* the row names.
LEMMA ActivateRecorded ==
  ASSUME Inv, Disk, NEW b \in Bundles, Activate(b)
  PROVE  Disk'
<1>1. /\ op = Idle /\ up /\ b \notin dirs /\ dirs' = dirs \cup {b}
      /\ op'.kind = "activate" /\ op'.step = "opened" /\ op'.id = b /\ op'.active = active
      /\ UNCHANGED <<pointer, saved, up, active, pinned, env, trail>>
  BY DEF Activate, Start, Unlocked
<1>2. Serving' = Serving
  <2> DEFINE h == CHOOSE h \in Free : TRUE
  <2>1. h \in Free
    BY TypesKnown, FreeExists DEF Inv
  <2>2. h # active /\ handle' = [handle EXCEPT ![h] = [id |-> b, retired |-> FALSE, open |-> TRUE]]
    BY <2>1 DEF Free, Activate, Start
  <2> HIDE DEF h
  <2>3. active # None => handle'[active] = handle[active]
    BY <2>2 DEF Inv, TypeOK
  <2> QED
    BY <1>1, <2>3 DEF Serving, IdOf, Idle
<1>3. trail[1] = None => saved.active \notin dirs' \ {b}
  BY <1>1, ServingRetained DEF Disk, Recorded, Idle
<1> QED
  BY <1>1, <1>2, <1>3 DEF Disk, NothingPinned, PointerFound, Recorded, FoundAfterCrash, Idle

LEMMA WritePointerRecorded ==
  ASSUME Inv, Disk, up, WritePointer
  PROVE  Disk'
<1>1. /\ op.step = "opened" /\ pointer' = op.id
      /\ op'.step = "pointed" /\ op'.kind = op.kind /\ op'.id = op.id /\ op'.active = op.active
      /\ UNCHANGED <<dirs, saved, up, active, pinned, handle, env, trail>>
  BY DEF WritePointer, memory, Inv, TypeOK
<1>2. op.id \in dirs /\ None \notin dirs
  BY <1>1, ServingRetained DEF Inv, OperationKnown
<1>3. Serving' = Serving
  BY <1>1 DEF Serving, IdOf
<1> QED
  BY <1>1, <1>2, <1>3 DEF Disk, NothingPinned, PointerFound, Recorded, FoundAfterCrash

LEMMA PromoteRecorded ==
  ASSUME Inv, Disk, up, Promote
  PROVE  Disk'
<1>1. /\ op.step = "pointed" /\ op.kind = "activate"
      /\ saved' = Persisted(op.id, IdOf(active), pinned)
      /\ op'.step = "persisted" /\ op'.kind = op.kind /\ op'.id = op.id /\ op'.active = op.active
      /\ UNCHANGED <<dirs, pointer, up, pinned, env, trail>>
  BY DEF Promote, Inv, TypeOK
<1>2. op.id \in dirs /\ None \notin dirs
  BY <1>1, ServingRetained
<1>3. Serving' = Serving
  <2>1. \A k \in Handles : handle'[k].id = handle[k].id
    BY TypesKnown, RetireBothKeeps DEF Inv, Promote
  <2>2. op.active \in Handles \cup {None}
    BY DEF Inv, TypeOK
  <2> QED
    BY <1>1, <2>1, <2>2 DEF Serving, IdOf
<1>4. saved'.active = op.id /\ saved'.pinned = pinned
  BY <1>1 DEF Persisted
<1> QED
  BY <1>1, <1>2, <1>3, <1>4 DEF Disk, NothingPinned, PointerFound, Recorded, FoundAfterCrash

\* What is served next is what pointer and row name, and its directory stays.
LEMMA FinishRecorded ==
  ASSUME Inv, Disk, up, Finish
  PROVE  Disk'
<1>1. /\ op.step = "persisted" /\ op' = Idle /\ dirs' = KeptAfter
      /\ trail' = <<op.id, IdOf(op.active)>>
      /\ UNCHANGED <<pointer, saved, up, active, previous, pinned, lease, env>>
  BY DEF Finish
<1>2. /\ op.id \in dirs /\ active = op.new /\ op.new \in Handles /\ handle[op.new].id = op.id
      /\ op.active \in Handles \cup {None} /\ op.previous \in Handles \cup {None}
      /\ None \notin dirs /\ op.new # None
  BY <1>1, ServingRetained, NumbersKnown DEF Inv, OperationKnown, TypeOK
<1>3. handle'[active].id = op.id
  <2>1. Reaping({op.active, op.previous}, {active, previous}, handle, handle', lease)
    BY <1>2, TypesKnown, ReapBothKeeps DEF Inv, Finish
  <2> QED
    BY <1>2, <2>1 DEF Reaping
<1>4. Serving' = op.id
  BY <1>1, <1>2, <1>3 DEF Serving, IdOf, Idle
<1>5. op.id \in dirs'
  BY <1>1, <1>2, CleanupKeeps DEF IdOf
<1>6. pointer = op.id
  BY <1>1 DEF Disk, Recorded
<1> QED
  BY <1>1, <1>2, <1>4, <1>5, <1>6 DEF Disk, NothingPinned, PointerFound, Recorded, FoundAfterCrash, Idle

\* The candidate's directory goes: nothing that is served or found names it.
LEMMA GiveUpRecorded ==
  ASSUME Inv, Disk, up, AbortEarly \/ AbortDirectory, op.kind = "activate"
  PROVE  Disk'
<1>1. /\ op.step \in {"opened", "unpointed"} /\ op.kind = "activate" /\ op' = Idle
      /\ dirs' = dirs \ {op.id} /\ handle' = [handle EXCEPT ![op.new] = Closed]
      /\ UNCHANGED <<pointer, saved, up, active, pinned, trail>>
  BY DEF AbortEarly, AbortDirectory
<1>2. Serving # op.id /\ Serving \in dirs \cup {None} /\ None \notin dirs
  BY <1>1, ServingRetained
<1>3. Serving' = Serving
  <2>1. active = op.active /\ op.new # active /\ active \in Handles \cup {None}
    BY <1>1 DEF Inv, OperationKnown, TypeOK
  <2> QED
    BY <1>1, <2>1, TypesKnown DEF Inv, Serving, IdOf, Idle
<1>4. pointer = None => saved.active = None \/ env'.faults = 0
  <2>1. AbortDirectory => env' = env
    BY DEF AbortDirectory
  <2>2. AbortEarly => env.faults >= 1
    BY DEF AbortEarly, Fault
  <2> QED
    BY <2>1, <2>2 DEF Disk, PointerFound
<1>5. pointer \in dirs' \cup {None}
  BY <1>1, <1>2 DEF Disk, PointerFound, Recorded
<1> QED
  BY <1>1, <1>2, <1>3, <1>4, <1>5
    DEF Disk, NothingPinned, PointerFound, Recorded, FoundAfterCrash, Idle

\* The row is put back, or nothing can raise any more.
LEMMA AbortLateRecorded ==
  ASSUME Inv, RestartInv, Disk, up, AbortLate
  PROVE  Disk'
<1>1. /\ op.kind = "activate" /\ op.step \in {"pointed", "persisted"}
      /\ op'.step = "undone" /\ op'.kind = op.kind /\ op'.id = op.id /\ op'.active = op.active
      /\ UNCHANGED <<dirs, pointer, up, pinned, trail>>
  BY DEF AbortLate, Inv, TypeOK
<1>2. op.id \in dirs /\ Serving \in dirs \cup {None} /\ None \notin dirs
  BY <1>1, ServingRetained
<1>3. Serving' = Serving
  <2>1. op.active \in Handles \cup {None} /\ handle \in [Handles -> Live]
    BY TypesKnown DEF Inv, TypeOK
  <2>2. op.active # None => handle'[op.active].id = handle[op.active].id
    BY <2>1 DEF AbortLate, Live
  <2> QED
    BY <1>1, <2>2 DEF Serving, IdOf
<1>4. Serving = IdOf(op.active) /\ Serving = trail[1]
  BY <1>1 DEF Serving, Disk, Recorded
<1>5. /\ env'.faults <= 1
      /\ (saved'.active = trail[1] /\ saved'.pinned = pinned) \/ (saved' = saved /\ env'.faults = 0)
  <2>1. Fault(1) => env'.faults = env.faults - 1
    BY FaultCounts DEF Inv
  <2>2. Fault(2) => env'.faults = env.faults - 2 /\ env.faults >= 2
    BY FaultCounts DEF Inv
  <2> QED
    BY <1>4, <2>1, <2>2 DEF AbortLate, RestartInv, Persisted
<1> QED
  BY <1>1, <1>2, <1>3, <1>4, <1>5
    DEF Disk, NothingPinned, PointerFound, Recorded, FoundAfterCrash

\* The pointer is put back, or it is unlinked and the row has been put back.
LEMMA AbortPointerRecorded ==
  ASSUME Inv, RestartInv, Disk, up, AbortPointer
  PROVE  Disk'
<1>1. /\ op.step = "undone" /\ op.kind = "activate"
      /\ op'.step = "unpointed" /\ op'.kind = op.kind /\ op'.id = op.id /\ op'.active = op.active
      /\ UNCHANGED <<dirs, saved, up, active, pinned, handle, trail>>
  BY DEF AbortPointer, memory, Inv, TypeOK, OperationKnown
<1>2. Serving \in dirs \cup {None} /\ None \notin dirs
  BY ServingRetained
<1>3. Serving' = Serving /\ Serving = IdOf(op.active) /\ Serving = trail[1]
  BY <1>1 DEF Serving, IdOf, Disk, Recorded
<1>4. \/ pointer' = trail[1] /\ env' = env
      \/ pointer' = None /\ saved.active = trail[1] /\ env'.faults = 0
  <2>1. env.faults \in 0..1 /\ (saved.active = trail[1] \/ env.faults = 0)
    BY <1>1 DEF RestartInv, Disk, Recorded
  <2>2. ~Fault(2) /\ (Fault(1) => env.faults = 1 /\ env'.faults = 0)
    BY <2>1, FaultCounts DEF Inv, Fault
  <2> QED
    BY <1>3, <2>1, <2>2 DEF AbortPointer, RestorePointer
<1> QED
  BY <1>1, <1>2, <1>3, <1>4
    DEF Disk, NothingPinned, PointerFound, Recorded, FoundAfterCrash

\* A crash leaves the pointer or the row on what was served or on the candidate.
LEMMA CrashRecorded ==
  ASSUME Inv, Disk, Crash
  PROVE  Disk'
<1>1. /\ up /\ ~up' /\ pinned' = None /\ op'.kind = "none" /\ op'.id = op.id
      /\ UNCHANGED <<dirs, pointer, saved, env, trail>>
  BY DEF Crash, disk, Idle
<1>2. /\ Serving \in dirs \cup {None} /\ None \notin dirs /\ trail[1] = Serving
      /\ op.step \in {"idle", "opened", "pointed", "persisted", "undone", "unpointed"}
  BY <1>1, ServingRetained DEF Disk, Recorded, Inv, TypeOK
<1>3. op.step # "idle" => op.id \in dirs
  BY DEF Inv, OperationKnown
<1>4. Found = trail[1] \/ (Found # None /\ Found = op.id)
  BY <1>1, <1>2, <1>3 DEF Disk, PointerFound, Recorded, Found
<1> QED
  BY <1>1, <1>4 DEF Disk, NothingPinned, PointerFound, Recorded, FoundAfterCrash, Found

\* A restart serves what it finds, which the pointer names or the row does.
LEMMA RestartRecorded ==
  ASSUME Inv, Disk, Restart
  PROVE  Disk'
<1>1. /\ RestoredActive = Found
      /\ up' /\ pinned' = None /\ op' = Idle
      /\ active' = (IF Found = None THEN None ELSE 1)
      /\ trail' = (IF Found = trail[1] THEN trail ELSE <<Found, trail[1]>>)
      /\ UNCHANGED <<dirs, pointer, saved, env>>
  BY FoundIsRestored DEF Restart, Disk, NothingPinned, disk
<1>2. None \notin dirs
  BY NumbersKnown DEF Inv, TypeOK
<1>3. Found # None => handle'[1].id = Found
  BY <1>1, NumbersKnown DEF Restart, Inv, TypeOK
<1>4. Serving' = Found /\ trail'[1] = Found
  BY <1>1, <1>3, NumbersKnown DEF Serving, IdOf, Idle
<1> QED
  BY <1>1, <1>2, <1>4
    DEF Disk, NothingPinned, PointerFound, Recorded, FoundAfterCrash, Found, Idle

LEMMA RestartInvStarts == FewFaults /\ Init => RestartInv
<1> SUFFICES ASSUME FewFaults, Init PROVE RestartInv
  OBVIOUS
<1>1. env.faults \in 0..2 /\ ~({"crash", "cli"} \subseteq env.events)
  BY InitEstablishes, ScenarioKept DEF Inv
<1>2. Disk
  BY DEF Init, Disk, NothingPinned, PointerFound, Recorded, FoundAfterCrash, Serving, IdOf, Idle,
    Persisted
<1> QED
  BY <1>1, <1>2 DEF RestartInv, Init

LEMMA RestartInvKept == Inv /\ RestartInv /\ [Next]_vars => RestartInv'
<1> SUFFICES ASSUME Inv, RestartInv, [Next]_vars PROVE RestartInv'
  OBVIOUS
<1>1. env'.faults \in 0..2 /\ env'.events = env.events /\ (~up' => May("crash"))
  BY ScenarioLasts
<1> SUFFICES ASSUME ~May("pin"), ~May("cli") PROVE Disk'
  BY <1>1 DEF RestartInv, May
<1>2. Disk /\ op.kind # "pin"
  BY DEF RestartInv, Disk, NothingPinned
<1>3. CASE \E r \in Readers : Acquire(r) \/ Release(r)
  BY <1>2, <1>3, ReadersLeaveDisk
<1>4. CASE \E b \in Bundles : Activate(b) \/ CliPin(b)
  BY <1>2, <1>4, ActivateRecorded DEF CliPin
<1>5. CASE up /\ Operation
  <2>1. CASE AbortDirectory
    <3>1. op.kind = "activate"
      BY <1>2, <2>1 DEF AbortDirectory, Inv, OperationKnown
    <3> QED
      BY <1>2, <1>5, <2>1, <3>1, GiveUpRecorded
  <2>2. CASE AbortEarly
    BY <1>2, <1>5, <2>2, GiveUpRecorded DEF AbortEarly
  <2>3. CASE WritePointer \/ Promote \/ Finish
    BY <1>2, <1>5, <2>3, WritePointerRecorded, PromoteRecorded, FinishRecorded
  <2>4. CASE AbortLate \/ AbortPointer
    BY <1>2, <1>5, <2>4, AbortLateRecorded, AbortPointerRecorded
  <2> QED
    BY <1>2, <1>5, <2>1, <2>2, <2>3, <2>4 DEF Operation, PinPersist, PinFails
<1>6. CASE Pin \/ Unpin \/ CliUnpin \/ Crash \/ Restart
  BY <1>2, <1>6, CrashRecorded, RestartRecorded DEF Pin, Unpin, CliUnpin
<1>7. CASE UNCHANGED vars
  BY <1>2, <1>7 DEF vars, disk, memory, Disk, NothingPinned, PointerFound, Recorded,
    FoundAfterCrash, Found, Serving, IdOf
<1> QED
  BY <1>3, <1>4, <1>5, <1>6, <1>7 DEF Next

\* A process that stops at any point of an activation comes back serving what it
\* served or was about to serve, and a failure leaves the service it found
\* (activate's rollback and _restore_persisted_bundles).
THEOREM ServiceAlwaysSurvives ==
  ASSUME FewFaults
  PROVE  Spec => ServiceSurvives
<1>1. Spec => []RestartInv
  BY FewFaults, RestartInvStarts, RestartInvKept, InvHolds, PTL DEF Spec
<1> DEFINE Serves ==
      up' /\ ~up /\ ~May("pin")
        => \/ active' # None /\ handle'[active'].id \in {trail[1], op.id}
           \/ active' = None /\ trail[1] = None
<1>2. Inv /\ RestartInv /\ [Next]_vars => [Serves]_vars
  <2> SUFFICES ASSUME Inv, RestartInv, Next, up', ~up, ~May("pin")
               PROVE  \/ active' # None /\ handle'[active'].id \in {trail[1], op.id}
                      \/ active' = None /\ trail[1] = None
    OBVIOUS
  <2>1. Restart
    BY DEF Next, Acquire, Release, Activate, Pin, Unpin, Unlocked, CliPin, CliUnpin, Crash
  <2>2. Disk
    BY DEF RestartInv, May
  <2>3. RestoredActive = Found
    BY <2>2, FoundIsRestored DEF Disk, NothingPinned
  <2>4. Found # None => active' = 1 /\ active' # None /\ handle'[1].id = Found
    BY <2>1, <2>3, NumbersKnown DEF Restart, Inv, TypeOK
  <2>5. Found = None => active' = None
    BY <2>1, <2>3 DEF Restart
  <2> QED
    BY <2>2, <2>4, <2>5 DEF Disk, FoundAfterCrash
<1>3. Spec => [][Serves]_vars
  BY <1>1, <1>2, InvHolds, PTL DEF Spec
<1>4. Spec => RestartServes
  BY <1>3 DEF RestartServes
<1> QED
  BY <1>4, AbortAlwaysRestores DEF ServiceSurvives
=============================================================================
