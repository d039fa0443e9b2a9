------------------------ MODULE EmbeddingSwitchProofs ------------------------
(***************************************************************************)
(* The switch of the embedding profile, for every number of profiles,      *)
(* identities and runs, and for every scenario.                            *)
(*                                                                         *)
(* What holds whatever happens: the types (Types); what a thread has read  *)
(* is what it thinks it has read (SeenAgrees); the bundle of a run is not  *)
(* served before its run has committed (BundleIsNew); the row that says    *)
(* "reindexing" is the lane's (ReindexingIsLane); where a run has put the  *)
(* pointer, the bundle and the provider (Places); and, without a crash,    *)
(* the provider fits the bundle that is served (ProviderFollows).          *)
(*                                                                         *)
(* As long as nothing of what Undisturbed excludes happens, ServiceAgrees  *)
(* adds what the rows say at every step: at rest one tested profile is     *)
(* active for the served bundle (Serving); within a switch the rows and    *)
(* the intent know the way forth and the way back (Turning, Refreshing);   *)
(* a run that failed has left everything as it was (PriorServes); and      *)
(* after a crash the rows still name a profile for the pointer's bundle    *)
(* (Recoverable).  RegistryServes alone is not inductive: it says nothing  *)
(* of the steps within a switch, at each of which a crash or an exception  *)
(* may come.                                                               *)
(***************************************************************************)
EXTENDS EmbeddingSwitch, TLAPS

\* The values of the variables, as sets of records.
Statuses == {"probe", "reindex_required", "reindexing", "ready", "last_known_good", "probe_failed"}
RowRecords == [here : BOOLEAN, active : BOOLEAN, ident : Identities, status : Statuses,
               gen : 0..MaxRuns, bundle : Bundles \cup {None}, test : Tests]
Table == [Profiles -> RowRecords]
Priors == [profile : Profiles \cup {None}, status : Statuses \cup {None},
           bundle : Bundles \cup {None}, provider : Providers \cup {None},
           served : Bundles \cup {None}, known : BOOLEAN]

\* The steps at which nothing has been switched yet, or everything has; those in
\* between; and those of them at which the provider is the new one.
Quiet == {"idle", "building", "built", "activated", "failed"}
Turned == {"flipped", "switched", "admitted", "pointed", "promoted", "unpointing", "undoing"}
Switched == {"switched", "admitted", "pointed", "promoted"}

\* A run of the lane.
LaneSteps == Quiet \cup Turned \cup {"lost"}
Lanes == [step : LaneSteps, stop : {"no", "cancel", "shutdown"},
          committing : BOOLEAN, profile : Profiles \cup {None},
          ident : Identities \cup {None}, gen : 0..MaxRuns, frozen : BOOLEAN,
          provider : Providers \cup {None}, bundle : Bundles \cup {None}, prior : Priors]

\* The types of the variables.
RowsTyped == row \in Table /\ intent \in Intents \cup {None}
ServiceTyped ==
  /\ pointer \in Bundles \cup {None} /\ served \in Bundles \cup {None}
  /\ provider \in Providers \cup {None}
RunsTyped == runs \in Seq(Identities) /\ Len(runs) <= MaxRuns
SeenTyped ==
  seen \subseteq {"owner", "editor", "lane"} \X Profiles /\ up \in BOOLEAN /\ closed \in BOOLEAN
EnvTyped == \E s \in Scenarios : \E n \in 0..s.faults : env = [s EXCEPT !.faults = n]

\* A run that is under way builds its bundle for its profile, and knows what was
\* active before it once it has begun to switch.
LaneTyped ==
  /\ lane \in Lanes
  /\ lane.step = "idle" => lane = Idle
  /\ up <=> lane.step # "lost"
  /\ lane.step \notin {"idle", "lost"} =>
       /\ lane.profile \in Profiles /\ lane.ident \in Identities
       /\ lane.bundle \in 1..Len(runs) /\ runs[lane.bundle] = lane.ident
       /\ lane.provider \in Providers /\ lane.provider[1] = lane.profile
       /\ lane.frozen => lane.gen \in 1..MaxRuns
  /\ lane.step \in Turned \cup {"built", "activated"} => lane.provider[2] = lane.ident
  /\ lane.step \in {"building", "built"} => ~lane.prior.known
  /\ lane.step \in Turned =>
       lane.prior.known /\ (lane.prior.profile # None => lane.prior.status \in Statuses)

\* A call of the owner that has read its row, or has switched the provider.
Reading == owner.step \in {"probe", "decide"}

Reads == [step : {"probe", "decide"}, profile : Profiles, force : BOOLEAN, row : RowRecords]
Switches == [step : {"switched"}, profile : Profiles, force : BOOLEAN, row : Providers \cup {None}]
Calls == Reads \cup Switches

\* A call of the owner keeps the lane free.
OwnerTyped ==
  /\ owner \in Calls \cup {NoCall}
  /\ owner # NoCall => up /\ lane = Idle
  /\ Reading => Len(runs) < MaxRuns

\* What the editor has begun is one of the events that may happen.
Edits == [step : {"probe", "update", "delete"}, profile : Profiles, active : BOOLEAN]

EditorTyped ==
  /\ editor \in Edits \cup {NoCall}
  /\ editor # NoCall =>
       /\ up
       /\ editor.step = "probe" => May("probe")
       /\ editor.step # "probe" => May("edit")

\* Every bundle in use has been built by a run.
BundlesTyped ==
  /\ pointer # None => pointer \in 1..Len(runs)
  /\ served # None => served \in 1..Len(runs)
  /\ lane.prior.served # None => lane.prior.served \in 1..Len(runs)

\* All of them.
Types ==
  /\ RowsTyped /\ ServiceTyped /\ RunsTyped /\ SeenTyped /\ EnvTyped
  /\ LaneTyped /\ OwnerTyped /\ EditorTyped /\ BundlesTyped

\* A thread that knows a row to be unchanged has read what the row says.
SeenAgrees ==
  /\ Reading => owner.row.here
  /\ Reading /\ <<"owner", owner.profile>> \in seen => owner.row = row[owner.profile]
  /\ Reading /\ <<"lane", owner.profile>> \in seen => <<"owner", owner.profile>> \in seen
  /\ editor.step = "probe" /\ <<"editor", editor.profile>> \in seen =>
       editor.active = row[editor.profile].active
  /\ lane.step \in {"building", "built"} /\ ~lane.frozen /\ <<"lane", lane.profile>> \in seen =>
       /\ row[lane.profile].here /\ row[lane.profile].active
       /\ row[lane.profile].ident = lane.ident

\* The bundle of a run is served or pointed to only from the steps at which the
\* run has committed itself, and so after no cancellation.
BundleIsNew ==
  /\ lane.stop = "cancel" => lane.bundle \in 1..Len(runs) /\ lane.bundle \notin {served, pointer}
  /\ lane.step \in {"building", "built", "flipped", "switched", "admitted", "undoing", "failed"} =>
       lane.bundle \notin {served, pointer}
  /\ lane.step \in {"pointed", "unpointing"} => lane.bundle # served
  /\ lane.step \in Turned => lane.bundle # lane.prior.served
  /\ lane.step \in {"admitted", "pointed", "promoted", "activated", "unpointing"} =>
       lane.committing /\ lane.stop # "cancel"

\* A row says "reindexing" only while a run has it frozen, and is not active.
ReindexingIsLane ==
  /\ \A p \in Profiles : row[p].status = "reindexing" => ~row[p].active
  /\ \A p \in Profiles : up /\ row[p].here /\ row[p].status = "reindexing" =>
       /\ lane.frozen /\ lane.profile = p /\ lane.gen = row[p].gen
       /\ lane.step \in {"building", "built", "failed"}
  /\ lane.step \in Turned /\ lane.prior.profile # None => lane.prior.status # "reindexing"

\* A provider that embeds as the passages of a bundle were embedded.
Matches(b, pr) == b # None => pr \in Providers /\ pr[2] = runs[b]

\* The provider is that of the served bundle, and a switch knows the way back.
ProviderFollows ==
  /\ owner.step = "switched" =>
       served # None /\ provider = <<owner.profile, runs[served]>>
  /\ ~May("crash") =>
       /\ up
       /\ owner.step = "switched" => Matches(served, owner.row)
       /\ lane.step \in Quiet => Matches(served, provider)
       /\ lane.step \in Turned => Matches(lane.prior.served, lane.prior.provider)
       /\ lane.step \in Switched => provider = lane.provider
       /\ lane.step \in Turned \ {"promoted"} => served = lane.prior.served
       /\ lane.step = "promoted" => served = lane.bundle

\* What a row may say of the profile that is served.
Good == {"ready", "last_known_good"}
Tested(p) == row[p].test # "never"
\* The case in which only the bundle that a row records can name the profile after
\* a crash: the probes may have overwritten its status.
Recorded == May("crash") /\ May("probe")

\* A profile that bundle b and provider pr belong to.
Holds(p, b, pr) ==
  /\ row[p].here /\ row[p].ident = runs[b] /\ Tested(p)
  /\ pr = <<p, row[p].ident>>

\* One profile is active for the bundle, and no switch is recorded.
Serving(b, pr) ==
  IF b = None THEN Active(row) = {}
  ELSE /\ intent = None
       /\ \E p \in Profiles :
            /\ Active(row) = {p} /\ Holds(p, b, pr) /\ row[p].status \in Good
            /\ Recorded => row[p].bundle = b

\* Within the switch of a frozen profile: it is active, and the intent and the lane
\* know the profile, the bundle and the provider from before.
Turning ==
  LET p == lane.profile
      prior == lane.prior
      q == prior.profile IN
  /\ Active(row) = {p} /\ Holds(p, lane.bundle, lane.provider) /\ row[p].status \in Good
  /\ row[p].gen = lane.gen /\ row[p].bundle = lane.bundle
  /\ intent = [gen |-> lane.gen, from |-> q, fromBundle |-> prior.bundle,
               to |-> p, toBundle |-> lane.bundle]
  /\ IF prior.served = None THEN q = None
     ELSE /\ q \in Profiles \ {p}
          /\ Holds(q, prior.served, prior.provider) /\ prior.status \in Good
          /\ Recorded => prior.bundle = prior.served
          /\ May("crash") /\ ~May("probe") => row[q].status = "last_known_good"

\* Within a run for the profile that is active: the rows stay as they were.
Refreshing ==
  /\ lane.prior.served # None /\ lane.prior.profile = lane.profile
  /\ Active(row) = {lane.profile}
  /\ Serving(lane.prior.served, lane.prior.provider)

\* After a crash reconcile_active_bundle finds a profile for the pointer's bundle.
Recoverable ==
  pointer # None =>
    \E p \in Profiles :
      /\ row[p].here /\ row[p].ident = runs[pointer] /\ Tested(p)
      /\ row[p].active \/ p = Intended(pointer) \/ row[p].status = "last_known_good"

\* Pointer, bundle and provider at the steps of a run.
Places ==
  /\ up /\ lane.step \in Quiet => pointer = served
  /\ lane.step \in {"flipped", "switched", "admitted", "undoing"} =>
       pointer = lane.prior.served /\ served = pointer
  /\ lane.step \in {"pointed", "unpointing"} => pointer = lane.bundle /\ served = lane.prior.served
  /\ lane.step = "promoted" => pointer = lane.bundle /\ served = lane.bundle
  /\ lane.step = "flipped" => provider = lane.prior.provider
  /\ lane.step \in Switched => provider = lane.provider

\* Nobody changes what a profile is, and what was ever active, named by the intent
\* or frozen for a run has been tested.
Untouchable ==
  /\ \A p \in Profiles : row[p].ident = IdentityOf[p] /\ (row[p].here <=> p \in env.profiles)
  /\ \A p \in Active(row) : Tested(p)
  /\ intent # None => Tested(intent.to) /\ (intent.from # None => Tested(intent.from))
  /\ owner.step \in {"decide", "switched"} => Tested(owner.profile)
  /\ owner.step = "probe" => <<"owner", owner.profile>> \in seen \/ Tested(owner.profile)
  /\ Reading => owner.row.ident = IdentityOf[owner.profile]
  /\ lane.step \notin {"idle", "lost"} =>
       lane.ident = IdentityOf[lane.profile] /\ (lane.frozen => Tested(lane.profile))

\* A run that failed after its first change has undone it.
PriorServes ==
  /\ Active(row) = (IF lane.prior.profile = None THEN {} ELSE {lane.prior.profile})
  /\ served = lane.prior.served /\ provider = lane.prior.provider

\* The provider that the rows belong to: a switch of the owner has put its own in first.
Embedder == IF owner.step = "switched" THEN owner.row ELSE provider

\* What rows, bundle and provider say of one another at every step.
Agrees ==
  /\ up /\ lane.step \in Quiet => Serving(served, Embedder)
  /\ lane.step \in Turned => IF lane.frozen THEN Turning ELSE Refreshing
  /\ lane.step = "failed" /\ lane.prior.known => PriorServes
  /\ ~up => Recoverable

\* Both, as long as Undisturbed holds.
ServiceAgrees == Undisturbed => Untouchable /\ Agrees

\* The inductive invariant.
IInv ==
  Types /\ SeenAgrees /\ BundleIsNew /\ ReindexingIsLane /\ ProviderFollows /\ Places
  /\ ServiceAgrees

-----------------------------------------------------------------------------
(***************************************************************************)
(* Rows.                                                                   *)
(***************************************************************************)
\* The writes of one row.
LEMMA FrozenRows ==
  ASSUME NEW rows \in Table, NEW p \in Profiles, NEW g \in 0..MaxRuns
  PROVE  LET new == Frozen(rows, p, g) IN
         /\ new \in Table
         /\ \A q \in Profiles : q # p => new[q] = rows[q]
         /\ new[p].status = "reindexing"
         /\ new[p].gen = g
         /\ new[p].here = rows[p].here /\ new[p].active = rows[p].active
         /\ new[p].ident = rows[p].ident /\ new[p].bundle = rows[p].bundle
         /\ new[p].test = rows[p].test
  <1> DEFINE new == Frozen(rows, p, g)
             r == [rows[p] EXCEPT !.status = "reindexing", !.gen = g]
  <1>1. rows[p] \in RowRecords
    BY DEF Table
  <1>2. /\ r \in RowRecords
      /\ r.status = "reindexing"
      /\ r.gen = g
      /\ r.here = rows[p].here /\ r.active = rows[p].active
      /\ r.ident = rows[p].ident /\ r.bundle = rows[p].bundle
      /\ r.test = rows[p].test
    BY <1>1 DEF RowRecords, Statuses, Tests
  <1>3. new = [rows EXCEPT ![p] = r]
    BY DEF Table, Frozen
  <1> HIDE DEF new, r
  <1>4. /\ new \in Table
        /\ \A q \in Profiles : q # p => new[q] = rows[q]
        /\ new[p].status = "reindexing"
        /\ new[p].gen = g
        /\ new[p].here = rows[p].here /\ new[p].active = rows[p].active
        /\ new[p].ident = rows[p].ident /\ new[p].bundle = rows[p].bundle
        /\ new[p].test = rows[p].test
    BY <1>2, <1>3 DEF Table
  <1>5. QED
    BY <1>4 DEF new

\* What the rollback of a switch does to its own row,
LEMMA ReleasedRows ==
  ASSUME NEW rows \in Table, NEW p \in Profiles
  PROVE  LET new == Released(rows, p) IN
         /\ new \in Table
         /\ \A q \in Profiles : q # p => new[q] = rows[q]
         /\ new[p].active = FALSE
         /\ new[p].status = "reindexing"
         /\ new[p].bundle = None
         /\ new[p].here = rows[p].here /\ new[p].ident = rows[p].ident
         /\ new[p].gen = rows[p].gen /\ new[p].test = rows[p].test
  <1> DEFINE new == Released(rows, p)
             r == [rows[p] EXCEPT !.active = FALSE, !.status = "reindexing", !.bundle = None]
  <1>1. rows[p] \in RowRecords
    BY DEF Table
  <1>2. /\ r \in RowRecords
      /\ r.active = FALSE
      /\ r.status = "reindexing"
      /\ r.bundle = None
      /\ r.here = rows[p].here /\ r.ident = rows[p].ident
      /\ r.gen = rows[p].gen /\ r.test = rows[p].test
    BY <1>1 DEF RowRecords, Statuses, Tests
  <1>3. new = [rows EXCEPT ![p] = r]
    BY DEF Table, Released
  <1> HIDE DEF new, r
  <1>4. /\ new \in Table
        /\ \A q \in Profiles : q # p => new[q] = rows[q]
        /\ new[p].active = FALSE
        /\ new[p].status = "reindexing"
        /\ new[p].bundle = None
        /\ new[p].here = rows[p].here /\ new[p].ident = rows[p].ident
        /\ new[p].gen = rows[p].gen /\ new[p].test = rows[p].test
    BY <1>2, <1>3 DEF Table
  <1>5. QED
    BY <1>4 DEF new

\* and to the one that was active.
LEMMA RestoredTable ==
  ASSUME NEW rows \in Table, NEW p \in Profiles, NEW st \in Statuses, NEW b \in Bundles \cup {None}
  PROVE  Restored(rows, p, st, b) \in Table
  <1> DEFINE r == [rows[p] EXCEPT !.active = TRUE, !.status = st, !.bundle = b]
  <1>1. rows[p] \in RowRecords
    BY DEF Table
  <1>2. r \in RowRecords
    BY <1>1 DEF RowRecords
  <1>3. Restored(rows, p, st, b) = [rows EXCEPT ![p] = r]
    BY DEF Table, Restored
  <1>4. QED
    BY <1>2, <1>3 DEF Table

LEMMA RestoredRows ==
  ASSUME NEW rows \in Table, NEW p \in Profiles, NEW st \in Statuses, NEW b \in Bundles \cup {None}
  PROVE  /\ \A q \in Profiles : q # p => Restored(rows, p, st, b)[q] = rows[q]
         /\ Restored(rows, p, st, b)[p].active
         /\ Restored(rows, p, st, b)[p].status = st
         /\ Restored(rows, p, st, b)[p].bundle = b
         /\ Restored(rows, p, st, b)[p].here = rows[p].here
         /\ Restored(rows, p, st, b)[p].ident = rows[p].ident
         /\ Restored(rows, p, st, b)[p].gen = rows[p].gen
         /\ Restored(rows, p, st, b)[p].test = rows[p].test
  <1> DEFINE new == Restored(rows, p, st, b)
             r == [rows[p] EXCEPT !.active = TRUE, !.status = st, !.bundle = b]
  <1>1. rows[p] \in RowRecords
    BY DEF Table
  <1>2. /\ r \in RowRecords
      /\ r.active = TRUE
      /\ r.status = st
      /\ r.bundle = b
      /\ r.here = rows[p].here /\ r.ident = rows[p].ident
      /\ r.gen = rows[p].gen /\ r.test = rows[p].test
    BY <1>1 DEF RowRecords, Statuses, Tests
  <1>3. new = [rows EXCEPT ![p] = r]
    BY DEF Table, Restored
  <1> HIDE DEF new, r
  <1>4. /\ new \in Table
        /\ \A q \in Profiles : q # p => new[q] = rows[q]
        /\ new[p].active = TRUE
        /\ new[p].status = st
        /\ new[p].bundle = b
        /\ new[p].here = rows[p].here /\ new[p].ident = rows[p].ident
        /\ new[p].gen = rows[p].gen /\ new[p].test = rows[p].test
    BY <1>2, <1>3 DEF Table
  <1>5. QED
    BY <1>4 DEF new

\* fail_reindex.
LEMMA UnfrozenRows ==
  ASSUME NEW rows \in Table, NEW p \in Profiles, NEW t \in Tests
  PROVE  LET new == Unfrozen(rows, p, t) IN
         /\ new \in Table
         /\ \A q \in Profiles : q # p => new[q] = rows[q]
         /\ new[p].status = "reindex_required"
         /\ new[p].test = t
         /\ new[p].here = rows[p].here /\ new[p].active = rows[p].active
         /\ new[p].ident = rows[p].ident /\ new[p].gen = rows[p].gen
         /\ new[p].bundle = rows[p].bundle
  <1> DEFINE new == Unfrozen(rows, p, t)
             r == [rows[p] EXCEPT !.status = "reindex_required", !.test = t]
  <1>1. rows[p] \in RowRecords
    BY DEF Table
  <1>2. /\ r \in RowRecords
      /\ r.status = "reindex_required"
      /\ r.test = t
      /\ r.here = rows[p].here /\ r.active = rows[p].active
      /\ r.ident = rows[p].ident /\ r.gen = rows[p].gen
      /\ r.bundle = rows[p].bundle
    BY <1>1 DEF RowRecords, Statuses, Tests
  <1>3. new = [rows EXCEPT ![p] = r]
    BY DEF Table, Unfrozen
  <1> HIDE DEF new, r
  <1>4. /\ new \in Table
        /\ \A q \in Profiles : q # p => new[q] = rows[q]
        /\ new[p].status = "reindex_required"
        /\ new[p].test = t
        /\ new[p].here = rows[p].here /\ new[p].active = rows[p].active
        /\ new[p].ident = rows[p].ident /\ new[p].gen = rows[p].gen
        /\ new[p].bundle = rows[p].bundle
    BY <1>2, <1>3 DEF Table
  <1>5. QED
    BY <1>4 DEF new

\* update.
LEMMA UpdatedRows ==
  ASSUME NEW rows \in Table, NEW p \in Profiles, NEW i \in Identities
  PROVE  LET new == Updated(rows, p, i) IN
         /\ new \in Table
         /\ \A q \in Profiles : q # p => new[q] = rows[q]
         /\ new[p].ident = i
         /\ new[p].test = "never"
         /\ new[p].status = "reindex_required"
         /\ new[p].here = rows[p].here /\ new[p].active = rows[p].active
         /\ new[p].gen = rows[p].gen /\ new[p].bundle = rows[p].bundle
  <1> DEFINE new == Updated(rows, p, i)
             r == [rows[p] EXCEPT !.ident = i, !.test = "never", !.status = "reindex_required"]
  <1>1. rows[p] \in RowRecords
    BY DEF Table
  <1>2. /\ r \in RowRecords
      /\ r.ident = i
      /\ r.test = "never"
      /\ r.status = "reindex_required"
      /\ r.here = rows[p].here /\ r.active = rows[p].active
      /\ r.gen = rows[p].gen /\ r.bundle = rows[p].bundle
    BY <1>1 DEF RowRecords, Statuses, Tests
  <1>3. new = [rows EXCEPT ![p] = r]
    BY DEF Table, Updated
  <1> HIDE DEF new, r
  <1>4. /\ new \in Table
        /\ \A q \in Profiles : q # p => new[q] = rows[q]
        /\ new[p].ident = i
        /\ new[p].test = "never"
        /\ new[p].status = "reindex_required"
        /\ new[p].here = rows[p].here /\ new[p].active = rows[p].active
        /\ new[p].gen = rows[p].gen /\ new[p].bundle = rows[p].bundle
    BY <1>2, <1>3 DEF Table
  <1>5. QED
    BY <1>4 DEF new

\* delete.
LEMMA DeletedRows ==
  ASSUME NEW rows \in Table, NEW p \in Profiles
  PROVE  LET new == Deleted(rows, p) IN
         /\ new \in Table
         /\ \A q \in Profiles : q # p => new[q] = rows[q]
         /\ new[p].here = FALSE
         /\ new[p].active = rows[p].active /\ new[p].ident = rows[p].ident
         /\ new[p].status = rows[p].status /\ new[p].gen = rows[p].gen
         /\ new[p].bundle = rows[p].bundle /\ new[p].test = rows[p].test
  <1> DEFINE new == Deleted(rows, p)
             r == [rows[p] EXCEPT !.here = FALSE]
  <1>1. rows[p] \in RowRecords
    BY DEF Table
  <1>2. /\ r \in RowRecords
      /\ r.here = FALSE
      /\ r.active = rows[p].active /\ r.ident = rows[p].ident
      /\ r.status = rows[p].status /\ r.gen = rows[p].gen
      /\ r.bundle = rows[p].bundle /\ r.test = rows[p].test
    BY <1>1 DEF RowRecords, Statuses, Tests
  <1>3. new = [rows EXCEPT ![p] = r]
    BY DEF Table, Deleted
  <1> HIDE DEF new, r
  <1>4. /\ new \in Table
        /\ \A q \in Profiles : q # p => new[q] = rows[q]
        /\ new[p].here = FALSE
        /\ new[p].active = rows[p].active /\ new[p].ident = rows[p].ident
        /\ new[p].status = rows[p].status /\ new[p].gen = rows[p].gen
        /\ new[p].bundle = rows[p].bundle /\ new[p].test = rows[p].test
    BY <1>2, <1>3 DEF Table
  <1>5. QED
    BY <1>4 DEF new

\* What an activation does to the rows.
LEMMA ActivatedRows ==
  ASSUME NEW rows \in Table, NEW p \in Profiles
  PROVE  LET new == Activated(rows, p) IN
         /\ new \in Table
         /\ \A q \in Profiles :
              /\ new[q].here = rows[q].here /\ new[q].ident = rows[q].ident
              /\ new[q].gen = rows[q].gen /\ new[q].bundle = rows[q].bundle
              /\ new[q].test = rows[q].test
              /\ new[q].active <=> q = p \/ (rows[q].active /\ ~rows[q].here)
              /\ new[q].status = (IF q = p THEN "ready"
                                  ELSE IF q \in Active(rows) THEN "last_known_good"
                                  ELSE rows[q].status)
         /\ rows[p].here => Active(new) = {p}
  <1> DEFINE ret == Retired(rows)
             act == [ret EXCEPT ![p].active = TRUE]
             new == [act EXCEPT ![p].status = "ready"]
  <1>1. /\ ret \in Table
        /\ \A q \in Profiles :
             /\ ret[q].here = rows[q].here /\ ret[q].ident = rows[q].ident
             /\ ret[q].gen = rows[q].gen /\ ret[q].bundle = rows[q].bundle
             /\ ret[q].test = rows[q].test
             /\ ret[q].active <=> rows[q].active /\ ~rows[q].here
             /\ ret[q].status = (IF q \in Active(rows) THEN "last_known_good" ELSE rows[q].status)
    BY DEF Table, RowRecords, Statuses, Retired, Active
  <1>2. Activated(rows, p) = new
    BY DEF Activated
  <1> HIDE DEF ret
  <1>3. /\ act \in Table
        /\ \A q \in Profiles :
             /\ q # p => act[q] = ret[q]
             /\ act[q].here = ret[q].here /\ act[q].ident = ret[q].ident
             /\ act[q].gen = ret[q].gen /\ act[q].bundle = ret[q].bundle
             /\ act[q].test = ret[q].test
        /\ act[p].active = TRUE
    <2> DEFINE r == [ret[p] EXCEPT !.active = TRUE]
    <2>1. /\ r \in RowRecords /\ r.active = TRUE
          /\ r.here = ret[p].here /\ r.ident = ret[p].ident /\ r.gen = ret[p].gen
          /\ r.bundle = ret[p].bundle /\ r.test = ret[p].test
      <3>1. ret[p] \in RowRecords
        BY <1>1 DEF Table
      <3>2. QED BY <3>1 DEF RowRecords
    <2>2. act = [ret EXCEPT ![p] = r]
      OBVIOUS
    <2> HIDE DEF r, act
    <2>3. QED BY <2>1, <2>2, <1>1 DEF Table
  <1> HIDE DEF act
  <1>4. /\ new \in Table
        /\ \A q \in Profiles :
             /\ q # p => new[q] = act[q]
             /\ new[q].here = act[q].here /\ new[q].ident = act[q].ident
             /\ new[q].gen = act[q].gen /\ new[q].bundle = act[q].bundle
             /\ new[q].test = act[q].test /\ new[q].active = act[q].active
        /\ new[p].status = "ready"
    BY <1>3 DEF Table, RowRecords, Statuses
  <1> HIDE DEF new
  <1>5. /\ new \in Table
        /\ \A q \in Profiles :
              /\ new[q].here = rows[q].here /\ new[q].ident = rows[q].ident
              /\ new[q].gen = rows[q].gen /\ new[q].bundle = rows[q].bundle
              /\ new[q].test = rows[q].test
              /\ new[q].active <=> q = p \/ (rows[q].active /\ ~rows[q].here)
              /\ new[q].status = (IF q = p THEN "ready"
                                  ELSE IF q \in Active(rows) THEN "last_known_good"
                                  ELSE rows[q].status)
    <2> new \in Table
      BY <1>4
    <2> SUFFICES ASSUME NEW q \in Profiles
                 PROVE  /\ new[q].here = rows[q].here /\ new[q].ident = rows[q].ident
                        /\ new[q].gen = rows[q].gen /\ new[q].bundle = rows[q].bundle
                        /\ new[q].test = rows[q].test
                        /\ new[q].active <=> q = p \/ (rows[q].active /\ ~rows[q].here)
                        /\ new[q].status = (IF q = p THEN "ready"
                                            ELSE IF q \in Active(rows) THEN "last_known_good"
                                            ELSE rows[q].status)
      OBVIOUS
    <2>1. CASE q = p
      <3>1. new[q].active = TRUE
        BY <2>1, <1>3, <1>4
      <3>2. /\ new[q].here = rows[q].here /\ new[q].ident = rows[q].ident
            /\ new[q].gen = rows[q].gen /\ new[q].bundle = rows[q].bundle
            /\ new[q].test = rows[q].test /\ new[q].status = "ready"
        BY <2>1, <1>1, <1>3, <1>4
      <3>3. QED BY <2>1, <3>1, <3>2
    <2>2. CASE q # p
      BY <2>2, <1>1, <1>3, <1>4
    <2>3. QED BY <2>1, <2>2
  <1>6. rows[p].here => Active(new) = {p}
    BY <1>5 DEF Active
  <1>7. QED
    BY <1>2, <1>5, <1>6

\* An activation that also records the bundle.
LEMMA ActivatedWithRows ==
  ASSUME NEW rows \in Table, NEW p \in Profiles, NEW b \in Bundles
  PROVE  LET new == ActivatedWith(rows, p, b) IN
         /\ new \in Table
         /\ \A q \in Profiles :
              /\ new[q].here = rows[q].here /\ new[q].ident = rows[q].ident
              /\ new[q].gen = rows[q].gen
              /\ new[q].bundle = (IF q = p THEN b ELSE rows[q].bundle)
              /\ new[q].test = (IF q = p THEN Cleared(rows[q].test) ELSE rows[q].test)
              /\ new[q].active <=> q = p \/ (rows[q].active /\ ~rows[q].here)
              /\ new[q].status = (IF q = p THEN "ready"
                                  ELSE IF q \in Active(rows) THEN "last_known_good"
                                  ELSE rows[q].status)
         /\ rows[p].here => Active(new) = {p}
  <1> DEFINE act == Activated(rows, p)
             mid == [act EXCEPT ![p].bundle = b]
             new == [mid EXCEPT ![p].test = Cleared(@)]
  <1>1. act \in Table
    BY ActivatedRows
  <1>2. ActivatedWith(rows, p, b) = new
    BY <1>1 DEF ActivatedWith, Table, RowRecords
  <1> HIDE DEF act
  <1>3. /\ mid \in Table
        /\ \A q \in Profiles :
             /\ q # p => mid[q] = act[q]
             /\ mid[q].here = act[q].here /\ mid[q].ident = act[q].ident
             /\ mid[q].gen = act[q].gen /\ mid[q].active = act[q].active
             /\ mid[q].test = act[q].test /\ mid[q].status = act[q].status
        /\ mid[p].bundle = b
    BY <1>1 DEF Table, RowRecords
  <1> HIDE DEF mid
  <1>4. /\ new \in Table
        /\ \A q \in Profiles :
             /\ q # p => new[q] = mid[q]
             /\ new[q].here = mid[q].here /\ new[q].ident = mid[q].ident
             /\ new[q].gen = mid[q].gen /\ new[q].active = mid[q].active
             /\ new[q].bundle = mid[q].bundle /\ new[q].status = mid[q].status
        /\ new[p].test = Cleared(mid[p].test)
    BY <1>3 DEF Table, RowRecords, Cleared, Tests
  <1> HIDE DEF new
  <1>5. /\ new \in Table
        /\ \A q \in Profiles :
             /\ new[q].here = act[q].here /\ new[q].ident = act[q].ident
             /\ new[q].gen = act[q].gen /\ new[q].active = act[q].active
             /\ new[q].bundle = (IF q = p THEN b ELSE act[q].bundle)
             /\ new[q].status = act[q].status
             /\ new[q].test = (IF q = p THEN Cleared(act[q].test) ELSE act[q].test)
    BY <1>3, <1>4
  <1>6. rows[p].here => Active(new) = {p}
    <2>1. Active(new) = Active(act)
      BY <1>5 DEF Active
    <2>2. rows[p].here => Active(act) = {p}
      BY ActivatedRows DEF act
    <2>3. QED BY <2>1, <2>2
  <1>7. \A q \in Profiles :
          /\ act[q].here = rows[q].here /\ act[q].ident = rows[q].ident
          /\ act[q].gen = rows[q].gen /\ act[q].bundle = rows[q].bundle
          /\ act[q].test = rows[q].test
          /\ act[q].active <=> q = p \/ (rows[q].active /\ ~rows[q].here)
          /\ act[q].status = (IF q = p THEN "ready"
                              ELSE IF q \in Active(rows) THEN "last_known_good"
                              ELSE rows[q].status)
    BY ActivatedRows, Zenon DEF act
  <1>8. QED
    BY <1>2, <1>5, <1>6, <1>7

\* recover_interrupted_reindexes.
LEMMA RecoveredRows ==
  ASSUME NEW rows \in Table
  PROVE  LET new == Recovered(rows) IN
         /\ new \in Table
         /\ \A q \in Profiles :
              /\ new[q].here = rows[q].here /\ new[q].ident = rows[q].ident
              /\ new[q].gen = rows[q].gen /\ new[q].bundle = rows[q].bundle
              /\ new[q].active = rows[q].active
              /\ new[q].status = "reindexing" => new[q].active
              /\ rows[q].status # "reindexing" => new[q] = rows[q]
              /\ rows[q].test # "never" => new[q].test # "never"
  BY DEF Table, RowRecords, Statuses, Recovered, Tests

\* Which profile a reconciliation may select.
LEMMA SelectableRows ==
  ASSUME NEW rows, NEW b
  PROVE  /\ \A p \in Selectable(rows, b) :
              p \in Profiles /\ rows[p].here /\ rows[p].ident = runs[b]
         /\ \A p \in Profiles :
              rows[p].here /\ rows[p].ident = runs[b]
              /\ (\/ p = Intended(b)
                  \/ p \in Active(rows)
                  \/ rows[p].test # "never" /\ rows[p].status = "last_known_good")
              => Selectable(rows, b) # {}
         /\ Intended(b) \notin Profiles =>
              \A p \in Profiles :
                Active(rows) = {p} /\ rows[p].here /\ rows[p].ident = runs[b] =>
                  Selectable(rows, b) = {p}
         /\ Intended(b) \in Profiles /\ rows[Intended(b)].here /\ rows[Intended(b)].ident = runs[b] =>
              Selectable(rows, b) = {Intended(b)}
         /\ \A p \in Selectable(rows, b) :
              p = Intended(b) \/ p \in Active(rows) \/ rows[p].test # "never"
  <1> DEFINE matching == {p \in Profiles : rows[p].here /\ rows[p].ident = runs[b]}
             tested == {p \in matching : rows[p].test # "never"}
             tiers == << {p \in matching : p = Intended(b)},
                         matching \cap Active(rows),
                         {p \in tested : rows[p].bundle = b},
                         {p \in tested : rows[p].status = "last_known_good"} >>
             met == {n \in 1..4 : tiers[n] # {}}
             first == CHOOSE n \in met : \A k \in met : n <= k
  <1>1. Selectable(rows, b) = IF met = {} THEN {} ELSE tiers[first]
    BY Zenon DEF Selectable
  <1>2. /\ tiers[1] = {p \in matching : p = Intended(b)} /\ tiers[2] = matching \cap Active(rows)
        /\ tiers[3] = {p \in tested : rows[p].bundle = b}
        /\ tiers[4] = {p \in tested : rows[p].status = "last_known_good"}
    OBVIOUS
  <1>3. met # {} => first \in met /\ \A k \in met : first <= k
    <2>1. ASSUME met # {} PROVE \E n \in met : \A k \in met : n <= k
      <3>1. met \subseteq 1..4
        OBVIOUS
      <3> HIDE DEF met
      <3>2. CASE 1 \in met BY <3>1, <3>2
      <3>3. CASE 1 \notin met /\ 2 \in met BY <3>1, <3>3
      <3>4. CASE 1 \notin met /\ 2 \notin met /\ 3 \in met BY <3>1, <3>4
      <3>5. CASE 1 \notin met /\ 2 \notin met /\ 3 \notin met
        <4>1. PICK n \in met : TRUE
          BY <2>1
        <4>2. \A k \in met : k = 4
          BY <3>1, <3>5
        <4>3. QED BY <4>1, <4>2
      <3>6. QED BY <3>2, <3>3, <3>4, <3>5
    <2> HIDE DEF met
    <2>2. QED BY <2>1
  <1>4. \A n \in 1..4 : n \in met <=> tiers[n] # {}
    OBVIOUS
  <1>5. met \subseteq 1..4
    OBVIOUS
  <1>6. \A n \in 1..4 : \A p \in tiers[n] : p \in matching
    <2> SUFFICES ASSUME NEW n \in 1..4, NEW p \in tiers[n] PROVE p \in matching
      OBVIOUS
    <2>1. n = 1 \/ n = 2 \/ n = 3 \/ n = 4
      OBVIOUS
    <2> HIDE DEF tiers, matching
    <2>2. QED BY <1>2, <2>1
  <1>7. \A n \in 1..4 : \A p \in tiers[n] :
          p = Intended(b) \/ p \in Active(rows) \/ rows[p].test # "never"
    <2> SUFFICES ASSUME NEW n \in 1..4, NEW p \in tiers[n]
                 PROVE p = Intended(b) \/ p \in Active(rows) \/ rows[p].test # "never"
      OBVIOUS
    <2>1. n = 1 \/ n = 2 \/ n = 3 \/ n = 4
      OBVIOUS
    <2> HIDE DEF tiers, matching
    <2>2. QED BY <1>2, <2>1
  <1> HIDE DEF tiers, met, first
  <1>8. \A p \in Selectable(rows, b) : p \in matching
    BY <1>1, <1>3, <1>5, <1>6
  <1>9. \A p \in matching :
          (\/ p = Intended(b)
           \/ p \in Active(rows)
           \/ rows[p].test # "never" /\ rows[p].status = "last_known_good")
          => Selectable(rows, b) # {}
    <2> SUFFICES ASSUME NEW p \in matching,
                        \/ p = Intended(b)
                        \/ p \in Active(rows)
                        \/ rows[p].test # "never" /\ rows[p].status = "last_known_good"
                 PROVE  Selectable(rows, b) # {}
      OBVIOUS
    <2>1. p \in tiers[1] \/ p \in tiers[2] \/ p \in tiers[4]
      BY <1>2
    <2>2. met # {}
      BY <2>1, <1>4
    <2>3. QED BY <2>2, <1>1, <1>3, <1>4, <1>5
  <1>10. ASSUME Intended(b) \notin Profiles, NEW p \in Profiles, Active(rows) = {p},
                rows[p].here, rows[p].ident = runs[b]
         PROVE  Selectable(rows, b) = {p}
    <2>1. tiers[1] = {} /\ tiers[2] = {p}
      BY <1>2, <1>10
    <2>2. 1 \notin met /\ 2 \in met
      BY <2>1, <1>4
    <2>3. first = 2
      <3>1. first \in met /\ first <= 2
        BY <2>2, <1>3
      <3>2. first \in 1..4
        BY <3>1, <1>5
      <3>3. QED BY <3>1, <3>2, <2>2
    <2>4. QED BY <2>1, <2>2, <2>3, <1>1
  <1>11. ASSUME Intended(b) \in Profiles, rows[Intended(b)].here, rows[Intended(b)].ident = runs[b]
         PROVE  Selectable(rows, b) = {Intended(b)}
    <2>1. tiers[1] = {Intended(b)}
      BY <1>2, <1>11
    <2>2. 1 \in met
      BY <2>1, <1>4
    <2>3. first = 1
      <3>1. first \in met /\ first <= 1
        BY <2>2, <1>3
      <3>2. first \in 1..4
        BY <3>1, <1>5
      <3>3. QED BY <3>1, <3>2, <2>2
    <2>4. QED BY <2>1, <2>2, <2>3, <1>1
  <1>12. \A p \in Selectable(rows, b) :
              p = Intended(b) \/ p \in Active(rows) \/ rows[p].test # "never"
    BY <1>1, <1>3, <1>5, <1>7
  <1>13. QED
    BY <1>8, <1>9, <1>10, <1>11, <1>12

\* A probe writes the status and the test of one row at most.
LEMMA ProbedRow ==
  ASSUME NEW r \in RowRecords, NEW active \in BOOLEAN, NEW passed \in BOOLEAN
  PROVE  LET new == Probed(r, active, passed) IN
         /\ new \in RowRecords
         /\ new.here = r.here /\ new.ident = r.ident /\ new.gen = r.gen
         /\ new.bundle = r.bundle /\ new.active = r.active
         /\ new.test # "never" /\ new.status # "reindexing"
         /\ active => new.status \in Good
  BY DEF Probed, RowRecords, Statuses, Tests, Good

LEMMA ProbedRows ==
  ASSUME row \in Table, NEW thread, NEW p \in Profiles, NEW active \in BOOLEAN,
         NEW passed \in BOOLEAN
  PROVE  ProbeWrites(thread, p, active, passed) \in Table
  <1>1. Probed(row[p], active, passed) \in RowRecords
    BY ProbedRow DEF Table
  <1>2. QED
    BY <1>1 DEF ProbeWrites, Table

\* reconcile_active_bundle keeps the profiles and what they have been tested for.
LEMMA ReconciledRows ==
  ASSUME row \in Table, NEW b \in Bundles \cup {None}, Reconcile(b)
  PROVE  /\ row' \in Table /\ intent' \in {intent, None}
         /\ \A q \in Profiles :
              /\ row'[q].here = row[q].here /\ row'[q].ident = row[q].ident
              /\ row'[q].gen = row[q].gen
              /\ row[q].test # "never" => row'[q].test # "never"
  <1>1. Recovered(row) \in Table
    BY RecoveredRows
  <1>2. CASE b = None
    <2>1. row' = [p \in Profiles |->
                    IF p \in Active(Recovered(row))
                    THEN [Recovered(row)[p] EXCEPT !.active = FALSE, !.status = "reindex_required",
                                         !.test = "failed"]
                    ELSE Recovered(row)[p]] /\ intent' = intent
      BY <1>2 DEF Reconcile
    <2>2. \A p \in Profiles :
            /\ row'[p] \in RowRecords /\ row'[p].here = Recovered(row)[p].here
            /\ row'[p].ident = Recovered(row)[p].ident /\ row'[p].gen = Recovered(row)[p].gen
            /\ Recovered(row)[p].test # "never" => row'[p].test # "never"
      <3> SUFFICES ASSUME NEW p \in Profiles
                   PROVE  /\ row'[p] \in RowRecords /\ row'[p].here = Recovered(row)[p].here
                          /\ row'[p].ident = Recovered(row)[p].ident
                          /\ row'[p].gen = Recovered(row)[p].gen
                          /\ Recovered(row)[p].test # "never" => row'[p].test # "never"
        OBVIOUS
      <3> DEFINE old == Recovered(row)[p]
      <3>1. old \in RowRecords
        BY <1>1 DEF Table
      <3>2. row'[p] = old \/ row'[p] = [old EXCEPT !.active = FALSE, !.status = "reindex_required",
                                                    !.test = "failed"]
        BY <2>1
      <3> HIDE DEF old
      <3>3. row'[p] \in RowRecords /\ row'[p].here = old.here /\ row'[p].ident = old.ident
            /\ row'[p].gen = old.gen /\ (old.test # "never" => row'[p].test # "never")
        BY <3>1, <3>2 DEF RowRecords, Statuses, Tests
      <3>4. QED BY <3>3 DEF old
    <2>3. QED BY <2>1, <2>2, RecoveredRows DEF Table
  <1>3. CASE b # None /\ Selectable(Recovered(row), b) = {}
    BY <1>3, RecoveredRows DEF Reconcile
  <1>4. CASE b # None /\ Selectable(Recovered(row), b) # {}
    <2>1. PICK p \in Selectable(Recovered(row), b) : row' = ActivatedWith(Recovered(row), p, b)
      BY <1>4 DEF Reconcile
    <2>2. p \in Profiles /\ b \in Bundles
      BY <1>4, <2>1, SelectableRows
    <2>3. intent' = None
      BY <1>4 DEF Reconcile
    <2>4. \A t : t # "never" => Cleared(t) # "never"
      BY DEF Cleared
    <2>5. QED
      BY <1>1, <2>1, <2>2, <2>3, <2>4, RecoveredRows, ActivatedWithRows
  <1>5. QED
    BY <1>2, <1>3, <1>4

-----------------------------------------------------------------------------
(***************************************************************************)
(* Types.                                                                  *)
(***************************************************************************)
\* What a step of the lane leaves as it was.
SameRun ==
  /\ lane'.profile = lane.profile /\ lane'.ident = lane.ident /\ lane'.gen = lane.gen
  /\ lane'.frozen = lane.frozen /\ lane'.provider = lane.provider
  /\ lane'.bundle = lane.bundle

\* A step of the lane that only moves it on.
Moved(step) ==
  /\ lane' \in Lanes /\ lane'.step = step /\ SameRun
  /\ lane'.stop = lane.stop /\ lane'.committing = lane.committing /\ lane'.prior = lane.prior

LEMMA LaneTo ==
  ASSUME lane \in Lanes, NEW step \in LaneSteps, To(step)
  PROVE  Moved(step)
  BY DEF To, Lanes, Moved, SameRun

\* The idle lane has the lane's type.
LEMMA IdleLane == Idle \in Lanes
  <1>1. NoPrior \in Priors
    BY DEF NoPrior, Priors
  <1>2. QED BY <1>1, BoundsAssumption DEF Idle, Lanes, LaneSteps, Quiet

\* What the types say of a lane, a call or an edit that is under way.
LEMMA LaneIs ==
  ASSUME Types
  PROVE  /\ lane \in Lanes /\ lane.prior \in Priors
         /\ lane.bundle \in Bundles \cup {None} /\ lane.gen \in 0..MaxRuns
         /\ lane.step \notin {"idle", "lost"} =>
              /\ lane.profile \in Profiles /\ lane.ident \in Identities /\ lane.bundle \in Bundles
              /\ lane.provider \in Providers
              /\ lane.frozen => lane.gen \in 1..MaxRuns
         /\ lane.prior.profile \in Profiles \cup {None}
         /\ lane.prior.served \in Bundles \cup {None} /\ lane.prior.bundle \in Bundles \cup {None}
         /\ lane.prior.status \in Statuses \cup {None}
         /\ lane.prior.provider \in Providers \cup {None}
         /\ lane.step \in Turned /\ lane.prior.profile # None => lane.prior.status \in Statuses
  <1>1. lane \in Lanes
    BY DEF Types, LaneTyped
  <1>2. lane.prior \in Priors /\ lane.bundle \in Bundles \cup {None} /\ lane.gen \in 0..MaxRuns
    BY <1>1 DEF Lanes
  <1>3. Len(runs) \in Nat /\ Len(runs) <= MaxRuns
    BY DEF Types, RunsTyped
  <1>4. lane.step \notin {"idle", "lost"} =>
          /\ lane.profile \in Profiles /\ lane.ident \in Identities /\ lane.bundle \in 1..Len(runs)
          /\ lane.provider \in Providers
          /\ lane.frozen => lane.gen \in 1..MaxRuns
    BY DEF Types, LaneTyped
  <1>5. 1..Len(runs) \subseteq Bundles
    BY <1>3, BoundsAssumption DEF Bundles
  <1>6. QED
    BY <1>1, <1>2, <1>4, <1>5 DEF Priors, Types, LaneTyped

LEMMA OwnerIs ==
  ASSUME Types
  PROVE  /\ owner.step \in {"none", "probe", "decide", "switched"}
         /\ owner.step = "none" <=> owner = NoCall
         /\ owner.step # "none" => owner.profile \in Profiles /\ owner.force \in BOOLEAN
         /\ owner.step \in {"probe", "decide"} =>
              /\ owner.row \in RowRecords /\ owner.row.active \in BOOLEAN
              /\ owner.row.ident \in Identities /\ owner.row.gen \in 0..MaxRuns
              /\ Len(runs) + 1 \in Bundles
         /\ owner.step = "switched" => owner.row \in Providers \cup {None}
  <1>1. owner \in Calls \cup {NoCall}
    BY DEF Types, OwnerTyped
  <1>2. /\ owner.step \in {"none", "probe", "decide", "switched"}
        /\ owner.step = "none" <=> owner = NoCall
        /\ owner.step # "none" => owner.profile \in Profiles /\ owner.force \in BOOLEAN
        /\ owner.step \in {"probe", "decide"} => owner.row \in RowRecords
        /\ owner.step = "switched" => owner.row \in Providers \cup {None}
    BY <1>1 DEF Calls, Reads, Switches, NoCall
  <1>3. owner.step \in {"probe", "decide"} => Len(runs) + 1 \in Bundles
    BY BoundsAssumption DEF Types, OwnerTyped, Reading, RunsTyped, Bundles
  <1>4. QED
    BY <1>2, <1>3 DEF RowRecords

LEMMA EditorIs ==
  ASSUME Types
  PROVE  /\ editor.step \in {"none", "probe", "update", "delete"}
         /\ editor.step = "none" <=> editor = NoCall
         /\ editor.step # "none" => editor.profile \in Profiles /\ editor.active \in BOOLEAN
  BY DEF Types, EditorTyped, Edits, NoCall

\* What the owner's call, the lane and an editor leave to each other.
LEMMA Frames ==
  /\ Owner => UNCHANGED <<intent, pointer, served, editor, up, closed>>
  /\ Worker => UNCHANGED <<owner, editor, up, closed>>
  /\ Editor => UNCHANGED <<intent, pointer, served, provider, runs, owner, lane, up, closed, env>>
  /\ Cancel \/ Shutdown =>
       UNCHANGED <<row, intent, pointer, served, provider, runs, owner, editor, seen, up, env>>
  <1> USE DEF disk, service
  <1>1. Owner => UNCHANGED <<intent, pointer, served, editor, up, closed>>
    BY DEF Owner, Queue, QueueProbes, QueueSwitchesProvider, QueueActivates, QueueSubmits,
       QueueRefuses
  <1>2. Worker => UNCHANGED <<owner, editor, up, closed>>
    BY DEF Worker, Build, BuildFails, Flip, FlipRefused, SwitchProvider, Admit, Point, Promote,
       Commit, Unpoint, Undo, Fail, Finish
  <1>3. Editor =>
          UNCHANGED <<intent, pointer, served, provider, runs, owner, lane, up, closed, env>>
    BY DEF Editor, EditorReads, EditorProbes, EditorUpdates, EditorDeletes
  <1>4. Cancel \/ Shutdown =>
          UNCHANGED <<row, intent, pointer, served, provider, runs, owner, editor, seen, up, env>>
    BY DEF Cancel, Shutdown
  <1>5. QED
    BY <1>1, <1>2, <1>3, <1>4

\* The scenario stays as it is; only the calls that may raise get fewer.
LEMMA EnvNext ==
  ASSUME EnvTyped, [Next]_vars
  PROVE  EnvTyped' /\ env'.events = env.events /\ env'.profiles = env.profiles
  <1>1. PICK s \in Scenarios : \E n \in 0..s.faults : env = [s EXCEPT !.faults = n]
    BY DEF EnvTyped
  <1>2. PICK n \in 0..s.faults : env = [s EXCEPT !.faults = n]
    BY <1>1
  <1>3. s \in [profiles : SUBSET Profiles, faults : Nat,
               events : SUBSET {"crash", "cancel", "shutdown", "probe", "edit", "norollback"}]
    BY ScenariosAssumption
  <1>4. ASSUME Fault PROVE EnvTyped' /\ env'.events = env.events /\ env'.profiles = env.profiles
    <2>1. env' = [s EXCEPT !.faults = n - 1] /\ n - 1 \in 0..s.faults
      <3>1. env.faults = n
        BY <1>2, <1>3
      <3>2. n > 0 /\ env' = [env EXCEPT !.faults = n - 1]
        BY <1>4, <3>1 DEF Fault
      <3>3. n - 1 \in 0..s.faults
        BY <3>2, <1>3
      <3>4. QED BY <1>2, <3>2, <3>3
    <2>2. QED BY <1>2, <1>3, <2>1 DEF EnvTyped
  <1>5. ASSUME env' = env PROVE EnvTyped' /\ env'.events = env.events /\ env'.profiles = env.profiles
    BY <1>5 DEF EnvTyped
  <1>6. Fault \/ env' = env
    BY DEF Next, Owner, Worker, Editor, vars, Queue, QueueProbes, QueueSwitchesProvider,
       QueueActivates, QueueSubmits, QueueRefuses, Build, BuildFails, Flip, FlipRefused,
       SwitchProvider, Admit, Point, Promote, Commit, Unpoint, Undo, Fail, Finish, EditorReads,
       EditorProbes, EditorUpdates, EditorDeletes, Cancel, Shutdown, Crash, Restart
  <1>7. QED BY <1>4, <1>5, <1>6

\* The rows keep their types, and nothing but an edit changes what a profile is.
LEMMA RowsNext ==
  ASSUME Types, [Next]_vars
  PROVE  RowsTyped'
  <1> USE DEF Types, RowsTyped
  <1>1. ASSUME UNCHANGED <<row, intent>> PROVE RowsTyped'
    BY <1>1
  <1>2. CASE QueueProbes
    <2>1. PICK passed \in BOOLEAN :
            row' = ProbeWrites("owner", owner.profile, owner.row.active, passed)
      BY <1>2 DEF QueueProbes
    <2>2. owner.profile \in Profiles /\ owner.row.active \in BOOLEAN
      BY <1>2, OwnerIs DEF QueueProbes
    <2>3. QED BY <1>2, <2>1, <2>2, ProbedRows DEF QueueProbes
  <1>3. CASE EditorProbes
    <2>1. PICK passed \in BOOLEAN :
            row' = ProbeWrites("editor", editor.profile, editor.active, passed)
      BY <1>3 DEF EditorProbes
    <2>2. editor.profile \in Profiles /\ editor.active \in BOOLEAN
      BY <1>3, EditorIs DEF EditorProbes
    <2>3. QED BY <1>3, <2>1, <2>2, ProbedRows DEF EditorProbes
  <1>4. CASE QueueActivates
    <2>1. owner.profile \in Profiles
      BY <1>4, OwnerIs DEF QueueActivates
    <2>2. row' = row \/ row' = Activated(row, owner.profile)
      BY <1>4 DEF QueueActivates
    <2>3. QED BY <1>4, <2>1, <2>2, ActivatedRows DEF QueueActivates
  <1>5. CASE QueueSubmits
    <2>1. owner.profile \in Profiles /\ Len(runs) + 1 \in 0..MaxRuns
      BY <1>5, OwnerIs DEF QueueSubmits, Bundles
    <2>2. QED BY <1>5, <2>1, FrozenRows DEF QueueSubmits
  <1>6. CASE Flip
    <2>1. /\ lane.profile \in Profiles /\ lane.bundle \in Bundles
          /\ lane.frozen => lane.gen \in 1..MaxRuns
      BY <1>6, LaneIs DEF Flip
    <2>2. row' \in Table
      BY <1>6, <2>1, ActivatedWithRows DEF Flip
    <2>3. TheActive(row) \in Profiles \cup {None}
      BY DEF TheActive, Active
    <2>4. LET old == IF TheActive(row) = None THEN NoPrior ELSE row[TheActive(row)] IN
          old.bundle \in Bundles \cup {None}
      BY <2>3 DEF NoPrior, Table, RowRecords
    <2>5. intent' \in Intents \cup {None}
      BY <1>6, <2>1, <2>3, <2>4 DEF Flip, Intents
    <2>6. QED BY <2>2, <2>5
  <1>7. CASE Commit
    <2>1. lane.bundle \in Bundles
      BY <1>7, LaneIs DEF Commit
    <2>2. QED BY <1>7, <2>1, ReconciledRows DEF Commit
  <1>8. CASE Undo
    <2>1. lane.prior.served \in Bundles \cup {None} /\ lane.prior \in Priors /\ lane.profile \in Profiles
      BY <1>8, LaneIs DEF Undo
    <2>2. ASSUME RowsBack PROVE RowsTyped'
      <3>1. Released(row, lane.profile) \in Table
        BY <2>1, ReleasedRows
      <3>2. lane.step \in Turned
        BY <1>8 DEF Undo, Turned
      <3>3. lane.prior.profile # None =>
              Restored(Released(row, lane.profile), lane.prior.profile, lane.prior.status,
                       lane.prior.bundle) \in Table
        BY <3>1, <3>2, LaneIs, RestoredTable
      <3>4. QED
        BY <2>2, <3>1, <3>3 DEF RowsBack
    <2>3. QED BY <1>8, <2>1, <2>2, ReconciledRows DEF Undo
  <1>9. CASE Fail
    <2>1. lane.profile \in Profiles
      BY <1>9, LaneIs DEF Fail
    <2>2. row[lane.profile].test \in Tests /\ "failed" \in Tests
      BY <2>1 DEF Table, RowRecords, Tests
    <2>3. QED BY <1>9, <2>1, <2>2, UnfrozenRows DEF Fail
  <1>10. CASE EditorUpdates
    <2>1. editor.profile \in Profiles
      BY <1>10, EditorIs DEF EditorUpdates
    <2>2. QED BY <1>10, <2>1, UpdatedRows DEF EditorUpdates
  <1>11. CASE EditorDeletes
    <2>1. editor.profile \in Profiles
      BY <1>11, EditorIs DEF EditorDeletes
    <2>2. QED BY <1>11, <2>1, DeletedRows DEF EditorDeletes
  <1>12. CASE Restart
    BY <1>12, ReconciledRows DEF Restart, ServiceTyped
  <1>13. QED
    BY <1>1, <1>2, <1>3, <1>4, <1>5, <1>6, <1>7, <1>8, <1>9, <1>10, <1>11, <1>12
    DEF Next, Owner, Worker, Editor, vars, disk, Queue, QueueSwitchesProvider, QueueRefuses, Build,
        BuildFails, FlipRefused, SwitchProvider, Admit, Point, Promote, Unpoint, Finish,
        EditorReads, Cancel, Shutdown, Crash

\* Runs are only added.
LEMMA RunsNext ==
  ASSUME Types, [Next]_vars
  PROVE  /\ RunsTyped' /\ Len(runs) \in Nat /\ Len(runs') \in Nat
         /\ Len(runs) <= Len(runs')
         /\ \A b \in 1..Len(runs) : b \in 1..Len(runs') /\ runs'[b] = runs[b]
         /\ runs' # runs => QueueSubmits
  <1> USE DEF Types, RunsTyped
  <1>1. CASE QueueSubmits
    <2>1. Len(runs) + 1 <= MaxRuns
      BY <1>1, OwnerIs, BoundsAssumption DEF QueueSubmits, Bundles
    <2>2. runs' = Append(runs, lane'.ident)
      BY <1>1 DEF QueueSubmits
    <2>3. lane'.ident \in Identities
      <3>1. owner.profile \in Profiles /\ owner.row.ident \in Identities
        BY <1>1, OwnerIs DEF QueueSubmits
      <3>2. row[owner.profile].ident \in Identities
        BY <3>1 DEF RowsTyped, Table, RowRecords
      <3>3. lane'.ident = owner.row.ident \/ lane'.ident = row[owner.profile].ident
        BY <1>1 DEF QueueSubmits, Run, Idle
      <3>4. QED BY <3>1, <3>2, <3>3
    <2>4. QED BY <1>1, <2>1, <2>2, <2>3
  <1>2. CASE runs' = runs
    BY <1>2
  <1>3. QED
    BY <1>1, <1>2
    DEF Next, Owner, Worker, Editor, vars, disk, service, Queue, QueueProbes, 
        QueueSwitchesProvider, QueueActivates, QueueSubmits, QueueRefuses, Build, 
        BuildFails, Flip, FlipRefused, SwitchProvider, Admit, Point, Promote, Commit, 
        Unpoint, Undo, Fail, Finish, EditorReads, EditorProbes, EditorUpdates, 
        EditorDeletes, Cancel, Shutdown, Crash, Restart

\* Where a step may take the lane: it stays, moves on, flips, is asked to stop, is admitted,
\* starts, or is free again.
Stopped ==
  /\ lane.step # "idle"
  /\ lane' \in Lanes /\ SameRun /\ lane'.prior = lane.prior /\ lane'.step = lane.step
  /\ lane'.committing = lane.committing

\* The steps that change more of the run: its admission, its first change of the
\* rows, its start.
Admitted ==
  /\ lane.step = "switched" /\ lane.stop = "no"
  /\ lane' \in Lanes /\ SameRun /\ lane'.prior = lane.prior /\ lane'.stop = lane.stop
  /\ lane'.step = "admitted" /\ lane'.committing = TRUE

Flipped ==
  LET old == IF TheActive(row) = None THEN NoPrior ELSE row[TheActive(row)] IN
  /\ lane.step = "built"
  /\ lane' \in Lanes /\ SameRun /\ lane'.stop = lane.stop /\ lane'.committing = lane.committing
  /\ lane'.step = "flipped"
  /\ lane'.prior = [profile |-> TheActive(row), status |-> old.status, bundle |-> old.bundle,
                    provider |-> provider, served |-> served, known |-> TRUE]
  /\ lane'.prior \in Priors
  /\ TheActive(row) # None => TheActive(row) \in Profiles /\ row[TheActive(row)].status \in Statuses

Started ==
  LET p == owner.profile IN
  /\ lane = Idle /\ lane' \in Lanes
  /\ lane'.step = "building" /\ lane'.stop = "no" /\ lane'.committing = FALSE
  /\ lane'.profile = p /\ lane'.ident \in Identities /\ lane'.gen \in 0..MaxRuns
  /\ lane'.frozen \in BOOLEAN
  /\ lane'.frozen => lane'.gen = Len(runs) + 1
  /\ lane'.provider = <<p, owner.row.ident>> /\ lane'.bundle = Len(runs) + 1
  /\ lane'.prior = NoPrior /\ runs' = Append(runs, lane'.ident)
  /\ p \in Profiles /\ owner.row.ident \in Identities /\ Len(runs) + 1 \in Bundles

\* What each action does to the lane.
LEMMA LaneMoves ==
  ASSUME Types
  PROVE  /\ Build => Moved("built")
         /\ BuildFails => Moved("failed")
         /\ FlipRefused => Moved("failed")
         /\ SwitchProvider => Moved("switched") \/ Moved("undoing")
         /\ Admit => Admitted \/ Moved("undoing")
         /\ Point => Moved("pointed") \/ Moved("undoing")
         /\ Promote => Moved("promoted") \/ Moved("unpointing")
         /\ Commit => Moved("activated") \/ Moved("unpointing")
         /\ Unpoint => Moved("undoing")
         /\ Undo => Moved("failed")
         /\ Crash => Moved("lost")
         /\ Flip => Flipped
         /\ QueueSubmits => Started
         /\ Cancel => Stopped /\ lane'.stop = "cancel" /\ ~lane.committing
         /\ Shutdown => lane' = lane \/ (Stopped /\ lane'.stop = "shutdown")
         /\ Fail \/ Finish \/ Restart => lane' = Idle
  <1>1. lane \in Lanes /\ LaneTyped
    BY DEF Types, LaneTyped
  <1>2. \A st \in LaneSteps : To(st) => Moved(st)
    BY <1>1, LaneTo
  <1>3. {"built", "failed", "switched", "undoing", "pointed", "promoted", "unpointing",
         "activated", "lost"} \subseteq LaneSteps
    BY DEF LaneSteps, Quiet, Turned
  <1> USE <1>1, <1>2, <1>3
  <1>4. /\ Build => Moved("built")
        /\ BuildFails => Moved("failed")
        /\ FlipRefused => Moved("failed")
        /\ SwitchProvider => Moved("switched") \/ Moved("undoing")
    BY DEF Build, BuildFails, FlipRefused, SwitchProvider
  <1>5. /\ Point => Moved("pointed") \/ Moved("undoing")
        /\ Promote => Moved("promoted") \/ Moved("unpointing")
        /\ Commit => Moved("activated") \/ Moved("unpointing")
    BY DEF Point, Promote, Commit
  <1>6. /\ Unpoint => Moved("undoing")
        /\ Undo => Moved("failed")
        /\ Crash => Moved("lost")
    BY DEF Unpoint, Undo, Crash, To
  <1>7. ASSUME Admit PROVE Admitted \/ Moved("undoing")
    <2>1. CASE To("undoing")
      BY <2>1
    <2>2. CASE lane.stop = "no" /\ lane' = [lane EXCEPT !.step = "admitted", !.committing = TRUE]
      <3>1. lane' \in Lanes
        BY <2>2 DEF Lanes, LaneSteps, Turned
      <3>2. QED BY <1>7, <2>2, <3>1 DEF Admit, Admitted, SameRun, Lanes
    <2>3. QED BY <1>7, <2>1, <2>2 DEF Admit
  <1>8. ASSUME Flip PROVE Flipped
    <2> DEFINE q == TheActive(row)
               old == IF q = None THEN NoPrior ELSE row[q]
               prior == [profile |-> q, status |-> old.status, bundle |-> old.bundle,
                         provider |-> provider, served |-> served, known |-> TRUE]
    <2>1. q \in Profiles \cup {None}
      BY DEF TheActive, Active
    <2>2. old.status \in Statuses \cup {None} /\ old.bundle \in Bundles \cup {None}
      BY <2>1 DEF NoPrior, Types, RowsTyped, Table, RowRecords
    <2>3. lane.step = "built" /\ lane' = [lane EXCEPT !.step = "flipped", !.prior = prior]
      BY <1>8 DEF Flip
    <2>4. q # None => q \in Profiles /\ row[q].status \in Statuses
      BY <2>1 DEF Types, RowsTyped, Table, RowRecords
    <2> HIDE DEF q, old
    <2>5. prior \in Priors
      BY <2>1, <2>2 DEF Priors, Types, ServiceTyped
    <2> HIDE DEF prior
    <2>6. lane' \in Lanes /\ SameRun /\ lane'.prior = prior /\ lane'.step = "flipped"
          /\ lane'.stop = lane.stop /\ lane'.committing = lane.committing
      BY <2>3, <2>5 DEF Lanes, LaneSteps, Turned, SameRun
    <2>7. QED BY <2>3, <2>4, <2>5, <2>6 DEF Flipped, prior, old, q
  <1>9. ASSUME QueueSubmits PROVE Started
    <2> DEFINE p == owner.profile
               n == Len(runs) + 1
               refresh == owner.force /\ owner.row.active
    <2>1. p \in Profiles /\ owner.row.ident \in Identities /\ owner.row.gen \in 0..MaxRuns /\ n \in Bundles
      BY <1>9, OwnerIs DEF QueueSubmits
    <2>2. row[p].ident \in Identities
      BY <2>1 DEF Types, RowsTyped, Table, RowRecords
    <2>3. lane = Idle
      BY <1>9, OwnerIs DEF Types, OwnerTyped, QueueSubmits
    <2>4. /\ lane' = IF refresh THEN Run(p, owner.row.ident, owner.row.gen, FALSE)
                     ELSE Run(p, row[p].ident, n, TRUE)
          /\ runs' = Append(runs, lane'.ident)
      BY <1>9 DEF QueueSubmits
    <2>5. n \in 0..MaxRuns /\ <<p, owner.row.ident>> \in Providers
      BY <2>1, BoundsAssumption DEF Bundles, Providers
    <2>6. ASSUME NEW ident \in Identities, NEW gen \in 0..MaxRuns, NEW frozen \in BOOLEAN,
                 frozen => gen = n, lane' = Run(p, ident, gen, frozen)
          PROVE  /\ lane' \in Lanes
                 /\ lane'.step = "building" /\ lane'.stop = "no" /\ lane'.committing = FALSE
                 /\ lane'.profile = p /\ lane'.ident \in Identities /\ lane'.gen \in 0..MaxRuns
                 /\ lane'.frozen \in BOOLEAN /\ (lane'.frozen => lane'.gen = n)
                 /\ lane'.provider = <<p, owner.row.ident>> /\ lane'.bundle = n
                 /\ lane'.prior = NoPrior
      <3>1. "building" \in LaneSteps /\ NoPrior \in Priors
        BY DEF LaneSteps, Quiet, NoPrior, Priors
      <3>2. Run(p, ident, gen, frozen) \in Lanes
        BY <3>1, <2>1, <2>5 DEF Lanes, Run
      <3>3. QED BY <3>2, <2>6 DEF Run
    <2>7. /\ lane' \in Lanes
          /\ lane'.step = "building" /\ lane'.stop = "no" /\ lane'.committing = FALSE
          /\ lane'.profile = p /\ lane'.ident \in Identities /\ lane'.gen \in 0..MaxRuns
          /\ lane'.frozen \in BOOLEAN /\ (lane'.frozen => lane'.gen = n)
          /\ lane'.provider = <<p, owner.row.ident>> /\ lane'.bundle = n
          /\ lane'.prior = NoPrior
      <3>1. CASE refresh
        <4>1. lane' = Run(p, owner.row.ident, owner.row.gen, FALSE)
          BY <3>1, <2>4
        <4> HIDE DEF refresh, n
        <4>2. QED BY <4>1, <2>1, <2>6
      <3>2. CASE ~refresh
        <4>1. lane' = Run(p, row[p].ident, n, TRUE)
          BY <3>2, <2>4
        <4> HIDE DEF refresh, n
        <4>2. QED BY <4>1, <2>2, <2>5, <2>6
      <3>3. QED BY <3>1, <3>2
    <2> HIDE DEF n
    <2>8. QED
      BY <2>1, <2>3, <2>4, <2>7 DEF Started, n
  <1>10. /\ Cancel => Stopped /\ lane'.stop = "cancel" /\ ~lane.committing
         /\ Shutdown => lane' = lane \/ (Stopped /\ lane'.stop = "shutdown")
    <2>1. lane # Idle => lane.step # "idle"
      BY DEF LaneTyped
    <2>2. \A stop \in {"cancel", "shutdown"} : lane # Idle /\ lane' = [lane EXCEPT !.stop = stop] =>
              Stopped /\ lane'.stop = stop
      BY <2>1 DEF Lanes, Stopped, SameRun
    <2>3. QED BY <2>2 DEF Cancel, Shutdown
  <1>11. Fail \/ Finish \/ Restart => lane' = Idle
    BY DEF Fail, Finish, Restart
  <1>12. QED
    BY <1>4, <1>5, <1>6, <1>7, <1>8, <1>9, <1>10, <1>11

\* The actions that may change the lane, the pointer, the bundle or the runs.
LaneActs ==
  Build \/ BuildFails \/ Flip \/ FlipRefused \/ SwitchProvider \/ Admit \/ Point \/ Promote
  \/ Commit \/ Unpoint \/ Undo \/ Fail \/ Finish \/ QueueSubmits \/ Cancel \/ Shutdown
  \/ Crash \/ Restart

LEMMA LaneStays ==
  ASSUME [Next]_vars, ~LaneActs
  PROVE  UNCHANGED <<lane, up, runs, pointer, served>>
  BY DEF LaneActs, Next, Owner, Worker, Editor, vars, disk, service, Queue, QueueProbes,
     QueueSwitchesProvider, QueueActivates, QueueRefuses, EditorReads, EditorProbes,
     EditorUpdates, EditorDeletes

\* The types are kept.
LEMMA LaneNext ==
  ASSUME Types, [Next]_vars
  PROVE  LaneTyped'
  <1>1. LaneTyped /\ lane \in Lanes
    BY DEF Types, LaneTyped
  <1>2. \A b \in 1..Len(runs) : b \in 1..Len(runs') /\ runs'[b] = runs[b]
    BY RunsNext
  <1>3. ASSUME UNCHANGED <<lane, up>> PROVE LaneTyped'
    BY <1>1, <1>2, <1>3 DEF LaneTyped
  <1>4. ASSUME NEW step \in LaneSteps \ {"idle", "lost"}, Moved(step), up' = up,
               lane.step \notin {"idle", "lost"},
               step \in Turned => lane.step \in Turned,
               step \in {"building", "built"} => lane.step = "building",
               step \in Turned \cup {"built", "activated"} => lane.provider[2] = lane.ident
        PROVE  LaneTyped'
    <2>1. /\ lane'.step = step /\ lane' \in Lanes /\ SameRun /\ lane'.prior = lane.prior
      BY <1>4 DEF Moved
    <2>2. QED BY <1>1, <1>2, <1>4, <2>1 DEF LaneTyped, SameRun
  <1>5. ASSUME UNCHANGED up, Stopped PROVE LaneTyped'
    BY <1>1, <1>2, <1>5 DEF LaneTyped, Stopped, SameRun
  <1>6. CASE Build
    BY <1>1, <1>4, <1>6, LaneMoves DEF Build, LaneSteps, Quiet, Turned
  <1>7. CASE BuildFails
    BY <1>1, <1>4, <1>7, LaneMoves DEF BuildFails, LaneSteps, Quiet, Turned
  <1>8. CASE FlipRefused
    BY <1>1, <1>4, <1>8, LaneMoves DEF FlipRefused, LaneSteps, Quiet, Turned
  <1>9. CASE SwitchProvider
    BY <1>1, <1>4, <1>9, LaneMoves DEF SwitchProvider, LaneSteps, Quiet, Turned, LaneTyped
  <1>10. CASE Admit
    <2>1. up' = up /\ lane.step = "switched"
      BY <1>10 DEF Admit
    <2>2. CASE Moved("undoing")
      BY <1>1, <1>4, <2>1, <2>2 DEF LaneSteps, Quiet, Turned, LaneTyped
    <2>3. CASE Admitted
      BY <1>1, <1>2, <2>1, <2>3 DEF Admitted, SameRun, LaneTyped, Turned
    <2>4. QED BY <1>10, <2>2, <2>3, LaneMoves
  <1>11. CASE Point
    BY <1>1, <1>4, <1>11, LaneMoves DEF Point, LaneSteps, Quiet, Turned, LaneTyped
  <1>12. CASE Promote
    BY <1>1, <1>4, <1>12, LaneMoves DEF Promote, LaneSteps, Quiet, Turned, LaneTyped
  <1>13. CASE Commit
    BY <1>1, <1>4, <1>13, LaneMoves DEF Commit, LaneSteps, Quiet, Turned, LaneTyped
  <1>14. CASE Unpoint
    BY <1>1, <1>4, <1>14, LaneMoves DEF Unpoint, LaneSteps, Quiet, Turned, LaneTyped
  <1>15. CASE Undo
    BY <1>1, <1>4, <1>15, LaneMoves DEF Undo, LaneSteps, Quiet, Turned, LaneTyped
  <1>16. CASE Flip
    <2>1. Flipped /\ up' = up
      BY <1>16, LaneMoves DEF Flip
    <2>2. lane'.prior.known /\ (lane'.prior.profile # None => lane'.prior.status \in Statuses)
      BY <2>1 DEF Flipped
    <2>3. lane'.step = "flipped" /\ lane.step = "built" /\ lane' \in Lanes /\ SameRun
      BY <2>1 DEF Flipped
    <2>4. QED BY <1>1, <1>2, <2>1, <2>2, <2>3 DEF SameRun, LaneTyped, Turned
  <1>17. CASE QueueSubmits
    <2>1. Started /\ up' = up
      BY <1>17, LaneMoves DEF QueueSubmits
    <2>2. up
      BY <1>17, OwnerIs DEF Types, OwnerTyped, QueueSubmits
    <2>3. lane'.bundle \in 1..Len(runs') /\ runs'[lane'.bundle] = lane'.ident
      BY <2>1 DEF Started, Types, RunsTyped
    <2>4. lane'.provider \in Providers /\ lane'.provider[1] = lane'.profile
      BY <2>1 DEF Started, Providers
    <2>5. lane'.frozen => lane'.gen \in 1..MaxRuns
      BY <2>1 DEF Started, Bundles
    <2>6. QED BY <2>1, <2>2, <2>3, <2>4, <2>5 DEF Started, LaneTyped, Turned, NoPrior
  <1>18. CASE Cancel
    BY <1>5, <1>18, LaneMoves DEF Cancel
  <1>19. CASE Shutdown
    BY <1>3, <1>5, <1>19, LaneMoves DEF Shutdown
  <1>20. CASE Crash
    <2>1. Moved("lost") /\ up' = FALSE
      BY <1>20, LaneMoves DEF Crash
    <2>2. QED BY <2>1 DEF Moved, LaneTyped, Turned
  <1>21. CASE Fail \/ Finish
    <2>1. up' = up /\ lane.step \in {"failed", "activated"} /\ lane' = Idle
      BY <1>21, LaneMoves DEF Fail, Finish
    <2>2. Idle.step = "idle"
      BY DEF Idle
    <2>3. QED BY <1>1, <2>1, <2>2, IdleLane DEF LaneTyped, Turned
  <1>22. CASE Restart
    <2>1. up' = TRUE /\ lane' = Idle
      BY <1>22 DEF Restart
    <2>2. Idle.step = "idle"
      BY DEF Idle
    <2>3. QED BY <2>1, <2>2, IdleLane DEF LaneTyped, Turned
  <1>23. QED
    BY <1>3, <1>6, <1>7, <1>8, <1>9, <1>10, <1>11, <1>12, <1>13, <1>14, <1>15, <1>16, <1>17,
       <1>18, <1>19, <1>20, <1>21, <1>22, LaneStays DEF LaneActs

LEMMA ServiceNext ==
  ASSUME Types, [Next]_vars
  PROVE  ServiceTyped' /\ BundlesTyped'
  <1> USE DEF ServiceTyped, BundlesTyped
  <1>1. /\ ServiceTyped /\ BundlesTyped
        /\ \A b \in 1..Len(runs) : b \in 1..Len(runs')
    BY RunsNext DEF Types
  <1>2. ASSUME pointer' \in {pointer, lane.bundle, lane.prior.served},
               served' \in {served, None, pointer, lane.bundle, lane.prior.served},
               provider' \in Providers \cup {None},
               lane'.prior.served \in {None, served, lane.prior.served},
               pointer' \notin {pointer, lane.prior.served} => lane.step \notin {"idle", "lost"},
               served' \notin {served, None, pointer, lane.prior.served} =>
                 lane.step \notin {"idle", "lost"}
        PROVE  ServiceTyped' /\ BundlesTyped'
    <2>1. lane.step \notin {"idle", "lost"} => lane.bundle \in 1..Len(runs)
      BY DEF Types, LaneTyped
    <2>2. QED BY <1>1, <1>2, <2>1, LaneIs
  <1>3. lane'.prior.served \in {None, served, lane.prior.served}
    <2>1. lane' = lane \/ lane'.prior = lane.prior \/ lane' = Idle \/ Flipped \/ Started
      BY LaneMoves, LaneStays DEF LaneActs, Moved, Stopped, Admitted
    <2>2. Flipped => lane'.prior.served = served
      BY DEF Flipped
    <2>3. Started \/ lane' = Idle => lane'.prior.served = None
      BY DEF Started, Idle, NoPrior
    <2>4. QED BY <2>1, <2>2, <2>3
  <1>4. provider' \in Providers \cup {None}
    <2>1. ASSUME QueueSwitchesProvider PROVE provider' \in Providers \cup {None}
      BY <2>1, OwnerIs DEF QueueSwitchesProvider, Providers
    <2>2. ASSUME QueueActivates PROVE provider' \in Providers \cup {None}
      BY <2>2, <1>1, OwnerIs DEF QueueActivates
    <2>3. ASSUME SwitchProvider \/ Undo PROVE provider' \in Providers \cup {None}
      BY <2>3, <1>1, LaneIs DEF SwitchProvider, Undo
    <2>4. ASSUME Restart PROVE provider' \in Providers \cup {None}
      <3>1. row' \in Table
        BY RowsNext DEF RowsTyped
      <3>2. Active(row') # {} => TheActive(row') \in Profiles
        BY DEF TheActive, Active
      <3>3. \A p \in Profiles : row'[p].ident \in Identities
        BY <3>1 DEF Table, RowRecords
      <3>4. QED BY <2>4, <3>2, <3>3 DEF Restart, Providers
    <2>5. QED
      BY <1>1, <2>1, <2>2, <2>3, <2>4
      DEF Next, Owner, Worker, Editor, vars, disk, service, Queue, QueueProbes, 
        QueueSubmits, QueueRefuses, Build, BuildFails, Flip, FlipRefused, Admit, Point, 
        Promote, Commit, Unpoint, Fail, Finish, EditorReads, EditorProbes, EditorUpdates, 
        EditorDeletes, Cancel, Shutdown, Crash
  <1>5. /\ pointer' \in {pointer, lane.bundle, lane.prior.served}
        /\ served' \in {served, None, pointer, lane.bundle, lane.prior.served}
        /\ pointer' # pointer /\ pointer' # lane.prior.served => Point
        /\ served' # served /\ served' \notin {None, pointer, lane.prior.served} => Promote
    BY DEF Next, Owner, Worker, Editor, vars, disk, service, Queue, QueueProbes, 
        QueueSwitchesProvider, QueueActivates, QueueSubmits, QueueRefuses, Build, 
        BuildFails, Flip, FlipRefused, SwitchProvider, Admit, Point, Promote, Commit, 
        Unpoint, Undo, Fail, Finish, EditorReads, EditorProbes, EditorUpdates, 
        EditorDeletes, Cancel, Shutdown, Crash, Restart
  <1>6. QED
    BY <1>2, <1>3, <1>4, <1>5 DEF Point, Promote

\* A thread only remembers rows of profiles.
LEMMA SeenNext ==
  ASSUME Types, [Next]_vars
  PROVE  SeenTyped'
  <1>1. SeenTyped
    BY DEF Types
  <1>2. CASE QueueProbes
    <2>1. owner.profile \in Profiles
      BY <1>2, OwnerIs DEF QueueProbes
    <2>2. QED BY <1>1, <1>2, <2>1 DEF QueueProbes, SeenTyped, Untouched
  <1>3. CASE QueueSubmits
    <2>1. owner.profile \in Profiles
      BY <1>3, OwnerIs DEF QueueSubmits
    <2>2. seen' \subseteq seen \cup {<<"lane", owner.profile>>} /\ up' = up /\ closed' = closed
      BY <1>3 DEF QueueSubmits, Untouched
    <2>3. QED BY <1>1, <2>1, <2>2 DEF SeenTyped
  <1>4. ASSUME NEW p \in Profiles, NEW force \in BOOLEAN, Queue(p, force)
        PROVE  SeenTyped'
    BY <1>1, <1>4 DEF Queue, SeenTyped
  <1>5. ASSUME NEW kind \in {"probe", "update", "delete"}, NEW p \in Profiles, EditorReads(kind, p)
        PROVE  SeenTyped'
    BY <1>1, <1>5 DEF EditorReads, SeenTyped
  <1>6. ASSUME seen' \subseteq seen, up' \in BOOLEAN, closed' \in BOOLEAN
        PROVE  SeenTyped'
    BY <1>1, <1>6 DEF SeenTyped
  <1>7. \A ps : Untouched(ps) \subseteq seen
    BY DEF Untouched
  <1>8. up \in BOOLEAN /\ closed \in BOOLEAN
    BY <1>1 DEF SeenTyped
  <1>9. QED
    BY <1>2, <1>3, <1>4, <1>5, <1>6, <1>7, <1>8
    DEF Next, Owner, Worker, Editor, vars, disk, service, QueueSwitchesProvider,
        QueueActivates, QueueRefuses, Build, BuildFails, Flip, FlipRefused,
        SwitchProvider, Admit, Point, Promote, Commit, Unpoint, Undo, Fail, Finish,
        EditorProbes, EditorUpdates, EditorDeletes, Cancel, Shutdown, Crash, Restart

\* While the owner's call runs the lane is free.
LEMMA OwnerNext ==
  ASSUME Types, [Next]_vars
  PROVE  OwnerTyped'
  <1>1. OwnerTyped /\ owner \in Calls \cup {NoCall}
    BY DEF Types, OwnerTyped
  <1>2. row' \in Table /\ row \in Table
    BY RowsNext DEF Types, RowsTyped
  <1>3. ASSUME NEW p \in Profiles, NEW force \in BOOLEAN, Queue(p, force)
        PROVE  OwnerTyped'
    <2>1. row[p] \in RowRecords
      BY <1>2 DEF Table
    <2>2. owner' \in Calls /\ owner'.step \in {"probe", "decide"}
      BY <1>3, <2>1 DEF Queue, Calls, Reads
    <2>3. up' /\ lane' = Idle /\ Len(runs') < MaxRuns
      BY <1>3, RunsNext, BoundsAssumption DEF Queue
    <2>4. QED BY <2>2, <2>3 DEF OwnerTyped
  <1>4. CASE QueueProbes
    <2>1. owner.profile \in Profiles /\ owner.step = "probe"
      BY <1>4, OwnerIs DEF QueueProbes
    <2>2. row'[owner.profile] \in RowRecords
      BY <1>2, <2>1 DEF Table
    <2>3. owner' \in Calls \cup {NoCall}
      <3>1. owner \in Reads
        BY <1>1, <2>1 DEF Calls, Switches, NoCall
      <3>2. [owner EXCEPT !.step = "decide", !.row = row'[owner.profile]] \in Reads
        BY <3>1, <2>2 DEF Reads
      <3>3. QED BY <1>4, <3>2 DEF QueueProbes, Calls
    <2>4. up' = up /\ lane' = lane /\ runs' = runs /\ Reading /\ owner # NoCall
      BY <1>4, <2>1 DEF QueueProbes, Reading, NoCall
    <2>5. QED BY <1>1, <2>3, <2>4 DEF OwnerTyped
  <1>5. CASE QueueSwitchesProvider
    <2>1. owner.step = "decide" /\ owner' = [owner EXCEPT !.step = "switched", !.row = provider]
      BY <1>5 DEF QueueSwitchesProvider
    <2>2. provider \in Providers \cup {None}
      BY DEF Types, ServiceTyped
    <2>3. owner' \in Calls /\ owner'.step = "switched"
      <3>1. owner \in Reads
        BY <1>1, <2>1 DEF Calls, Switches, NoCall
      <3>2. [owner EXCEPT !.step = "switched", !.row = provider] \in Switches
        BY <3>1, <2>2 DEF Reads, Switches
      <3>3. QED BY <2>1, <3>2 DEF Calls, Switches
    <2>4. up' = up /\ lane' = lane /\ owner # NoCall
      BY <1>5, <2>1 DEF QueueSwitchesProvider, NoCall
    <2>5. QED BY <1>1, <2>3, <2>4 DEF OwnerTyped, Reading
  <1>6. ASSUME owner' = NoCall PROVE OwnerTyped'
    BY <1>6 DEF OwnerTyped, Reading, NoCall
  <1>7. ASSUME UNCHANGED <<owner, up, lane, runs>> PROVE OwnerTyped'
    BY <1>1, <1>7 DEF OwnerTyped, Reading
  <1>8. ASSUME owner' = owner, owner = NoCall PROVE OwnerTyped'
    BY <1>6, <1>8
  <1>9. lane # Idle \/ ~up => owner = NoCall
    BY <1>1 DEF OwnerTyped
  <1>10. lane.step # "idle" => lane # Idle
    BY DEF Idle
  <1>11. CASE Worker \/ Cancel \/ Shutdown \/ Restart
    <2>1. owner' = owner /\ (owner = NoCall \/ lane # Idle \/ ~up)
      BY <1>10, <1>11
      DEF Worker, Build, BuildFails, Flip, FlipRefused, SwitchProvider, Admit, Point, Promote,
          Commit, Unpoint, Undo, Fail, Finish, Cancel, Shutdown, Restart
    <2>2. QED BY <1>8, <1>9, <2>1
  <1>12. CASE QueueActivates \/ QueueSubmits \/ QueueRefuses \/ Crash
    BY <1>6, <1>12 DEF QueueActivates, QueueSubmits, QueueRefuses, Crash
  <1>13. CASE Editor \/ UNCHANGED vars
    BY <1>7, <1>13 DEF Editor, EditorReads, EditorProbes, EditorUpdates, EditorDeletes, vars
  <1>14. QED
    BY <1>3, <1>4, <1>5, <1>11, <1>12, <1>13 DEF Next, Owner

LEMMA EditorNext ==
  ASSUME Types, [Next]_vars
  PROVE  EditorTyped'
  <1>1. EditorTyped /\ (\A event : May(event) => May(event)')
    BY EnvNext DEF Types, May
  <1>2. ASSUME NEW kind \in {"probe", "update", "delete"}, NEW p \in Profiles, EditorReads(kind, p)
        PROVE  EditorTyped'
    <2>1. row[p].active \in BOOLEAN
      BY DEF Types, RowsTyped, Table, RowRecords
    <2>2. editor' \in Edits /\ editor'.step = kind
      BY <1>2, <2>1 DEF EditorReads, Edits
    <2>3. QED BY <1>1, <1>2, <2>2 DEF EditorReads, EditorTyped
  <1>3. ASSUME editor' = NoCall PROVE EditorTyped'
    BY <1>3 DEF EditorTyped
  <1>4. ASSUME editor' = editor, up' \/ ~up PROVE EditorTyped'
    BY <1>1, <1>4 DEF EditorTyped
  <1>5. CASE Owner \/ Worker \/ Cancel \/ Shutdown \/ UNCHANGED vars
    <2>1. editor' = editor /\ up' = up
      BY <1>5, Frames DEF vars
    <2>2. QED BY <1>4, <2>1
  <1>6. CASE Crash \/ Restart
    BY <1>3, <1>4, <1>6 DEF Crash, Restart
  <1>7. CASE EditorProbes \/ EditorUpdates \/ EditorDeletes
    BY <1>3, <1>7 DEF EditorProbes, EditorUpdates, EditorDeletes
  <1>8. QED
    BY <1>2, <1>5, <1>6, <1>7 DEF Next, Editor

LEMMA TypesNext ==
  ASSUME Types, [Next]_vars
  PROVE  Types'
  BY RowsNext, ServiceNext, RunsNext, SeenNext, EnvNext, LaneNext, OwnerNext, EditorNext DEF Types

LEMMA TypesImply ==
  ASSUME Types
  PROVE  TypeOK
  BY DEF Types, TypeOK, RowsTyped, Table, RowRecords, Statuses, ServiceTyped, RunsTyped, SeenTyped,
     EnvTyped, LaneTyped, Lanes, LaneSteps, Quiet, Turned

\* A probe of p by a thread that has read whether p is active.
ProbeOnly(thread, p, active) ==
  /\ p \in Profiles
  /\ \A q \in Profiles :
       /\ row'[q].here = row[q].here /\ row'[q].ident = row[q].ident
       /\ row'[q].gen = row[q].gen /\ row'[q].bundle = row[q].bundle
       /\ row'[q].active = row[q].active
       /\ q # p => row'[q] = row[q]
       /\ row'[q] # row[q] =>
            /\ q = p /\ <<thread, p>> \in seen
            /\ row'[q].test # "never" /\ row'[q].status # "reindexing"
            /\ active => row'[q].status \in Good
  /\ row[p].here /\ <<thread, p>> \in seen => row'[p].test # "never"

LEMMA ProbeSteps ==
  ASSUME Types
  PROVE  /\ QueueProbes => ProbeOnly("owner", owner.profile, owner.row.active)
         /\ EditorProbes => ProbeOnly("editor", editor.profile, editor.active)
  <1>1. row \in Table
    BY DEF Types, RowsTyped
  <1>2. ASSUME NEW thread, NEW p \in Profiles, NEW active \in BOOLEAN, NEW passed \in BOOLEAN,
               row' = ProbeWrites(thread, p, active, passed)
        PROVE  ProbeOnly(thread, p, active)
    <2> DEFINE new == Probed(row[p], active, passed)
    <2>1. /\ new.here = row[p].here /\ new.ident = row[p].ident /\ new.gen = row[p].gen
          /\ new.bundle = row[p].bundle /\ new.active = row[p].active
          /\ new.test # "never" /\ new.status # "reindexing"
          /\ active => new.status \in Good
      <3>1. row[p] \in RowRecords
        BY <1>1 DEF Table
      <3>2. QED BY <3>1, ProbedRow
    <2>2. IF row[p].here /\ <<thread, p>> \in seen THEN row' = [row EXCEPT ![p] = new] ELSE row' = row
      BY <1>2 DEF ProbeWrites
    <2> HIDE DEF new
    <2>3. QED BY <1>1, <2>1, <2>2 DEF ProbeOnly, Table
  <1>3. ASSUME QueueProbes PROVE ProbeOnly("owner", owner.profile, owner.row.active)
    BY <1>2, <1>3, OwnerIs DEF QueueProbes
  <1>4. ASSUME EditorProbes PROVE ProbeOnly("editor", editor.profile, editor.active)
    BY <1>2, <1>4, EditorIs DEF EditorProbes
  <1>5. QED BY <1>3, <1>4

-----------------------------------------------------------------------------
(***************************************************************************)
(* What the threads have read.                                             *)
(***************************************************************************)
\* A row that a thread still knows has not been written, but by the owner's own call.
RowsKept ==
  \A s \in seen' \cap seen :
    \/ row'[s[2]] = row[s[2]]
    \/ QueueProbes /\ s = <<"owner", owner.profile>>
    \/ QueueSubmits /\ s = <<"lane", owner.profile>>

\* The owner's call and the lane forget a row together.
Forgotten ==
  owner' = owner =>
    \A p \in Profiles :
      <<"lane", p>> \in seen' /\ <<"owner", p>> \in seen => <<"owner", p>> \in seen'

\* Only a thread itself comes to know a row.
NewSeen ==
  \A p \in Profiles :
    /\ <<"lane", p>> \in seen' => <<"lane", p>> \in seen \/ QueueSubmits
    /\ <<"owner", p>> \in seen' => <<"owner", p>> \in seen \/ Owner
    /\ <<"editor", p>> \in seen' => <<"editor", p>> \in seen \/ Editor

\* The three of them at every step of a process that runs.
LEMMA SeenKept ==
  ASSUME Types, [Next]_vars, up
  PROVE  RowsKept /\ Forgotten /\ NewSeen
  <1>1. \A s \in seen : s \in {"owner", "editor", "lane"} \X Profiles
    BY DEF Types, SeenTyped
  <1>2. \A s \in seen : s[2] \in Profiles
    BY <1>1
  <1>3. \A ps : \A s \in Untouched(ps) : s \in seen /\ s[2] \notin ps
    BY DEF Untouched
  <1>4. \A ps : \A p \in Profiles :
          <<"lane", p>> \in Untouched(ps) /\ <<"owner", p>> \in seen =>
            <<"owner", p>> \in Untouched(ps)
    BY DEF Untouched
  <1>5. ASSUME seen' = Untouched(Changed) \/ seen' = Untouched(Written)
        PROVE  RowsKept /\ Forgotten /\ NewSeen
    BY <1>2, <1>3, <1>4, <1>5 DEF Changed, Written, RowsKept, Forgotten, NewSeen
  <1>6. ASSUME NEW p \in Profiles, seen' = Untouched({p}), \A q \in Profiles : q # p => row'[q] = row[q]
        PROVE  RowsKept /\ Forgotten /\ NewSeen
    BY <1>2, <1>3, <1>4, <1>6 DEF RowsKept, Forgotten, NewSeen
  <1>7. ASSUME seen' = seen, row' = row PROVE RowsKept /\ Forgotten /\ NewSeen
    BY <1>7 DEF RowsKept, Forgotten, NewSeen
  <1>8. ASSUME NEW p \in Profiles, NEW force \in BOOLEAN, Queue(p, force)
        PROVE  RowsKept /\ Forgotten /\ NewSeen
    <2>1. row' = row /\ seen' = seen \cup {<<"owner", p>>} /\ Owner
      BY <1>8 DEF Queue, disk, Owner
    <2>2. QED BY <2>1 DEF RowsKept, Forgotten, NewSeen
  <1>9. CASE QueueProbes
    <2>1. seen' = Untouched(Changed) \cup {<<"owner", owner.profile>>} /\ Owner
      BY <1>9 DEF QueueProbes, Owner
    <2>2. \A s \in Untouched(Changed) : row'[s[2]] = row[s[2]]
      BY <1>2, <1>3 DEF Changed
    <2>3. RowsKept
      BY <1>9, <2>1, <2>2 DEF RowsKept
    <2>4. QED BY <1>3, <1>4, <2>1, <2>3 DEF Forgotten, NewSeen
  <1>10. CASE QueueSubmits
    <2>1. seen' \subseteq Untouched(Changed) \cup {<<"lane", owner.profile>>}
      BY <1>10 DEF QueueSubmits
    <2>2. \A s \in Untouched(Changed) : row'[s[2]] = row[s[2]]
      BY <1>2, <1>3 DEF Changed
    <2>3. RowsKept
      BY <1>10, <2>1, <2>2 DEF RowsKept
    <2>4. owner.step = "decide" /\ owner' = NoCall /\ Owner
      BY <1>10 DEF QueueSubmits, Owner
    <2>5. NewSeen
      BY <1>3, <1>10, <2>1, <2>4 DEF NewSeen
    <2>6. QED BY <2>3, <2>4, <2>5 DEF Forgotten, NoCall
  <1>11. ASSUME NEW kind \in {"probe", "update", "delete"}, NEW p \in Profiles, EditorReads(kind, p)
         PROVE  RowsKept /\ Forgotten /\ NewSeen
    <2>1. row' = row /\ seen' = {s \in seen : s[1] # "editor"} \cup {<<"editor", p>>} /\ Editor
      BY <1>11 DEF EditorReads, disk, Editor
    <2>2. QED BY <2>1 DEF RowsKept, Forgotten, NewSeen
  <1>12. CASE EditorUpdates
    <2>1. PICK i \in Identities : row' = Updated(row, editor.profile, i)
      BY <1>12 DEF EditorUpdates
    <2>2. editor.profile \in Profiles
      BY <1>12, EditorIs DEF EditorUpdates
    <2>3. \A q \in Profiles : q # editor.profile => row'[q] = row[q]
      BY <2>1, <2>2, UpdatedRows DEF Types, RowsTyped
    <2>4. QED BY <1>6, <1>12, <2>2, <2>3 DEF EditorUpdates
  <1>13. CASE Fail
    <2>1. lane.profile \in Profiles /\ row \in Table
      BY <1>13, LaneIs DEF Fail, Types, RowsTyped
    <2>2. row[lane.profile].test \in Tests /\ "failed" \in Tests
      BY <2>1 DEF Table, RowRecords, Tests
    <2>3. ASSUME NEW test \in {"failed", row[lane.profile].test}, row' = Unfrozen(row, lane.profile, test)
          PROVE  \A q \in Profiles : q # lane.profile => row'[q] = row[q]
      BY <2>1, <2>2, <2>3, UnfrozenRows
    <2>4. QED BY <1>6, <1>7, <1>13, <2>1, <2>3 DEF Fail
  <1>14. CASE Crash
    BY <1>14 DEF Crash, RowsKept, Forgotten, NewSeen
  <1>15. CASE QueueSwitchesProvider \/ QueueActivates \/ QueueRefuses
    BY <1>5, <1>7, <1>15 DEF QueueSwitchesProvider, QueueActivates, QueueRefuses, disk
  <1>16. CASE Worker /\ ~Fail
    BY <1>5, <1>7, <1>16
    DEF Worker, Build, BuildFails, Flip, FlipRefused, SwitchProvider, Admit, Point, Promote,
        Commit, Unpoint, Undo, Finish, disk
  <1>17. CASE EditorProbes \/ EditorDeletes \/ Cancel \/ Shutdown \/ UNCHANGED vars
    BY <1>5, <1>7, <1>17 DEF EditorProbes, EditorDeletes, Cancel, Shutdown, disk, vars
  <1>18. ~Restart
    BY DEF Restart
  <1>19. QED
    BY <1>8, <1>9, <1>10, <1>11, <1>12, <1>13, <1>14, <1>15, <1>16, <1>17, <1>18
    DEF Next, Owner, Editor

\* After a crash nothing happens but the restart.
LEMMA DownSteps ==
  ASSUME Types, [Next]_vars, ~up
  PROVE  /\ Restart \/ UNCHANGED vars
         /\ owner = NoCall /\ editor = NoCall /\ lane.step = "lost"
  <1>1. owner = NoCall /\ editor = NoCall /\ lane.step = "lost"
    BY DEF Types, OwnerTyped, EditorTyped, LaneTyped
  <1>2. ~Owner
    BY <1>1 DEF Owner, Queue, QueueProbes, QueueSwitchesProvider, QueueActivates, QueueSubmits,
       QueueRefuses, NoCall
  <1>3. ~Worker
    BY <1>1 DEF Worker, Build, BuildFails, Flip, FlipRefused, SwitchProvider, Admit, Point, Promote,
       Commit, Unpoint, Undo, Fail, Finish
  <1>4. ~Editor
    BY <1>1 DEF Editor, EditorReads, EditorProbes, EditorUpdates, EditorDeletes, NoCall
  <1>5. ~Cancel /\ ~Shutdown /\ ~Crash
    BY DEF Cancel, Shutdown, Crash
  <1>6. QED
    BY <1>1, <1>2, <1>3, <1>4, <1>5 DEF Next

LEMMA SeenAgreesNext ==
  ASSUME Types, SeenAgrees, [Next]_vars
  PROVE  SeenAgrees'
  <1>1. ASSUME ~up PROVE SeenAgrees'
    <2>1. CASE Restart
      <3>1. owner'.step = "none" /\ editor'.step = "none" /\ lane'.step = "idle"
        BY <1>1, <2>1, DownSteps DEF Restart, NoCall, Idle
      <3>2. QED BY <3>1 DEF SeenAgrees, Reading
    <2>2. CASE UNCHANGED vars
      BY <2>2 DEF SeenAgrees, Reading, vars, disk
    <2>3. QED BY <1>1, <2>1, <2>2, DownSteps
  <1>2. CASE Crash
    <2>1. owner'.step = "none" /\ editor'.step = "none" /\ lane'.step = "lost"
      BY <1>2, LaneMoves DEF Crash, NoCall, Moved
    <2>2. QED BY <2>1 DEF SeenAgrees, Reading
  <1>3. ASSUME up, ~Crash, Reading'
        PROVE  /\ owner'.row.here
               /\ <<"owner", owner'.profile>> \in seen' => owner'.row = row'[owner'.profile]
               /\ <<"lane", owner'.profile>> \in seen' => <<"owner", owner'.profile>> \in seen'
    <2>1. ASSUME NEW p \in Profiles, NEW force \in BOOLEAN, Queue(p, force)
          PROVE  /\ owner'.row.here /\ owner'.row = row'[owner'.profile]
                 /\ <<"owner", owner'.profile>> \in seen'
      BY <2>1 DEF Queue, disk
    <2>2. ASSUME QueueProbes
          PROVE  /\ owner'.row.here /\ owner'.row = row'[owner'.profile]
                 /\ <<"owner", owner'.profile>> \in seen'
      <3> DEFINE p == owner.profile
      <3>1. owner # NoCall
        BY <2>2 DEF QueueProbes, NoCall
      <3>2. row[p].here /\ owner' = [owner EXCEPT !.step = "decide", !.row = row'[p]]
        BY <1>3, <2>2 DEF QueueProbes, Reading, NoCall
      <3>3. owner'.row = row'[p] /\ owner'.profile = p
        <4>1. owner \in Reads
          BY <2>2 DEF QueueProbes, Types, OwnerTyped, Calls, Switches, NoCall
        <4>2. QED BY <3>2, <4>1 DEF Reads
      <3>4. row'[p].here
        <4>1. p \in Profiles
          BY <2>2, OwnerIs DEF QueueProbes
        <4>2. QED BY <2>2, <3>2, <4>1, ProbeSteps DEF ProbeOnly
      <3>5. QED BY <2>2, <3>3, <3>4 DEF QueueProbes
    <2>3. ASSUME owner' = owner, ~Owner
          PROVE  /\ owner'.row.here
                 /\ <<"owner", owner'.profile>> \in seen' => owner'.row = row'[owner'.profile]
                 /\ <<"lane", owner'.profile>> \in seen' => <<"owner", owner'.profile>> \in seen'
      <3> DEFINE p == owner.profile
      <3>1. Reading /\ p \in Profiles
        BY <1>3, <2>3, OwnerIs DEF Reading
      <3>2. ~QueueProbes /\ ~QueueSubmits
        BY <2>3 DEF Owner
      <3>3. <<"owner", p>> \in seen' => <<"owner", p>> \in seen /\ row'[p] = row[p]
        BY <1>3, <2>3, <3>1, <3>2, SeenKept DEF NewSeen, RowsKept
      <3>4. <<"lane", p>> \in seen' => <<"lane", p>> \in seen
        BY <1>3, <3>1, <3>2, SeenKept DEF NewSeen
      <3>5. <<"lane", p>> \in seen' /\ <<"owner", p>> \in seen => <<"owner", p>> \in seen'
        BY <1>3, <2>3, <3>1, SeenKept DEF Forgotten
      <3>6. QED BY <2>3, <3>1, <3>3, <3>4, <3>5 DEF SeenAgrees
    <2>4. QueueSwitchesProvider \/ QueueActivates \/ QueueSubmits \/ QueueRefuses => ~Reading'
      <3>1. QueueSwitchesProvider => owner'.step = "switched"
        <4>1. QueueSwitchesProvider => owner \in Reads
          BY DEF QueueSwitchesProvider, Types, OwnerTyped, Calls, Switches, NoCall
        <4>2. QED BY <4>1 DEF QueueSwitchesProvider, Reads
      <3>2. QueueActivates \/ QueueSubmits \/ QueueRefuses => owner' = NoCall
        BY DEF QueueActivates, QueueSubmits, QueueRefuses
      <3>3. QED
        BY <3>1, <3>2 DEF NoCall, Reading
    <2>5. owner' = owner \/ Owner
      BY <1>3, Frames DEF Next, vars, Restart
    <2>6. QED BY <1>3, <2>1, <2>2, <2>3, <2>4, <2>5 DEF Owner
  <1>4. ASSUME up, ~Crash, editor'.step = "probe", <<"editor", editor'.profile>> \in seen'
        PROVE  editor'.active = row'[editor'.profile].active
    <2>1. ASSUME NEW kind \in {"probe", "update", "delete"}, NEW p \in Profiles, EditorReads(kind, p)
          PROVE  editor'.active = row'[editor'.profile].active
      BY <2>1 DEF EditorReads, disk
    <2>2. ASSUME editor' = editor, ~Editor PROVE editor'.active = row'[editor'.profile].active
      <3> DEFINE p == editor.profile
      <3>1. p \in Profiles /\ editor.step = "probe"
        BY <1>4, <2>2, EditorIs
      <3>2. <<"editor", p>> \in seen
        BY <1>4, <2>2, <3>1, SeenKept DEF NewSeen
      <3>3. \/ row'[p] = row[p]
            \/ <<"editor", p>> \in {<<"owner", owner.profile>>, <<"lane", owner.profile>>}
        <4>1. <<"editor", p>> \in seen' \cap seen /\ <<"editor", p>>[2] = p
          BY <1>4, <2>2, <3>2
        <4>2. RowsKept
          BY <1>4, SeenKept
        <4>3. QED BY <4>1, <4>2 DEF RowsKept
      <3>4. QED BY <2>2, <3>1, <3>2, <3>3 DEF SeenAgrees
    <2>3. EditorProbes \/ EditorUpdates \/ EditorDeletes => editor'.step = "none"
      BY DEF EditorProbes, EditorUpdates, EditorDeletes, NoCall
    <2>4. editor' = editor \/ Editor
      BY <1>4, Frames DEF Next, vars, Restart
    <2>5. QED BY <1>4, <2>1, <2>2, <2>3, <2>4 DEF Editor
  <1>5. ASSUME up, ~Crash, lane'.step \in {"building", "built"}, ~lane'.frozen,
               <<"lane", lane'.profile>> \in seen'
        PROVE  /\ row'[lane'.profile].here /\ row'[lane'.profile].active
               /\ row'[lane'.profile].ident = lane'.ident
    <2>1. CASE QueueSubmits
      <3> DEFINE p == owner.profile
                 refresh == owner.force /\ owner.row.active
      <3>1. /\ p \in Profiles /\ owner.step = "decide" /\ Reading
            /\ lane' = IF refresh THEN Run(p, owner.row.ident, owner.row.gen, FALSE)
                       ELSE Run(p, row[p].ident, Len(runs) + 1, TRUE)
            /\ refresh => row' = row
        BY <2>1, OwnerIs DEF QueueSubmits, Reading
      <3>2. refresh
        BY <1>5, <3>1 DEF Run
      <3>3. lane'.profile = p /\ lane'.ident = owner.row.ident
        BY <3>1, <3>2 DEF Run
      <3>4. <<"owner", p>> \in seen
        <4>1. <<"lane", p>> \in Untouched(Changed) \/ <<"owner", p>> \in seen
          BY <1>5, <2>1, <3>3 DEF QueueSubmits
        <4>2. <<"lane", p>> \in seen \/ <<"owner", p>> \in seen
          BY <4>1 DEF Untouched
        <4>3. QED BY <3>1, <4>2 DEF SeenAgrees
      <3>5. QED BY <3>1, <3>2, <3>3, <3>4 DEF SeenAgrees
    <2>2. ASSUME ~QueueSubmits, lane.step \in {"building", "built"}, lane'.profile = lane.profile,
                 lane'.frozen = lane.frozen, lane'.ident = lane.ident
          PROVE  /\ row'[lane'.profile].here /\ row'[lane'.profile].active
                 /\ row'[lane'.profile].ident = lane'.ident
      <3>1. lane.profile \in Profiles
        BY <2>2, LaneIs
      <3>2. <<"lane", lane.profile>> \in seen /\ row'[lane.profile] = row[lane.profile]
        BY <1>5, <2>2, <3>1, SeenKept DEF NewSeen, RowsKept
      <3>3. QED BY <1>5, <2>2, <3>2 DEF SeenAgrees
    <2>3. ASSUME ~QueueSubmits
          PROVE  /\ lane.step \in {"building", "built"} /\ lane'.profile = lane.profile
                 /\ lane'.frozen = lane.frozen /\ lane'.ident = lane.ident
      <3>1. lane' = lane \/ Stopped \/ Build
              \/ lane'.step \notin {"building", "built"}
        <4>1. BuildFails \/ FlipRefused \/ Undo => lane'.step = "failed"
          BY LaneMoves DEF Moved
        <4>2. /\ SwitchProvider => lane'.step \in {"switched", "undoing"}
              /\ Admit => lane'.step \in {"admitted", "undoing"}
              /\ Flip => lane'.step = "flipped"
          BY LaneMoves DEF Moved, Admitted, Flipped
        <4>3. /\ Point => lane'.step \in {"pointed", "undoing"}
              /\ Promote => lane'.step \in {"promoted", "unpointing"}
              /\ Commit => lane'.step \in {"activated", "unpointing"}
              /\ Unpoint => lane'.step = "undoing"
          BY LaneMoves DEF Moved
        <4>4. Crash \/ Fail \/ Finish \/ Restart => lane'.step \in {"lost", "idle"}
          BY LaneMoves DEF Moved, Idle
        <4>5. Cancel \/ Shutdown => lane' = lane \/ Stopped
          BY LaneMoves
        <4>6. lane' = lane \/ LaneActs
          BY LaneStays
        <4>7. QED
          BY <1>5, <2>3, <4>1, <4>2, <4>3, <4>4, <4>5, <4>6 DEF LaneActs
      <3>2. Build => Moved("built") /\ lane.step = "building"
        BY LaneMoves DEF Build
      <3>3. QED BY <1>5, <3>1, <3>2 DEF Moved, Stopped, SameRun
    <2>4. QED BY <2>1, <2>2, <2>3
  <1>6. QED
    BY <1>1, <1>2, <1>3, <1>4, <1>5 DEF SeenAgrees

-----------------------------------------------------------------------------
(***************************************************************************)
(* The bundle of a run.                                                    *)
(***************************************************************************)
LEMMA BundleIsNewNext ==
  ASSUME Types, BundleIsNew, [Next]_vars
  PROVE  BundleIsNew'
  <1>1. \A b \in 1..Len(runs) : b \in 1..Len(runs')
    BY RunsNext
  <1>2. /\ lane.step \notin {"idle", "lost"} => lane.bundle \in 1..Len(runs)
        /\ lane.step \in LaneSteps /\ (lane.step = "lost" => ~up)
    BY DEF Types, LaneTyped, Lanes
  <1>3. ASSUME UNCHANGED <<lane, pointer, served>> PROVE BundleIsNew'
    BY <1>1, <1>3 DEF BundleIsNew
  <1>4. ASSUME NEW step \in {"built", "failed", "switched", "undoing"}, Moved(step),
               lane.step \in {"building", "built", "flipped", "switched", "admitted", "undoing"},
               lane.step \in {"building", "built"} => step \in {"built", "failed"},
               UNCHANGED <<pointer, served>>
        PROVE  BundleIsNew'
    BY <1>1, <1>4 DEF BundleIsNew, Moved, SameRun, Turned
  <1>5. CASE Build \/ BuildFails \/ FlipRefused \/ SwitchProvider \/ Undo
    <2>1. Build => Moved("built") /\ lane.step = "building" /\ UNCHANGED <<pointer, served>>
      BY LaneMoves DEF Build, disk, service
    <2>2. BuildFails => Moved("failed") /\ lane.step = "building" /\ UNCHANGED <<pointer, served>>
      BY LaneMoves DEF BuildFails, disk, service
    <2>3. FlipRefused => Moved("failed") /\ lane.step = "built" /\ UNCHANGED <<pointer, served>>
      BY LaneMoves DEF FlipRefused, disk, service
    <2>4. SwitchProvider => /\ Moved("switched") \/ Moved("undoing")
                            /\ lane.step = "flipped" /\ UNCHANGED <<pointer, served>>
      BY LaneMoves DEF SwitchProvider, disk
    <2>5. Undo => Moved("failed") /\ lane.step = "undoing" /\ UNCHANGED <<pointer, served>>
      BY LaneMoves DEF Undo
    <2>6. QED BY <1>4, <1>5, <2>1, <2>2, <2>3, <2>4, <2>5
  <1>6. CASE Admit
    <2>1. lane.step = "switched" /\ UNCHANGED <<pointer, served>>
      BY <1>6 DEF Admit, disk, service
    <2>2. CASE Moved("undoing")
      BY <1>4, <2>1, <2>2
    <2>3. CASE Admitted
      BY <1>1, <2>1, <2>3 DEF BundleIsNew, Admitted, SameRun, Turned
    <2>4. QED BY <1>6, <2>2, <2>3, LaneMoves
  <1>7. CASE Flip
    <2>1. Flipped /\ UNCHANGED <<pointer, served>>
      BY <1>7, LaneMoves DEF Flip, service
    <2>2. lane'.prior.served = served /\ lane.step = "built" /\ lane'.step = "flipped"
          /\ lane'.bundle = lane.bundle /\ lane'.stop = lane.stop
      BY <2>1 DEF Flipped, SameRun
    <2>3. QED BY <1>1, <2>1, <2>2 DEF BundleIsNew, Turned
  <1>8. CASE Point
    <2>1. lane.step = "admitted" /\ served' = served
      BY <1>8 DEF Point, service
    <2>2. CASE pointer' = lane.bundle /\ Moved("pointed")
      BY <1>1, <2>1, <2>2 DEF BundleIsNew, Moved, SameRun, Turned
    <2>3. CASE pointer' = pointer /\ Moved("undoing")
      BY <1>4, <2>1, <2>3
    <2>4. (pointer' = lane.bundle /\ To("pointed")) \/ (pointer' = pointer /\ To("undoing"))
      BY <1>8 DEF Point
    <2>5. QED BY <2>2, <2>3, <2>4, LaneTo DEF LaneSteps, Quiet, Turned, Types, LaneTyped
  <1>9. CASE Promote
    <2>1. lane.step = "pointed" /\ pointer' = pointer
      BY <1>9 DEF Promote, disk
    <2>2. CASE served' = lane.bundle /\ Moved("promoted")
      BY <1>1, <2>1, <2>2 DEF BundleIsNew, Moved, SameRun, Turned
    <2>3. CASE served' = served /\ Moved("unpointing")
      BY <1>1, <2>1, <2>3 DEF BundleIsNew, Moved, SameRun, Turned
    <2>4. (served' = lane.bundle /\ To("promoted")) \/ (served' = served /\ To("unpointing"))
      BY <1>9 DEF Promote
    <2>5. QED BY <2>2, <2>3, <2>4, LaneTo DEF LaneSteps, Quiet, Turned, Types, LaneTyped
  <1>10. CASE Commit
    <2>1. lane.step = "promoted" /\ pointer' = pointer
      BY <1>10 DEF Commit
    <2>2. CASE served' = served /\ Moved("activated")
      BY <1>1, <2>1, <2>2 DEF BundleIsNew, Moved, SameRun, Turned
    <2>3. CASE served' = lane.prior.served /\ Moved("unpointing")
      BY <1>1, <2>1, <2>3 DEF BundleIsNew, Moved, SameRun, Turned
    <2>4. (served' = served /\ To("activated")) \/ (served' = lane.prior.served /\ To("unpointing"))
      BY <1>10 DEF Commit
    <2>5. QED BY <2>2, <2>3, <2>4, LaneTo DEF LaneSteps, Quiet, Turned, Types, LaneTyped
  <1>11. CASE Unpoint
    <2>1. lane.step = "unpointing" /\ pointer' = lane.prior.served /\ served' = served /\ Moved("undoing")
      BY <1>11, LaneMoves DEF Unpoint, service
    <2>2. QED BY <1>1, <2>1 DEF BundleIsNew, Moved, SameRun, Turned
  <1>12. CASE Fail \/ Finish \/ Restart
    <2>1. lane' = Idle
      BY <1>12, LaneMoves
    <2>2. QED BY <2>1 DEF BundleIsNew, Idle, Turned
  <1>13. CASE QueueSubmits
    <2>1. Started /\ UNCHANGED <<pointer, served>>
      BY <1>13, LaneMoves DEF QueueSubmits, service
    <2>2. served # Len(runs) + 1 /\ pointer # Len(runs) + 1
      BY RunsNext, NoneAssumption DEF Types, BundlesTyped
    <2>3. QED BY <2>1, <2>2 DEF BundleIsNew, Started, Turned
  <1>14. CASE Cancel
    <2>1. Stopped /\ lane'.stop = "cancel" /\ ~lane.committing /\ lane.step # "idle" /\ up
      BY <1>14, LaneMoves DEF Cancel, Stopped
    <2>2. lane.step \in {"building", "built", "flipped", "switched", "undoing", "failed"}
      BY <1>2, <2>1 DEF BundleIsNew, LaneSteps, Quiet, Turned
    <2>3. UNCHANGED <<pointer, served>>
      BY <1>14, Frames
    <2>4. lane.bundle \in 1..Len(runs)
      BY <1>2, <2>2
    <2>5. QED BY <1>1, <2>1, <2>2, <2>3, <2>4 DEF BundleIsNew, Stopped, SameRun, Turned
  <1>15. CASE Shutdown
    <2>1. UNCHANGED <<pointer, served>>
      BY <1>15, Frames
    <2>2. CASE Stopped /\ lane'.stop = "shutdown"
      BY <1>1, <2>1, <2>2 DEF BundleIsNew, Stopped, SameRun, Turned
    <2>3. QED BY <1>3, <1>15, <2>1, <2>2, LaneMoves
  <1>16. CASE Crash
    <2>1. Moved("lost") /\ pointer' = pointer /\ served' = None
      BY <1>16, LaneMoves DEF Crash, disk
    <2>2. lane.stop = "cancel" => lane.bundle # None
      BY NoneAssumption, RunsNext DEF BundleIsNew
    <2>3. QED BY <1>1, <2>1, <2>2 DEF BundleIsNew, Moved, SameRun, Turned
  <1>17. QED
    BY <1>3, <1>5, <1>6, <1>7, <1>8, <1>9, <1>10, <1>11, <1>12, <1>13, <1>14, <1>15, <1>16, LaneStays
    DEF LaneActs

-----------------------------------------------------------------------------
(***************************************************************************)
(* The row that is being reindexed.                                        *)
(***************************************************************************)
\* reconcile_active_bundle leaves no row that is being reindexed.
LEMMA ReconcileSettles ==
  ASSUME row \in Table, NEW b \in Bundles \cup {None}, Reconcile(b),
         \A p \in Profiles : row[p].status = "reindexing" => ~row[p].active
  PROVE  \A p \in Profiles : row'[p].status # "reindexing"
  <1> DEFINE rows == Recovered(row)
  <1>1. rows \in Table /\ \A p \in Profiles : rows[p].status # "reindexing"
    BY RecoveredRows
  <1> HIDE DEF rows
  <1>2. CASE b = None
    <2>1. row' = [p \in Profiles |->
                    IF p \in Active(rows)
                    THEN [rows[p] EXCEPT !.active = FALSE, !.status = "reindex_required",
                                         !.test = "failed"]
                    ELSE rows[p]]
      BY <1>2 DEF Reconcile, rows
    <2>2. \A p \in Profiles :
            rows[p] \in RowRecords
            /\ [rows[p] EXCEPT !.active = FALSE, !.status = "reindex_required",
                               !.test = "failed"].status = "reindex_required"
      BY <1>1 DEF Table, RowRecords
    <2>3. QED BY <1>1, <2>1, <2>2
  <1>3. CASE b # None /\ Selectable(rows, b) = {}
    BY <1>1, <1>3 DEF Reconcile, rows
  <1>4. CASE b # None /\ Selectable(rows, b) # {}
    <2>1. PICK p \in Selectable(rows, b) : row' = ActivatedWith(rows, p, b)
      BY <1>4 DEF Reconcile, rows
    <2>2. p \in Profiles /\ b \in Bundles
      BY <1>4, <2>1, SelectableRows
    <2>3. QED
      BY <1>1, <2>1, <2>2, ActivatedWithRows
  <1>5. QED
    BY <1>2, <1>3, <1>4

\* What the rollback hook does to the rows, when it finds the run's row as the run has left it.
Back(q) ==
  LET p == lane.profile IN
  /\ row[p].here /\ row[p].active /\ row[p].gen = lane.gen
  /\ intent' = IF intent # None /\ intent.gen = lane.gen THEN None ELSE intent
  /\ \A o \in Profiles :
       /\ row'[o].here = row[o].here /\ row'[o].ident = row[o].ident
       /\ row'[o].gen = row[o].gen /\ row'[o].test = row[o].test
       /\ o # p /\ o # q => row'[o] = row[o]
  /\ p # q => row'[p].active = FALSE /\ row'[p].status = "reindexing" /\ row'[p].bundle = None
  /\ q # None => /\ q \in Profiles /\ row'[q].active
                 /\ row'[q].status = lane.prior.status /\ row'[q].bundle = lane.prior.bundle

LEMMA RowsBackSteps ==
  ASSUME Types, lane.step = "undoing", RowsBack
  PROVE  LET p == lane.profile
             q == lane.prior.profile
         IN  IF row[p].here /\ row[p].active /\ row[p].gen = lane.gen
             THEN Back(IF q = None \/ ~row[q].here THEN None ELSE q)
             ELSE row' = row /\ intent' = intent
  <1> DEFINE p == lane.profile
             q == lane.prior.profile
             st == lane.prior.status
             b == lane.prior.bundle
             mid == Released(row, p)
             new == Restored(mid, q, st, b)
  <1>1. row \in Table /\ p \in Profiles /\ None \notin Profiles
    BY LaneIs, NoneAssumption DEF Types, RowsTyped
  <1>2. q # None => q \in Profiles /\ st \in Statuses /\ b \in Bundles \cup {None}
    BY LaneIs DEF Turned
  <1>3. CASE ~(row[p].here /\ row[p].active /\ row[p].gen = lane.gen)
    BY <1>3 DEF RowsBack
  <1>4. CASE row[p].here /\ row[p].active /\ row[p].gen = lane.gen
    <2>1. /\ row' = IF q = None \/ ~row[q].here THEN mid ELSE new
          /\ intent' = IF intent # None /\ intent.gen = lane.gen THEN None ELSE intent
      BY <1>4 DEF RowsBack
    <2>2. /\ mid \in Table
          /\ \A o \in Profiles : o # p => mid[o] = row[o]
          /\ mid[p].active = FALSE
          /\ mid[p].status = "reindexing"
          /\ mid[p].bundle = None
          /\ mid[p].here = row[p].here /\ mid[p].ident = row[p].ident
          /\ mid[p].gen = row[p].gen /\ mid[p].test = row[p].test
      BY <1>1, ReleasedRows
    <2> HIDE DEF mid
    <2>3. CASE q = None \/ ~row[q].here
      <3>1. row' = mid
        BY <2>1, <2>3
      <3>2. Back(None)
        BY <1>1, <1>4, <2>1, <2>2, <3>1 DEF Back
      <3>3. QED BY <1>4, <2>3, <3>2
    <2>4. CASE ~(q = None \/ ~row[q].here)
      <3> HIDE DEF q, st, b
      <3>1. q \in Profiles /\ st \in Statuses /\ b \in Bundles \cup {None}
        BY <1>2, <2>4
      <3>2. /\ \A o \in Profiles : o # q => new[o] = mid[o]
            /\ new[q].active
            /\ new[q].status = st
            /\ new[q].bundle = b
            /\ new[q].here = mid[q].here /\ new[q].ident = mid[q].ident
            /\ new[q].gen = mid[q].gen /\ new[q].test = mid[q].test
        <4>1. mid \in Table
          BY <2>2
        <4>2. QED BY <4>1, <3>1, RestoredRows
      <3> HIDE DEF new
      <3>3. row' = new
        BY <2>1, <2>4 DEF q, st, b
      <3>4. Back(q)
        <4>1. \A o \in Profiles :
                /\ row'[o].here = row[o].here /\ row'[o].ident = row[o].ident
                /\ row'[o].gen = row[o].gen /\ row'[o].test = row[o].test
                /\ o # p /\ o # q => row'[o] = row[o]
          <5> SUFFICES ASSUME NEW o \in Profiles
                       PROVE  /\ row'[o].here = row[o].here /\ row'[o].ident = row[o].ident
                              /\ row'[o].gen = row[o].gen /\ row'[o].test = row[o].test
                              /\ o # p /\ o # q => row'[o] = row[o]
            OBVIOUS
          <5>1. /\ mid[o].here = row[o].here /\ mid[o].ident = row[o].ident
                /\ mid[o].gen = row[o].gen /\ mid[o].test = row[o].test
                /\ o # p => mid[o] = row[o]
            BY <2>2
          <5>2. QED BY <3>2, <3>3, <5>1
        <4>2. p # q => row'[p].active = FALSE /\ row'[p].status = "reindexing" /\ row'[p].bundle = None
          BY <1>1, <2>2, <3>2, <3>3
        <4>3. row'[q].active /\ row'[q].status = st /\ row'[q].bundle = b
          BY <3>2, <3>3
        <4>4. QED BY <1>4, <2>1, <3>1, <4>1, <4>2, <4>3 DEF Back, st, b
      <3>5. QED BY <1>4, <2>4, <3>4 DEF q
    <2>5. QED BY <2>3, <2>4
  <1>5. QED BY <1>3, <1>4

LEMMA ReindexingNext ==
  ASSUME Types, ReindexingIsLane, [Next]_vars
  PROVE  ReindexingIsLane'
  <1>1. row \in Table /\ row' \in Table
    BY RowsNext DEF Types, RowsTyped
  <1> DEFINE Free == \A p \in Profiles : row'[p].here => row'[p].status # "reindexing"
             Apart == \A p \in Profiles : row'[p].status = "reindexing" => ~row'[p].active
             Before == lane'.step \in Turned /\ lane'.prior.profile # None =>
                         lane'.prior.status # "reindexing"
  <1>2. ASSUME Free, Apart, Before PROVE ReindexingIsLane'
    BY <1>2 DEF ReindexingIsLane
  <1>3. ASSUME row' = row, up' = up, SameRun, lane'.prior = lane.prior,
               lane.step \in {"building", "built", "failed"} =>
                 lane'.step \in {"building", "built", "failed"},
               lane'.step \in Turned => lane.step \in Turned
        PROVE  ReindexingIsLane'
    BY <1>3 DEF ReindexingIsLane, SameRun
  <1>4. ASSUME UNCHANGED <<lane, up>>,
               \A p \in Profiles :
                 row'[p].status = "reindexing" =>
                   row[p].status = "reindexing" /\ (row'[p].active => row[p].active)
                   /\ row'[p].gen = row[p].gen /\ (row'[p].here => row[p].here)
        PROVE  ReindexingIsLane'
    BY <1>4 DEF ReindexingIsLane
  <1>5. ASSUME UNCHANGED <<row, lane, up>> PROVE ReindexingIsLane'
    BY <1>5 DEF ReindexingIsLane
  <1>6. ASSUME up, lane.step \notin {"building", "built", "failed"}
        PROVE  \A p \in Profiles : row[p].here => row[p].status # "reindexing"
    BY <1>6 DEF ReindexingIsLane
  <1>7. ASSUME NEW step \in LaneSteps, Moved(step), UNCHANGED <<row, up>>,
               lane.step \in {"building", "built", "failed"} =>
                 step \in {"building", "built", "failed"},
               step \in Turned => lane.step \in Turned
        PROVE  ReindexingIsLane'
    BY <1>3, <1>7 DEF Moved
  <1>8. CASE QueueProbes \/ EditorProbes
    <2>1. PICK thread, p, active : ProbeOnly(thread, p, active)
      BY <1>8, ProbeSteps
    <2>2. UNCHANGED <<lane, up>>
      BY <1>8 DEF QueueProbes, EditorProbes
    <2>3. QED BY <1>4, <2>1, <2>2 DEF ProbeOnly
  <1>9. CASE QueueActivates
    <2>1. UNCHANGED <<lane, up>> /\ (row' = row \/ row' = Activated(row, owner.profile))
      BY <1>9 DEF QueueActivates
    <2>2. owner.profile \in Profiles
      BY <1>9, OwnerIs DEF QueueActivates
    <2>3. ASSUME row' = Activated(row, owner.profile)
          PROVE  \A p \in Profiles :
                   row'[p].status = "reindexing" =>
                     row[p].status = "reindexing" /\ (row'[p].active => row[p].active)
                     /\ row'[p].gen = row[p].gen /\ (row'[p].here => row[p].here)
      BY <1>1, <2>2, <2>3, ActivatedRows
    <2>4. QED BY <1>4, <1>5, <2>1, <2>3
  <1>10. CASE QueueSubmits
    <2> DEFINE p == owner.profile
               refresh == owner.force /\ owner.row.active
    <2>1. /\ p \in Profiles /\ up /\ up' = up /\ lane = Idle /\ Len(runs) + 1 \in 0..MaxRuns
          /\ refresh \/ MayFreeze(p)
          /\ row' = IF refresh THEN row ELSE Frozen(row, p, Len(runs) + 1)
          /\ lane' = IF refresh THEN Run(p, owner.row.ident, owner.row.gen, FALSE)
                     ELSE Run(p, row[p].ident, Len(runs) + 1, TRUE)
      BY <1>10, OwnerIs DEF QueueSubmits, Types, OwnerTyped, Bundles
    <2>2. /\ \A q \in Profiles : row[q].here => row[q].status # "reindexing"
          /\ \A q \in Profiles : row[q].status = "reindexing" => ~row[q].active
      BY <1>6, <2>1 DEF Idle, ReindexingIsLane
    <2>3. lane'.step = "building"
      BY <2>1 DEF Run
    <2>4. CASE refresh
      <3>1. row' = row
        BY <2>1, <2>4
      <3>2. Free /\ Apart /\ Before
        BY <2>2, <2>3, <3>1 DEF Turned
      <3>3. QED BY <1>2, <3>2
    <2>5. CASE ~refresh
      <3>1. /\ row' = Frozen(row, p, Len(runs) + 1) /\ MayFreeze(p)
            /\ lane' = Run(p, row[p].ident, Len(runs) + 1, TRUE)
        BY <2>1, <2>5
      <3>2. lane'.frozen /\ lane'.profile = p /\ lane'.gen = Len(runs) + 1
        BY <3>1 DEF Run
      <3>3. /\ \A q \in Profiles : q # p => row'[q] = row[q]
            /\ row'[p].gen = Len(runs) + 1 /\ row'[p].active = row[p].active
        BY <1>1, <2>1, <3>1, FrozenRows
      <3>4. row'[p].active = FALSE
        BY <1>1, <2>1, <3>1, <3>3 DEF MayFreeze, Table, RowRecords
      <3>5. Apart /\ Before
        BY <2>2, <2>3, <3>3, <3>4 DEF Turned
      <3>6. \A q \in Profiles : row'[q].here /\ row'[q].status = "reindexing" => q = p
        BY <2>2, <3>3
      <3>7. row'[p].gen = Len(runs) + 1
        BY <3>3
      <3>8. QED BY <2>3, <3>2, <3>5, <3>6, <3>7 DEF ReindexingIsLane
    <2>6. QED BY <2>4, <2>5
  <1>11. CASE Build \/ BuildFails \/ FlipRefused
    <2>1. Build => Moved("built") /\ lane.step = "building" /\ UNCHANGED <<row, up>>
      BY LaneMoves DEF Build, disk
    <2>2. BuildFails => Moved("failed") /\ lane.step = "building" /\ UNCHANGED <<row, up>>
      BY LaneMoves DEF BuildFails, disk
    <2>3. FlipRefused => Moved("failed") /\ lane.step = "built" /\ UNCHANGED <<row, up>>
      BY LaneMoves DEF FlipRefused, disk
    <2>4. QED BY <1>7, <1>11, <2>1, <2>2, <2>3 DEF LaneSteps, Quiet, Turned
  <1>12. CASE SwitchProvider \/ Point \/ Promote \/ Unpoint
    <2>1. SwitchProvider => /\ Moved("switched") \/ Moved("undoing")
                            /\ lane.step = "flipped" /\ UNCHANGED <<row, up>>
      BY LaneMoves DEF SwitchProvider, disk
    <2>2. Point => /\ Moved("pointed") \/ Moved("undoing")
                   /\ lane.step = "admitted" /\ UNCHANGED <<row, up>>
      BY LaneMoves DEF Point
    <2>3. Promote => /\ Moved("promoted") \/ Moved("unpointing")
                     /\ lane.step = "pointed" /\ UNCHANGED <<row, up>>
      BY LaneMoves DEF Promote, disk
    <2>4. Unpoint => Moved("undoing") /\ lane.step = "unpointing" /\ UNCHANGED <<row, up>>
      BY LaneMoves DEF Unpoint
    <2>5. QED BY <1>7, <1>12, <2>1, <2>2, <2>3, <2>4 DEF LaneSteps, Quiet, Turned
  <1>13. CASE Admit
    <2>1. lane.step = "switched" /\ UNCHANGED <<row, up>>
      BY <1>13 DEF Admit, disk
    <2>2. CASE Moved("undoing")
      BY <1>7, <2>1, <2>2 DEF LaneSteps, Turned
    <2>3. CASE Admitted
      BY <1>3, <2>1, <2>3 DEF Admitted, Turned
    <2>4. QED BY <1>13, <2>2, <2>3, LaneMoves
  <1>14. CASE Flip
    <2>1. /\ lane.profile \in Profiles /\ lane.bundle \in Bundles /\ lane.step = "built" /\ up' = up
          /\ row' = IF lane.frozen THEN ActivatedWith(row, lane.profile, lane.bundle) ELSE row
      BY <1>14, LaneIs DEF Flip
    <2>2. up
      BY <2>1 DEF Types, LaneTyped
    <2>3. \A q \in Profiles : row[q].status = "reindexing" => ~row[q].active
      BY DEF ReindexingIsLane
    <2>4. Before
      <3>1. Flipped
        BY <1>14, LaneMoves
      <3>2. lane'.prior.profile = TheActive(row)
            /\ (TheActive(row) # None => lane'.prior.status = row[TheActive(row)].status)
        BY <3>1 DEF Flipped
      <3>3. TheActive(row) # None => TheActive(row) \in Active(row)
        BY DEF TheActive
      <3>4. QED BY <2>3, <3>2, <3>3 DEF Active
    <2>5. CASE lane.frozen
      <3>1. /\ row'[lane.profile].status = "ready"
            /\ \A q \in Profiles :
                 /\ row'[q].here = row[q].here
                 /\ row'[q].active <=> q = lane.profile \/ (row[q].active /\ ~row[q].here)
                 /\ q # lane.profile => row'[q].status \in {"last_known_good", row[q].status}
        BY <1>1, <2>1, <2>5, ActivatedWithRows
      <3>2. \A q \in Profiles : q # lane.profile /\ row[q].here => row[q].status # "reindexing"
        BY <2>2 DEF ReindexingIsLane
      <3>3. Free /\ Apart
        BY <2>3, <3>1, <3>2
      <3>4. QED BY <1>2, <2>4, <3>3
    <2>6. CASE ~lane.frozen
      <3>1. \A q \in Profiles : row[q].here => row[q].status # "reindexing"
        BY <2>2, <2>6 DEF ReindexingIsLane
      <3>2. Free /\ Apart
        BY <2>1, <2>3, <2>6, <3>1
      <3>3. QED BY <1>2, <2>4, <3>2
    <2>7. QED BY <2>5, <2>6
  <1>15. ASSUME NEW b \in Bundles \cup {None}, Reconcile(b) PROVE Free /\ Apart
    BY <1>1, <1>15, ReconcileSettles DEF ReindexingIsLane
  <1>16. CASE Commit
    <2>1. /\ lane.step = "promoted" /\ up' = up /\ lane.bundle \in Bundles
          /\ Moved("activated") \/ Moved("unpointing")
          /\ row' = row \/ Reconcile(lane.bundle)
      BY <1>16, LaneMoves, LaneIs DEF Commit
    <2>2. CASE row' = row
      BY <1>7, <2>1, <2>2 DEF LaneSteps, Quiet, Turned
    <2>3. Before
      BY <2>1 DEF Moved, ReindexingIsLane, Turned
    <2>4. QED BY <1>2, <1>15, <2>1, <2>2, <2>3
  <1>17. CASE Undo
    <2>1. /\ lane.step = "undoing" /\ up' = up /\ Moved("failed")
          /\ lane.prior.served \in Bundles \cup {None} /\ lane.profile \in Profiles
          /\ lane.prior.profile \in Profiles \cup {None} /\ lane.prior.bundle \in Bundles \cup {None}
          /\ lane.prior.profile # None => lane.prior.status \in Statuses
          /\ row' = row \/ (~lane.frozen /\ Reconcile(lane.prior.served)) \/ (lane.frozen /\ RowsBack)
      BY <1>17, LaneMoves, LaneIs DEF Undo, Turned
    <2>2. up
      BY <2>1 DEF Types, LaneTyped
    <2>3. Before
      BY <2>1 DEF Moved, Turned
    <2>4. CASE row' = row
      BY <1>7, <2>1, <2>4 DEF LaneSteps, Quiet, Turned
    <2>5. ASSUME lane.frozen, RowsBack, row' # row PROVE ReindexingIsLane'
      <3> DEFINE p == lane.profile
                 q == IF lane.prior.profile = None \/ ~row[lane.prior.profile].here THEN None
                      ELSE lane.prior.profile
      <3>1. Back(q)
        BY <2>1, <2>5, RowsBackSteps
      <3>2. q # None => q = lane.prior.profile /\ lane.prior.status # "reindexing"
        BY <2>1 DEF ReindexingIsLane, Turned
      <3>3. /\ \A o \in Profiles : row[o].here => row[o].status # "reindexing"
            /\ \A o \in Profiles : row[o].status = "reindexing" => ~row[o].active
        BY <1>6, <2>1, <2>2 DEF ReindexingIsLane
      <3>4. lane'.step = "failed" /\ lane'.frozen /\ lane'.profile = p /\ lane'.gen = lane.gen
        BY <2>1, <2>5 DEF Moved, SameRun
      <3> HIDE DEF q
      <3>5. /\ p # q => row'[p].active = FALSE /\ row'[p].gen = lane.gen
            /\ q # None => row'[q].status # "reindexing"
            /\ \A o \in Profiles : o # p /\ o # q => row'[o] = row[o]
        BY <2>1, <3>1, <3>2 DEF Back
      <3>6. Apart
        BY <2>1, <3>3, <3>5, NoneAssumption
      <3>7. \A o \in Profiles : row'[o].here /\ row'[o].status = "reindexing" =>
              o = p /\ row'[o].gen = lane.gen
        BY <2>1, <3>3, <3>5, NoneAssumption
      <3>8. QED BY <2>3, <3>4, <3>6, <3>7 DEF ReindexingIsLane
    <2>6. QED BY <1>2, <1>15, <2>1, <2>3, <2>4, <2>5
  <1>18. CASE Fail
    <2> DEFINE p == lane.profile
    <2>1. lane.step = "failed" /\ up' = up /\ lane' = Idle /\ p \in Profiles
      BY <1>18, LaneIs DEF Fail
    <2>2. up
      BY <2>1 DEF Types, LaneTyped
    <2>3. row[p].test \in Tests /\ "failed" \in Tests
      BY <1>1, <2>1 DEF Table, RowRecords, Tests
    <2>4. /\ \A o \in Profiles : row[o].status = "reindexing" => ~row[o].active
          /\ \A o \in Profiles : row[o].here /\ row[o].status = "reindexing" =>
               o = p /\ row[o].gen = lane.gen
      BY <2>2 DEF ReindexingIsLane
    <2>5. Before
      BY <2>1 DEF Idle, Turned
    <2>6. CASE row' = row /\ ~(row[p].here /\ row[p].gen = lane.gen /\ ~row[p].active
                               /\ row[p].status = "reindexing")
      BY <1>2, <2>4, <2>5, <2>6
    <2>7. ASSUME NEW test \in {"failed", row[p].test}, row' = Unfrozen(row, p, test)
          PROVE  ReindexingIsLane'
      <3>1. /\ \A o \in Profiles : o # p => row'[o] = row[o]
            /\ row'[p].status = "reindex_required"
        BY <1>1, <2>1, <2>3, <2>7, UnfrozenRows
      <3>2. Free /\ Apart
        BY <2>4, <3>1
      <3>3. QED BY <1>2, <2>5, <3>2
    <2>8. QED BY <1>18, <2>6, <2>7 DEF Fail
  <1>19. CASE Finish
    <2>1. lane.step = "activated" /\ row' = row /\ lane' = Idle /\ up
      BY <1>19 DEF Finish, disk, Types, LaneTyped
    <2>2. Free /\ Apart /\ Before
      BY <1>6, <2>1 DEF Idle, ReindexingIsLane, Turned
    <2>3. QED BY <1>2, <2>2
  <1>20. CASE Cancel \/ Shutdown
    <2>1. UNCHANGED <<row, up>> /\ (lane' = lane \/ Stopped)
      BY <1>20, Frames, LaneMoves
    <2>2. QED BY <1>3, <1>5, <2>1 DEF Stopped
  <1>21. CASE Crash
    <2>1. row' = row /\ ~up' /\ lane'.step = "lost"
      BY <1>21, LaneMoves DEF Crash, disk, Moved
    <2>2. QED BY <2>1 DEF ReindexingIsLane, Turned
  <1>22. CASE Restart
    <2>1. Reconcile(pointer) /\ lane' = Idle /\ pointer \in Bundles \cup {None}
      BY <1>22 DEF Restart, Types, ServiceTyped
    <2>2. Before
      BY <2>1 DEF Idle, Turned
    <2>3. QED BY <1>2, <1>15, <2>1, <2>2
  <1>23. CASE EditorUpdates
    <2>1. PICK i \in Identities : row' = Updated(row, editor.profile, i)
      BY <1>23 DEF EditorUpdates
    <2>2. editor.profile \in Profiles /\ UNCHANGED <<lane, up>>
      BY <1>23, EditorIs DEF EditorUpdates
    <2>3. /\ \A q \in Profiles : q # editor.profile => row'[q] = row[q]
          /\ row'[editor.profile].status = "reindex_required"
      BY <1>1, <2>1, <2>2, UpdatedRows
    <2>4. QED BY <1>4, <2>2, <2>3
  <1>24. CASE EditorDeletes
    <2>1. editor.profile \in Profiles /\ UNCHANGED <<lane, up>>
          /\ (row' = row \/ row' = Deleted(row, editor.profile))
      BY <1>24, EditorIs DEF EditorDeletes
    <2>2. ASSUME row' = Deleted(row, editor.profile)
          PROVE  \A p \in Profiles :
                   row'[p].status = "reindexing" =>
                     row[p].status = "reindexing" /\ (row'[p].active => row[p].active)
                     /\ row'[p].gen = row[p].gen /\ (row'[p].here => row[p].here)
      <3> DEFINE e == editor.profile
      <3>1. /\ \A q \in Profiles : q # e => row'[q] = row[q]
            /\ row'[e].here = FALSE /\ row'[e].active = row[e].active
            /\ row'[e].status = row[e].status /\ row'[e].gen = row[e].gen
        BY <1>1, <2>1, <2>2, DeletedRows
      <3>2. QED BY <3>1
    <2>3. QED BY <1>4, <1>5, <2>1, <2>2
  <1>25. ASSUME NEW p \in Profiles, NEW force \in BOOLEAN, Queue(p, force)
         PROVE  ReindexingIsLane'
    BY <1>5, <1>25 DEF Queue, disk
  <1>26. ASSUME NEW kind \in {"probe", "update", "delete"}, NEW p \in Profiles, EditorReads(kind, p)
         PROVE  ReindexingIsLane'
    BY <1>5, <1>26 DEF EditorReads, disk
  <1>27. CASE QueueSwitchesProvider \/ QueueRefuses \/ UNCHANGED vars
    BY <1>5, <1>27 DEF QueueSwitchesProvider, QueueRefuses, vars, disk
  <1>28. QED
    BY <1>8, <1>9, <1>10, <1>11, <1>12, <1>13, <1>14, <1>16, <1>17, <1>18, <1>19, <1>20, <1>21,
       <1>22, <1>23, <1>24, <1>25, <1>26, <1>27
    DEF Next, Owner, Worker, Editor

-----------------------------------------------------------------------------
(***************************************************************************)
(* The provider of the served bundle.                                      *)
(***************************************************************************)
LEMMA ProviderNext ==
  ASSUME Types, ProviderFollows, [Next]_vars
  PROVE  ProviderFollows'
  <1>1. /\ \A event : May(event)' <=> May(event)
        /\ \A b \in 1..Len(runs) : runs'[b] = runs[b]
    BY EnvNext, RunsNext DEF May, Types
  <1>2. /\ served # None => served \in 1..Len(runs)
        /\ lane.prior.served # None => lane.prior.served \in 1..Len(runs)
        /\ None \notin 1..Len(runs)
    BY RunsNext, NoneAssumption DEF Types, BundlesTyped
  <1>3. /\ up => lane.step # "lost"
        /\ lane.step \in LaneSteps
        /\ owner # NoCall => lane.step = "idle"
        /\ owner.step # "none" <=> owner # NoCall
    BY OwnerIs DEF Types, LaneTyped, Lanes, OwnerTyped, Idle
  <1>4. ASSUME UNCHANGED <<up, served, provider, lane>>,
               owner' = owner \/ owner'.step # "switched"
        PROVE  ProviderFollows'
    <2>1. \A pr : Matches(served, pr) => Matches(served, pr)'
      BY <1>1, <1>2, <1>4 DEF Matches
    <2>2. \A pr : Matches(lane.prior.served, pr) => Matches(lane.prior.served, pr)'
      BY <1>1, <1>2, <1>4 DEF Matches
    <2>3. owner'.step = "switched" => owner' = owner /\ (served # None => runs'[served] = runs[served])
      BY <1>1, <1>2, <1>4
    <2>4. QED BY <1>1, <1>4, <2>1, <2>2, <2>3 DEF ProviderFollows, Matches
  <1>5. CASE QueueSwitchesProvider
    <2>1. /\ owner.step = "decide" /\ Serves(owner.row.ident)
          /\ provider' = <<owner.profile, owner.row.ident>>
          /\ owner' = [owner EXCEPT !.step = "switched", !.row = provider]
          /\ UNCHANGED <<served, lane, runs, up>>
      BY <1>5 DEF QueueSwitchesProvider, Compatible
    <2>2. served # None /\ runs[served] = owner.row.ident /\ provider' \in Providers
      BY <2>1, OwnerIs DEF Serves, Providers
    <2>3. owner'.profile = owner.profile /\ owner'.row = provider
      <3>1. owner \in Reads
        BY <2>1 DEF Types, OwnerTyped, Calls, Switches, NoCall
      <3>2. QED BY <2>1, <3>1 DEF Reads
    <2>4. lane.step = "idle"
      BY <1>3, <2>1 DEF NoCall
    <2>5. ~May("crash") => Matches(served, provider) /\ up
      BY <2>4 DEF ProviderFollows, Quiet
    <2>6. provider'[2] = runs[served] /\ provider' = <<owner.profile, runs[served]>>
      BY <2>1, <2>2
    <2>7. QED
      BY <1>1, <2>1, <2>2, <2>3, <2>4, <2>5, <2>6
      DEF ProviderFollows, Matches, Quiet, Turned, Switched
  <1>6. CASE QueueActivates
    <2>1. /\ owner.step = "switched" /\ owner'.step = "none"
          /\ provider' = provider \/ provider' = owner.row
          /\ UNCHANGED <<served, lane, runs, up>>
      BY <1>6 DEF QueueActivates, NoCall
    <2>2. lane.step = "idle"
      BY <1>3, <2>1 DEF NoCall
    <2>3. ~May("crash") => Matches(served, provider) /\ Matches(served, owner.row) /\ up
      BY <2>1, <2>2 DEF ProviderFollows, Quiet
    <2>4. QED
      BY <1>1, <2>1, <2>2, <2>3 DEF ProviderFollows, Matches, Quiet, Turned, Switched
  \* No call of the owner is under way from here on.
  <1>7. ASSUME owner'.step # "switched", lane'.step \in Quiet, up' = up, up,
               ~May("crash") => Matches(served', provider'), 
               served' # None => served' \in 1..Len(runs)
        PROVE  ProviderFollows'
    <2>1. lane'.step \notin Turned /\ lane'.step \notin Switched /\ lane'.step # "promoted"
      BY <1>7 DEF Quiet, Turned, Switched
    <2>2. ~May("crash") => Matches(served, provider)'
      BY <1>1, <1>7 DEF Matches
    <2>3. QED BY <1>1, <1>7, <2>1, <2>2 DEF ProviderFollows
  <1>8. ASSUME owner'.step # "switched", lane'.step \in Turned, up' = up, up,
               ~May("crash") =>
                 /\ Matches(lane'.prior.served, lane'.prior.provider)
                 /\ lane'.step \in Switched => provider' = lane'.provider
                 /\ lane'.step # "promoted" => served' = lane'.prior.served
                 /\ lane'.step = "promoted" => served' = lane'.bundle,
               lane'.prior.served # None => lane'.prior.served \in 1..Len(runs)
        PROVE  ProviderFollows'
    <2>1. lane'.step \notin Quiet
      BY <1>8 DEF Quiet, Turned
    <2>2. ~May("crash") => Matches(lane.prior.served, lane.prior.provider)'
      BY <1>1, <1>8 DEF Matches
    <2>3. QED BY <1>1, <1>8, <2>1, <2>2 DEF ProviderFollows
  <1>9. ASSUME NEW step, Moved(step)
        PROVE  lane'.step = step /\ lane'.prior = lane.prior /\ lane'.provider = lane.provider
               /\ lane'.bundle = lane.bundle
    BY <1>9 DEF Moved, SameRun
  <1>10. CASE QueueSubmits
    <2>1. /\ lane.step = "idle" /\ lane'.step = "building" /\ owner'.step = "none"
          /\ UNCHANGED <<served, provider, up>> /\ up
      <3>1. Started
        BY <1>10, LaneMoves
      <3>2. owner # NoCall
        BY <1>10 DEF QueueSubmits, NoCall
      <3>3. QED BY <1>3, <1>10, <3>1, <3>2 DEF QueueSubmits, service, NoCall, Started, Types, OwnerTyped
    <2>2. QED BY <1>2, <1>7, <2>1 DEF ProviderFollows, Quiet
  <1>11. ASSUME Worker PROVE up /\ up' = up /\ owner'.step = "none"
    <2>1. lane.step \notin {"idle", "lost"}
      BY <1>11 DEF Worker, Build, BuildFails, Flip, FlipRefused, SwitchProvider, Admit, Point,
         Promote, Commit, Unpoint, Undo, Fail, Finish
    <2>2. owner = NoCall /\ up
      BY <1>3, <2>1 DEF Types, LaneTyped
    <2>3. QED BY <1>3, <1>11, <2>2, Frames
  <1>12. CASE Build \/ BuildFails \/ FlipRefused
    <2>1. /\ Build => lane.step = "building" /\ Moved("built") /\ UNCHANGED <<served, provider>>
          /\ BuildFails => lane.step = "building" /\ Moved("failed") /\ UNCHANGED <<served, provider>>
          /\ FlipRefused => lane.step = "built" /\ Moved("failed") /\ UNCHANGED <<served, provider>>
      BY LaneMoves DEF Build, BuildFails, FlipRefused, service
    <2>2. /\ lane.step \in Quiet /\ UNCHANGED <<served, provider>>
          /\ lane'.step \in {"built", "failed"}
      BY <1>9, <1>12, <2>1 DEF Quiet
    <2>3. QED BY <1>2, <1>7, <1>11, <1>12, <2>2 DEF ProviderFollows, Quiet, Worker
  <1>13. CASE Flip
    <2>1. Flipped /\ UNCHANGED <<served, provider>>
      BY <1>13, LaneMoves DEF Flip, service
    <2>2. lane.step = "built" /\ lane'.step = "flipped" /\ lane'.prior.served = served
          /\ lane'.prior.provider = provider
      BY <2>1 DEF Flipped
    <2>3. ~May("crash") => Matches(served, provider)
      BY <2>2 DEF ProviderFollows, Quiet
    <2>4. QED BY <1>2, <1>8, <1>11, <1>13, <2>1, <2>2, <2>3 DEF Turned, Switched, Worker
  <1>14. ASSUME lane.step \in Turned, ~May("crash")
         PROVE  /\ Matches(lane.prior.served, lane.prior.provider)
                /\ lane.step \in Switched => provider = lane.provider
                /\ lane.step # "promoted" => served = lane.prior.served
                /\ lane.step = "promoted" => served = lane.bundle
    BY <1>14 DEF ProviderFollows
  <1>15. CASE SwitchProvider
    <2>1. /\ lane.step = "flipped" /\ served' = served
          /\ (provider' = lane.provider /\ To("switched")) \/ To("undoing")
      BY <1>15 DEF SwitchProvider
    <2>2. (provider' = lane.provider /\ Moved("switched")) \/ Moved("undoing")
      BY <2>1, LaneTo DEF Types, LaneTyped, LaneSteps, Turned
    <2>3. /\ lane'.step \in {"switched", "undoing"} /\ lane'.prior = lane.prior
          /\ lane'.step = "switched" => provider' = lane'.provider
      BY <1>9, <2>2
    <2>4. QED
      BY <1>2, <1>8, <1>11, <1>14, <1>15, <2>1, <2>3 DEF Turned, Switched, Worker
  <1>16. CASE Admit
    <2>1. lane.step = "switched" /\ UNCHANGED <<served, provider>>
      BY <1>16 DEF Admit, service
    <2>2. /\ lane'.step \in {"admitted", "undoing"} /\ lane'.prior = lane.prior
          /\ lane'.provider = lane.provider
      BY <1>9, <1>16, LaneMoves DEF Admitted, SameRun
    <2>3. QED
      BY <1>2, <1>8, <1>11, <1>14, <1>16, <2>1, <2>2 DEF Turned, Switched, Worker
  <1>17. CASE Point
    <2>1. lane.step = "admitted" /\ UNCHANGED <<served, provider>>
      BY <1>17 DEF Point, service
    <2>2. /\ lane'.step \in {"pointed", "undoing"} /\ lane'.prior = lane.prior
          /\ lane'.provider = lane.provider
      BY <1>9, <1>17, LaneMoves
    <2>3. QED
      BY <1>2, <1>8, <1>11, <1>14, <1>17, <2>1, <2>2 DEF Turned, Switched, Worker
  <1>18. CASE Promote
    <2>1. /\ lane.step = "pointed" /\ provider' = provider
          /\ (served' = lane.bundle /\ To("promoted")) \/ (served' = served /\ To("unpointing"))
      BY <1>18 DEF Promote
    <2>2. (served' = lane.bundle /\ Moved("promoted")) \/ (served' = served /\ Moved("unpointing"))
      BY <2>1, LaneTo DEF Types, LaneTyped, LaneSteps, Turned
    <2>3. /\ lane'.step \in {"promoted", "unpointing"} /\ lane'.prior = lane.prior
          /\ lane'.provider = lane.provider /\ lane'.bundle = lane.bundle
          /\ lane'.step = "promoted" => served' = lane.bundle
          /\ lane'.step # "promoted" => served' = served
      BY <1>9, <2>2
    <2>4. QED
      BY <1>2, <1>8, <1>11, <1>14, <1>18, <2>1, <2>3 DEF Turned, Switched, Worker
  <1>19. CASE Commit
    <2>1. /\ lane.step = "promoted" /\ provider' = provider
          /\ (served' = served /\ To("activated")) \/ (served' = lane.prior.served /\ To("unpointing"))
      BY <1>19 DEF Commit
    <2>2. (served' = served /\ Moved("activated"))
          \/ (served' = lane.prior.served /\ Moved("unpointing"))
      BY <2>1, LaneTo DEF Types, LaneTyped, LaneSteps, Quiet, Turned
    <2>3. CASE served' = served /\ Moved("activated")
      <3>1. lane'.step = "activated"
        BY <1>9, <2>3
      <3>2. /\ lane.provider \in Providers /\ lane.provider[2] = lane.ident
            /\ runs[lane.bundle] = lane.ident /\ lane.bundle \in 1..Len(runs)
        BY <2>1 DEF Types, LaneTyped, Turned
      <3>3. ~May("crash") => Matches(served', provider')
        BY <1>14, <2>1, <2>3, <3>2 DEF Matches, Turned, Switched
      <3>4. QED BY <1>2, <1>7, <1>11, <1>19, <2>3, <3>1, <3>3 DEF Quiet, Worker
    <2>4. CASE served' = lane.prior.served /\ Moved("unpointing")
      <3>1. lane'.step = "unpointing" /\ lane'.prior = lane.prior
        BY <1>9, <2>4
      <3>2. QED
        BY <1>2, <1>8, <1>11, <1>14, <1>19, <2>1, <2>4, <3>1 DEF Turned, Switched, Worker
    <2>5. QED BY <2>2, <2>3, <2>4
  <1>20. CASE Unpoint
    <2>1. lane.step = "unpointing" /\ UNCHANGED <<served, provider>>
      BY <1>20 DEF Unpoint, service
    <2>2. lane'.step = "undoing" /\ lane'.prior = lane.prior
      BY <1>9, <1>20, LaneMoves
    <2>3. QED
      BY <1>2, <1>8, <1>11, <1>14, <1>20, <2>1, <2>2 DEF Turned, Switched, Worker
  <1>21. CASE Undo
    <2>1. lane.step = "undoing" /\ served' = served /\ provider' = lane.prior.provider
      BY <1>21 DEF Undo
    <2>2. lane'.step = "failed"
      BY <1>9, <1>21, LaneMoves
    <2>3. QED
      BY <1>2, <1>7, <1>11, <1>14, <1>21, <2>1, <2>2 DEF Turned, Quiet, Worker
  <1>22. CASE Fail \/ Finish
    <2>1. lane.step \in Quiet /\ UNCHANGED <<served, provider>>
      BY <1>22 DEF Fail, Finish, service, Quiet
    <2>2. lane'.step = "idle"
      BY <1>22, LaneMoves DEF Idle
    <2>3. QED BY <1>2, <1>7, <1>11, <1>22, <2>1, <2>2 DEF ProviderFollows, Quiet, Worker
  <1>23. CASE Cancel \/ Shutdown
    <2>1. /\ UNCHANGED <<served, provider, owner, runs, up>>
          /\ lane' = lane \/ Stopped
      BY <1>23, Frames, LaneMoves
    <2>2. /\ lane'.step = lane.step /\ lane'.prior = lane.prior
          /\ lane'.provider = lane.provider /\ lane'.bundle = lane.bundle
      BY <2>1 DEF Stopped, SameRun
    <2>3. QED BY <1>1, <2>1, <2>2 DEF ProviderFollows, Matches
  <1>24. CASE Crash \/ Restart
    <2>1. /\ May("crash") /\ owner'.step # "switched"
      <3>1. CASE Crash
        BY <3>1 DEF Crash, NoCall
      <3>2. CASE Restart
        BY <3>2, DownSteps DEF Restart, NoCall, ProviderFollows
      <3>3. QED BY <1>24, <3>1, <3>2
    <2>2. QED BY <1>1, <2>1 DEF ProviderFollows
  <1>25. ASSUME NEW p \in Profiles, NEW force \in BOOLEAN, Queue(p, force)
         PROVE  ProviderFollows'
    <2>1. UNCHANGED <<up, served, provider, lane>> /\ owner'.step # "switched"
      BY <1>25 DEF Queue, service
    <2>2. QED BY <1>4, <2>1
  <1>26. CASE QueueProbes
    <2>1. UNCHANGED <<up, served, provider, lane>> /\ owner.step = "probe"
          /\ (owner' = NoCall \/ owner' = [owner EXCEPT !.step = "decide", !.row = row'[owner.profile]])
      BY <1>26 DEF QueueProbes, service
    <2>2. owner \in Reads
      BY <2>1 DEF Types, OwnerTyped, Calls, Switches, NoCall
    <2>3. owner'.step # "switched"
      <3>1. CASE owner' = NoCall
        BY <3>1 DEF NoCall
      <3>2. CASE owner' = [owner EXCEPT !.step = "decide", !.row = row'[owner.profile]]
        BY <2>2, <3>2 DEF Reads
      <3>3. QED BY <2>1, <3>1, <3>2
    <2>4. QED BY <1>4, <2>1, <2>3
  <1>27. CASE QueueRefuses \/ Editor \/ UNCHANGED vars
    <2>1. UNCHANGED <<up, served, provider, lane>> /\ (owner' = owner \/ owner' = NoCall)
      BY <1>27, Frames DEF QueueRefuses, service, vars
    <2>2. QED BY <1>4, <2>1 DEF NoCall
  <1>28. QED
    BY <1>5, <1>6, <1>10, <1>12, <1>13, <1>15, <1>16, <1>17, <1>18, <1>19, <1>20, <1>21, <1>22,
       <1>23, <1>24, <1>25, <1>26, <1>27
    DEF Next, Owner, Worker

-----------------------------------------------------------------------------
(***************************************************************************)
(* The pointer, the served bundle and the provider along a run.            *)
(***************************************************************************)
LEMMA PlacesNext ==
  ASSUME Types, Places, [Next]_vars
  PROVE  Places'
  <1>1. /\ up <=> lane.step # "lost"
        /\ owner # NoCall => lane.step = "idle"
    BY DEF Types, LaneTyped, OwnerTyped, Idle
  <1>2. ASSUME UNCHANGED <<lane, up, pointer, served>>, lane.step = "idle" \/ provider' = provider
        PROVE  Places'
    BY <1>2 DEF Places, Switched
  <1>3. ASSUME NEW step, Moved(step)
        PROVE  lane'.step = step /\ lane'.prior = lane.prior /\ lane'.provider = lane.provider
               /\ lane'.bundle = lane.bundle
    BY <1>3 DEF Moved, SameRun
  <1>4. ASSUME NEW step \in {"built", "failed", "activated", "idle"}, lane'.step = step,
               pointer' = served'
        PROVE  Places'
    BY <1>4 DEF Places, Switched
  <1>5. CASE Build \/ BuildFails \/ FlipRefused \/ Fail \/ Finish
    <2>1. /\ lane.step \in Quiet /\ lane.step # "lost" /\ UNCHANGED <<pointer, served>>
      BY <1>5 DEF Build, BuildFails, FlipRefused, Fail, Finish, disk, service, Quiet
    <2>2. lane'.step \in {"built", "failed", "idle"}
      BY <1>3, <1>5, LaneMoves DEF Idle
    <2>3. QED BY <1>1, <1>4, <2>1, <2>2 DEF Places
  <1>6. CASE QueueSubmits
    <2>1. Started /\ UNCHANGED <<pointer, served>> /\ owner # NoCall /\ up' = up
      BY <1>6, LaneMoves DEF QueueSubmits, service, NoCall
    <2>2. lane'.step = "building" /\ pointer = served
      BY <1>1, <2>1 DEF Started, Places, Quiet
    <2>3. QED BY <2>1, <2>2 DEF Places, Switched
  <1>7. CASE Flip
    <2>1. Flipped /\ UNCHANGED <<pointer, served, provider>>
      BY <1>7, LaneMoves DEF Flip, service
    <2>2. /\ lane'.step = "flipped" /\ lane'.prior.served = served /\ lane'.prior.provider = provider
          /\ lane.step = "built"
      BY <2>1 DEF Flipped
    <2>3. pointer = served
      BY <1>1, <2>2 DEF Places, Quiet
    <2>4. QED BY <2>1, <2>2, <2>3 DEF Places, Switched, Quiet
  <1>8. CASE SwitchProvider
    <2>1. /\ lane.step = "flipped" /\ UNCHANGED <<pointer, served>>
          /\ (provider' = lane.provider /\ To("switched")) \/ To("undoing")
      BY <1>8 DEF SwitchProvider, disk
    <2>2. (provider' = lane.provider /\ Moved("switched")) \/ Moved("undoing")
      BY <2>1, LaneTo DEF Types, LaneTyped, LaneSteps, Turned
    <2>3. /\ lane'.step \in {"switched", "undoing"} /\ lane'.prior = lane.prior
          /\ lane'.step = "switched" => provider' = lane'.provider
      BY <1>3, <2>2
    <2>4. QED BY <2>1, <2>3 DEF Places, Switched, Quiet
  <1>9. CASE Admit
    <2>1. lane.step = "switched" /\ UNCHANGED <<pointer, served, provider>>
      BY <1>9 DEF Admit, disk, service
    <2>2. /\ lane'.step \in {"admitted", "undoing"} /\ lane'.prior = lane.prior
          /\ lane'.provider = lane.provider
      BY <1>3, <1>9, LaneMoves DEF Admitted, SameRun
    <2>3. QED BY <2>1, <2>2 DEF Places, Switched, Quiet
  <1>10. CASE Point
    <2>1. /\ lane.step = "admitted" /\ UNCHANGED <<served, provider>>
          /\ (pointer' = lane.bundle /\ To("pointed")) \/ (pointer' = pointer /\ To("undoing"))
      BY <1>10 DEF Point, service
    <2>2. (pointer' = lane.bundle /\ Moved("pointed")) \/ (pointer' = pointer /\ Moved("undoing"))
      BY <2>1, LaneTo DEF Types, LaneTyped, LaneSteps, Turned
    <2>3. /\ lane'.step \in {"pointed", "undoing"} /\ lane'.prior = lane.prior
          /\ lane'.provider = lane.provider /\ lane'.bundle = lane.bundle
          /\ lane'.step = "pointed" => pointer' = lane.bundle
          /\ lane'.step = "undoing" => pointer' = pointer
      BY <1>3, <2>2
    <2>4. QED BY <2>1, <2>3 DEF Places, Switched, Quiet
  <1>11. CASE Promote
    <2>1. /\ lane.step = "pointed" /\ UNCHANGED <<pointer, provider>>
          /\ (served' = lane.bundle /\ To("promoted")) \/ (served' = served /\ To("unpointing"))
      BY <1>11 DEF Promote, disk
    <2>2. (served' = lane.bundle /\ Moved("promoted")) \/ (served' = served /\ Moved("unpointing"))
      BY <2>1, LaneTo DEF Types, LaneTyped, LaneSteps, Turned
    <2>3. /\ lane'.step \in {"promoted", "unpointing"} /\ lane'.prior = lane.prior
          /\ lane'.provider = lane.provider /\ lane'.bundle = lane.bundle
          /\ lane'.step = "promoted" => served' = lane.bundle
          /\ lane'.step # "promoted" => served' = served
      BY <1>3, <2>2
    <2>4. QED BY <2>1, <2>3 DEF Places, Switched, Quiet
  <1>12. CASE Commit
    <2>1. /\ lane.step = "promoted" /\ UNCHANGED <<pointer, provider>>
          /\ (served' = served /\ To("activated")) \/ (served' = lane.prior.served /\ To("unpointing"))
      BY <1>12 DEF Commit
    <2>2. (served' = served /\ Moved("activated"))
          \/ (served' = lane.prior.served /\ Moved("unpointing"))
      BY <2>1, LaneTo DEF Types, LaneTyped, LaneSteps, Quiet, Turned
    <2>3. /\ lane'.step \in {"activated", "unpointing"} /\ lane'.prior = lane.prior
          /\ lane'.bundle = lane.bundle
          /\ lane'.step = "activated" => served' = served
          /\ lane'.step = "unpointing" => served' = lane.prior.served
      BY <1>3, <2>2
    <2>4. QED BY <2>1, <2>3 DEF Places, Switched, Quiet
  <1>13. CASE Unpoint
    <2>1. lane.step = "unpointing" /\ pointer' = lane.prior.served /\ served' = served
      BY <1>13 DEF Unpoint, service
    <2>2. lane'.step = "undoing" /\ lane'.prior = lane.prior
      BY <1>3, <1>13, LaneMoves
    <2>3. QED BY <2>1, <2>2 DEF Places, Switched, Quiet
  <1>14. CASE Undo
    <2>1. lane.step = "undoing" /\ UNCHANGED <<pointer, served>>
      BY <1>14 DEF Undo
    <2>2. lane'.step = "failed"
      BY <1>3, <1>14, LaneMoves
    <2>3. QED BY <1>4, <2>1, <2>2 DEF Places
  <1>15. CASE Cancel \/ Shutdown
    <2>1. /\ UNCHANGED <<pointer, served, provider, up>> /\ (lane' = lane \/ Stopped)
      BY <1>15, Frames, LaneMoves
    <2>2. /\ lane'.step = lane.step /\ lane'.prior = lane.prior
          /\ lane'.provider = lane.provider /\ lane'.bundle = lane.bundle
      BY <2>1 DEF Stopped, SameRun
    <2>3. QED BY <2>1, <2>2 DEF Places
  <1>16. CASE Crash
    <2>1. lane'.step = "lost"
      BY <1>3, <1>16, LaneMoves
    <2>2. QED BY <2>1 DEF Places, Quiet, Switched
  <1>17. CASE Restart
    <2>1. lane'.step = "idle" /\ pointer' = served'
      BY <1>17 DEF Restart, Idle
    <2>2. QED BY <1>4, <2>1
  <1>18. ASSUME ~LaneActs PROVE Places'
    <2>1. UNCHANGED <<lane, up, pointer, served>>
      BY <1>18, LaneStays
    <2>2. owner # NoCall \/ provider' = provider
      BY <1>18, Frames
      DEF LaneActs, Next, Owner, Worker, Queue, QueueProbes, QueueSwitchesProvider,
          QueueActivates, QueueRefuses, service, vars, NoCall
    <2>3. QED BY <1>1, <1>2, <2>1, <2>2
  <1>19. QED
    BY <1>5, <1>6, <1>7, <1>8, <1>9, <1>10, <1>11, <1>12, <1>13, <1>14, <1>15, <1>16, <1>17, <1>18
    DEF LaneActs

-----------------------------------------------------------------------------
(***************************************************************************)
(* The rows along the steps, as long as no owner edits them.               *)
(***************************************************************************)
\* A row keeps its profile and its identity, and a tested profile stays one.
RowsKeep ==
  \A p \in Profiles :
    /\ row'[p].here = row[p].here /\ row'[p].ident = row[p].ident
    /\ row[p].test # "never" => row'[p].test # "never"

LEMMA NoEdits ==
  ASSUME Types, ~May("edit")
  PROVE  ~EditorUpdates /\ ~EditorDeletes
  <1>1. editor # NoCall /\ editor.step # "probe" => May("edit")
    BY DEF Types, EditorTyped
  <1>2. NoCall.step = "none"
    BY DEF NoCall
  <1>3. EditorUpdates \/ EditorDeletes => editor.step \in {"update", "delete"}
    BY DEF EditorUpdates, EditorDeletes
  <1>4. QED BY <1>1, <1>2, <1>3

LEMMA RowsKeepNext ==
  ASSUME Types, [Next]_vars, ~May("edit")
  PROVE  RowsKeep
  <1>1. row \in Table
    BY DEF Types, RowsTyped
  <1>2. ASSUME row' = row PROVE RowsKeep
    BY <1>2 DEF RowsKeep
  <1>3. CASE QueueProbes \/ EditorProbes
    BY <1>3, ProbeSteps DEF RowsKeep, ProbeOnly
  <1>4. CASE QueueActivates
    <2>1. owner.profile \in Profiles /\ (row' = row \/ row' = Activated(row, owner.profile))
      BY <1>4, OwnerIs DEF QueueActivates
    <2>2. ASSUME row' = Activated(row, owner.profile) PROVE RowsKeep
      BY <1>1, <2>1, <2>2, ActivatedRows DEF RowsKeep
    <2>3. QED BY <1>2, <2>1, <2>2
  <1>5. CASE QueueSubmits
    <2>1. /\ owner.profile \in Profiles /\ Len(runs) + 1 \in 0..MaxRuns
          /\ row' = row \/ row' = Frozen(row, owner.profile, Len(runs) + 1)
      BY <1>5, OwnerIs DEF QueueSubmits, Bundles
    <2>2. ASSUME row' = Frozen(row, owner.profile, Len(runs) + 1) PROVE RowsKeep
      BY <1>1, <2>1, <2>2, FrozenRows DEF RowsKeep
    <2>3. QED BY <1>2, <2>1, <2>2
  <1>6. CASE Flip
    <2>1. /\ lane.profile \in Profiles /\ lane.bundle \in Bundles
          /\ row' = row \/ row' = ActivatedWith(row, lane.profile, lane.bundle)
      BY <1>6, LaneIs DEF Flip
    <2>2. \A t : t # "never" => Cleared(t) # "never"
      BY DEF Cleared
    <2>3. ASSUME row' = ActivatedWith(row, lane.profile, lane.bundle) PROVE RowsKeep
      BY <1>1, <2>1, <2>2, <2>3, ActivatedWithRows DEF RowsKeep
    <2>4. QED BY <1>2, <2>1, <2>3
  <1>7. ASSUME NEW b \in Bundles \cup {None}, Reconcile(b) PROVE RowsKeep
    BY <1>1, <1>7, ReconciledRows DEF RowsKeep
  <1>8. CASE Commit
    <2>1. lane.bundle \in Bundles
      BY <1>8, LaneIs DEF Commit
    <2>2. QED BY <1>2, <1>7, <1>8, <2>1 DEF Commit
  <1>9. CASE Undo
    <2>1. lane.prior.served \in Bundles \cup {None} /\ lane.step = "undoing"
      BY <1>9, LaneIs DEF Undo
    <2>2. ASSUME RowsBack PROVE RowsKeep
      BY <1>2, <2>1, <2>2, RowsBackSteps DEF Back, RowsKeep
    <2>3. QED BY <1>2, <1>7, <1>9, <2>1, <2>2 DEF Undo
  <1>10. CASE Fail
    <2>1. lane.profile \in Profiles
      BY <1>10, LaneIs DEF Fail
    <2>2. row[lane.profile].test \in Tests /\ "failed" \in Tests
      BY <1>1, <2>1 DEF Table, RowRecords, Tests
    <2>3. ASSUME NEW test \in {"failed", row[lane.profile].test}, row' = Unfrozen(row, lane.profile, test)
          PROVE  RowsKeep
      <3>1. /\ \A q \in Profiles : q # lane.profile => row'[q] = row[q]
            /\ row'[lane.profile].test = test
            /\ row'[lane.profile].here = row[lane.profile].here
            /\ row'[lane.profile].ident = row[lane.profile].ident
        BY <1>1, <2>1, <2>2, <2>3, UnfrozenRows
      <3>2. QED BY <3>1 DEF RowsKeep
    <2>4. QED BY <1>2, <1>10, <2>3 DEF Fail
  <1>11. CASE Restart
    BY <1>7, <1>11 DEF Restart, Types, ServiceTyped
  <1>12. ~EditorUpdates /\ ~EditorDeletes
    BY NoEdits
  <1>13. QED
    BY <1>2, <1>3, <1>4, <1>5, <1>6, <1>8, <1>9, <1>10, <1>11, <1>12
    DEF Next, Owner, Worker, Editor, vars, disk, Queue, QueueSwitchesProvider, QueueRefuses, Build,
        BuildFails, FlipRefused, SwitchProvider, Admit, Point, Promote, Unpoint, Finish,
        EditorReads, Cancel, Shutdown, Crash

-----------------------------------------------------------------------------
(***************************************************************************)
(* The profiles that a run or a restart may take.                          *)
(***************************************************************************)
LEMMA EventsNext ==
  ASSUME Types, [Next]_vars
  PROVE  /\ \A event : May(event)' <=> May(event)
         /\ Undisturbed' <=> Undisturbed
         /\ Recorded' <=> Recorded
  <1>1. env'.events = env.events /\ env'.profiles = env.profiles
    BY EnvNext DEF Types
  <1>2. \A event : May(event)' <=> May(event)
    BY <1>1 DEF May
  <1>3. Twins' <=> Twins
    BY <1>1 DEF Twins
  <1>4. Undisturbed' <=> Undisturbed
    BY <1>2, <1>3 DEF Undisturbed
  <1>5. QED BY <1>2, <1>4 DEF Recorded

\* A step that does not write the rows, or only by a probe.
Writes ==
  QueueActivates \/ QueueSubmits \/ Flip \/ Commit \/ Undo \/ Fail \/ Restart
  \/ EditorUpdates \/ EditorDeletes

\* The other steps leave the rows to the probes.
LEMMA RowsStay ==
  ASSUME [Next]_vars, ~Writes
  PROVE  /\ intent' = intent
         /\ row' = row \/ QueueProbes \/ EditorProbes
  BY DEF Writes, Next, Owner, Worker, Editor, vars, disk, Queue, QueueProbes, QueueSwitchesProvider,
     QueueRefuses, Build, BuildFails, FlipRefused, SwitchProvider, Admit, Point, Promote,
     Unpoint, Finish, EditorReads, EditorProbes, Cancel, Shutdown, Crash

\* A step that writes one row may leave it as active and as comparable as it was.
OneRow(p) ==
  /\ p \in Profiles
  /\ \A q \in Profiles : q # p => row'[q] = row[q]
  /\ row'[p].here = row[p].here /\ row'[p].active = row[p].active
  /\ row'[p].ident = row[p].ident /\ row'[p].bundle = row[p].bundle

\* queue freezes, and fail_reindex releases, a row that is not active.
LEMMA SubmitWrites ==
  ASSUME Types, QueueSubmits
  PROVE  row' = row \/ (OneRow(owner.profile) /\ ~row[owner.profile].active
                         /\ row'[owner.profile].test = row[owner.profile].test)
  <1>1. /\ row \in Table /\ owner.profile \in Profiles /\ Len(runs) + 1 \in 0..MaxRuns
        /\ row' = row \/ (row' = Frozen(row, owner.profile, Len(runs) + 1) /\ ~row[owner.profile].active)
    BY OwnerIs DEF QueueSubmits, MayFreeze, Bundles, Types, RowsTyped
  <1>2. ASSUME row' = Frozen(row, owner.profile, Len(runs) + 1)
        PROVE  OneRow(owner.profile) /\ row'[owner.profile].test = row[owner.profile].test
    BY <1>1, <1>2, FrozenRows DEF OneRow
  <1>3. QED BY <1>1, <1>2

LEMMA FailWrites ==
  ASSUME Types, Fail
  PROVE  row' = row \/ (OneRow(lane.profile) /\ ~row[lane.profile].active)
  <1>1. lane.profile \in Profiles /\ row \in Table
    BY LaneIs DEF Fail, Types, RowsTyped
  <1>2. row[lane.profile].test \in Tests /\ "failed" \in Tests
    BY <1>1 DEF Table, RowRecords, Tests
  <1>3. ASSUME NEW test \in {"failed", row[lane.profile].test}, row' = Unfrozen(row, lane.profile, test)
        PROVE  OneRow(lane.profile)
    BY <1>1, <1>2, <1>3, UnfrozenRows DEF OneRow
  <1>4. QED BY <1>3 DEF Fail

\* The profiles that a step may make active.
LEMMA NewlyActive ==
  ASSUME Types, [Next]_vars, ~May("edit"), NEW p \in Active(row'), p \notin Active(row)
  PROVE  \/ owner.step = "switched" /\ p = owner.profile
         \/ lane.step = "built" /\ lane.frozen /\ p = lane.profile
         \/ lane.step = "undoing" /\ lane.frozen /\ p = lane.prior.profile
         \/ intent # None /\ p \in {intent.from, intent.to}
         \/ row'[p].test # "never"
  <1> DEFINE Goal ==
         \/ owner.step = "switched" /\ p = owner.profile
         \/ lane.step = "built" /\ lane.frozen /\ p = lane.profile
         \/ lane.step = "undoing" /\ lane.frozen /\ p = lane.prior.profile
         \/ intent # None /\ p \in {intent.from, intent.to}
         \/ row'[p].test # "never"
  <1>1. row \in Table /\ p \in Profiles /\ row'[p].here /\ row'[p].active /\ RowsKeep
    BY RowsKeepNext DEF Types, RowsTyped, Active
  <1>2. row[p].here /\ ~row[p].active
    BY <1>1 DEF RowsKeep, Active
  <1>3. ~Writes => Goal
    BY <1>1, <1>2, RowsStay, ProbeSteps DEF ProbeOnly
  <1>4. CASE QueueActivates
    <2>1. /\ owner.profile \in Profiles /\ owner.step = "switched"
          /\ row' = row \/ row' = Activated(row, owner.profile)
      BY <1>4, OwnerIs DEF QueueActivates
    <2>2. ASSUME row' = Activated(row, owner.profile) PROVE p = owner.profile
      BY <1>1, <1>2, <2>1, <2>2, ActivatedRows
    <2>3. QED BY <1>1, <1>2, <2>1, <2>2
  <1>5. CASE QueueSubmits
    BY <1>1, <1>2, <1>5, SubmitWrites DEF OneRow
  <1>6. CASE Flip
    <2>1. /\ lane.profile \in Profiles /\ lane.bundle \in Bundles /\ lane.step = "built"
          /\ row' = row \/ (lane.frozen /\ row' = ActivatedWith(row, lane.profile, lane.bundle))
      BY <1>6, LaneIs DEF Flip
    <2>2. ASSUME row' = ActivatedWith(row, lane.profile, lane.bundle) PROVE p = lane.profile
      BY <1>1, <1>2, <2>1, <2>2, ActivatedWithRows
    <2>3. QED BY <1>1, <1>2, <2>1, <2>2
  <1>7. ASSUME NEW b \in Bundles \cup {None}, Reconcile(b) PROVE Goal
    <2> DEFINE rows == Recovered(row)
    <2>1. /\ rows \in Table /\ rows[p].here /\ ~rows[p].active /\ p \notin Active(rows)
          /\ row[p].test # "never" => rows[p].test # "never"
      BY <1>1, <1>2, RecoveredRows DEF Active
    <2>2. b # None
      <3>1. SUFFICES ASSUME b = None PROVE row'[p] = rows[p]
        BY <1>1, <2>1
      <3>2. QED BY <1>1, <1>7, <2>1, <3>1 DEF Reconcile
    <2>3. Selectable(rows, b) # {}
      BY <1>1, <1>7, <2>1, <2>2 DEF Reconcile
    <2>4. PICK q \in Selectable(rows, b) : row' = ActivatedWith(rows, q, b)
      BY <1>7, <2>2, <2>3 DEF Reconcile
    <2>5. q \in Profiles /\ b \in Bundles
      BY <2>2, <2>4, SelectableRows
    <2>6. p = q /\ row'[p].test = Cleared(rows[p].test)
      <3> HIDE DEF rows
      <3>1. QED BY <1>1, <2>1, <2>4, <2>5, ActivatedWithRows
    <2>7. p = Intended(b) \/ rows[p].test # "never"
      BY <2>1, <2>4, <2>6, SelectableRows
    <2>8. rows[p].test # "never" => row'[p].test # "never"
      BY <2>6 DEF Cleared
    <2>9. p = Intended(b) => intent # None /\ p \in {intent.from, intent.to}
      BY <1>1, NoneAssumption DEF Intended
    <2>10. QED BY <2>7, <2>8, <2>9
  <1>8. CASE Commit
    <2>1. lane.bundle \in Bundles
      BY <1>8, LaneIs DEF Commit
    <2>2. QED BY <1>1, <1>2, <1>7, <1>8, <2>1 DEF Commit
  <1>9. CASE Undo
    <2>1. /\ lane.prior.served \in Bundles \cup {None} /\ lane.step = "undoing"
          /\ row' = row \/ (lane.frozen /\ RowsBack) \/ Reconcile(lane.prior.served)
      BY <1>9, LaneIs DEF Undo
    <2>2. ASSUME RowsBack PROVE row' = row \/ p = lane.prior.profile
      <3>1. ASSUME NEW q, Back(q) PROVE p = q
        <4>1. /\ lane.profile \in Profiles /\ row[lane.profile].active
              /\ p # lane.profile /\ p # q => row'[p] = row[p]
          BY <1>1, <2>1, <3>1, LaneIs DEF Back
        <4>2. QED BY <1>1, <1>2, <4>1
      <3>2. row' = row \/ Back(IF lane.prior.profile = None \/ ~row[lane.prior.profile].here
                               THEN None ELSE lane.prior.profile)
        BY <2>1, <2>2, RowsBackSteps
      <3>3. p # None
        BY <1>1, NoneAssumption
      <3>4. QED BY <3>1, <3>2, <3>3
    <2>3. QED BY <1>1, <1>2, <1>7, <2>1, <2>2
  <1>10. CASE Fail
    BY <1>1, <1>2, <1>10, FailWrites DEF OneRow
  <1>11. CASE Restart
    BY <1>7, <1>11 DEF Restart, Types, ServiceTyped
  <1>12. ~EditorUpdates /\ ~EditorDeletes
    BY NoEdits
  <1>13. QED
    BY <1>3, <1>4, <1>5, <1>6, <1>8, <1>9, <1>10, <1>11, <1>12 DEF Writes

\* A step makes active only what has been tested.
LEMMA UntouchableNext ==
  ASSUME Types, SeenAgrees, Untouchable, ~May("edit"), [Next]_vars,
         lane.step \in Turned /\ lane.frozen => Turning
  PROVE  Untouchable'
  <1>1. RowsKeep /\ env'.profiles = env.profiles
    BY RowsKeepNext, EnvNext DEF Types
  <1>2. \A p \in Profiles : Tested(p) => row'[p].test # "never"
    BY <1>1 DEF RowsKeep, Tested
  <1>3. \A p \in Profiles : row'[p].ident = IdentityOf[p] /\ (row'[p].here <=> p \in env'.profiles)
    BY <1>1 DEF RowsKeep, Untouchable
  <1>4. lane.step # "idle" => owner.step = "none"
    BY DEF Types, OwnerTyped, Idle, NoCall
  <1>5. intent # None => intent.to \in Profiles /\ intent.from \in Profiles \cup {None}
    BY DEF Types, RowsTyped, Intents
  <1>6. ASSUME NEW p \in Active(row') PROVE row'[p].test # "never"
    <2>1. p \in Profiles
      BY DEF Active
    <2>2. Tested(p) \/ row'[p].test # "never"
      <3>1. CASE p \in Active(row)
        BY <3>1 DEF Untouchable
      <3>2. CASE owner.step = "switched" /\ p = owner.profile
        BY <3>2 DEF Untouchable
      <3>3. CASE lane.step = "built" /\ lane.frozen /\ p = lane.profile
        BY <3>3 DEF Untouchable
      <3>4. CASE intent # None /\ p \in {intent.from, intent.to}
        BY <2>1, <3>4, NoneAssumption DEF Untouchable
      <3>5. CASE lane.step = "undoing" /\ lane.frozen /\ p = lane.prior.profile
        <4>1. Turning
          BY <3>5 DEF Turned
        <4>2. p # None
          BY <2>1, NoneAssumption
        <4>3. QED BY <3>5, <4>1, <4>2 DEF Turning, Holds
      <3>6. QED BY <1>6, <3>1, <3>2, <3>3, <3>4, <3>5, NewlyActive
    <2>3. QED BY <1>2, <2>1, <2>2
  <1>7. ASSUME intent' # None
        PROVE  row'[intent'.to].test # "never" /\ (intent'.from # None => row'[intent'.from].test # "never")
    <2>1. CASE intent' = intent
      BY <1>2, <1>5, <1>7, <2>1 DEF Untouchable
    <2>2. ASSUME intent' # intent PROVE Flip /\ lane.frozen
      <3>1. ~Writes => intent' = intent
        BY RowsStay
      <3>2. QueueActivates \/ QueueSubmits \/ Fail => intent' = intent
        BY DEF QueueActivates, QueueSubmits, Fail
      <3>3. \A b : Reconcile(b) => intent' \in {intent, None}
        BY DEF Reconcile
      <3>4. Commit \/ Undo \/ Restart => intent' \in {intent, None}
        BY <3>3 DEF Commit, Undo, Restart, RowsBack
      <3>5. ~EditorUpdates /\ ~EditorDeletes
        BY NoEdits
      <3>6. QED BY <1>7, <2>2, <3>1, <3>2, <3>4, <3>5 DEF Writes, Flip
    <2>3. CASE Flip /\ lane.frozen
      <3>1. /\ intent'.from = TheActive(row) /\ intent'.to = lane.profile
            /\ lane.step = "built" /\ lane.profile \in Profiles
        BY <2>3, LaneIs DEF Flip
      <3>2. TheActive(row) # None => TheActive(row) \in Active(row)
        BY DEF TheActive
      <3>3. Active(row) \subseteq Profiles
        BY DEF Active
      <3>4. QED BY <1>2, <2>3, <3>1, <3>2, <3>3 DEF Untouchable
    <2>4. QED BY <2>1, <2>2, <2>3
  <1>8. ASSUME UNCHANGED owner, ~Owner
        PROVE  /\ owner'.step \in {"decide", "switched"} => row'[owner'.profile].test # "never"
               /\ owner'.step = "probe" =>
                    <<"owner", owner'.profile>> \in seen' \/ row'[owner'.profile].test # "never"
               /\ Reading' => owner'.row.ident = IdentityOf[owner'.profile]
    <2> DEFINE p == owner.profile
    <2>1. owner.step # "none" => p \in Profiles /\ up /\ lane.step = "idle"
      BY OwnerIs DEF Types, OwnerTyped, Idle
    <2>2. owner.step \in {"decide", "switched"} => row'[p].test # "never"
      BY <1>2, <2>1 DEF Untouchable
    <2>3. ASSUME owner.step = "probe", ~Tested(p) PROVE <<"owner", p>> \in seen' \/ row'[p].test # "never"
      <3>1. <<"owner", p>> \in seen /\ p \in Profiles /\ up /\ lane.step = "idle"
        BY <2>1, <2>3 DEF Untouchable
      <3>2. ASSUME EditorProbes PROVE <<"owner", p>> \in seen' \/ row'[p].test # "never"
        <4>1. row'[p] = row[p] \/ row'[p].test # "never"
          BY <3>1, <3>2, ProbeSteps DEF ProbeOnly
        <4>2. CASE row'[p] = row[p]
          BY <3>1, <3>2, <4>2 DEF EditorProbes, Untouched, Changed
        <4>3. QED BY <4>1, <4>2
      <3>3. ASSUME NEW kind \in {"probe", "update", "delete"}, NEW q \in Profiles, EditorReads(kind, q)
            PROVE  <<"owner", p>> \in seen'
        BY <3>1, <3>3 DEF EditorReads
      <3>4. ~Worker /\ ~Restart
        BY <3>1 DEF Worker, Build, BuildFails, Flip, FlipRefused, SwitchProvider, Admit, Point,
           Promote, Commit, Unpoint, Undo, Fail, Finish, Restart
      <3>5. ~EditorUpdates /\ ~EditorDeletes
        BY NoEdits
      <3>6. ~Crash
        BY <1>8, <2>3 DEF Crash, NoCall
      <3>7. CASE Cancel \/ Shutdown \/ UNCHANGED vars
        BY <3>1, <3>7 DEF Cancel, Shutdown, vars
      <3>8. QED BY <1>8, <3>2, <3>3, <3>4, <3>5, <3>6, <3>7 DEF Next, Editor
    <2>4. Reading => owner.row.ident = IdentityOf[p]
      BY DEF Untouchable
    <2>5. owner.step = "probe" => <<"owner", p>> \in seen' \/ row'[p].test # "never"
      BY <1>2, <2>1, <2>3
    <2>6. QED BY <1>8, <2>2, <2>4, <2>5 DEF Reading
  <1>9. ASSUME Owner
        PROVE  /\ owner'.step \in {"decide", "switched"} => row'[owner'.profile].test # "never"
               /\ owner'.step = "probe" =>
                    <<"owner", owner'.profile>> \in seen' \/ row'[owner'.profile].test # "never"
               /\ Reading' => owner'.row.ident = IdentityOf[owner'.profile]
    <2> DEFINE p == owner.profile
    <2>1. ASSUME NEW q \in Profiles, NEW force \in BOOLEAN, Queue(q, force)
          PROVE  /\ owner'.profile = q /\ owner'.row.ident = IdentityOf[q]
                 /\ <<"owner", q>> \in seen'
                 /\ owner'.step = "decide" => row'[q].test # "never"
                 /\ owner'.step \in {"probe", "decide"}
      BY <2>1 DEF Queue, Untouchable, disk
    <2>2. ASSUME QueueProbes
          PROVE  \/ owner'.step = "none"
                 \/ /\ owner'.step = "decide" /\ owner'.profile = p
                    /\ owner'.row.ident = IdentityOf[p] /\ row'[p].test # "never"
      <3>1. owner.step = "probe" /\ p \in Profiles /\ owner \in Reads
        BY <2>2, OwnerIs DEF QueueProbes, Types, OwnerTyped, Calls, Switches, NoCall
      <3>2. CASE row[p].here
        <4>1. owner' = [owner EXCEPT !.step = "decide", !.row = row'[p]]
          BY <2>2, <3>2 DEF QueueProbes
        <4>2. owner'.step = "decide" /\ owner'.profile = p /\ owner'.row = row'[p]
          BY <3>1, <4>1 DEF Reads
        <4>3. Tested(p) \/ <<"owner", p>> \in seen
          BY <3>1 DEF Untouchable
        <4>4. row'[p].test # "never"
          BY <1>2, <2>2, <3>1, <3>2, <4>3, ProbeSteps DEF ProbeOnly
        <4>5. QED BY <1>3, <3>1, <4>2, <4>4
      <3>3. CASE ~row[p].here
        BY <2>2, <3>3 DEF QueueProbes, NoCall
      <3>4. QED BY <3>2, <3>3
    <2>3. ASSUME QueueSwitchesProvider
          PROVE  owner'.step = "switched" /\ owner'.profile = p /\ row'[p].test # "never"
      <3>1. owner.step = "decide" /\ owner \in Reads /\ p \in Profiles
        BY <2>3, OwnerIs DEF QueueSwitchesProvider, Types, OwnerTyped, Calls, Switches, NoCall
      <3>2. owner'.step = "switched" /\ owner'.profile = p
        BY <2>3, <3>1 DEF QueueSwitchesProvider, Reads
      <3>3. QED BY <1>2, <3>1, <3>2 DEF Untouchable
    <2>4. QueueActivates \/ QueueSubmits \/ QueueRefuses => owner'.step = "none"
      <3>1. QueueActivates \/ QueueSubmits \/ QueueRefuses => owner' = NoCall
        BY DEF QueueActivates, QueueSubmits, QueueRefuses
      <3>2. QED BY <3>1 DEF NoCall
    <2>5. QED BY <1>9, <2>1, <2>2, <2>3, <2>4 DEF Owner, Reading
  <1>10. owner'.step = "none" \/ Owner \/ (UNCHANGED owner /\ ~Owner)
    BY Frames DEF Next, Crash, Restart, NoCall, vars
  <1>11. /\ owner'.step \in {"decide", "switched"} => row'[owner'.profile].test # "never"
         /\ owner'.step = "probe" =>
              <<"owner", owner'.profile>> \in seen' \/ row'[owner'.profile].test # "never"
         /\ Reading' => owner'.row.ident = IdentityOf[owner'.profile]
    BY <1>8, <1>9, <1>10 DEF Reading
  <1>12. ASSUME lane'.step \notin {"idle", "lost"}
         PROVE  lane'.ident = IdentityOf[lane'.profile] /\ (lane'.frozen => row'[lane'.profile].test # "never")
    <2>1. ASSUME lane.step \notin {"idle", "lost"}, SameRun
          PROVE  lane'.ident = IdentityOf[lane'.profile] /\ (lane'.frozen => row'[lane'.profile].test # "never")
      <3>1. lane.profile \in Profiles
        BY <2>1, LaneIs
      <3>2. QED BY <1>2, <2>1, <3>1 DEF Untouchable, SameRun
    <2>2. CASE QueueSubmits
      <3> DEFINE p == owner.profile
                 refresh == owner.force /\ owner.row.active
      <3>1. /\ p \in Profiles /\ Reading
            /\ lane' = IF refresh THEN Run(p, owner.row.ident, owner.row.gen, FALSE)
                       ELSE Run(p, row[p].ident, Len(runs) + 1, TRUE)
            /\ refresh \/ MayFreeze(p)
        BY <2>2, OwnerIs DEF QueueSubmits, Reading
      <3>2. lane'.profile = p /\ lane'.ident = IdentityOf[p]
        BY <3>1 DEF Run, Untouchable
      <3>3. lane'.frozen => Tested(p)
        BY <3>1 DEF Run, MayFreeze, Tested
      <3>4. QED BY <1>2, <3>1, <3>2, <3>3
    <2>3. CASE ~LaneActs
      <3>1. lane' = lane
        BY <2>3, LaneStays
      <3>2. QED BY <1>12, <2>1, <3>1 DEF SameRun
    <2>4. CASE LaneActs /\ ~QueueSubmits
      <3>1. ~Restart /\ ~Crash /\ ~Fail /\ ~Finish
        BY <1>12, LaneMoves DEF Idle, Moved
      <3>2. CASE Cancel \/ Shutdown
        <4>1. lane' = lane \/ Stopped
          BY <3>2, LaneMoves
        <4>2. SameRun /\ lane.step \notin {"idle", "lost"}
          BY <1>12, <4>1 DEF Stopped, SameRun
        <4>3. QED BY <2>1, <4>2
      <3>3. CASE Worker
        <4>1. lane.step \notin {"idle", "lost"}
          BY <3>3 DEF Worker, Build, BuildFails, Flip, FlipRefused, SwitchProvider, Admit, Point,
             Promote, Commit, Unpoint, Undo, Fail, Finish
        <4>2. SameRun
          BY <3>1, <3>3, LaneMoves DEF Worker, Moved, Admitted, Flipped
        <4>3. QED BY <2>1, <4>1, <4>2
      <3>4. QED BY <2>4, <3>1, <3>2, <3>3 DEF LaneActs, Worker
    <2>5. QED BY <2>2, <2>3, <2>4
  <1>13. QED
    BY <1>3, <1>6, <1>7, <1>11, <1>12 DEF Untouchable, Tested
-----------------------------------------------------------------------------
(***************************************************************************)
(* The rows, the bundle and the provider.                                  *)
(***************************************************************************)
\* Serving in the state that a step reaches.
ServingNext(b, pr) ==
  IF b = None THEN Active(row') = {}
  ELSE /\ intent' = None
       /\ \E p \in Profiles :
            /\ Active(row') = {p} /\ row'[p].here /\ row'[p].ident = runs'[b]
            /\ row'[p].test # "never" /\ row'[p].status \in Good /\ pr = <<p, row'[p].ident>>
            /\ Recorded => row'[p].bundle = b

\* What is active stays active, tested and usable, for the same bundle.
ActiveKept ==
  /\ Active(row') = Active(row)
  /\ \A p \in Active(row) :
       /\ row'[p].here /\ row'[p].ident = row[p].ident /\ row'[p].bundle = row[p].bundle
       /\ row[p].test # "never" => row'[p].test # "never"
       /\ row[p].status \in Good => row'[p].status \in Good

\* What is served goes on being served.
LEMMA ServingKept ==
  ASSUME Types, [Next]_vars, ActiveKept, intent' = intent,
         NEW b, b # None => b \in 1..Len(runs), NEW pr, Serving(b, pr)
  PROVE  ServingNext(b, pr)
  <1>1. CASE b = None
    BY <1>1 DEF Serving, ServingNext, ActiveKept
  <1>2. CASE b # None
    <2>1. runs'[b] = runs[b]
      BY <1>2, RunsNext
    <2>2. PICK p \in Profiles :
            /\ Active(row) = {p} /\ row[p].here /\ row[p].ident = runs[b] /\ row[p].test # "never"
            /\ pr = <<p, row[p].ident>> /\ row[p].status \in Good
            /\ Recorded => row[p].bundle = b
      BY <1>2 DEF Serving, Holds, Tested
    <2>3. p \in Active(row) /\ Active(row') = {p}
      BY <2>2 DEF ActiveKept
    <2>4. /\ row'[p].here /\ row'[p].ident = row[p].ident /\ row'[p].bundle = row[p].bundle
          /\ row'[p].test # "never" /\ row'[p].status \in Good
      BY <2>2, <2>3 DEF ActiveKept
    <2>5. intent' = None
      BY <1>2 DEF Serving
    <2>6. QED BY <1>2, <2>1, <2>2, <2>3, <2>4, <2>5 DEF ServingNext
  <1>3. QED BY <1>1, <1>2

\* The writes that keep what is active: none, of a row that is not active, a probe.
LEMMA SameRowsKept ==
  ASSUME row' = row
  PROVE  ActiveKept
  BY DEF ActiveKept, Active

LEMMA OneRowKept ==
  ASSUME NEW p, OneRow(p), ~row[p].active
  PROVE  ActiveKept
  <1>1. \A q \in Profiles : row'[q].here = row[q].here /\ row'[q].active = row[q].active
    BY DEF OneRow
  <1>2. Active(row') = Active(row)
    BY <1>1 DEF Active
  <1>3. \A q \in Active(row) : row'[q] = row[q] /\ row[q].here
    BY DEF Active, OneRow
  <1>4. QED BY <1>2, <1>3 DEF ActiveKept

LEMMA ProbesKept ==
  ASSUME Types, SeenAgrees, QueueProbes \/ EditorProbes
  PROVE  ActiveKept
  <1>1. ASSUME NEW thread, NEW p, NEW active, ProbeOnly(thread, p, active),
               <<thread, p>> \in seen => active = row[p].active
        PROVE  ActiveKept
    <2>1. \A q \in Profiles : row'[q].here = row[q].here /\ row'[q].active = row[q].active
      BY <1>1 DEF ProbeOnly
    <2>2. Active(row') = Active(row)
      BY <2>1 DEF Active
    <2>3. ASSUME NEW q \in Active(row)
          PROVE  /\ row'[q].here /\ row'[q].ident = row[q].ident /\ row'[q].bundle = row[q].bundle
                 /\ row[q].test # "never" => row'[q].test # "never"
                 /\ row[q].status \in Good => row'[q].status \in Good
      <3>1. q \in Profiles /\ row[q].here /\ row[q].active
        BY DEF Active
      <3>2. /\ row'[q].here = row[q].here /\ row'[q].ident = row[q].ident
            /\ row'[q].bundle = row[q].bundle
            /\ row'[q] # row[q] => /\ q = p /\ <<thread, p>> \in seen /\ row'[q].test # "never"
                                   /\ active => row'[q].status \in Good
        BY <1>1, <3>1 DEF ProbeOnly
      <3>3. row'[q] # row[q] => row'[q].test # "never" /\ row'[q].status \in Good
        BY <1>1, <3>1, <3>2
      <3>4. QED BY <3>1, <3>2, <3>3
    <2>4. QED BY <2>2, <2>3 DEF ActiveKept
  <1>2. CASE QueueProbes
    <2>1. <<"owner", owner.profile>> \in seen => owner.row.active = row[owner.profile].active
      BY <1>2 DEF SeenAgrees, Reading, QueueProbes
    <2>2. QED BY <1>1, <1>2, <2>1, ProbeSteps
  <1>3. CASE EditorProbes
    <2>1. <<"editor", editor.profile>> \in seen => editor.active = row[editor.profile].active
      BY <1>3 DEF SeenAgrees, EditorProbes
    <2>2. QED BY <1>1, <1>3, <2>1, ProbeSteps
  <1>4. QED BY <1>2, <1>3

\* A reconciliation that finds a profile serves it; without a bundle none is left active.
LEMMA ReconcileServes ==
  ASSUME row \in Table, NEW b \in Bundles, Reconcile(b), Selectable(Recovered(row), b) # {},
         \A q \in Active(row) : row[q].test # "never",
         Intended(b) # None => row[Intended(b)].test # "never"
  PROVE  /\ intent' = None
         /\ \E p \in Selectable(Recovered(row), b) :
              /\ p \in Profiles /\ Active(row') = {p} /\ row'[p].here /\ row'[p].ident = runs[b]
              /\ row'[p].test # "never" /\ row'[p].status = "ready" /\ row'[p].bundle = b
  <1> DEFINE rows == Recovered(row)
  <1>1. rows \in Table /\ Active(rows) = Active(row)
    BY RecoveredRows DEF Active
  <1>2. b # None
    BY NoneAssumption DEF Bundles
  <1>3. PICK p \in Selectable(rows, b) : row' = ActivatedWith(rows, p, b)
    BY <1>2 DEF Reconcile
  <1>4. /\ p \in Profiles /\ rows[p].here /\ rows[p].ident = runs[b]
        /\ p = Intended(b) \/ p \in Active(rows) \/ rows[p].test # "never"
    BY <1>3, SelectableRows
  <1>5. row[p].test # "never" => rows[p].test # "never"
    BY <1>4, RecoveredRows
  <1>6. rows[p].test # "never"
    BY <1>1, <1>4, <1>5, NoneAssumption
  <1>7. /\ Active(row') = {p} /\ row'[p].here /\ row'[p].ident = runs[b]
        /\ row'[p].test = Cleared(rows[p].test) /\ row'[p].status = "ready" /\ row'[p].bundle = b
    <2> HIDE DEF rows
    <2>1. QED BY <1>1, <1>3, <1>4, ActivatedWithRows
  <1>8. row'[p].test # "never"
    BY <1>6, <1>7 DEF Cleared
  <1>9. intent' = None
    BY <1>2 DEF Reconcile
  <1>10. QED BY <1>3, <1>4, <1>7, <1>8, <1>9

LEMMA ReconcileNone ==
  ASSUME row \in Table, Reconcile(None)
  PROVE  Active(row') = {}
  <1> DEFINE rows == Recovered(row)
  <1>1. row' = [p \in Profiles |->
                  IF p \in Active(rows)
                  THEN [rows[p] EXCEPT !.active = FALSE, !.status = "reindex_required",
                                       !.test = "failed"]
                  ELSE rows[p]]
    BY DEF Reconcile
  <1>2. ASSUME NEW p \in Profiles PROVE p \notin Active(row')
    <2>1. rows[p] \in RowRecords
      BY RecoveredRows DEF Table
    <2>2. CASE p \in Active(rows)
      <3>1. row'[p] = [rows[p] EXCEPT !.active = FALSE, !.status = "reindex_required",
                                      !.test = "failed"]
        BY <1>1, <2>2
      <3>2. ~row'[p].active
        <4> HIDE DEF rows
        <4>1. QED BY <2>1, <3>1 DEF RowRecords
      <3>3. QED BY <3>2 DEF Active
    <2>3. CASE p \notin Active(rows)
      BY <1>1, <2>3 DEF Active
    <2>4. QED BY <2>2, <2>3
  <1>3. QED BY <1>2 DEF Active

\* The claims about the state that a step reaches, from claims about its parts.
AgreesNext ==
  /\ up' /\ lane'.step \in Quiet =>
       ServingNext(served', IF owner'.step = "switched" THEN owner'.row ELSE provider')
  /\ lane'.step \in Turned => IF lane'.frozen THEN Turning' ELSE Refreshing'
  /\ lane'.step = "failed" /\ lane'.prior.known => PriorServes'
  /\ ~up' => Recoverable'

LEMMA AgreesFrom ==
  ASSUME Types, [Next]_vars, AgreesNext
  PROVE  Agrees'
  <1>1. Recorded' <=> Recorded
    BY EventsNext
  <1>2. ASSUME NEW b, NEW pr, ServingNext(b, pr)
        PROVE  IF b = None THEN Active(row') = {}
               ELSE /\ intent' = None
                    /\ \E p \in Profiles :
                         /\ Active(row') = {p}
                         /\ row'[p].here /\ row'[p].ident = runs'[b] /\ row'[p].test # "never"
                         /\ pr = <<p, row'[p].ident>>
                         /\ row'[p].status \in Good
                         /\ Recorded' => row'[p].bundle = b
    BY <1>1, <1>2 DEF ServingNext
  <1>3. up' /\ lane'.step \in Quiet => Serving(served, Embedder)'
    BY <1>2 DEF AgreesNext, Serving, Holds, Tested, Embedder
  <1>4. QED BY <1>3 DEF AgreesNext, Agrees

\* The lane rests: what is active stays so, with its bundle and its provider.
LEMMA QuietStays ==
  ASSUME Types, [Next]_vars, Agrees, up, up', lane.step \in Quiet, lane'.step \in Quiet,
         ActiveKept, intent' = intent, served' = served,
         (IF owner'.step = "switched" THEN owner'.row ELSE provider') = Embedder,
         lane'.step = "failed" /\ lane'.prior.known =>
           lane.step = "failed" /\ lane'.prior = lane.prior /\ provider' = provider
  PROVE  Agrees'
  <1>1. Serving(served, Embedder)
    BY DEF Agrees
  <1>2. served # None => served \in 1..Len(runs)
    BY DEF Types, BundlesTyped
  <1>3. ServingNext(served', Embedder)
    BY <1>1, <1>2, ServingKept
  <1>4. lane'.step \notin Turned
    BY DEF Quiet, Turned
  <1>5. ASSUME lane'.step = "failed", lane'.prior.known PROVE PriorServes'
    <2>1. lane.step = "failed" /\ lane.prior.known /\ lane'.prior = lane.prior /\ provider' = provider
      BY <1>5
    <2>2. PriorServes
      BY <2>1 DEF Agrees
    <2>3. Active(row') = Active(row)
      BY DEF ActiveKept
    <2>4. QED BY <2>1, <2>2, <2>3 DEF PriorServes
  <1>6. QED BY <1>3, <1>4, <1>5, AgreesFrom DEF AgreesNext

\* A switch goes on: only a probe may write meanwhile.
LEMMA TurnedStays ==
  ASSUME Types, [Next]_vars, Agrees, up', lane.step \in Turned, lane'.step \in Turned,
         SameRun, lane'.prior = lane.prior, ActiveKept, RowsKeep,
         row' = row \/ (May("probe") /\ \A p \in Profiles : row'[p].gen = row[p].gen),
         intent' = intent
  PROVE  Agrees'
  <1>1. /\ lane'.profile = lane.profile /\ lane'.frozen = lane.frozen /\ lane'.bundle = lane.bundle
        /\ lane'.gen = lane.gen /\ lane'.provider = lane.provider /\ lane'.prior = lane.prior
    BY DEF SameRun
  <1>2. lane.profile \in Profiles /\ lane.bundle \in 1..Len(runs) /\ runs'[lane.bundle] = runs[lane.bundle]
    BY RunsNext, LaneIs DEF Turned, Types, LaneTyped
  <1>3. lane.prior.served # None => lane.prior.served \in 1..Len(runs) /\ runs'[lane.prior.served] = runs[lane.prior.served]
    BY RunsNext DEF Types, BundlesTyped
  <1>4. \A event : May(event)' <=> May(event)
    BY EventsNext
  <1>5. Recorded' <=> Recorded
    BY EventsNext
  <1>6. ASSUME lane.frozen, Turning PROVE Turning'
    <2> DEFINE p == lane.profile
               q == lane.prior.profile
    <2>1. p \in Active(row) /\ Active(row') = {p}
      BY <1>6 DEF Turning, ActiveKept
    <2>2. /\ row'[p].here /\ row'[p].ident = runs'[lane.bundle] /\ row'[p].test # "never"
          /\ lane.provider = <<p, row'[p].ident>> /\ row'[p].status \in Good
          /\ row'[p].bundle = lane.bundle
      BY <1>2, <1>6, <2>1 DEF Turning, Holds, Tested, ActiveKept
    <2>3. row'[p].gen = lane.gen
      BY <1>2, <1>6 DEF Turning
    <2>4. intent' = [gen |-> lane.gen, from |-> q, fromBundle |-> lane.prior.bundle,
                     to |-> p, toBundle |-> lane.bundle]
      BY <1>6 DEF Turning
    <2>5. CASE lane.prior.served = None
      <3>1. q = None
        BY <1>6, <2>5 DEF Turning
      <3>2. QED BY <1>1, <2>1, <2>2, <2>3, <2>4, <2>5, <3>1 DEF Turning, Holds, Tested
    <2>6. CASE lane.prior.served # None
      <3>1. /\ q \in Profiles \ {p} /\ row[q].here /\ row[q].ident = runs[lane.prior.served]
            /\ row[q].test # "never" /\ lane.prior.provider = <<q, row[q].ident>>
            /\ lane.prior.status \in Good /\ (Recorded => lane.prior.bundle = lane.prior.served)
            /\ May("crash") /\ ~May("probe") => row[q].status = "last_known_good"
        BY <1>6, <2>6 DEF Turning, Holds, Tested
      <3>2. row'[q].here /\ row'[q].ident = row[q].ident /\ row'[q].test # "never"
        BY <3>1 DEF RowsKeep
      <3>3. ~May("probe") => row'[q].status = row[q].status
        OBVIOUS
      <3>4. QED
        BY <1>1, <1>3, <1>4, <1>5, <2>1, <2>2, <2>3, <2>4, <2>6, <3>1, <3>2, <3>3
        DEF Turning, Holds, Tested
    <2>7. QED BY <2>5, <2>6
  <1>7. ASSUME ~lane.frozen, Refreshing PROVE Refreshing'
    <2>1. ServingNext(lane.prior.served, lane.prior.provider)
      BY <1>3, <1>7, ServingKept DEF Refreshing
    <2>2. /\ lane.prior.served # None /\ lane.prior.profile = lane.profile
          /\ Active(row') = {lane.profile}
      BY <1>7 DEF Refreshing, ActiveKept
    <2>3. Serving(lane.prior.served, lane.prior.provider)'
      BY <1>1, <1>5, <2>1, <2>2 DEF Serving, ServingNext, Holds, Tested
    <2>4. QED BY <1>1, <2>2, <2>3 DEF Refreshing
  <1>8. lane'.step \notin Quiet /\ lane'.step # "failed"
    BY DEF Quiet, Turned
  <1>9. QED BY <1>1, <1>6, <1>7, <1>8, AgreesFrom DEF AgreesNext, Agrees

\* What the invariant says when nothing is excluded.
LEMMA AgreesIs ==
  ASSUME IInv, Undisturbed
  PROVE  Untouchable /\ Agrees /\ ~May("edit") /\ ~May("norollback")
  BY DEF IInv, ServiceAgrees, Undisturbed

\* The owner's call.
LEMMA OwnerAgrees ==
  ASSUME IInv, Undisturbed, [Next]_vars, Owner
  PROVE  Agrees'
  <1>1. Types /\ SeenAgrees /\ Untouchable /\ Agrees
    BY AgreesIs DEF IInv
  <1>2. UNCHANGED <<intent, served, up>> /\ served \in Bundles \cup {None}
    BY <1>1, Frames DEF Types, ServiceTyped
  <1>3. /\ owner.step # "none" => lane = Idle /\ up /\ owner.profile \in Profiles
        /\ lane = Idle => lane.step = "idle" /\ lane.step \in Quiet
    BY <1>1, OwnerIs DEF Types, OwnerTyped, Idle, Quiet
  <1>4. ASSUME NEW step \in {"idle", "building"}, lane'.step = step
        PROVE  lane'.step \in Quiet /\ lane'.step # "failed"
    BY <1>4 DEF Quiet
  <1>5. ASSUME NEW p \in Profiles, NEW force \in BOOLEAN, Queue(p, force)
        PROVE  Agrees'
    <2>1. /\ up /\ lane = Idle /\ lane' = lane /\ owner.step = "none" /\ row' = row
          /\ owner'.step # "switched" /\ provider' = provider
      BY <1>5 DEF Queue, NoCall, disk, service
    <2>2. QED
      BY <1>1, <1>2, <1>3, <1>4, <2>1, SameRowsKept, QuietStays DEF Embedder
  <1>6. CASE QueueProbes
    <2>1. owner.step = "probe" /\ lane' = lane /\ provider' = provider
      BY <1>6 DEF QueueProbes, service
    <2>2. owner'.step # "switched"
      <3>1. owner \in Reads
        BY <1>1, <2>1 DEF Types, OwnerTyped, Calls, Switches, NoCall
      <3>2. owner' = NoCall \/ owner' = [owner EXCEPT !.step = "decide", !.row = row'[owner.profile]]
        BY <1>6 DEF QueueProbes
      <3>3. CASE owner' = NoCall
        BY <3>3 DEF NoCall
      <3>4. CASE owner' = [owner EXCEPT !.step = "decide", !.row = row'[owner.profile]]
        BY <3>1, <3>4 DEF Reads
      <3>5. QED BY <3>2, <3>3, <3>4
    <2>3. QED
      BY <1>1, <1>2, <1>3, <1>4, <1>6, <2>1, <2>2, ProbesKept, QuietStays DEF Embedder
  <1>7. CASE QueueSwitchesProvider
    <2>1. owner.step = "decide" /\ lane' = lane /\ row' = row
      BY <1>7 DEF QueueSwitchesProvider, disk
    <2>2. owner'.step = "switched" /\ owner'.row = provider
      <3>1. owner \in Reads
        BY <1>1, <2>1 DEF Types, OwnerTyped, Calls, Switches, NoCall
      <3>2. QED BY <1>7, <3>1 DEF QueueSwitchesProvider, Reads
    <2>3. QED
      BY <1>1, <1>2, <1>3, <1>4, <2>1, <2>2, SameRowsKept, QuietStays DEF Embedder
  <1>8. CASE QueueActivates
    <2> DEFINE p == owner.profile
    <2>1. owner.step = "switched" /\ lane' = lane /\ owner'.step = "none" /\ runs' = runs
      BY <1>8 DEF QueueActivates, NoCall
    <2>2. CASE row' = row /\ provider' = owner.row
      BY <1>1, <1>2, <1>3, <1>4, <2>1, <2>2, SameRowsKept, QuietStays DEF Embedder
    <2>3. CASE /\ row[p].here /\ row[p].status = "ready" /\ Serves(row[p].ident)
               /\ row' = Activated(row, p) /\ provider' = provider
      <3>1. p \in Profiles /\ row \in Table /\ lane.step = "idle" /\ lane.step \in Quiet /\ up
        BY <1>1, <1>3, <2>1 DEF Types, RowsTyped
      <3>2. served # None /\ runs[served] = row[p].ident
        BY <2>3 DEF Serves
      <3>3. provider = <<p, runs[served]>>
        BY <2>1 DEF IInv, ProviderFollows
      <3>4. Serving(served, owner.row)
        BY <1>1, <2>1, <3>1 DEF Agrees, Embedder
      <3>5. PICK a \in Profiles :
              /\ Active(row) = {a} /\ row[a].here /\ row[a].ident = runs[served]
              /\ Recorded => row[a].bundle = served
        BY <3>2, <3>4 DEF Serving, Holds
      <3>6. /\ Active(row') = {p} /\ row'[p].here /\ row'[p].ident = row[p].ident
            /\ row'[p].test = row[p].test /\ row'[p].status = "ready"
            /\ row'[p].bundle = row[p].bundle
        BY <2>3, <3>1, ActivatedRows
      <3>7. row[p].test # "never"
        BY <1>1, <2>1 DEF Untouchable, Tested
      <3>8. Recorded => row[p].bundle = served
        <4>1. ASSUME Recorded PROVE a = p
          <5>1. ~Twins
            BY <4>1 DEF Undisturbed, Recorded
          <5>2. /\ a \in env.profiles /\ p \in env.profiles
                /\ IdentityOf[a] = IdentityOf[p]
            BY <1>1, <2>3, <3>1, <3>2, <3>5 DEF Untouchable
          <5>3. QED BY <5>1, <5>2 DEF Twins
        <4>2. QED BY <3>5, <4>1
      <3>9. intent' = None
        BY <1>2, <3>2, <3>4 DEF Serving
      <3>10. ServingNext(served', provider')
        <4>1. served' = served /\ provider' = <<p, row'[p].ident>> /\ row'[p].ident = runs'[served]
          BY <1>2, <2>1, <2>3, <3>2, <3>3, <3>6
        <4>2. QED BY <3>1, <3>2, <3>6, <3>7, <3>8, <3>9, <4>1 DEF ServingNext, Good
      <3>11. lane'.step = "idle" /\ lane'.step \notin Turned /\ up'
        BY <1>2, <2>1, <3>1 DEF Turned
      <3>12. QED BY <1>1, <2>1, <3>10, <3>11, AgreesFrom DEF AgreesNext
    <2>4. QED BY <1>8, <2>2, <2>3 DEF QueueActivates
  <1>9. CASE QueueSubmits
    <2>1. /\ owner.step = "decide" /\ owner'.step = "none" /\ provider' = provider
          /\ lane'.step = "building" /\ ~lane'.prior.known
      <3>1. owner.step = "decide" /\ owner' = NoCall /\ provider' = provider
        BY <1>9 DEF QueueSubmits, service
      <3>2. Started
        BY <1>1, <1>9, LaneMoves
      <3>3. QED BY <3>1, <3>2 DEF NoCall, Started, NoPrior
    <2>2. ActiveKept
      BY <1>1, <1>9, SubmitWrites, SameRowsKept, OneRowKept
    <2>3. QED
      BY <1>1, <1>2, <1>3, <1>4, <2>1, <2>2, QuietStays DEF Embedder
  <1>10. CASE QueueRefuses
    <2>1. owner.step = "decide" /\ owner'.step = "none" /\ lane' = lane /\ row' = row /\ provider' = provider
      BY <1>10 DEF QueueRefuses, NoCall, disk, service
    <2>2. QED
      BY <1>1, <1>2, <1>3, <1>4, <2>1, SameRowsKept, QuietStays DEF Embedder
  <1>11. QED
    BY <1>5, <1>6, <1>7, <1>8, <1>9, <1>10 DEF Owner

\* The worker at rest, and between the first and the last change of a switch.
LEMMA WorkerIs ==
  ASSUME Types, Worker
  PROVE  /\ up /\ up' /\ owner' = owner /\ owner.step = "none" /\ Embedder = provider
         /\ lane.step \notin {"idle", "lost"}
  <1>1. lane.step \notin {"idle", "lost"}
    BY DEF Worker, Build, BuildFails, Flip, FlipRefused, SwitchProvider, Admit, Point,
       Promote, Commit, Unpoint, Undo, Fail, Finish
  <1>2. owner = NoCall /\ up
    BY <1>1 DEF Types, LaneTyped, OwnerTyped, Idle
  <1>3. QED BY <1>1, <1>2, Frames DEF Embedder, NoCall

\* The worker before its first change and after its last,
LEMMA RestAgrees ==
  ASSUME IInv, Undisturbed, [Next]_vars, Build \/ BuildFails \/ FlipRefused \/ Fail \/ Finish
  PROVE  Agrees'
  <1>1. Types /\ SeenAgrees /\ Untouchable /\ Agrees
    BY AgreesIs DEF IInv
  <1>2. up /\ up' /\ owner' = owner /\ owner.step = "none" /\ Embedder = provider
    BY <1>1, WorkerIs DEF Worker
  <1>3. UNCHANGED <<intent, served, provider>>
    BY DEF Build, BuildFails, FlipRefused, Fail, Finish, disk, service
  <1>4. ActiveKept
    <2>1. Fail \/ row' = row
      BY DEF Build, BuildFails, FlipRefused, Finish, disk
    <2>2. QED BY <1>1, <2>1, FailWrites, SameRowsKept, OneRowKept
  <1>5. /\ lane.step \in {"building", "built", "failed", "activated"}
        /\ lane'.step \in {"built", "failed", "idle"}
        /\ lane'.step = "failed" => ~lane'.prior.known
    <2>1. Build => lane.step = "building" /\ lane'.step = "built"
      BY <1>1, LaneMoves DEF Build, Moved
    <2>2. /\ BuildFails => lane.step = "building" /\ lane'.step = "failed" /\ lane'.prior = lane.prior
          /\ FlipRefused => lane.step = "built" /\ lane'.step = "failed" /\ lane'.prior = lane.prior
      BY <1>1, LaneMoves DEF BuildFails, FlipRefused, Moved
    <2>3. Fail \/ Finish => lane.step \in {"failed", "activated"} /\ lane'.step = "idle"
      BY <1>1, LaneMoves DEF Fail, Finish, Idle
    <2>4. lane.step \in {"building", "built"} => ~lane.prior.known
      BY <1>1 DEF Types, LaneTyped
    <2>5. QED BY <2>1, <2>2, <2>3, <2>4
  <1>6. lane.step \in Quiet /\ lane'.step \in Quiet
    BY <1>5 DEF Quiet
  <1>7. QED BY <1>1, <1>2, <1>3, <1>4, <1>5, <1>6, QuietStays

\* between them,
LEMMA SwitchAgrees ==
  ASSUME IInv, Undisturbed, [Next]_vars,
         SwitchProvider \/ Admit \/ Point \/ Promote \/ Unpoint \/ (Commit /\ Moved("unpointing"))
  PROVE  Agrees'
  <1>1. Types /\ Agrees
    BY AgreesIs DEF IInv
  <1>2. up'
    BY <1>1, WorkerIs DEF Worker
  <1>3. /\ lane.step \in {"flipped", "switched", "admitted", "pointed", "promoted", "unpointing"}
        /\ lane'.step \in {"switched", "undoing", "admitted", "pointed", "promoted", "unpointing"}
        /\ SameRun /\ lane'.prior = lane.prior
    <2>1. SwitchProvider \/ Admit \/ Point \/ Promote \/ Unpoint \/ Commit =>
            lane.step \in {"flipped", "switched", "admitted", "pointed", "promoted", "unpointing"}
      BY DEF SwitchProvider, Admit, Point, Promote, Unpoint, Commit
    <2>2. \/ Moved("switched") \/ Moved("undoing") \/ Moved("pointed") \/ Moved("promoted")
          \/ Moved("unpointing") \/ Admitted
      BY <1>1, LaneMoves
    <2>3. QED BY <2>1, <2>2 DEF Moved, Admitted
  <1>4. lane.step \in Turned /\ lane'.step \in Turned
    BY <1>3 DEF Turned
  <1>5. row' = row /\ intent' = intent
    <2>1. SwitchProvider \/ Admit \/ Point \/ Promote \/ Unpoint => row' = row /\ intent' = intent
      BY DEF SwitchProvider, Admit, Point, Promote, Unpoint, disk
    <2>2. ASSUME Commit, Moved("unpointing") PROVE row' = row /\ intent' = intent
      <3>1. lane \in Lanes /\ lane'.step = "unpointing" /\ "activated" \in LaneSteps
        BY <1>1, <2>2 DEF Types, LaneTyped, Moved, LaneSteps, Quiet
      <3>2. ~To("activated")
        BY <3>1, LaneTo DEF Moved
      <3>3. QED BY <2>2, <3>2 DEF Commit
    <2>3. QED BY <2>1, <2>2
  <1>6. ActiveKept /\ RowsKeep
    BY <1>5, SameRowsKept DEF RowsKeep
  <1>7. QED BY <1>1, <1>2, <1>3, <1>4, <1>5, <1>6, TurnedStays

\* its first change: the intent and the rows, or nothing yet for a refresh,
LEMMA FlipAgrees ==
  ASSUME IInv, Undisturbed, [Next]_vars, Flip
  PROVE  Agrees'
  <1> DEFINE p == lane.profile
             a == TheActive(row)
  <1>1. Types /\ SeenAgrees /\ Untouchable /\ Agrees
    BY AgreesIs DEF IInv
  <1>2. up /\ up' /\ Embedder = provider
    BY <1>1, WorkerIs DEF Worker
  <1>3. /\ lane.step = "built" /\ lane.step \in Quiet /\ Current /\ Flipped /\ SameRun
        /\ lane'.step = "flipped"
    BY <1>1, LaneMoves DEF Flip, Flipped, Quiet
  <1>4. /\ lane'.profile = p /\ lane'.frozen = lane.frozen /\ lane'.bundle = lane.bundle
        /\ lane'.gen = lane.gen /\ lane'.provider = lane.provider
    BY <1>3 DEF SameRun
  <1>5. /\ lane'.prior.profile = a /\ lane'.prior.provider = provider /\ lane'.prior.served = served
        /\ lane'.prior.status = (IF a = None THEN None ELSE row[a].status)
        /\ lane'.prior.bundle = (IF a = None THEN None ELSE row[a].bundle)
    BY <1>3 DEF Flipped, NoPrior
  <1>6. /\ p \in Profiles /\ row \in Table /\ lane.bundle \in Bundles /\ runs' = runs
        /\ runs[lane.bundle] = lane.ident
        /\ lane.provider \in Providers /\ lane.provider[1] = p /\ lane.provider[2] = lane.ident
        /\ lane.ident = IdentityOf[p] /\ row[p].ident = IdentityOf[p]
    BY <1>1, <1>3, LaneIs DEF Flip, Types, RowsTyped, LaneTyped, Turned, Untouchable
  <1>7. Serving(served, provider)
    BY <1>1, <1>2, <1>3 DEF Agrees
  <1>8. \A o \in Profiles : Active(row) = {o} => a = o /\ o # None
    BY NoneAssumption DEF TheActive
  <1>9. Active(row) = {} => a = None
    BY DEF TheActive
  <1>10. /\ \A event : May(event)' <=> May(event)
         /\ Recorded' <=> Recorded
    BY <1>1, EventsNext
  <1>11. lane'.step \notin Quiet /\ lane'.step # "failed"
    BY <1>3 DEF Quiet
  <1>12. CASE lane.frozen
    <2>1. /\ row[p].here /\ row[p].gen = lane.gen /\ ~row[p].active
          /\ row' = ActivatedWith(row, p, lane.bundle)
          /\ intent' = [gen |-> lane.gen, from |-> a,
                        fromBundle |-> IF a = None THEN None ELSE row[a].bundle,
                        to |-> p, toBundle |-> lane.bundle]
      BY <1>3, <1>12 DEF Flip, Current, NoPrior
    <2>2. row[p].test # "never"
      BY <1>1, <1>3, <1>12 DEF Untouchable, Tested
    <2>3. /\ Active(row') = {p} /\ row'[p].here /\ row'[p].ident = row[p].ident
          /\ row'[p].test = Cleared(row[p].test) /\ row'[p].status = "ready"
          /\ row'[p].bundle = lane.bundle /\ row'[p].gen = row[p].gen
      BY <1>6, <2>1, ActivatedWithRows
    <2>4. row'[p].test # "never"
      BY <2>2, <2>3 DEF Cleared
    <2>5. lane.provider = <<p, row'[p].ident>>
      BY <1>6, <2>3 DEF Providers
    <2>6. CASE served = None
      <3>1. a = None
        BY <1>7, <1>9, <2>6 DEF Serving
      <3>2. Turning'
        BY <1>4, <1>5, <1>6, <2>1, <2>3, <2>4, <2>5, <2>6, <3>1 DEF Turning, Holds, Tested, Good
      <3>3. QED BY <1>1, <1>2, <1>4, <1>11, <1>12, <3>2, AgreesFrom DEF AgreesNext
    <2>7. CASE served # None
      <3>1. PICK o \in Profiles :
              /\ Active(row) = {o} /\ row[o].here /\ row[o].ident = runs[served]
              /\ row[o].test # "never" /\ provider = <<o, row[o].ident>> /\ row[o].status \in Good
              /\ Recorded => row[o].bundle = served
        BY <1>7, <2>7 DEF Serving, Holds, Tested
      <3>2. a = o /\ o # None /\ o # p /\ o \in Active(row)
        BY <1>8, <2>1, <3>1 DEF Active
      <3>3. /\ row'[o].here /\ row'[o].ident = row[o].ident /\ row'[o].test = row[o].test
            /\ row'[o].status = "last_known_good"
        BY <1>6, <2>1, <3>1, <3>2, ActivatedWithRows
      <3>4. Turning'
        BY <1>4, <1>5, <1>6, <1>10, <2>1, <2>3, <2>4, <2>5, <2>7, <3>1, <3>2, <3>3
        DEF Turning, Holds, Tested, Good
      <3>5. QED BY <1>1, <1>2, <1>4, <1>11, <1>12, <3>4, AgreesFrom DEF AgreesNext
    <2>8. QED BY <2>6, <2>7
  <1>13. CASE ~lane.frozen
    <2>1. row' = row /\ intent' = intent /\ <<"lane", p>> \in seen
      BY <1>3, <1>13 DEF Flip, Current
    <2>2. row[p].here /\ row[p].active /\ p \in Active(row)
      BY <1>1, <1>3, <1>6, <1>13, <2>1 DEF SeenAgrees, Active
    <2>3. served # None
      BY <1>7, <2>2 DEF Serving
    <2>4. Active(row) = {p} /\ a = p
      BY <1>7, <1>8, <2>2, <2>3 DEF Serving
    <2>5. ActiveKept
      BY <2>1, SameRowsKept
    <2>6. served \in 1..Len(runs)
      BY <1>1, <2>3 DEF Types, BundlesTyped
    <2>7. ServingNext(served, provider)
      BY <1>1, <1>7, <2>1, <2>5, <2>6, ServingKept
    <2>8. Serving(lane.prior.served, lane.prior.provider)'
      BY <1>5, <1>10, <2>3, <2>7 DEF Serving, ServingNext, Holds, Tested
    <2>9. Active(row') = {p}
      BY <2>1, <2>4
    <2>10. Refreshing'
      BY <1>4, <1>5, <2>3, <2>4, <2>8, <2>9 DEF Refreshing
    <2>11. QED BY <1>1, <1>2, <1>4, <1>11, <1>13, <2>10, AgreesFrom DEF AgreesNext
  <1>14. QED BY <1>12, <1>13

\* What a reconciliation finds when no switch is recorded and one profile is active.
LEMMA ReconcileActive ==
  ASSUME Types, Untouchable, NEW b \in Bundles, Reconcile(b), intent = None,
         NEW p \in Profiles, Active(row) = {p}, row[p].ident = runs[b]
  PROVE  /\ intent' = None /\ Active(row') = {p} /\ row'[p].here /\ row'[p].ident = runs[b]
         /\ row'[p].test # "never" /\ row'[p].status = "ready" /\ row'[p].bundle = b
  <1>1. row \in Table /\ row[p].here
    BY DEF Types, RowsTyped, Active
  <1>2. Intended(b) = None /\ None \notin Profiles
    BY NoneAssumption DEF Intended
  <1>3. Active(Recovered(row)) = {p}
    BY <1>1, RecoveredRows DEF Active
  <1>4. Recovered(row)[p].here /\ Recovered(row)[p].ident = runs[b]
    BY <1>1, RecoveredRows
  <1>5. Selectable(Recovered(row), b) = {p}
    BY <1>2, <1>3, <1>4, SelectableRows
  <1>6. \A q \in Active(row) : row[q].test # "never"
    BY DEF Untouchable, Tested
  <1>7. QED BY <1>1, <1>2, <1>5, <1>6, ReconcileServes

\* its last one: the intent goes, or the refreshed row names its bundle,
LEMMA CommitAgrees ==
  ASSUME IInv, Undisturbed, [Next]_vars, Commit
  PROVE  Agrees'
  <1> DEFINE p == lane.profile
  <1>1. Types /\ Untouchable /\ Agrees /\ Places
    BY AgreesIs DEF IInv
  <1>2. up /\ up' /\ owner'.step # "switched" /\ Embedder = provider
    BY <1>1, WorkerIs DEF Worker
  <1>3. Moved("activated") \/ Moved("unpointing")
    BY <1>1, LaneMoves
  <1>4. CASE Moved("unpointing")
    BY <1>4, SwitchAgrees
  <1>5. CASE Moved("activated")
    <2>1. lane.step = "promoted" /\ lane.step \in Turned /\ lane.step \in Switched
      BY DEF Commit, Turned, Switched
    <2>2. /\ p \in Profiles /\ lane.bundle \in Bundles /\ lane.bundle # None
          /\ runs[lane.bundle] = lane.ident /\ runs' = runs
          /\ lane.provider \in Providers /\ lane.provider[1] = p /\ lane.provider[2] = lane.ident
          /\ lane.ident = IdentityOf[p] /\ row[p].ident = IdentityOf[p]
      BY <1>1, <2>1, LaneIs, NoneAssumption DEF Commit, Types, LaneTyped, Untouchable, Bundles
    <2>3. lane.provider = <<p, lane.ident>>
      BY <2>2 DEF Providers
    <2>4. /\ served' = served /\ provider' = provider
          /\ IF lane.frozen
             THEN row' = row /\ intent' = IF intent # None /\ intent.gen = lane.gen THEN None ELSE intent
             ELSE Reconcile(lane.bundle)
      <3>1. ~To("unpointing")
        <4>1. lane \in Lanes /\ "unpointing" \in LaneSteps
          BY <1>1 DEF Types, LaneTyped, LaneSteps, Turned
        <4>2. QED BY <1>5, <4>1, LaneTo DEF Moved
      <3>2. QED BY <3>1 DEF Commit
    <2>5. served = lane.bundle /\ provider = lane.provider
      BY <1>1, <2>1 DEF Places
    <2>6. lane'.step = "activated" /\ lane'.step \notin Turned
      BY <1>5 DEF Moved, Turned
    <2>7. ServingNext(lane.bundle, lane.provider)
      <3>1. CASE lane.frozen
        <4>1. Turning
          BY <1>1, <2>1, <3>1 DEF Agrees
        <4>2. intent' = None
          BY <2>4, <3>1, <4>1 DEF Turning
        <4>3. QED
          BY <2>2, <2>4, <3>1, <4>1, <4>2 DEF Turning, Holds, Tested, ServingNext
      <3>2. CASE ~lane.frozen
        <4>1. Refreshing
          BY <1>1, <2>1, <3>2 DEF Agrees
        <4>2. Active(row) = {p} /\ intent = None
          BY <4>1 DEF Refreshing, Serving
        <4>3. Reconcile(lane.bundle)
          BY <2>4, <3>2
        <4>4. /\ intent' = None /\ Active(row') = {p} /\ row'[p].here /\ row'[p].ident = lane.ident
              /\ row'[p].test # "never" /\ row'[p].status = "ready" /\ row'[p].bundle = lane.bundle
          BY <1>1, <2>2, <4>2, <4>3, ReconcileActive
        <4>5. QED BY <2>2, <2>3, <4>4 DEF ServingNext, Good
      <3>3. QED BY <3>1, <3>2
    <2>8. QED BY <1>1, <1>2, <2>4, <2>5, <2>6, <2>7, AgreesFrom DEF AgreesNext
  <1>6. QED BY <1>3, <1>4, <1>5

\* and its rollback.
LEMMA UndoAgrees ==
  ASSUME IInv, Undisturbed, [Next]_vars, Undo
  PROVE  Agrees'
  <1> DEFINE p == lane.profile
             q == lane.prior.profile
             b == lane.prior.served
  <1>1. Types /\ Untouchable /\ Agrees /\ Places /\ ~May("norollback")
    BY AgreesIs DEF IInv
  <1>2. up /\ up' /\ owner'.step # "switched"
    BY <1>1, WorkerIs DEF Worker
  <1>3. /\ lane.step = "undoing" /\ lane.step \in Turned
        /\ Moved("failed") /\ lane'.prior = lane.prior /\ lane'.step = "failed"
    BY <1>1, LaneMoves DEF Undo, Turned, Moved
  <1>4. /\ p \in Profiles /\ runs' = runs /\ b \in Bundles \cup {None} /\ None \notin Bundles
        /\ q \in Profiles \cup {None} /\ None \notin Profiles /\ row \in Table
    BY <1>1, <1>3, LaneIs, NoneAssumption DEF Undo, Bundles, Types, RowsTyped
  <1>5. /\ served' = served /\ provider' = lane.prior.provider
        /\ IF lane.frozen THEN RowsBack ELSE Reconcile(b)
    BY <1>1 DEF Undo
  <1>6. served = b
    BY <1>1, <1>3 DEF Places
  <1>7. ServingNext(b, lane.prior.provider) /\ Active(row') = (IF q = None THEN {} ELSE {q})
    <2>1. CASE lane.frozen
      <3>1. Turning
        BY <1>1, <1>3, <2>1 DEF Agrees
      <3>2. /\ Active(row) = {p} /\ row[p].here /\ row[p].active /\ row[p].gen = lane.gen
        BY <3>1 DEF Turning, Active
      <3>3. Back(IF q = None \/ ~row[q].here THEN None ELSE q)
        BY <1>1, <1>3, <1>5, <2>1, <3>2, RowsBackSteps
      <3>4. CASE b = None
        <4>1. q = None
          BY <3>1, <3>4 DEF Turning
        <4>2. Back(None)
          BY <3>3, <4>1
        <4>3. /\ row'[p].active = FALSE
              /\ \A o \in Profiles : o # p => row'[o] = row[o]
          BY <1>4, <4>2 DEF Back
        <4>4. \A o \in Profiles : o # p => o \notin Active(row)
          BY <3>2
        <4>5. Active(row') = {}
          BY <4>3, <4>4 DEF Active
        <4>6. QED BY <3>4, <4>1, <4>5 DEF ServingNext
      <3>5. CASE b # None
        <4>1. /\ q \in Profiles /\ q # p /\ row[q].here /\ row[q].ident = runs[b]
              /\ row[q].test # "never" /\ lane.prior.provider = <<q, row[q].ident>>
              /\ lane.prior.status \in Good /\ (Recorded => lane.prior.bundle = b)
              /\ intent # None => intent.gen = lane.gen
          BY <3>1, <3>5 DEF Turning, Holds, Tested
        <4>2. Back(q)
          BY <1>4, <3>3, <4>1
        <4>3. /\ row'[p].active = FALSE
              /\ row'[q].here /\ row'[q].active /\ row'[q].ident = row[q].ident
              /\ row'[q].test = row[q].test /\ row'[q].status = lane.prior.status
              /\ row'[q].bundle = lane.prior.bundle
              /\ \A o \in Profiles : o # p /\ o # q => row'[o] = row[o]
          BY <1>4, <4>1, <4>2 DEF Back
        <4>4. \A o \in Profiles : o # p => o \notin Active(row)
          BY <3>2
        <4>5. Active(row') = {q}
          BY <4>1, <4>3, <4>4 DEF Active
        <4>6. intent' = None
          BY <4>1, <4>2 DEF Back
        <4>7. QED BY <1>4, <3>5, <4>1, <4>3, <4>5, <4>6 DEF ServingNext
      <3>6. QED BY <3>4, <3>5
    <2>2. CASE ~lane.frozen
      <3>1. Refreshing
        BY <1>1, <1>3, <2>2 DEF Agrees
      <3>2. /\ b \in Bundles /\ b # None /\ q = p /\ Active(row) = {p} /\ intent = None
            /\ row[p].ident = runs[b] /\ lane.prior.provider = <<p, row[p].ident>>
        BY <1>4, <3>1 DEF Refreshing, Serving, Holds
      <3>3. /\ intent' = None /\ Active(row') = {p} /\ row'[p].here /\ row'[p].ident = runs[b]
            /\ row'[p].test # "never" /\ row'[p].status = "ready" /\ row'[p].bundle = b
        BY <1>1, <1>4, <1>5, <2>2, <3>2, ReconcileActive
      <3>4. QED BY <1>4, <3>2, <3>3 DEF ServingNext, Good
    <2>3. QED BY <2>1, <2>2
  <1>8. PriorServes'
    BY <1>3, <1>5, <1>6, <1>7 DEF PriorServes
  <1>9. lane'.step \notin Turned
    BY <1>3 DEF Turned
  <1>10. QED BY <1>1, <1>2, <1>5, <1>6, <1>7, <1>8, <1>9, AgreesFrom DEF AgreesNext

\* The editor, a cancellation or a shutdown, whatever the lane is doing.
LEMMA AsideAgrees ==
  ASSUME IInv, Undisturbed, [Next]_vars, up, Editor \/ Cancel \/ Shutdown \/ UNCHANGED vars
  PROVE  Agrees'
  <1>1. Types /\ SeenAgrees /\ Untouchable /\ Agrees /\ ~May("edit")
    BY AgreesIs DEF IInv
  <1>2. UNCHANGED <<intent, pointer, served, provider, owner, up>> /\ up'
    BY Frames DEF vars, disk, service
  <1>3. /\ lane'.step = lane.step /\ lane'.prior = lane.prior /\ SameRun
        /\ lane.step \in Quiet \cup Turned
    <2>1. lane' = lane \/ Stopped
      BY <1>1, Frames, LaneMoves DEF vars
    <2>2. lane.step \in LaneSteps /\ lane.step # "lost"
      BY <1>1 DEF Types, LaneTyped, Lanes
    <2>3. QED BY <2>1, <2>2 DEF Stopped, SameRun, LaneSteps
  <1>4. row' = row \/ EditorProbes
    <2>1. ~EditorUpdates /\ ~EditorDeletes
      BY <1>1, NoEdits
    <2>2. QED BY <2>1 DEF Editor, EditorReads, Cancel, Shutdown, vars, disk
  <1>5. ActiveKept /\ RowsKeep
    BY <1>1, <1>4, SameRowsKept, ProbesKept, RowsKeepNext
  <1>6. row' = row \/ (May("probe") /\ \A p \in Profiles : row'[p].gen = row[p].gen)
    <2>1. EditorProbes => May("probe")
      BY <1>1 DEF EditorProbes, Types, EditorTyped, NoCall
    <2>2. QED BY <1>1, <1>4, <2>1, ProbeSteps DEF ProbeOnly
  <1>7. CASE lane.step \in Quiet
    <2>1. (IF owner'.step = "switched" THEN owner'.row ELSE provider') = Embedder
      BY <1>2 DEF Embedder
    <2>2. QED BY <1>1, <1>2, <1>3, <1>5, <1>7, <2>1, QuietStays
  <1>8. CASE lane.step \in Turned
    BY <1>1, <1>2, <1>3, <1>5, <1>6, <1>8, TurnedStays
  <1>9. QED BY <1>3, <1>7, <1>8

\* At every step of a switch the registry can find the profile of the bundle that
\* the pointer names.
LEMMA CrashAgrees ==
  ASSUME IInv, Undisturbed, [Next]_vars, Crash
  PROVE  Agrees'
  <1> DEFINE p == lane.profile
             q == lane.prior.profile
  <1>1. Types /\ Untouchable /\ Agrees /\ Places /\ BundleIsNew
    BY AgreesIs DEF IInv
  <1>2. /\ up /\ up' = FALSE /\ row' = row /\ intent' = intent /\ pointer' = pointer /\ runs' = runs
        /\ May("crash") /\ lane'.step = "lost"
    BY <1>1, LaneMoves DEF Crash, disk, Moved
  <1>3. lane.step \in Quiet \cup Turned
    BY <1>1, <1>2 DEF Types, LaneTyped, Lanes, LaneSteps
  <1>4. ASSUME pointer # None, NEW o \in Profiles, row[o].here, row[o].ident = runs[pointer],
               row[o].test # "never",
               row[o].active \/ o = Intended(pointer) \/ row[o].status = "last_known_good"
        PROVE  Recoverable
    BY <1>4 DEF Recoverable, Tested
  <1>5. ASSUME NEW b, NEW pr, Serving(b, pr), b # None
        PROVE  \E o \in Profiles : /\ Active(row) = {o} /\ row[o].here /\ row[o].active
                                   /\ row[o].ident = runs[b] /\ row[o].test # "never"
    <2>1. PICK o \in Profiles : Active(row) = {o} /\ Holds(o, b, pr)
      BY <1>5 DEF Serving
    <2>2. o \in Active(row)
      BY <2>1
    <2>3. QED BY <2>1, <2>2 DEF Active, Holds, Tested
  <1>6. pointer # None => Recoverable
    <2> SUFFICES ASSUME pointer # None PROVE Recoverable
      OBVIOUS
    <2>1. CASE lane.step \in Quiet
      <3>1. Serving(pointer, Embedder)
        BY <1>1, <1>2, <2>1 DEF Agrees, Places
      <3>2. QED BY <1>4, <1>5, <3>1
    <2>2. CASE lane.step \in Turned
      <3>1. /\ pointer \in {lane.prior.served, lane.bundle} /\ lane.bundle # lane.prior.served
            /\ p \in Profiles /\ runs[lane.bundle] = lane.ident /\ lane.ident = row[p].ident
        BY <1>1, <2>2, LaneIs DEF Places, Turned, BundleIsNew, Types, LaneTyped, Untouchable
      <3>2. CASE lane.frozen
        <4>1. Turning
          BY <1>1, <2>2, <3>2 DEF Agrees
        <4>2. CASE pointer = lane.bundle
          <5>1. /\ p \in Active(row) /\ row[p].here /\ row[p].ident = runs[pointer]
                /\ row[p].test # "never"
            BY <4>1, <4>2 DEF Turning, Holds, Tested
          <5>2. row[p].active
            BY <5>1 DEF Active
          <5>3. QED BY <1>4, <3>1, <5>1, <5>2
        <4>3. CASE pointer = lane.prior.served
          <5>1. /\ q \in Profiles /\ row[q].here /\ row[q].ident = runs[pointer]
                /\ row[q].test # "never"
                /\ Recorded => lane.prior.bundle = pointer
                /\ ~May("probe") => row[q].status = "last_known_good"
            BY <1>2, <4>1, <4>3 DEF Turning, Holds, Tested
          <5>2. /\ intent.from = q /\ intent.fromBundle = lane.prior.bundle
                /\ intent.toBundle = lane.bundle
            BY <4>1 DEF Turning
          <5>3. intent # None
            <6>1. /\ lane.gen \in 1..MaxRuns /\ lane.bundle \in Bundles
                  /\ lane.prior.bundle \in Bundles \cup {None}
              BY <1>1, <2>2, <3>2, LaneIs DEF Turned
            <6>2. [gen |-> lane.gen, from |-> q, fromBundle |-> lane.prior.bundle,
                   to |-> p, toBundle |-> lane.bundle] \in Intents
              BY <3>1, <5>1, <6>1 DEF Intents
            <6>3. intent \in Intents
              BY <4>1, <6>2 DEF Turning
            <6>4. QED BY <6>3, NoneAssumption
          <5>4. Recorded => Intended(pointer) = q
            BY <3>1, <4>3, <5>1, <5>2, <5>3 DEF Intended
          <5>5. Recorded \/ ~May("probe")
            BY <1>2 DEF Recorded
          <5>6. QED BY <1>4, <5>1, <5>4, <5>5
        <4>4. QED BY <3>1, <4>2, <4>3
      <3>3. CASE ~lane.frozen
        <4>1. Refreshing
          BY <1>1, <2>2, <3>3 DEF Agrees
        <4>2. PICK o \in Profiles : /\ Active(row) = {o} /\ row[o].here /\ row[o].active
                                    /\ row[o].ident = runs[lane.prior.served]
                                    /\ row[o].test # "never"
          BY <1>5, <4>1 DEF Refreshing
        <4>3. o = p
          BY <4>1, <4>2 DEF Refreshing
        <4>4. row[o].ident = runs[pointer]
          BY <3>1, <4>2, <4>3
        <4>5. QED BY <1>4, <4>2, <4>4
      <3>4. QED BY <3>2, <3>3
    <2>3. QED BY <1>3, <2>1, <2>2
  <1>7. Recoverable
    BY <1>6 DEF Recoverable
  <1>8. Recoverable'
    BY <1>2, <1>7 DEF Recoverable, Intended, Tested
  <1>9. lane'.step \notin Turned /\ lane'.step # "failed"
    BY <1>2 DEF Turned
  <1>10. QED BY <1>1, <1>2, <1>8, <1>9, AgreesFrom DEF AgreesNext

\* The restart selects a profile that the crash has left.
LEMMA RestartAgrees ==
  ASSUME IInv, Undisturbed, [Next]_vars, ~up
  PROVE  Agrees'
  <1>1. Types /\ Untouchable /\ Agrees
    BY AgreesIs DEF IInv
  <1>2. CASE UNCHANGED vars
    BY <1>1, <1>2, EventsNext
    DEF Agrees, Serving, Embedder, Holds, Tested, Turning, Refreshing, PriorServes,
        Recoverable, Intended, Recorded, vars, disk, service
  <1>3. CASE Restart
    <2>1. /\ row \in Table /\ pointer \in Bundles \cup {None} /\ runs' = runs /\ owner' = owner
          /\ owner.step = "none" /\ Reconcile(pointer) /\ served' = pointer /\ lane'.step = "idle"
          /\ up'
      BY <1>1, <1>3, DownSteps DEF Restart, Types, RowsTyped, ServiceTyped, NoCall, Idle
    <2>2. CASE pointer = None
      <3>1. Active(row') = {}
        BY <2>1, <2>2, ReconcileNone
      <3>2. ServingNext(served', provider')
        BY <2>1, <2>2, <3>1 DEF ServingNext
      <3>3. QED BY <1>1, <2>1, <3>2, AgreesFrom DEF AgreesNext, Turned
    <2>3. CASE pointer # None
      <3> DEFINE rows == Recovered(row)
      <3>1. PICK o \in Profiles :
              /\ row[o].here /\ row[o].ident = runs[pointer] /\ row[o].test # "never"
              /\ row[o].active \/ o = Intended(pointer) \/ row[o].status = "last_known_good"
        BY <1>1, <2>3 DEF Agrees, Recoverable, Tested
      <3>2. /\ rows[o].here /\ rows[o].ident = runs[pointer]
            /\ o = Intended(pointer) \/ o \in Active(rows)
               \/ (rows[o].test # "never" /\ rows[o].status = "last_known_good")
        BY <2>1, <3>1, RecoveredRows DEF Active
      <3>3. Selectable(rows, pointer) # {}
        BY <3>1, <3>2, SelectableRows
      <3>4. /\ \A a \in Active(row) : row[a].test # "never"
            /\ Intended(pointer) # None => row[Intended(pointer)].test # "never"
        BY <1>1 DEF Untouchable, Tested, Intended
      <3>5. PICK a \in Selectable(rows, pointer) :
              /\ a \in Profiles /\ Active(row') = {a} /\ row'[a].here /\ row'[a].ident = runs[pointer]
              /\ row'[a].test # "never" /\ row'[a].status = "ready" /\ row'[a].bundle = pointer
        BY <2>1, <2>3, <3>3, <3>4, ReconcileServes
      <3>6. intent' = None
        BY <2>1, <2>3, <3>3, <3>4, ReconcileServes
      <3>7. provider' = <<a, row'[a].ident>>
        <4>1. TheActive(row') = a
          BY <3>5 DEF TheActive
        <4>2. QED BY <1>3, <3>5, <4>1 DEF Restart
      <3>8. ServingNext(served', provider')
        BY <2>1, <2>3, <3>5, <3>6, <3>7 DEF ServingNext, Good
      <3>9. QED BY <1>1, <2>1, <3>8, AgreesFrom DEF AgreesNext, Turned
    <2>4. QED BY <2>2, <2>3
  <1>4. QED BY <1>1, <1>2, <1>3, DownSteps

\* Every step.
LEMMA AgreesNextStep ==
  ASSUME IInv, Undisturbed, [Next]_vars
  PROVE  Agrees'
  <1>1. CASE up
    <2>1. Worker => \/ Build \/ BuildFails \/ FlipRefused \/ Fail \/ Finish
                    \/ SwitchProvider \/ Admit \/ Point \/ Promote \/ Unpoint
                    \/ Flip \/ Commit \/ Undo
      BY DEF Worker
    <2>2. ~Restart
      BY <1>1 DEF Restart
    <2>3. QED
      BY <1>1, <2>1, <2>2, OwnerAgrees, RestAgrees, SwitchAgrees, FlipAgrees, CommitAgrees,
         UndoAgrees, AsideAgrees, CrashAgrees DEF Next
  <1>2. CASE ~up
    BY <1>2, RestartAgrees
  <1>3. QED BY <1>1, <1>2

LEMMA ServiceAgreesNext ==
  ASSUME IInv, [Next]_vars
  PROVE  ServiceAgrees'
  <1>1. Types
    BY DEF IInv
  <1>2. SUFFICES ASSUME Undisturbed PROVE Untouchable' /\ Agrees'
    BY <1>1, EventsNext DEF ServiceAgrees
  <1>3. /\ SeenAgrees /\ Untouchable /\ Agrees /\ ~May("edit")
        /\ lane.step \in Turned /\ lane.frozen => Turning
    BY <1>2, AgreesIs DEF IInv, Agrees
  <1>4. QED
    BY <1>1, <1>2, <1>3, UntouchableNext, AgreesNextStep
-----------------------------------------------------------------------------
(***************************************************************************)
(* The theorems.                                                           *)
(***************************************************************************)
LEMMA InitInv == Init => IInv
  <1> SUFFICES ASSUME Init PROVE IInv
    OBVIOUS
  <1>1. \A p \in Profiles :
          /\ row[p] = [here |-> p \in env.profiles, active |-> FALSE, status |-> "probe",
                       ident |-> IdentityOf[p], gen |-> 0, bundle |-> None, test |-> "never"]
          /\ row[p] \in RowRecords
    BY IdentityAssumption, BoundsAssumption DEF Init, RowRecords, Statuses, Tests
  <1>2. /\ \A p \in Profiles : /\ row[p].here <=> p \in env.profiles
                               /\ ~row[p].active /\ row[p].status # "reindexing"
                               /\ row[p].ident = IdentityOf[p]
    <2> SUFFICES ASSUME NEW p \in Profiles
                 PROVE  /\ row[p].here <=> p \in env.profiles
                        /\ ~row[p].active /\ row[p].status # "reindexing"
                        /\ row[p].ident = IdentityOf[p]
      OBVIOUS
    <2> DEFINE here == p \in env.profiles
    <2>1. row[p] = [here |-> here, active |-> FALSE, status |-> "probe",
                    ident |-> IdentityOf[p], gen |-> 0, bundle |-> None, test |-> "never"]
      BY <1>1
    <2>2. here \in BOOLEAN
      OBVIOUS
    <2> HIDE DEF here
    <2>3. /\ row[p].here <=> here
          /\ ~row[p].active /\ row[p].status # "reindexing"
          /\ row[p].ident = IdentityOf[p]
      BY <2>1, <2>2
    <2>4. QED BY <2>3 DEF here
  <1>3. Active(row) = {}
    BY <1>2 DEF Active
  <1>4. /\ lane = Idle /\ owner.step = "none" /\ editor.step = "none" /\ up /\ seen = {}
        /\ intent = None /\ pointer = None /\ served = None /\ provider = None
    BY DEF Init, NoCall
  <1>5. /\ lane.step = "idle" /\ lane.stop = "no" /\ ~lane.frozen /\ ~lane.prior.known
        /\ lane.prior.served = None
    BY <1>4 DEF Idle, NoPrior
  <1>6. EnvTyped
    <2>1. env \in Scenarios /\ env.faults \in Nat /\ env = [env EXCEPT !.faults = env.faults]
      BY ScenariosAssumption DEF Init
    <2>2. env.faults \in 0..env.faults
      BY <2>1
    <2>3. QED BY <2>1, <2>2 DEF EnvTyped
  <1>7. RowsTyped
    BY <1>1 DEF Init, RowsTyped, Table
  <1>8. RunsTyped /\ Len(runs) = 0
    BY BoundsAssumption DEF Init, RunsTyped
  <1>9. LaneTyped
    BY <1>4, <1>5, IdleLane DEF LaneTyped, Turned
  <1>10. OwnerTyped /\ EditorTyped
    BY <1>4 DEF Init, OwnerTyped, EditorTyped, Reading
  <1>11. ServiceTyped /\ SeenTyped /\ BundlesTyped
    BY <1>4, <1>5 DEF Init, ServiceTyped, SeenTyped, BundlesTyped
  <1>12. Types
    BY <1>6, <1>7, <1>8, <1>9, <1>10, <1>11 DEF Types
  <1>13. SeenAgrees /\ BundleIsNew
    BY <1>4, <1>5 DEF SeenAgrees, Reading, BundleIsNew, Turned
  <1>14. ReindexingIsLane
    BY <1>2, <1>5 DEF ReindexingIsLane, Turned
  <1>15. ProviderFollows /\ Places
    BY <1>4, <1>5 DEF ProviderFollows, Places, Matches, Turned, Switched
  <1>16. Untouchable
    BY <1>2, <1>3, <1>4, <1>5 DEF Untouchable, Reading
  <1>17. Agrees
    BY <1>3, <1>4, <1>5 DEF Agrees, Serving, Embedder, Turned
  <1>18. QED
    BY <1>12, <1>13, <1>14, <1>15, <1>16, <1>17 DEF IInv, ServiceAgrees

\* The invariant is kept and implies the properties.
LEMMA InvNext == IInv /\ [Next]_vars => IInv'
  BY TypesNext, SeenAgreesNext, BundleIsNewNext, ReindexingNext, ProviderNext, PlacesNext,
     ServiceAgreesNext DEF IInv

LEMMA InvHolds == Spec => []IInv
  BY InitInv, InvNext, PTL DEF Spec

LEMMA InvServes == IInv => RegistryServes
  <1> SUFFICES ASSUME IInv PROVE RegistryServes
    OBVIOUS
  <1>1. TypeOK
    BY TypesImply DEF IInv
  <1>2. Settled => up /\ lane.step \in Quiet /\ owner.step # "switched"
    BY DEF Settled, Quiet
  <1>3. ServiceMatchesRegistry
    <2> SUFFICES ASSUME Settled, Undisturbed
                 PROVE  IF served = None THEN Active(row) = {}
                        ELSE \E p \in Profiles :
                               /\ Active(row) = {p} /\ row[p].ident = runs[served]
                               /\ row[p].status \in {"ready", "last_known_good"}
                               /\ provider = <<p, row[p].ident>>
      BY DEF ServiceMatchesRegistry
    <2>1. Serving(served, provider)
      BY <1>2, AgreesIs DEF Agrees, Embedder
    <2>2. QED BY <2>1 DEF Serving, Holds, Good
  <1>4. ProviderMatchesBundle
    <2> SUFFICES ASSUME Settled, ~May("crash"), served # None
                 PROVE  provider # None /\ provider[2] = runs[served]
      BY DEF ProviderMatchesBundle
    <2>1. Matches(served, provider)
      BY <1>2 DEF IInv, ProviderFollows
    <2>2. QED BY <2>1, NoneAssumption DEF Matches
  <1>5. QED BY <1>1, <1>3, <1>4 DEF RegistryServes

LEMMA InvFails == IInv => FailedLeavesPrior
  <1> SUFFICES ASSUME IInv, lane.step = "failed", lane.prior.known, Undisturbed
               PROVE  /\ TheActive(row) = lane.prior.profile
                      /\ served = lane.prior.served /\ pointer = served
                      /\ provider = lane.prior.provider
    BY DEF FailedLeavesPrior
  <1>1. PriorServes
    BY AgreesIs DEF Agrees
  <1>2. up /\ lane.step \in Quiet
    BY DEF IInv, Types, LaneTyped, Quiet
  <1>3. pointer = served
    BY <1>2 DEF IInv, Places
  <1>4. TheActive(row) = lane.prior.profile
    BY <1>1 DEF PriorServes, TheActive
  <1>5. QED BY <1>1, <1>3, <1>4 DEF PriorServes

\* The rows, the bundle that is served and the provider of the questions belong
\* together whenever no switch is under way, through failures, cancellations,
\* crashes and restarts (activate_reindexed, _run and reconcile_active_bundle).
THEOREM RegistryServesHolds == Spec => []RegistryServes
  BY InvHolds, InvServes, PTL

\* A cancellation that cancel has accepted is not followed by the switch.
THEOREM CancelWinsHolds == Spec => []CancelWins
  <1>1. IInv => CancelWins
    BY DEF IInv, BundleIsNew, CancelWins
  <1>2. QED BY <1>1, InvHolds, PTL

\* A run that fails leaves the profile, the bundle and the provider that were
\* active before it (_run_rollback).
THEOREM FailedLeavesPriorHolds == Spec => []FailedLeavesPrior
  BY InvHolds, InvFails, PTL

\* No row is left saying "reindexing" once the lane is free (fail_reindex,
\* recover_interrupted_reindexes).
THEOREM ReindexSettlesHolds == Spec => []ReindexSettles
  <1>1. IInv => ReindexSettles
    BY DEF IInv, ReindexingIsLane, ReindexSettles, Idle
  <1>2. QED BY <1>1, InvHolds, PTL
=============================================================================
