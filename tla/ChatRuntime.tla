----------------------------- MODULE ChatRuntime -----------------------------
(***************************************************************************)
(* The chat model visitors are served by (ChatProfileRegistry,             *)
(* admin/chat_profiles.py; main.py): rows of chat_profiles, the runtime    *)
(* that holds the provider in use, and the shared state object that tells  *)
(* visitors whether a model is ready and which bundle is active.           *)
(*                                                                         *)
(* The owner's requests run in threads of their own; the publication runs  *)
(* in the coordinator's lane (LocalPublication, EmbeddingSwitch) and       *)
(* selects a chat profile together with a new bundle; a poll runs all the  *)
(* time.  Rows are guarded by transactions, the runtime by its lock, and   *)
(* the shared object by nothing: it is read and put back.  Connections and *)
(* the embedding profile do not change here.  There is no runtime before   *)
(* the first publication: its chat is Nothing.  A chat model named by the  *)
(* settings instead of a profile is left out.                              *)
(***************************************************************************)
EXTENDS Naturals, FiniteSets

CONSTANTS
  Askers,        \* requests of the owner about chat profiles
  Profiles,      \* chat profiles
  Models,        \* what a profile may name
  HealthyModels, \* those that answer
  MaxChatCalls,  \* how many requests are made in all
  MaxVersions,   \* how many bundles are published
  Nothing

Statuses == {"probe", "ready", "last_known_good", "probe_failed"}
Row == [model : Models, status : Statuses, active : BOOLEAN]

ASSUME HealthyAssumption == HealthyModels \subseteq Models
ASSUME ProfilesAssumption == IsFiniteSet(Profiles)
ASSUME ChatBoundsAssumption == MaxChatCalls \in Nat /\ MaxVersions \in Nat \ {0}
ASSUME NothingAssumption == Nothing \notin Row /\ Nothing \notin [p : Profiles, model : Models]

AnyObject == 2

VARIABLES
  prof,     \* the rows of chat_profiles
  runtime,  \* the provider runtime: which object, and whose chat it has
  bundle,   \* the manager's bundle: active, previous, pinned
  shared,   \* application.state.reponpc: bundle and readiness of the model
  ask,      \* the owner's requests
  lane,     \* the publication
  poll,     \* the health poll
  tested,   \* history: models that have answered a probe
  amiss,    \* history: a write landed on a row changed since it was read, or
            \* while an activation was being made or undone
  calls     \* how many requests were made

rowVars == <<prof, tested>>
chatVars == <<prof, runtime, bundle, shared, ask, lane, poll, tested, amiss, calls>>

NoAsk == [step |-> "idle", kind |-> "none", p |-> Nothing, seen |-> Nothing, model |-> Nothing,
          back |-> Nothing, object |-> 0]
NoLane == [step |-> "idle", p |-> Nothing, frozen |-> Nothing, old |-> Nothing,
           selected |-> Nothing, previous |-> Nothing, ready |-> FALSE,
           before |-> Nothing, stuck |-> FALSE]

ActiveIn(rows) == {p \in Profiles : rows[p] # Nothing /\ rows[p].active}
ActiveRow == ActiveIn(prof)
Chat(p, r) == [p |-> p, model |-> r.model]
RowChat == IF ActiveRow = {} THEN Nothing
           ELSE LET p == CHOOSE p \in ActiveRow : TRUE IN Chat(p, prof[p])

\* replace_chat on the runtime in use; nothing to replace if there is none.
Switched(chat) ==
  IF runtime.chat = Nothing THEN runtime ELSE [runtime EXCEPT !.chat = chat]

Asked(c, kind, step) == ask[c].kind = kind /\ ask[c].step = step
Then(c, step) == ask' = [ask EXCEPT ![c].step = step]
Done(c) == ask' = [ask EXCEPT ![c] = NoAsk]
\* The manager's lock is held; an activation is being made or undone.
Activating ==
  lane.step \in {"select", "unselect", "assign", "pointer", "commit", "undo", "restore"}
Undoing == \E c \in Askers : ask[c].step = "undo"
Pending == Activating \/ Undoing
RowsOnly == UNCHANGED <<runtime, bundle, shared, lane, poll, calls>>

-----------------------------------------------------------------------------
(***************************************************************************)
(* Requests of the owner: each reads its row first.                        *)
(***************************************************************************)
\* Mutant: an untested profile may be selected.
AskChatUntested(c) ==
  /\ ask[c] = NoAsk /\ calls < MaxChatCalls /\ calls' = calls + 1
  /\ \E kind \in {"update", "delete", "probe", "activate"}, p \in Profiles, m \in Models :
       /\ prof[p] # Nothing
       /\ kind \in {"update", "delete"} => ~prof[p].active
       /\ kind # "update" => m = prof[p].model
       /\ ask' = [ask EXCEPT ![c] = [NoAsk EXCEPT !.step = "read", !.kind = kind, !.p = p,
                                                  !.seen = prof[p], !.model = m]]
  /\ UNCHANGED <<prof, runtime, bundle, shared, lane, poll, tested, amiss>>

AskChat(c) ==
  /\ ask[c] = NoAsk /\ calls < MaxChatCalls /\ calls' = calls + 1
  /\ \E kind \in {"update", "delete", "probe", "activate"}, p \in Profiles, m \in Models :
       /\ prof[p] # Nothing
       /\ kind \in {"update", "delete"} => ~prof[p].active
       /\ kind = "activate" => prof[p].status = "ready"
       /\ kind # "update" => m = prof[p].model
       /\ ask' = [ask EXCEPT ![c] = [NoAsk EXCEPT !.step = "read", !.kind = kind, !.p = p,
                                                  !.seen = prof[p], !.model = m]]
  /\ UNCHANGED <<prof, runtime, bundle, shared, lane, poll, tested, amiss>>

\* The write names the profile only: a row that has changed is overwritten.
Landed(c) == amiss' = (amiss \/ Activating \/ prof[ask[c].p] # ask[c].seen)

UpdateProfile(c) ==
  /\ Asked(c, "update", "read")
  /\ LET p == ask[c].p IN
     prof' = IF prof[p] = Nothing THEN prof
             ELSE [prof EXCEPT ![p].model = ask[c].model, ![p].status = "probe"]
  /\ Landed(c) /\ Done(c) /\ RowsOnly /\ UNCHANGED tested

DeleteProfile(c) ==
  /\ Asked(c, "delete", "read")
  /\ prof' = [prof EXCEPT ![ask[c].p] = Nothing]
  /\ Landed(c) /\ Done(c) /\ RowsOnly /\ UNCHANGED tested

\* The provider is asked about the model that was read; its answer is written
\* to whatever the row says now.
ProbeProfile(c) ==
  /\ Asked(c, "probe", "read")
  /\ LET p == ask[c].p
         good == ask[c].seen.model \in HealthyModels
         status == IF good THEN "ready" ELSE IF ask[c].seen.active THEN "last_known_good"
                   ELSE "probe_failed"
     IN /\ prof' = IF prof[p] = Nothing THEN prof ELSE [prof EXCEPT ![p].status = status]
        /\ tested' = IF good THEN tested \cup {ask[c].seen.model} ELSE tested
  /\ Landed(c) /\ Done(c) /\ RowsOnly

\* The two updates of activate: the active row becomes the last known good.
Selected(rows, p) ==
  [q \in Profiles |->
     IF rows[q] = Nothing THEN Nothing
     ELSE IF q = p THEN [rows[q] EXCEPT !.active = TRUE, !.status = "ready"]
     ELSE IF rows[q].active THEN [rows[q] EXCEPT !.active = FALSE, !.status = "last_known_good"]
     ELSE rows[q]]

\* activate: the rows and the runtime are switched in one transaction ...
ActivateProfile(c) ==
  /\ Asked(c, "activate", "read")
  /\ prof' = Selected(prof, ask[c].p)
  /\ runtime' = Switched(Chat(ask[c].p, ask[c].seen))
  /\ amiss' = (amiss \/ Pending \/ prof[ask[c].p] # ask[c].seen)
  /\ Done(c)
  /\ UNCHANGED <<bundle, shared, lane, poll, tested, calls>>

\* Which chat goes back, and to which object: to the one that was switched; if
\* there was none, the active row's goes to whatever runtime there is by then.
WayBack ==
  IF runtime.chat # Nothing THEN runtime ELSE [object |-> AnyObject, chat |-> RowChat]

\* ... whose commit may fail once the runtime is switched.
CommitFails(c) ==
  /\ Asked(c, "activate", "read")
  /\ runtime' = Switched(Chat(ask[c].p, ask[c].seen))
  /\ ask' = [ask EXCEPT ![c].step = "undo", ![c].back = WayBack.chat,
                        ![c].object = WayBack.object]
  /\ amiss' = (amiss \/ Pending)
  /\ UNCHANGED <<prof, bundle, shared, lane, poll, tested, calls>>

\* Mutant: the runtime is left as it is.
UndoNothing(c) ==
  /\ Asked(c, "activate", "undo")
  /\ Done(c)
  /\ UNCHANGED <<prof, runtime, bundle, shared, lane, poll, tested, amiss, calls>>

\* restore_previous_runtime
Undo(c) ==
  /\ Asked(c, "activate", "undo")
  /\ runtime' = IF ask[c].object \in {runtime.object, AnyObject} /\ ask[c].back # Nothing
                THEN Switched(ask[c].back) ELSE runtime
  /\ Done(c)
  /\ UNCHANGED <<prof, bundle, shared, lane, poll, tested, amiss, calls>>

-----------------------------------------------------------------------------
(***************************************************************************)
(* The publication: a chat profile is selected with a new bundle.          *)
(***************************************************************************)
\* transition_factory: the profile is frozen when the publication is prepared.
Prepare ==
  /\ lane.step = "idle" /\ bundle.newest < MaxVersions
  /\ calls < MaxChatCalls /\ calls' = calls + 1
  /\ \E p \in Profiles :
       /\ prof[p] # Nothing /\ prof[p].status = "ready"
       /\ lane' = [NoLane EXCEPT !.step = "built", !.p = p, !.frozen = prof[p]]
  /\ UNCHANGED <<prof, runtime, bundle, shared, ask, poll, tested, amiss>>

\* The build fails, the bundle is pinned, or the profile is no longer the same.
Refused ==
  /\ lane.step = "built"
  /\ lane' = NoLane
  /\ UNCHANGED <<prof, runtime, bundle, shared, ask, poll, tested, amiss, calls>>

\* transition: the profile is still the frozen one; what may have to be put
\* back is read, ...
BeginSelect ==
  /\ lane.step = "built" /\ ~bundle.pinned
  /\ prof[lane.p] = lane.frozen
  /\ lane' = [lane EXCEPT !.step = "select", !.old = runtime, !.selected = lane.frozen,
                          !.previous = [p \in ActiveRow |-> prof[p].status],
                          !.before = [rows |-> prof, bundle |-> bundle]]
  /\ amiss' = (amiss \/ Undoing)
  /\ UNCHANGED <<prof, runtime, bundle, shared, ask, poll, tested, calls>>

\* ... and the rows and the old runtime are switched, as by the owner.
Select ==
  /\ lane.step = "select"
  /\ prof' = Selected(prof, lane.p)
  /\ runtime' = Switched(Chat(lane.p, lane.frozen))
  /\ lane' = [lane EXCEPT !.step = "assign"]
  /\ amiss' = (amiss \/ prof[lane.p] # lane.frozen)
  /\ UNCHANGED <<bundle, shared, ask, poll, tested, calls>>

SelectFails ==
  /\ lane.step = "select"
  /\ runtime' = Switched(Chat(lane.p, lane.frozen))
  /\ lane' = [lane EXCEPT !.step = "unselect"]
  /\ UNCHANGED <<prof, bundle, shared, ask, poll, tested, amiss, calls>>

Unselect ==
  /\ lane.step = "unselect"
  /\ runtime' = Switched(lane.old.chat)
  /\ lane' = [NoLane EXCEPT !.step = "failed"]
  /\ UNCHANGED <<prof, bundle, shared, ask, poll, tested, amiss, calls>>

\* A new runtime takes the old one's place.
Assign ==
  /\ lane.step = "assign"
  /\ runtime' = [object |-> 1 - runtime.object, chat |-> Chat(lane.p, lane.frozen)]
  /\ lane' = [lane EXCEPT !.step = "pointer"]
  /\ UNCHANGED <<prof, bundle, shared, ask, poll, tested, amiss, calls>>

\* The pointer is written (BundleManager), ...
MovePointer ==
  /\ lane.step = "pointer"
  /\ bundle' = [bundle EXCEPT !.active = bundle.newest + 1, !.newest = bundle.newest + 1,
                              !.previous = bundle.active]
  /\ lane' = [lane EXCEPT !.step = "commit"]
  /\ UNCHANGED <<prof, runtime, shared, ask, poll, tested, amiss, calls>>

\* ... and the row of the state and the commit hook follow.
CommitPublication ==
  /\ lane.step = "commit"
  /\ lane' = [NoLane EXCEPT !.step = "publish"]
  /\ UNCHANGED <<prof, runtime, bundle, shared, ask, poll, tested, amiss, calls>>

\* If one of them fails, the bundle goes back before the rest does.
CommitPublicationFails ==
  /\ lane.step = "commit"
  /\ bundle' = lane.before.bundle
  /\ lane' = [lane EXCEPT !.step = "undo"]
  /\ UNCHANGED <<prof, runtime, shared, ask, poll, tested, amiss, calls>>

\* Any step up to the pointer may fail instead.
PublicationFails ==
  /\ lane.step \in {"assign", "pointer"}
  /\ lane' = [lane EXCEPT !.step = "undo"]
  /\ UNCHANGED <<prof, runtime, bundle, shared, ask, poll, tested, amiss, calls>>

\* The rows as they were, as far as they are still there.
Unselected(rows) ==
  [q \in Profiles |->
     IF rows[q] = Nothing THEN Nothing
     ELSE IF q = lane.p THEN [rows[q] EXCEPT !.active = lane.selected.active,
                                             !.status = lane.selected.status]
     ELSE IF q \in DOMAIN lane.previous THEN [rows[q] EXCEPT !.active = TRUE,
                                                            !.status = lane.previous[q]]
     ELSE rows[q]]

\* rollback_chat.  Its transaction may raise, and does if a third row is active
\* (the index over active rows); that is suppressed, and nothing more goes back.
UndoRows ==
  /\ lane.step = "undo"
  /\ \/ /\ Cardinality(ActiveIn(Unselected(prof))) <= 1
        /\ prof' = Unselected(prof)
        /\ lane' = [lane EXCEPT !.step = "restore"]
     \/ /\ prof' = prof
        /\ lane' = [NoLane EXCEPT !.step = "failed", !.stuck = TRUE]
  /\ UNCHANGED <<runtime, bundle, shared, ask, poll, tested, amiss, calls>>

\* Mutant: the rows go back, the runtime does not.
KeepRuntime ==
  /\ lane.step = "restore"
  /\ lane' = [NoLane EXCEPT !.step = "failed"]
  /\ UNCHANGED <<prof, runtime, bundle, shared, ask, poll, tested, amiss, calls>>

\* The old runtime takes its place again, with the chat it had.
RestoreRuntime ==
  /\ lane.step = "restore"
  /\ runtime' = lane.old
  /\ lane' = [NoLane EXCEPT !.step = "failed"]
  /\ UNCHANGED <<prof, bundle, shared, ask, poll, tested, amiss, calls>>

Forget ==
  /\ lane.step = "failed" /\ lane' = NoLane
  /\ UNCHANGED <<prof, runtime, bundle, shared, ask, poll, tested, amiss, calls>>

-----------------------------------------------------------------------------
(***************************************************************************)
(* The shared object: read, changed and put back.                          *)
(***************************************************************************)
Healthy == runtime.chat # Nothing /\ runtime.chat.model \in HealthyModels

\* publish_activation: the new runtime is polled first, ...
PublishHealth ==
  /\ lane.step = "publish"
  /\ lane' = [lane EXCEPT !.step = "writing", !.ready = Healthy]
  /\ UNCHANGED <<prof, runtime, bundle, shared, ask, poll, tested, amiss, calls>>

\* ... and the bundle it was called for is put into the object with the answer:
\* of what was read before, nothing that is modelled is kept.
PublishWrite ==
  /\ lane.step = "writing"
  /\ shared' = [index |-> bundle.newest, ready |-> lane.ready]
  /\ lane' = NoLane
  /\ UNCHANGED <<prof, runtime, bundle, ask, poll, tested, amiss, calls>>

\* poll_and_publish_provider_state: the runtime in place is polled, ...
PollHealth ==
  /\ poll.step = "idle" /\ runtime.chat # Nothing
  /\ poll' = [step |-> "polled", ready |-> Healthy, read |-> Nothing]
  /\ UNCHANGED <<prof, runtime, bundle, shared, ask, lane, tested, amiss, calls>>

PollRead ==
  /\ poll.step = "polled"
  /\ poll' = [poll EXCEPT !.step = "read", !.read = shared]
  /\ UNCHANGED <<prof, runtime, bundle, shared, ask, lane, tested, amiss, calls>>

\* Mutant: the object is put back as it was read, with an answer only if good.
PollWriteGood ==
  /\ poll.step = "read"
  /\ shared' = [poll.read EXCEPT !.ready = @ \/ poll.ready]
  /\ poll' = [step |-> "idle", ready |-> FALSE, read |-> Nothing]
  /\ UNCHANGED <<prof, runtime, bundle, ask, lane, tested, amiss, calls>>

\* ... and only the readiness of the object that was read is changed.
PollWrite ==
  /\ poll.step = "read"
  /\ shared' = [poll.read EXCEPT !.ready = poll.ready]
  /\ poll' = [step |-> "idle", ready |-> FALSE, read |-> Nothing]
  /\ UNCHANGED <<prof, runtime, bundle, ask, lane, tested, amiss, calls>>

\* The owner goes back to the previous bundle and pins it.
PinPrevious(c) ==
  /\ ask[c] = NoAsk /\ calls < MaxChatCalls /\ calls' = calls + 1
  /\ bundle.previous # 0 /\ ~Activating
  /\ bundle' = [bundle EXCEPT !.active = bundle.previous, !.previous = bundle.active, !.pinned = TRUE]
  /\ ask' = [ask EXCEPT ![c] = [NoAsk EXCEPT !.step = "read", !.kind = "pin", !.object = bundle'.active]]
  /\ UNCHANGED <<prof, runtime, shared, lane, poll, tested, amiss>>

\* The handler has no await between reading the object and putting it back.
PinPublished(c) ==
  /\ Asked(c, "pin", "read")
  /\ shared' = [shared EXCEPT !.index = ask[c].object]
  /\ Done(c)
  /\ UNCHANGED <<prof, runtime, bundle, lane, poll, tested, amiss, calls>>

\* A stop and a start: the active row's profile is served, all is published.
\* Before the first publication there may be no embedding model to serve it with.
RestartChat ==
  /\ \/ lane # NoLane \/ \E c \in Askers : ask[c] # NoAsk
  /\ \E chat \in {RowChat} \cup (IF bundle.active = 0 THEN {Nothing} ELSE {}) :
       runtime' = [object |-> 0, chat |-> chat]
  /\ ask' = [c \in Askers |-> NoAsk] /\ lane' = NoLane
  /\ shared' = [index |-> bundle.active, ready |-> FALSE]
  /\ poll' = [step |-> "idle", ready |-> FALSE, read |-> Nothing]
  /\ UNCHANGED <<prof, bundle, tested, amiss, calls>>

\* A profile is active and served with the first bundle, or none is and nothing
\* has been published.
ChatInit ==
  /\ \E p \in Profiles, m \in HealthyModels, other \in Models, published \in BOOLEAN :
       LET first == IF published THEN 1 ELSE 0
       IN /\ prof = [q \in Profiles |->
               IF q = p THEN [model |-> m, status |-> "ready", active |-> published]
               ELSE [model |-> other, status |-> IF other = m THEN "ready" ELSE "probe",
                     active |-> FALSE]]
          /\ runtime = [object |-> 0,
                        chat |-> IF published THEN [p |-> p, model |-> m] ELSE Nothing]
          /\ bundle = [active |-> first, previous |-> 0, newest |-> first, pinned |-> FALSE]
          /\ shared = [index |-> first, ready |-> FALSE]
          /\ tested = {m}
  /\ ask = [c \in Askers |-> NoAsk] /\ lane = NoLane
  /\ poll = [step |-> "idle", ready |-> FALSE, read |-> Nothing]
  /\ amiss = FALSE /\ calls = 0

OwnerStep(c) ==
  \/ AskChat(c) \/ UpdateProfile(c) \/ DeleteProfile(c) \/ ProbeProfile(c)
  \/ ActivateProfile(c) \/ CommitFails(c) \/ Undo(c) \/ PinPrevious(c) \/ PinPublished(c)
LaneStep ==
  \/ BeginSelect \/ Select \/ SelectFails \/ Unselect \/ Refused \/ Assign \/ MovePointer
  \/ PublicationFails \/ CommitPublication \/ CommitPublicationFails \/ UndoRows
  \/ RestoreRuntime \/ Forget \/ PublishHealth \/ PublishWrite
PollStep == PollHealth \/ PollRead \/ PollWrite

ChatNext == (\E c \in Askers : OwnerStep(c)) \/ Prepare \/ LaneStep \/ PollStep \/ RestartChat

\* Threads go on, and the poll comes round again and again.
ChatFairness ==
  /\ WF_chatVars(PollStep) /\ WF_chatVars(LaneStep)
  /\ \A c \in Askers : WF_chatVars(OwnerStep(c))

ChatSpec == ChatInit /\ [][ChatNext]_chatVars /\ ChatFairness

-----------------------------------------------------------------------------
(***************************************************************************)
(* Properties.                                                             *)
(***************************************************************************)
ChatTypeOK ==
  /\ prof \in [Profiles -> Row \cup {Nothing}]
  /\ Cardinality(ActiveRow) <= 1
  /\ runtime.object \in {0, 1}
  /\ shared \in [index : 0..MaxVersions, ready : BOOLEAN]
  /\ bundle.active \in 0..MaxVersions /\ bundle.newest \in 0..MaxVersions

\* Whatever is published is answered, and visitors are answered by the model of
\* the one active row, which has answered a probe, whatever commits failed and
\* were undone, publications failed and were rolled back, in full or not, and
\* restarts came between.  Two things are excepted, and go wrong: a write that
\* lands on a row changed since it was read, and one that lands while an
\* activation is being made or undone.
ChatServed ==
  /\ ChatTypeOK
  /\ ~Pending /\ ~amiss =>
       /\ bundle.active # 0 => runtime.chat # Nothing
       /\ runtime.chat # Nothing =>
            /\ \E p \in Profiles : ActiveRow = {p} /\ runtime.chat = Chat(p, prof[p])
            /\ runtime.chat.model \in tested

\* A publication that fails, before its commit or at it, leaves the bundle, all
\* rows with what they say, and the runtime in use with its chat as it found
\* them, if nobody else has touched them meanwhile.  When the transaction that
\* undoes the rows raises, rows and chat stay switched together: never one of
\* the two.
PublicationRestored ==
  lane.step # "failed" /\ lane'.step = "failed" /\ ~amiss =>
    /\ bundle' = lane.before.bundle
    /\ \/ prof' = lane.before.rows /\ runtime' = lane.old
       \/ /\ lane'.stuck
          /\ prof' = Selected(lane.before.rows, lane.p)
          /\ runtime'.chat \in {Chat(lane.p, lane.frozen)} \cup
               (IF lane.old.chat = Nothing THEN {Nothing} ELSE {})
FailedPublicationRestores == [][PublicationRestored]_chatVars

\* In the end visitors are told whether the provider in use, if any, answers,
\* in spite of what was put back by somebody else at the same time.
StatusConverges == <>[](runtime.chat # Nothing => shared.ready = Healthy)

\* docs/TECHNICAL_SPEC.md, FR-014: the public site shows the index status; when
\* nothing is under way the shared object names the bundle that is served.
StatusNamesServed ==
  (lane = NoLane /\ poll.step = "idle" /\ \A c \in Askers : ask[c] = NoAsk) =>
    shared.index = bundle.active
=============================================================================
