# RepoNPC: a TLA+ model of its runtime

RepoNPC serves a visitor chat about a portfolio of repositories. One Python process
(`src/src/reponpc`) holds an owner console, the durable batch analysis of GitHub
repositories, embedding and chat providers behind bounded permits, validated bundles
that are activated and rolled back, and a public visitor surface. Its difficulty is
not in any single function: it is in what request threads, executor threads, a second
process and a crash can do to one another between two durable writes. That is what
these modules describe.

1. [The system](#the-system): components, state, operations, hard behaviours
2. [The modules](#the-modules): what each models and how it corresponds to the code
3. [The runs](#the-runs): what TLC checks, the bounds, the fairness
4. [The proofs](#the-proofs)
5. [Deviations](#deviations): what the documentation promises and the code does not do
6. [What is not modelled, and the plan](#what-is-not-modelled-and-the-plan)

Commands: `tlc -workers 2 -config <cfg> <module>` for the runs in the table below,
`tlapm M.tla` for the proofs, with M one of `AnalysisBatchProofs`, `BundleManagerProofs`,
`EmbeddingSwitchProofs`, `SceneAppearanceProofs`, `LocalPublicationProofs`,
`VisitorGatewayProofs`, `VisitorAnswersProofs` and `TailscaleFunnelProofs`.

## The system

Paths are relative to `src/src/reponpc`. "Durable" is SQLite (`runtime/database.py`,
every transaction `BEGIN IMMEDIATE`) or a file replaced atomically.

| component | state | operations | interacts with |
|---|---|---|---|
| Analysis batches (`admin/batches.py`, `batch_runtime.py`, `batch_execution.py`) | durable rows of a batch and of its items; an analysis cache; one worker thread per active batch; an executor; a monitor | create, pause, resume, cancel, retry, recover; per item: claim, advance, reserve a generation, complete, fail, cancel, wait for a rate limit | permits (lane `admin_batch`), onboarding pipeline, GitHub |
| Batch resolver (`admin/batch_resolver.py`, `analysis_selection.py`) | shared GitHub rate state | discover, select, pin commits | GitHub; creates batches |
| Onboarding pipeline (`admin/onboarding.py`) | temporary files of one analysis | fetch, filter, index, embed, generate, validate, clean up | permits, providers |
| Provider permits and chat limits (`chat/limits.py`) | available permits, a waiting list, lane credits; rate windows, daily counters | acquire, release; check, reserve | chat, analyses |
| Bundles (`bundles/manager.py`, `cli.py`) | directories, `active.json`, the row `bundle_state`; in memory two handles, the pin and leases | activate, rollback, pin, unpin, acquire, release, cleanup, restore at start | coordinator's hooks; readers; the CLI is a second process |
| Embedding profiles and reindex (`admin/embedding_profiles.py`, `embedding_reindex.py`) | profile rows, a switch intent; one lane | probe, update, delete, queue, cancel, run, close, reconcile at start | bundle manager (hooks), runtime provider |
| Local portfolio draft (`admin/local_portfolio.py`) | `draft.json`, its lock | read, save | scene, publication |
| Local publication (`admin/local_publication.py`) | one job and its receipt `publication.json` | prepare, cancel, status, `_finished` | coordinator, manager, draft |
| Scene appearance (`admin/scene.py`) | row `scene_appearance_state` with a journal; private backups | scene_state, apply, recover, background reads | draft, manager |
| Application composition (`main.py`) | one immutable state object, replaced | start-up recovery, publication of provider states, the transition factory | everything |
| Provider runtime (`providers/runtime.py`), chat profiles (`admin/chat_profiles.py`) | current chat and embedding provider, health | swap, poll, activate | main |
| Chat service (`chat/service.py`, `answers.py`) | one request at a time, a lease, a permit | answer, cancel | limits, manager, provider |
| Reviewed FAQ (`admin/faq.py`) | rows with revisions, status and a stale flag | regenerate, edit, review, publish | provider, active bundle |
| Model operations and downloads (`admin/model_operations.py`, `providers/builtin_download.py`) | one operation; `.part` and final files | start, cancel, shutdown; stage, resume, publish | provider runtime |
| Authentication (`admin/auth.py`) | owner row, sessions, single-use grants | login, refresh, logout, recover | admin API |
| Maintenance (`admin/maintenance*.py`, `backup_*.py`) | the host's task and error; a preview in memory; the database and the bundle pointer; a private copy | inspect, verify, restore, reconcile; drain, stop, replace, undo, commit | every request, the lifespan in `main.py`, all durable state |
| Visitor gateway (`api/visitor_*.py`, `runtime/visitor_gateway.py`) | listener, settings row, threads of visitors | configure, start, stop, verify, shutdown | chat service, lifespan |
| Live chat through Tailscale (`tailscale/`) | a lock; the routes are Tailscale's | start, stop, status | the Tailscale CLI, the gateway, the pages' address |
| Sharing (`sharing/`) | Pages settings, verification result | configure, verify, export, README | active bundle |
| Indexing, retrieval, providers, cards, scene rendering, config | none, or a cache | pure data work, network input | |
| Web front end (`src/apps/web`), launcher, scripts | | views of the API | |

What is hard, and for which component:

* **Interleaving of threads over durable rows**: batches (claims, cancellations,
  restarts of the worker), an owner's edit against a reindex, a CLI in a second process.
* **Several stores that must agree**: pointer file / `bundle_state` / profile rows /
  provider in memory; draft file / appearance row; job in memory / receipt file.
  They are written one after the other, and each sequence can be cut by a crash or an
  exception anywhere.
* **Waiting and its end**: permits in three weighted lanes with time-outs; a batch
  whose end is computed by whichever thread settles the last item; four locks taken in
  different orders; a visitor's request whose thread outlives its connection.
* **What is served belongs to several owners**: a site assembled from a bundle, questions,
  an appearance and settings; a status object that three parties read and put back; a
  route that other programs change; a maintenance that must find everybody gone.
* **Late answers**: a provider's result after a cancellation, a probe's answer after
  its profile was frozen, a run's report after the next preparation was made.

What makes each component correct:

* batches: one thread per lease, no result lost or invented, a cancellation that wins,
  no generation sent again without the owner, and an end;
* permits: none given twice or idle beside a queue, no lane starved, none lost as long as
  callers of a lane give up in turn;
* bundles: what a reader leases stays open, nothing leaks, an operation that fails
  changes nothing, a restart serves what was served;
* the switch: the served bundle, the active profile and the provider always belong
  together, or are put back together;
* appearance: draft and row are a pair, a pending journal always leads back to one,
  no update is lost, no revision that applies issue names two images;
* publication: a job tells what its run did, and it ends;
* the visitor gateway: what the owner enabled is served or the status says why not, a
  verified report is of the listener that runs, a place belongs to a thread until it is
  through, and the services are closed only after the last one;
* chat profiles: what is published is answered, by the model of the active row, which was
  tested; a publication that fails puts bundle, rows and runtime back; the status converges
  to the truth;
* questions and pages: a visitor sees only what the owner has seen and approved, a site is
  of one moment, and what is called verified was really served;
* maintenance: both files or neither, nobody at work while they change, an outcome that is
  told as it happened, and an end; live chat leaves no route of its own behind.

## The modules

| module | models | proofs |
|---|---|---|
| `AnalysisBatch` | `admin/batch_runtime.py`, `admin/batches.py`, `admin/batch_execution.py`, the control of `admin/onboarding.py` | `AnalysisBatchProofs` |
| `BatchLifecycle` | what a batch promises its owner; abstract | |
| `AnalysisBatchRefinement` | `AnalysisBatch` implements `BatchLifecycle` | `AnalysisBatchProofs` |
| `ProviderPermits` | `_ProviderPermitScheduler` in `chat/limits.py` | `AnalysisBatchProofs` |
| `BundleManager` | `bundles/manager.py`, the pin commands of `cli.py` | `BundleManagerProofs` |
| `EmbeddingSwitch` | `admin/embedding_profiles.py`, `admin/embedding_reindex.py`, the switch of the provider in `main.py` | `EmbeddingSwitchProofs` |
| `SceneAppearance` | `apply` and recovery in `admin/scene.py`, the draft of `admin/local_portfolio.py` | `SceneAppearanceProofs` |
| `LocalPublication` | `admin/local_publication.py`, composed with the lane and the locks of the three modules before it | `LocalPublicationProofs` |
| `VisitorGateway` | `api/visitor_gateway.py`, `runtime/visitor_gateway.py`, `api/visitor_ingress.py`, the threads of `chat/service.py`, the end of the lifespan in `main.py` | `VisitorGatewayProofs` |
| `ReviewedFaq` | `admin/faq.py` | `VisitorAnswersProofs` |
| `PagesSharing` (extends `ReviewedFaq`) | `sharing/pages.py`, `sharing/export.py` | `VisitorAnswersProofs` |
| `ChatRuntime` | `admin/chat_profiles.py`, the transition of a publication, the health poll and the shared state object in `main.py`, `providers/runtime.py` | `VisitorAnswersProofs` |
| `MaintenanceHost` | `admin/maintenance.py`, `admin/maintenance_host.py`, the idle check and the lifespan's end in `main.py`, the lane of `admin/model_operations.py` | `TailscaleFunnelProofs` |
| `TailscaleFunnel` (extends `MaintenanceHost`) | `tailscale/service.py` and `state.py` | `TailscaleFunnelProofs` |

An `MC...` module gives the constants of a module their values for TLC.
`BundleManager`, `EmbeddingSwitch`, `SceneAppearance` and `LocalPublication` take a
constant `Scenarios`: each scenario says which disturbances may happen (a crash, an
edit, a cancellation, a write that raises, ...) and how often a call may raise. `Init`
chooses one, `env` keeps it, and so one run checks the same properties under several
environments; a property that holds only without one of the disturbances says so in
its premise (`~May("pin")`), and what the code does with it is under Deviations.

The rule for atomicity is the same everywhere: a SQLite transaction is one step; a file
replaced by `os.replace` is one step; what a thread does in memory between two of
those is part of the later one, unless another thread can observe or disturb it. A lock
that is held over several steps is a variable; one that is taken and released within a
step is a guard.

### AnalysisBatch

`batch`, `item`, `lease`, `gen`, `result`, `error` are columns of `analysis_batches`
and `analysis_batch_items`; `cached` is the analysis cache; `worker`, `futures`, `pc`
are the worker's loop, its count of futures and each item's executor thread; `wake` is
an owner's request that has committed and has not yet called `_start_worker`.
Every transition of an item goes through `UpdateItem`, as every one in the code goes
through `_update_item`: it diverts to "cancelled" when the batch is cancelling, refuses
when the budget or the attempts are used up, reserves a generation when the stage is
`generating`, releases the lease when the state is terminal, and closes the batch when
the last item is settled (`Finish`). The thread's polls of `cancelled()` are steps of
their own, since a cancellation may come after them.

Abstractions: one owner request is in flight at a time; the clock of an item's budget is
under, waiting in a queue, or over; `retry_at` is due or not; provider retries within
one generation are bounded by `MaxAttempts`; an expired cache entry disappears
nondeterministically at `Recover`. The branch `BATCH_LEASE_LOST` of `_update_item` is
left out because `LeaseHeld`, which is proved, says it is never taken. Left to a later
module: successor batches, a second active batch, expiry, the policy change at a retry.

### ProviderPermits

Each method of the scheduler holds its condition throughout, so `Acquire`, `Expire` and
`Release` are one step each; `Scheduled` is `_grant_available_locked`, run to its end, and
the waiters it grants belong to other threads. A non-blocking call is an `Acquire`
followed at once by `Expire`. Callers give up in any order, whatever lane they wait in:
deadlines are computed before the lock is taken, and a woken thread takes it when it can.
`Withdrawn` is `list.remove`, which compares by value: it takes the first entry of the
caller's lane, whoever waits on it, and the caller's own entry stays in the queue, owned
by `Nobody`. `jumped` is history: it says that somebody has given up before a caller of
its lane that came earlier. Until then no permit is lost; what may happen afterwards is
under Deviations, and what holds all the same is the first part of `PermitsConserved`.

### BundleManager

`dirs`, `pointer` and `saved` are the disk; `active`, `previous`, `pinned`, `handle` the
memory; `op` is the operation that holds the manager's lock, cut at its durable writes
so that a crash or an exception can come between them. `handle` records whether each
open index is retired and by whom it is leased; handles are recycled once closed. `trail` is history: the bundle last
served and the one served before it. The CLI's operations are atomic, and write the
disk of the server under its feet. All bundles here have the embedding the manager
expects; the hooks of `activate` are in EmbeddingSwitch.

### EmbeddingSwitch

`row` is `embedding_profiles`, `intent` the switch intent, `pointer` and `served` the
bundle on disk and in memory, `provider` the runtime's provider. Three threads act:
`owner` (queue), `editor` (a probe, an update or a deletion by another request), `lane`
(the run). A run's number names its bundle and its generation. `seen` abstracts the
optimistic check on `updated_at`: `<<thread, profile>>` is in it as long as the row is
as the thread has read it. `test` abstracts `last_probed_at`, `last_error` and the
observed identity. A deadline is a nondeterministic failure. In the registry's
`activate` the read and the write are one step, and `create` is left out. Restoring the
pointer on a roll back is one step here; BundleManager cuts it. What each transaction of
the registry does to the rows is an operator of its own (`Frozen`, `Unfrozen`, `Released`,
`Restored`, `Updated`, `Deleted`, `Activated`, `Probed`): the proofs reason about those.

Two premises say when the parts agree. `Undisturbed` excludes an owner's edit that passes its
check before the row is frozen, a rollback that raises, and, where two profiles have one
identity, a probe together with a crash; under Deviations is what the code does with each.
The identity of the provider agrees with that of the bundle (`ProviderMatchesBundle`) under
edits and such rollbacks too, but not after a restart, which takes the provider from
whatever the rows say.

### SceneAppearance

`draft` (a file) and `state`, `journal` (a row) are the two stores; `backups` the
private copies; `lock` and `guard` the portfolio's and the manager's lock; `client` the
steps of each owner's `apply`. A draft is its text, its character's revision and its
background. The store's own revision is a digest of the content, so it is the content
here. `save` stores what the owner has written, the revision too, which may go back,
repeat or run ahead of what applies have issued (`Revisions`); it keeps only the image.
A proposal is its background: what else it sets follows the same path.

`meant` and `shown` are history. `meant` is the draft as saves and committed applies make
it. A save over a pending journal does not count: the recovery puts the old draft back or
refuses. `shown` is what the public was shown: of each moment the revision and the
background, the bundle, and whether the row overlays it (`Exhibit`).

Recovery at the start of a method is the same as a reader's recovery just before it, so
`Restore` and `ClearJournal` are steps of whoever takes the lock. A COMMIT that raises may
have committed (`Finish` covers both). `Look` merges the reads of `scene_state`, which
holds the lock. The handler's branch that gives up is left out because `JournalRecovers`
shows that it is not reached in these scenarios.

### LocalPublication

`job` and `saved` are the job in memory and its receipt; `lane` the coordinator's run;
`call` each request thread; `lock` the four locks (job, coordinator, manager, draft).
`run` in a job is history: the run made for it. A reindex by activation has `made = 0`.
The failure of a hook after the activation counts as a success, as in the code. What an
activation does to the rows is in EmbeddingSwitch, to the files in BundleManager. A
constructor that cannot write what it makes of an interrupted receipt takes it for corrupt.

### VisitorGateway

`store` is the settings row: the owner's intent, the configured origins, and the origins
of the owner's report of an outside check. `server`, `accepting`, `started`, `error` are
the gateway's fields; `op` is the operation that holds its lock across an await. The
event loop runs from await to await without interruption, so an operation is one step up
to its await (`Start`, `Stop`, `Shutdown`) and one per outcome (`Listen`/`ListenFails`,
`Stopped`/`StopFails`, `Release`/`Exit`). `conn`, `late` are a chat request as its
connection sees it; `work`, `active`, `cancelled` the thread that answers it, its place in
`VisitorChatWorkers` and its event. A request that is over is used again, as a new one.
`left` marks the connections of a server that was given up: the next server does not wait
for them. `orphan` says that the port is held by a server the gateway has forgotten.
`witnessed` is history: the owner's report was made on the listener that runs now.

The uvicorn server is external: it reports that it has started or it fails, it may die,
and it returns from a stop when its connections are over (`Drained`) or is given up after
the grace. Left out: revisions (a request with a stale one changes nothing), two
configurations with different ports, progress and keepalive events, which of its
terminal events a visitor has seen, the boundary's route,
host and origin rules, and the daily charges of an answer. `Events` says what may go
wrong: the bind, the server, the process, a read of the settings.

### BatchLifecycle and AnalysisBatchRefinement

`BatchLifecycle` has only what the owner is shown: the batch's state, an outcome of each
item that is open until it has one, and the generations sent. Its `Progress` lets any
open items settle and closes the batch with their verdict; a cancelled batch only drains;
a retry opens unsuccessful items that have attempts left. The refinement hides leases,
threads, the worker, the cache and restarts: an item is "open" in every state that is not
terminal, and "confirm" when a restart left it to the owner.

### ReviewedFaq and PagesSharing

A request of the owner runs in a thread of its own and reads, asks the provider and
writes in several steps; `call` holds what it has read. A write names the revision its
owner has seen (`Current`). One question is modelled, in its own language and in a
derived one, whose row is a conversion of the first. `approved` is history: what was on
the screen when the owner approved. `PagesSharing` adds the requests about the pages,
which read the row, the origins, the bundle, the questions and the appearance one after
the other and check some of them again at the end; `served` is GitHub Pages, outside the
program, and `uploads` its history. A site that is built is a record of what was read;
two builds are equal when these are.

### ChatRuntime

`prof` are the rows, `runtime` the provider in use, `shared` the object visitors are
answered from: which bundle's index is up and whether the model is ready. Before the first
publication there is no runtime, and its chat is `Nothing`: there is nothing to switch, to
poll or to put back. `lane` is the publication, from the freeze of its chat profile to the
end of its run; its steps are cut where the code commits, switches or may raise. It may fail
before its rows are switched, at their commit, before the pointer is written, and at the
manager's own commit after that (`CommitPublicationFails`), where the bundle goes back
first. `UndoRows` is the transaction of `rollback_chat`, which may raise; the manager
suppresses that, and neither rows nor runtime go back (`stuck`). `before` and `old` in
`lane` are history, except that the runtime object and its chat are what `transition` itself
remembers.

`poll` reads and puts back `shared` in two steps, as `pin_previous_bundle` and the end of a
publication do. `ask` is a request of the owner, which has read its row a step before it
writes. `amiss` is history: a write landed on a row that had changed since it was read, or
while an activation was being made or undone. What comes of that is under Deviations. A
chat model that the settings name, with no profile, is left out.

### MaintenanceHost and TailscaleFunnel

`host.task` is where `MaintenanceHost._replace` stands: drain, precheck, the two halves
of the lifespan's end, and then the thread that runs the service's `_replace`, one step
per file or fallible call, its undo, the re-entry and the commit. `disk` has the two
files; a backup is a version and each file says whose it is. `caller` are the requests
the host has admitted; "verified" is one between `verify_restore` and `restore`, "stale"
one that has read the host in `reconcile_host` and not yet taken the lock. `host.closing`
is `_shutting_down`. A crash leaves the files. A backup may bring any address in its row.
A request that has verified a preview is back among the others once another is inspected:
its restore would be refused.

`TailscaleFunnel` adds the operation that holds the service's lock, one step per awaited
command. A command may fail with its effect or without. Meanwhile the owner's other
requests configure, start or stop the gateway and other clients take or free the port
(`Meddles`). One port is eligible. The gateway's own operations are one step each here;
VisitorGateway takes them apart. An operation is a request like any other, which a
maintenance has to wait for.

## The runs

| run | module | question | constants |
|---|---|---|---|
| `batch_safety` | `AnalysisBatchRefinement` | types; rows, leases and threads agree; a cancel is final; consent before a second dispatch; the lifecycle is implemented | 2 items, 2 slots, 2 attempts; failures, spent budgets, pauses, retries, restarts |
| `batch_ends` | `AnalysisBatch` | a cancelled batch settles, and a runnable one reaches an outcome if rate limits end | 2 items, 1 slot, 2 attempts; failures, rate limits, spent budgets, restarts |
| `permits_lanes` | `ProviderPermits` | no permit is given twice or idle beside a queue, none is lost while callers of a lane give up in turn, lanes are served fairly; waits end | 3 callers, 1 permit, weights 2/1/1 |
| `bundles_safety` | `BundleManager` | leases, retention, failed operations, pins, restarts | 3 bundles, 2 readers, up to 2 faults; crashes with and without pins, and the CLI |
| `switch_safety` | `EmbeddingSwitch` | bundle, rows and provider agree through failures, cancellations, crashes and edits | 2 runs, 1 fault; 3 profiles of 2 identities with crashes and cancellations; 2 profiles with probes too, or with a shutdown, edits and a rollback that raises |
| `scene_safety` | `SceneAppearance` | draft and row are a pair, journals recover, no lost update, no issued revision with two images | 2 owners, 2 images, 1 text, revisions 1 and 3, 2 applies, 3 bundles; crashes with builds, activations and 1 fault; saves with builds, or with activations |
| `publication_jobs` | `LocalPublication` | a job tells what its run did and ends; the four locks never deadlock | 2 clients, 2 profiles, 3 requests, 2 drafts |
| `gateway_lifecycle` | `VisitorGateway` | intent, listener and report agree; places follow threads; the services close last; every request ends | 2 requests, 1 place, 2 configurations, all events |
| `public_site` | `PagesSharing` | what is shown was reviewed, a site is of one moment, what is verified was served | 2 windows, 2 bundles, 1 text, 2 addresses, 3 revisions, 2 changes, 1 upload |
| `chat_selection` | `ChatRuntime` | what is published is answered by the active row's model, a failed publication restores, the status converges | 2 requests at a time, 3 in all, 2 profiles, 2 models, 2 bundles, the first of them published or not |
| `owner_restore` | `TailscaleFunnel` | both files or neither, nobody at work meanwhile, the outcome told is the one that happened, no route left behind; a maintenance ends | 2 requests, 1 backup, 2 events |
| `batch_lost_wakeup` | `AnalysisBatch` | finds one deviation (below) | 2 items, 1 slot |

A property checked in a run is often a conjunction of named parts: `RowsMatchThreads` is six
invariants of the rows and threads; `OwnerIsTold` is `ReportIsOfThisListener` and
`IntentIsServedOrShown`; `PairAgrees`, `RestoreIsWhole`, `ChatServed` and
`SiteIsOfOneMoment` include the types of their modules.

**Why the bounds are enough.** Two items and one or two slots give every pair of
(thread at work, item settled last), a worker that refills, and a drained executor; two
attempts are the least with which a generation can be sent again. Three callers let two
of one lane wait while another lane holds, and weights 2/1/1 let a round end with credit
left in one lane; with three, one of two callers of a lane can give up before the
earlier one while the third holds the permit, and the permit it leaves is then lost. In
`scene_safety` the owner may save the revision of the drafts the bundles were built of and
one that two applies reach, so that a save goes back, repeats and runs ahead. Three bundles are the least for an active, a previous and a third one
that is retired while leased; two readers can hold two different handles. Two runs of
the lane give a switch and a switch back, and two profiles with one identity are needed
for an activation without a reindex. Three requests of two clients give a preparation, its
cancellation and a second preparation. One or two faults allow a failure and a failure of its
rollback. Two requests over one place are the least for a place that is taken, given back
and taken by another, with a thread left over from an earlier listener; two configurations
are the least for a report that names the wrong one. In `public_site` a window works on
questions or on the pages, which is what bounds it: three revisions give an answer that is
generated, reworded and approved; one upload and two addresses give a site that is no longer
where it was verified; two changes let one come before and one after a read; the pages are
looked at once the questions are approved. In `chat_selection` three requests give an
activation, an edit and a probe in any order around a publication, and one of two models
does not answer. In `owner_restore` what fails, an end of the process, an operation of live
chat and a change by others are all events, of which there are two: a failure and a failure
of its undo, a start and a stop, an operation and whoever disturbs it, a failure and a
restart. With three events the safety properties hold as well (4,843,838 states);
the repeated run checks `MaintenanceEnds` too and stays at two. A command of Tailscale may always fail; that is not an event.

**Fairness.** `AnalysisBatch`: threads run while the process does, a restart runs
`recover()`, a retry time passes (`WF`); an item's thread has strong fairness, because
its next step may be disabled while it waits for a permit, and every permit it asks for
is granted or times out. Nothing is assumed of the owner, of failures or of crashes.
`ProviderPermits`: a provider call ends, since it has a deadline, and its permit is
released. `LocalPublication`: a thread that can go on does; requests are bounded, so
weak fairness suffices for a lock that is wanted. `VisitorGateway`: the event loop polls
every open stream; each call a thread makes has a deadline, so a thread takes its next
step or fails; a started server reports or fails within five seconds, a stopping one is
given up after the grace. `ChatRuntime`: threads go on, and the health poll comes round
again and again, as `provider_lifecycle` does; nothing is assumed of the owner.
`TailscaleFunnel`: only the host's own task goes on; no request or visitor is assumed to
leave, because the drain and the grace have an end. The other modules check safety only.

**Deadlock.** `CHECK_DEADLOCK FALSE` where the system may really stop: a terminal batch
with nothing left to ask, all applies or requests used up, all profiles deleted. In
`VisitorGateway` deadlock is checked. `MaintenanceHost` stops when its events are used up and the process is down or closed.
In `LocalPublication` circular waiting is checked by `NoCircularWait` instead.

## The proofs

TLC checks the instances above; TLAPS proves the following for every value of the
constants.

### AnalysisBatchProofs

`AnalysisBatchProofs` proves the safety of `AnalysisBatch` for every number of items,
executor slots and attempts and every set of events, from the named assumptions on the
constants only (the first three are positive numbers).

`RowsMatchThreads`, which `batch_safety` checks, is nearly inductive, and the invariant
of the proof is `Inv == TypeOK /\ RowsAgree /\ CountIsSafe`, where `RowsAgree` is
`RowsMatchThreads` without the worker's count. Each part is needed:

* that a live thread holds its lease (`LeaseHeld`) is kept by a claim because a
  claimable item is free, and by a restart because a restart leaves no thread;
* that a lease belongs to an active item or to one that was cancelled under its thread
  (`LeaseExplained`, `ThreadMatchesItem`) is what makes a claim, a retry and a cancel
  unable to meet a live thread, so that `OutcomeMatchesItems` survives late threads;
* `InterruptedWaits` carries the history of a cut-off generation to the owner's retry,
  and gives `ConsentBeforeResend`;
* `CountIsSafe` says that the worker's stale count of futures is never too small: a
  later worker starts only when no thread is alive. It gives `ExecutorBound`.

The proof has one lemma per group of actions (item thread, worker, owner, time, crash
and restart) and per part of the invariant; the transaction `UpdateItem` has its own
lemmas (`UpdateItemType`, `UpdateRows`), since all of an item's steps go through it. The
action properties (`CancelIsFinal`, `ConsentBeforeResend`, `CompletedIsKept`,
`PausedAdmitsNothing`) follow from the invariant and a lemma that says which of a step's
writes matter (`RunItemWrites`, `QuietSteps`).

`BatchImplementsLifecycle` proves `Spec => ImplementsLifecycle`: the initial states map to
one of the lifecycle, and each step to a step or a stutter, under `Inv` and one more
invariant, `QueuedIsIdle` (a batch that has not begun has no leased item: the lifecycle
counts an attempt only of a batch that runs or is paused). `FinishIsClosed` shows that the
code's closing of a batch is the lifecycle's.

**Permits.** `BoundedBypass` and `PermitsConserved` of `ProviderPermits`, for every number of
callers, every capacity and all weights, and in whatever order callers give up.

* The loop of `_grant_available_locked` grants at most once in a call (`LoopIsOne`), because
  a permit is available only while nobody waits (`NoneIdle`): a caller that joins an empty
  queue is the only one in it, and a release adds one permit. The loop is a recursive
  function, and its value after any number of turns takes an induction. The library's
  induction theorems cannot be instantiated here; `LeastNatural`, which follows from the
  well-foundedness of the finite subsets of `Nat`, takes their place.
* `LaneIsOwed` is the sum that makes fairness inductive. A lane without credit has been
  passed over at most as often as the others have lost credit in this round; a lane with
  credit keeps the round from being renewed, and only the lanes before it can still be
  served first. `BoundedBypass` itself says nothing of the credit left.
* `Capped` counts permits and holders in every order of give-ups: a permit granted to an
  entry whose caller has left is gone, so the sum only falls.
* `Queued` and `AllHeld` hold until the first caller jumps the queue (`jumped`): the queue
  holds exactly one entry of each caller that waits, under its lane, and no other, so the
  entry that `list.remove` takes, the first of the lane, is the caller's, and the sum stays
  the capacity. After a jump both fail (Deviations), and `PermitsConserved` says no more
  than `Capped` and `NoneIdle`.

### VisitorGatewayProofs

It proves every safety property of `gateway_lifecycle`, for every set of requests and of
configurations, every capacity and every set of events, from `CapacityAssumption`,
`NoneAssumption` and `EventsAssumption`. The invariant `Inv` adds three parts to the
properties themselves:

* `PlacesAgree` is `WorkersBounded` and the finiteness of `active`, without which nothing
  is known of the size of a set with one more or one less;
* `ServedIsIntended` relates the listener to the row in every state, also during an
  operation, where `IntentIsServedOrShown` is silent: only what is enabled accepts, what
  listens or is about to has the configured origins, and a server that starts has no
  report yet. `ReportIsOfThisListener` and `IntentIsServedOrShown` follow a step later;
* `GoneIsQuiet` says that a process on its way out accepts nothing and holds no place; with
  `PlacesAgree` it gives `ReleasedWhenIdle`.

The steps fall into four groups, which have a lemma each: the gateway's operations keep
the threads and their places (`OperationKeepsPlaces`, `OperationType`, `OperationServes`);
the end of a process and the next one (`ProcessInv`); what a visitor, the stream or a
deadline does, which moves no thread (`StreamInv`); and the two ends of a thread
(`AdmitInv`, `ThreadInv`), which take and give back exactly one place.

### TailscaleFunnelProofs

It proves every safety property of `owner_restore`, for every set of requests and every
number of backups and events, from `CallersAssumption` and `MaintenanceBoundsAssumption`.
The invariant has a half for the host and one for live chat, and they meet in one place.

* `NobodyLeft` says, for each point of the host's task, who may still be at work: after
  the drain no request, after the precheck no download, after the listener is closed and
  the threads are waited for no visitor. Each line is what keeps the next one true while
  the task waits, and the last ones are `SwapIsQuiet`.
* `FilesKnown` says whose each file is at each point, and that a copy of the old database
  is there whenever an undo may need it; `RestoreIsWhole` is its first line. The undo is
  right because `Before` fixes the version the task has set out from.
* `ErrorKnown` carries the reason through the second start, where `OutcomeIsTold` needs it.
* `FunnelKnown` is what an open operation of live chat relies on across its awaits: its
  request is admitted, so the host's task still waits and no restart has happened
  (`HostKeepsOperation`); what it created, saw and told; and that, if the row's revision
  is still the one it wrote, nothing listens and the addresses are those it read.

The gateway's changes and live chat leave the host's task alone (`HostFrame`), so each
half is proved for its own steps, and once more for the steps of the other.

### BundleManagerProofs

`HandlesFollowLeases`, `ServedIsRetained`, `PinHolds` and `AbortRestoresService`, for every
number of bundles and readers, every number of retained bundles of at least two, and every
set of scenarios, so whatever stops, raises or is pinned; and `ServiceSurvives`, under the
assumption on the scenarios below. `Inv` adds four facts to the
types and to what the properties say of the served handles:

* `OperationKnown`: what an operation relies on from its first step to its last. Its handle
  is open, not retired, nobody's and leased by nobody; the handles it must put back are
  open and retained, and are not those of the bundle it would remove. Without this an
  operation that fails could remove the directory of what it restores.
* `OpenIsHeld`: an open handle is served, kept, the operation's, or retired and leased;
  between operations this is that no handle leaks.
* `DownIsEmpty`: a stopped process holds nothing, so a restart starts from the files alone.
* `PinKnown`: without the CLI, memory and row agree on the pin and no activation is under
  way while one is recorded; `PinHolds` follows from it in one step.

`FreeExists` is the counting argument that a new handle never needs the number of one in
use (the readers' handles, the active and the previous one are fewer than `Handles`); the
`Keeps` lemmas say what retiring, closing and forgetting handles leave alone.

`RestartServes`, the other half of `ServiceSurvives`, is about the disk: a restart takes
the pointer if its directory is there, else the row. Neither is right by itself at every
step. `Recorded` says which one is: while an activation has written the pointer and not
put it back, the pointer names its bundle, which is on the disk; otherwise the pointer
names what is served, or it was unlinked and the row does. `PointerFound` adds that the
row is not behind when the pointer is gone; that holds only while the failures are few, so
`ServiceAlwaysSurvives` assumes `FewFaults`: at most two calls raise in a scenario, and no
crash comes after a pin of the CLI. The scenarios of `bundles_safety` satisfy it, and the
bound of two is exact: if the commit hook raises, and the write that puts the row back, and
the write that puts the pointer back, the pointer is unlinked while the row names the
candidate that is removed, and a restart serves nothing (TLC finds it with `faults |-> 3`).
`ServingRetained` and `FoundIsRestored` carry the argument; each action has a lemma
`...Recorded`.

### EmbeddingSwitchProofs

`RegistryServes`, `CancelWins`, `FailedLeavesPrior` and `ReindexSettles`, for every number of
profiles, identities and runs and for every set of scenarios. `RegistryServes` is not
inductive: it speaks of the times at which no switch is under way, and a switch reaches
the next of them over a dozen steps, at each of which a call may raise, the owner may cancel
and the process may end. `IInv` says what holds at each of those. Whatever happens:

* `Types`, and `SeenAgrees`: a thread that still finds `updated_at` as it was has read the
  row as it is; the rows between `queue`'s check and its activation included.
* `BundleIsNew`: the bundle of a run is neither served nor pointed to before its run has
  passed `before_commit`, which no accepted cancellation lets pass (`CancelWins`).
* `ReindexingIsLane`: a row that says "reindexing" is the row of the lane's run, or the
  process is down and `recover_interrupted_reindexes` comes first (`ReindexSettles`).
* `Places`: at which step of a switch the pointer, the served bundle and the provider are
  those of before and at which those of the run, forth and back.
* `ProviderFollows`: without a crash the provider embeds as the served bundle was built;
  `activate` cannot break it, since it takes over profiles of the bundle's identity only.

Without what `Undisturbed` excludes, `ServiceAgrees` adds the rows: at rest one probed
profile of the bundle's identity is active (`Serving`), inside a switch the new profile is
and the intent names the one before it (`Turning`; if the run rebuilds the active profile,
that one stays: `Refreshing`), a run that
failed has put back what it found (`PriorServes`), and once the process is down the rows and
the intent still lead `reconcile_active_bundle` to a profile of the pointer's bundle
(`Recoverable`). `Untouchable` says that without edits a profile keeps its identity, and
that what is active, frozen or named by the intent has been tested. The proof goes action by action, each through a lemma on
the operator of its transaction (`FlipAgrees`, `CommitAgrees`, `UndoAgrees`, `AsideAgrees`
for a refusal, `CrashAgrees`, `RestartAgrees`, ...).

`Recoverable` is where the attempt first failed: with probes, crashes and two profiles of
one identity it is not kept, and TLC then found the run under `RestartKeepsProfile` below.

### SceneAppearanceProofs

The safety of `SceneAppearance`, for every number of owners, images, texts, applies and
bundles and every set of scenarios. The draft that counts, `Settled`, is the draft, or the
old draft of a pending journal; it changes at a commit and at a save and nowhere else.
`Inv` says what each party knows of it:

* `ApplyKnown`: from its backup to its commit an apply replaces what its owner has seen,
  `seen.draft = Settled`, and its revision is larger than any the row has issued. The lock
  keeps this: whoever does not hold it waits (`OthersWait`). `NoUpdateIsLost` and `PairsAgree`
  follow at the commit;
* `LeaseKnown`: a snapshot read before the lock is of the bundle it names, if nothing has
  been issued since, which is what the conflict check of `apply` establishes;
* `WritesKnown`, `JournalKnown`: how far the writes have come, and that a pending journal
  names the row as it is and a backup that is still there, so that it leads back.

`Kept` says that `Settled` is `meant`, which is `PairAgrees`. It needs nothing of revisions:
an owner may save any. `RevisionsNameOne` has an invariant of its own over what was shown.
A revision that the row overlays was issued by an apply, once, and applies issue increasing
ones (`Latest`); the row's is higher than that of the bundle it overlays (`RevisionsKnown`),
and a bundle's own revision and background do not change, so within a bundle no two views
share a revision (`ShownKnown`).

`JournalsRecover` has a hypothesis, `Uninterrupted("save")`: no scenario has both a save and a
crash or a fault. A save does not recover, and Deviations tells what happens then. The
other theorems of the module have none.

### LocalPublicationProofs

`NoCircularWait` and `JobTellsTruth`, for every number of request threads, profiles,
requests and saves and every set of scenarios, so through crashes and failing writes.

* `LocksHeld` says which locks a thread holds at each of its program points (`Holds`). With
  it `NoCircle` rules out a circle of waiting threads. No member of one holds the manager's
  lock: only the lane waits while it does, for the coordinator's, whose other holder is an
  activation and wants the manager's only as long as the lane has no run. So none holds the
  coordinator's or the draft's lock, since who does waits for the manager's at most, and so
  none holds the job's, and there is nobody to wait for.
* `LaneKnown`: a run made for a job is the job's until it has reported its outcome; job and
  receipt agree meanwhile. `RequestsKnown` says the same of a request before its run exists.
* `RunsCounted`: every run was asked for by a request of its own. It bounds the numbers of
  runs, and it makes a run's number name one bundle.
* `Receipts` (`Tells`) is what a job says, of the job in memory and of its receipt alike, so
  that it survives a restart, which replaces the one by the other.

### VisitorAnswersProofs

**What visitors are shown.** `ShownWasReviewed` of the questions by themselves (`FaqShowsReviewed`) and with the pages
(`ShowsReviewed`), `SiteIsOfOneMoment` and `VerifiedWasServed`, for every number of windows,
bundles, answers, addresses, revisions, changes and uploads.

* `RowKnown`: what a row holds was drawn from its bundle, and is what the owner approved if
  the row says so. `CallKnown` is the argument about revisions: a request that still finds
  the revision it was made for has been shown the row as it is, because every change of a
  row raises its revision.
* `JobKnown` says what a request about the pages has read so far. The appearance's revision
  only grows, so if it is the same before and after the questions were read, the appearance
  was the same all the while, and `OfBundle` says that the questions are the bundle's.
* `ServedIsUploaded` and the history `uploads` carry what was seen on the page to the moment
  its verification is recorded.

**Who answers them.** `ChatServed` and `FailedPublicationRestores`, for every finite set of
profiles and every number of requests, models and bundles. The types hold always; the rest
of `ChatInv`, `Known`,
holds as long as no write has landed where `ChatServed` excepts it (`amiss`).

* `Sound`: one row is active, and what is active or may be activated has answered a probe.
* `Serves`, `Founded`: the runtime, if there is one, has the active row's chat, and there is
  one as soon as a bundle is published.
* `UndoKnown`: a request whose commit failed is the only one to undo a switch, nothing is
  being published meanwhile, and it knows the object it switched and the chat to put back.
* `BeforeKnown`, `Reached`, `LaneKnown`: a publication remembers the rows, the bundle and the
  runtime it has begun with, and at each of its points the three are those, or switched as
  far as it has come. `UnselectedIsBefore` shows that the rollback's two updates undo the
  selection's two, which is what lets the rollback pass the unique index over active rows.
  If its transaction raises all the same, rows and chat stay switched together, and `Sound`
  and `Serves` hold for the new profile as for any other.

`SelectedRows` and `RewrittenRows` say what the updates do to the rows, and `LaneMoves` what
a step of the publication does to the lane; the steps' proofs cite only these.

### What is only model-checked

All liveness (`BatchEnds`, `WaitEnds`, `PreparationEnds`, `RequestEnds`,
`StatusConverges`, `MaintenanceEnds`), which is out of the prover's reach. Every invariant
and every action property that a passing run checks is proved. `LeaseHeld`,
`ExecutorBound` and `CompletedIsKept` of `AnalysisBatch` are proved only.

## Deviations

The repository's documents, comments, tests and messages to the owner promise things
that the code does not do in some interleavings. Each is stated as a property of its
module and violated by the model. One is a run; for the others, check the named
property with the constants of the module's safety run, the scenario (or `Events`) given,
and without the premise that excludes it where it has one.

**AnalysisBatch**

* `RunningIsServed` (run `batch_lost_wakeup`). _start_worker returns at once while the
  batch's worker thread is_alive() (batches.py:496), but a worker that has read the batch
  as paused has already left its loop and only waits for its executor to drain
  (batches.py:543-544, 533). A resume that arrives in between commits state running and
  starts nobody: the queued items stay unclaimed until another request or a restart.
  docs/TECHNICAL_SPEC.md:102 (FR-033) says: 'Guided analysis MUST run as a durable,
  owner-scoped, idempotent batch with ... pause/resume/cancel/retry/restart recovery'.
* `CancelledKeepsNoResult` (`Events = {}`). When a cancellation commits between the
  worker's last poll and complete_item, _update_item turns the state into cancelled but
  still writes the provider's result_json (batch_runtime.py:1995).
  docs/ACCEPTANCE_CRITERIA.md:610 says: 'cancelled/in-flight provider output is
  discarded'.
* `NeverResubmitted` (`Events = {"restart"}`, `MaxAttempts = 2`). recover_after_restart
  asks for a retry confirmation only for items in generating or validating
  (batch_runtime.py:1685-1690); an item cut off in cleaning_up, whose generation was
  dispatched, goes back to queued and, unless its result reached the cache, is generated
  again without the owner. docs/TECHNICAL_SPEC.md:1480 says: 'Any item interrupted after
  provider generation dispatch becomes `needs_retry_confirmation` and is never
  automatically resubmitted.'
* `CancelSettles` (`FairSpec`, `Events = {"rate_limit", "timeout"}`).
  advance_item('waiting_rate_limit') is called inside the except clause of _run_item
  (batches.py:594). If the item's budget is spent it raises ANALYSIS_TIMEOUT, which no
  handler catches: the thread ends and the item stays leased in its stage, so a
  cancellation never completes until a restart. docs/TECHNICAL_SPEC.md:1479 says:
  'Cancellation/restart propagates to every stage'.
* `CancellationReleasesLease` (`Events = {"restart"}`). The comment at
  batch_runtime.py:2031 says 'The durable cancellation has already released the lease.',
  but lines 1998-1999 keep lease_id for an intercepted transition that is not terminal. If
  the process stops before the thread's own cancel_item, recover_after_restart writes
  resume_state = 'cancelled', which the CHECK of analysis_batch_items
  (runtime/database.py:935) rejects: startup recovery aborts and runtime storage is
  disabled (main.py:702-704).

**ProviderPermits**

* `RejectionLeavesNoStaleWaiter` (an invariant of `permits_lanes`). A caller whose
  deadline passes removes its entry with self._waiters.remove(waiter), but _ProviderWaiter
  is a dataclass compared by value (limits.py:61-64), so the first entry of the same lane
  is removed, which may be an earlier caller's. That caller is never granted, and the
  entry of the one that left is: its permit is lost for good.
  tests/unit/test_chat_limit_scheduler.py:127 states
  'test_nonblocking_rejection_leaves_no_stale_waiter' (it only tries a queue without a
  second waiter of the lane); limits.py:44 says 'A concurrency permit that is released on
  completion or cancellation.'

**BundleManager**

* `PreviousIsLastServed` (events `{"crash"}`). After a crash between the pointer write and
  _persist_state the restarted manager takes the pointer as active but tries
  state.previous_bundle_id before state.active_bundle_id for previous
  (manager.py:422-426): the bundle served until the crash is neither, a roll back goes one
  bundle too far, and the next activation cleans it up. docs/TECHNICAL_SPEC.md:1421 says:
  'Keep the current and previous validated bundles; clean older bundles only after the new
  bundle serves successfully.'
* `LeasedFilesExist` (one reader, no events). _cleanup_unreferenced protects the active,
  previous and pinned bundles but not those a reader still leases (manager.py:486-500), so
  a request that spans two activations loses the public directory acquire_snapshot gave
  it. manager.py:99 says: 'Capture immutable identity and public files with the reader
  lease.'; docs/TECHNICAL_SPEC.md:1570 says: 'In-flight requests retain their opened
  bundle handle'.
* `PinHolds` (events `{"cli"}`, without the premise `~May("cli")`). docs/OPERATIONS.md:461
  has the owner run 'docker compose exec app reponpc bundle pin <bundle-id>' in the
  running container, but the server checks and re-persists only its own _pinned, read at
  construction (manager.py:79, 146, 472): its next activation switches away from the
  pinned bundle and erases the pin. docs/OPERATIONS.md says: 'Unpinning clears the pin so
  another verified local bundle can be activated.'
* `RestartServes` (events `{"pin", "crash"}`, without the premise `~May("pin")`). If the
  process stops between pin's pointer write and _persist_state while another bundle is
  pinned, the restart serves the pinned bundle and leaves the pointer; once the pin is
  cleared, the next restart prefers the pointer (manager.py:410) and serves a bundle that
  was not active. manager.py:399 says: 'Reopen validated active/previous handles after a
  process restart.'

**EmbeddingSwitch**

* `ActiveIsKept` (events `{"edit"}`). update and delete check that the profile is neither
  active nor reindexing and then write WHERE profile_id only
  (embedding_profiles.py:360-403): a request that has checked before queue freezes or
  activates the profile writes after it, and the active profile gets another identity and
  the status reindex_required while its bundle is served. docs/TECHNICAL_SPEC.md:435 says:
  'A profile cannot be deleted or disabled while it is the only valid active profile.'
* `FrozenStaysFrozen` (events `{"probe"}`). update and delete refuse a profile that is
  being reindexed, probe does not: a probe read after begin_reindex stores
  reindex_required (or probe_failed) over reindexing (embedding_profiles.py:432-468),
  activate_reindexed then finds the row stale, the finished build is thrown away and
  fail_reindex records nothing. embedding_profiles.py:493 says: 'Freeze one successfully
  probed candidate and durably start a generation.'
* `RestartKeepsProfile` (events `{"crash"}`, three profiles). activate, the switch to a
  profile compatible with the served bundle, does not set bundle_id
  (embedding_profiles.py:820-824), so the next switch records no from_bundle_id. If the
  process stops between activate_reindexed and the pointer write, reconcile_active_bundle
  does not recognise the intent's profile and selects another of the same identity, and
  with it another connection. docs/TECHNICAL_SPEC.md:437 says: 'RepoNPC MUST NOT silently
  select another profile/provider/model.' With a probe before the crash (events `{"crash",
  "probe"}`, three profiles, three runs; `ServiceMatchesRegistry` without the premise
  `Undisturbed`) nobody is selected: the profile to which the bundle belongs by its row has
  lost it to a run that was rolled back (embedding_profiles.py:652-656), the one that was
  active until the last switch has never had one, and a probe of it within that switch
  writes probe_failed over its last_known_good (432-468). reconcile_active_bundle finds no row and returns
  (760-761), the old bundle is served, and questions go to the provider of the new profile,
  which embeds otherwise.
* `IntentSettled` (events `{"crash"}`). After a crash in the first switch there is no
  bundle to reconcile with, and reconcile_active_bundle returns before it deletes the
  intent (embedding_profiles.py:715-725); backups are refused as RESTORE_WORK_PENDING
  (admin/backup_resources.py:160) and the profile cannot be deleted until another switch
  succeeds. tests/integration/test_embedding_reindex.py:577
  (test_restart_repairs_crash_before_pointer_swap_from_durable_intent) states: 'assert
  intent_count == 0'.
* `FailedLeavesPrior` (events `{"norollback"}`, one fault, without the premise
  `Undisturbed`; `ServiceMatchesRegistry` falls with it). _run_rollback suppresses what
  the rollback hooks raise (manager.py:513). If the registry's rollback transaction fails,
  the rows keep naming the new profile as active, fail_reindex passes it over because it
  is active, and the old bundle is served under another profile until a restart.
  docs/TECHNICAL_SPEC.md:437 says: 'Failed, cancelled, or timed-out reindex work MUST
  clean staging and leave the prior state active.'

**SceneAppearance**

* `JournalRecovers` (events `{"crash", "save"}`). LocalPortfolioStore.save takes the lock
  but does not recover (local_portfolio.py:424-440). If the process stops with a journal
  pending (or a recovery fails) and the owner saves before anything reads the appearance,
  the draft is neither the old nor the new one and _recover_unlocked raises
  SCENE_RECOVERY_FAILED for good (scene.py:904): every later apply and every public
  profile read fails. docs/A5_VISITOR_APPEARANCE_EXPORT_CONTRACT.md says: 'Recover under
  the same lock before reads/writes.'
* `RevNamesOneBackground` (events `{"save", "build"}`, without its restriction to one bundle
  or to applies). The owner's save stores any character.revision and keeps the applied image
  (local_portfolio.py:408-441), and a full build publishes both as they are
  (local_publication.py:149-180): apply an image, save revision 1, build, apply another
  image, save revision 1 again and build, and two bundles show revision 1 with two images.
  docs/A5_VISITOR_APPEARANCE_EXPORT_CONTRACT.md:193 says: 'Subsequent full builds must not
  reuse a revision for different image bytes.'
* `RevNamesOneBackground` (events `{"crash", "build"}`, without the same restriction).
  LocalPublication.prepare reads the draft without recovering (local_publication.py:322),
  so a build after a crash can publish the new draft of an apply that recovery then rolls
  back; issuance does not know its revision (scene.py:321-328) and the next apply issues it
  again for another image. docs/A5_VISITOR_APPEARANCE_EXPORT_CONTRACT.md says: 'A monotonic
  appearance issuance counter prevents a reused `rev` from naming different background
  bytes.'

**LocalPublication**

* `PreparingIsServed` (events `{"receipt"}`, one fault, without the premise). prepare sets
  the job to preparing and then persists the receipt outside the try
  (local_publication.py:338-348): if that write raises, the request fails, nothing is
  queued and the job stays preparing, so every later prepare is refused as PORTFOLIO_BUSY
  and cancel finds no run. apps/web/src/features/admin/LocalPublishingWorkspace.tsx:133
  tells the owner: 'Preparation is already running. Wait for the status below to finish,
  or cancel preparation before retrying.'
* `PreparingIsServed` (events `{"row"}`, one fault, without the premise). When a run
  fails, _run calls fail_reindex first and on_finished after it
  (embedding_reindex.py:387-395): if the row cannot be written the job is not told, and
  the publication stays preparing with its run gone until a restart.
  docs/LOCAL_PUBLICATION_CONTRACT_2026-09-22.md:18 says: 'GET
  `/api/admin/portfolio/status` recovers progress'; LocalPublishingWorkspace.tsx:133 says:
  'Wait for the status below to finish, or cancel preparation before retrying.'
* `ReadyNamesItsBuild` (events `{"outcome"}`, one fault, without the premise). _finished
  updates whatever job is current. When its write raises after an activation, memory says
  ready and _run calls it once more (embedding_reindex.py:355-358, 384-385); a preparation
  of a newer revision that has come in between (and was refused) is then called ready with
  the bundle of the older revision, and status answers draft_changed false.
  LocalPublishingWorkspace.tsx:608 tells the owner of that case: 'The local draft changed,
  but it has not been applied to the current visitor version.'
* `InterruptedLeavesActive` (events `{"crash"}`). If the process stops after the bundle
  pointer was written and before _finished has persisted, the restart calls the job failed
  with EMBEDDING_REINDEX_INTERRUPTED (local_publication.py:292-296) although its bundle is
  the one served. LocalPublishingWorkspace.tsx:604 says of a failed job: 'This preparation
  did not complete; the current visitor version is unchanged.';
  docs/LOCAL_PUBLICATION_CONTRACT_2026-09-22.md:18 says: 'Process interruption becomes a
  recoverable failed job, never successful activation.'
* `RefusedOnlyWhileRunning` (no events). A job's end is reported before its run's future
  is done (embedding_reindex.py:354-358, 396-401), and queue refuses while any future is
  not done (186-191): a preparation in between is refused as EMBEDDING_REINDEX_ACTIVE, and
  the job that was ready is replaced by one that failed. LocalPublishingWorkspace.tsx:133
  says of that code: 'Preparation is already running. Wait for the status below to finish,
  or cancel preparation before retrying.'

**VisitorGateway**

* `StopClosesListener` (`Events = {"settings"}`). When the settings cannot be read,
  snapshot sets _accepting to False and leaves the server running
  (visitor_gateway.py:90-96). The status then says that the listener is down; a start does
  not find it ready, tries to bind the port it holds, fails, and _cleanup_start_failure
  forgets the server (211-215, 343-362). A stop then reports success at once while the old
  server still listens, and every later start fails until the process ends.
  docs/A1_FUNNEL_GATEWAY_CONTRACT.md says: 'Stop immediately rejects new admissions,
  signals cancellation to all gateway chat workers, closes the listener'.

**ChatRuntime**

* `StatusNamesServed` (an invariant of `chat_selection`). The health poll reads the shared
  state object, and puts it back with the readiness it found (main.py:322-328), and so
  does the end of a publication (main.py:1423-1431) and the owner's request to pin the
  previous bundle (api/admin.py:843): the later of two writes restores the other's older
  bundle and index status, which stay until the next activation. docs/TECHNICAL_SPEC.md:50
  (FR-014) says: 'The public site MUST show ... index/model status'.
* `ChatServed` (without the history `amiss`). update and delete check that a profile is
  not active, and probe reads it before it asks the provider; each then writes WHERE
  profile_id only (chat_profiles.py:174-203, 241-261). A write that lands after an
  activation changes or deletes the active row, or calls a model ready that was never
  asked. The code's own name for what the check refuses is CHAT_PROFILE_ACTIVE_IMMUTABLE.
* `ChatServed` (without the history `amiss`). activate puts its new runtime in use inside
  its transaction and undoes it after a failed COMMIT (chat_profiles.py:297-306, 335);
  another activation in between is undone with it. The rollback of a publication writes
  the rows it remembers (270-283) over an activation made meanwhile and meets the unique
  index on the active row, or resurrects the choice of a profile that was deleted.

* `FailedPublicationRestores` (without its clause for `stuck`). What the rollback of a
  publication raises is suppressed (manager.py:513). If the transaction of rollback_chat
  raises (chat_profiles.py:261-273), the bundle goes back, but the rows keep the new profile
  as the active one and visitors are answered by its model, by a publication that is
  reported as failed. LocalPublishingWorkspace.tsx:604 then tells the owner: 'This
  preparation did not complete; the current visitor version is unchanged.'

**MaintenanceHost**

* `RestoreIsWhole` (without the history `torn`). When a restore fails after the database
  was replaced, the except clause of _replace puts back the database and then the pointer
  (maintenance.py:374-381). If one of these fails, it raises like any other failure, and
  the host takes the files for restored: it reports MAINTENANCE_REPLACEMENT_FAILED and
  serves an application over a database and a pointer of two backups
  (maintenance_host.py:145-154). docs/TECHNICAL_SPEC.md:1164 says: 'Failure preserves or
  restores the old database and pointer; an unsafe stop or failed rollback keeps
  maintenance closed.'
* `RestoreIsWhole` (without the history `torn`). If the process stops between the
  replacement of the database and that of the pointer, nothing on disk tells the next
  process that a restore was under way; it serves the restored database with the old
  pointer's bundle, which the manager prefers, and the private directory with the only
  copy of the old database is left behind unnamed. docs/TECHNICAL_SPEC.md:1164 says:
  'Failure preserves or restores the old database and pointer'.

Smaller ones that no document speaks of:

* If the first publication is rolled back there is no runtime again, but a poll that read the
  new one meanwhile may have called the model ready; later polls find no runtime and return
  early (main.py:314-316), so the status stays. `StatusConverges` speaks of a runtime in use.
* A retry of a batch right after it ended meets the same worker that is about to leave as a
  resume does (`RunningIsServed`).
* `reconcile_host` reads the host before it takes the service's lock
  (maintenance.py:134-137). If another request schedules a restore in between, its flag is
  cleared, the stopping application discards the preview, and that restore fails; both files
  stay as they were.
* A stop of live chat forgets the saved addresses although Tailscale was offline and the
  route could not be seen (tailscale/service.py:247-261); the comment there says "Only after
  the route is confirmed off", a test wants what the code does, and so `FunnelTold` speaks
  only of a route that was seen.
* A start of live chat whose gateway was up returns success with the gateway as it was
  before the commands ran; an owner's stop in between is not seen in it (195-224).
* A failed verification of an old address clears the result of a later one that succeeded
  (sharing/pages.py:228).

## What is not modelled, and the plan

Not modelled on purpose: parsing and validation of requests, configuration and archives;
the content of prompts, answers, passages, cards and images; ranking in floating point;
HTTP adapters; the platform launcher; packaging; legacy code. `PROJECT.json` lists every
component with its reason. A large part of the code is of this kind: `api/admin.py` alone
has four thousand lines of handlers that parse a request and call one operation, which is
an action of that operation's module here.

### Modules to come

1. `BatchAdmission`: idempotent `create_batch`, successors after a retry, previews and the
   GitHub rate state; composed with `AnalysisBatch`. `ExecutionBudget`: the clock
   arithmetic behind under, queueing, over.
2. `ModelDownload` (`providers/builtin_download.py`): resume of a `.part`, publication of
   the file against a cancellation; the lane around it is in `MaintenanceHost`.
3. `ChatLimits` (`chat/limits.py`): the rate window and the daily charges at a
   boundary of the day; composed with `VisitorGateway`.
4. `Migrations`: a migration chain that stops halfway. Sessions: refresh and epochs.
5. Pure algorithms: the chunker and reciprocal rank fusion against a reference definition.

### Theorems to come

A refinement: the switch of `EmbeddingSwitch` as one step of an abstract service that is
served by one profile at a time.
