---------------------------- MODULE AnalysisBatch ----------------------------
(***************************************************************************)
(* One durable analysis batch: the SQLite rows of BatchRuntimeStore        *)
(* (admin/batch_runtime.py), the worker thread of AnalysisBatchService     *)
(* (admin/batches.py), one executor thread per claimed item running        *)
(* PinnedBatchItemRunner (admin/batch_execution.py), the owner's requests  *)
(* and the crash and restart of the process.                               *)
(*                                                                         *)
(* Every SQLite transaction is one atomic step (BEGIN IMMEDIATE); work a   *)
(* thread does in memory between two transactions is folded into the       *)
(* second one, except for the cancellation polls, which are reads.         *)
(***************************************************************************)
EXTENDS Naturals, FiniteSets

CONSTANTS
  ItemCount,    \* repositories in the batch, in claim order
  Slots,        \* capacity.whole_job_items: size of the executor
  MaxAttempts,  \* maximum_generation_attempts of the batch
  Events        \* what may happen besides progress, cancellation and resets

ASSUME ItemCountAssumption == ItemCount \in Nat \ {0}
ASSUME SlotsAssumption == Slots \in Nat \ {0}
ASSUME MaxAttemptsAssumption == MaxAttempts \in Nat \ {0}
ASSUME EventsAssumption ==
  Events \subseteq {"error", "rate_limit", "timeout", "pause", "retry", "restart"}

Items == 1..ItemCount

ActiveBatchStates == {"queued", "running", "paused", "cancelling"}
TerminalBatchStates == {"cancelled", "completed", "completed_with_errors", "failed"}

\* The stages a leased item goes through, each with the stage that follows it.
NextStage ==
  [resolving_commit |-> "fetching_source", fetching_source |-> "filtering",
   filtering |-> "indexing", indexing |-> "embedding",
   embedding |-> "generating", generating |-> "validating",
   validating |-> "cleaning_up"]
ItemActiveStages ==
  {"resolving_commit", "fetching_source", "filtering", "indexing",
   "embedding", "generating", "validating", "cleaning_up"}
ItemTerminalStates == {"complete", "failed", "cancelled", "needs_retry_confirmation"}
ItemStates == ItemActiveStages \cup ItemTerminalStates \cup {"queued", "waiting_rate_limit"}

\* Stages in which the thread polls cancelled() before its next transaction.
PollStages == {"fetching_source", "indexing", "embedding", "validating"}
\* Stages that wait for an archive, index or provider permit.
PermitStages == {"fetching_source", "indexing", "embedding"}
\* What a thread is doing: a stage, or the call it makes next.
ThreadStates ==
  ItemActiveStages \cup
  {"none", "begin", "lookup", "validated", "complete", "cancel",
   "fail", "fail_empty", "rate"}

VARIABLES
  batch,        \* analysis_batches.state
  item,         \* analysis_batch_items.state
  lease,        \* lease_id is not NULL
  gen,          \* generation_attempt_count
  spent,        \* active clock against execution_budget_seconds
  due,          \* retry_at has passed
  result,       \* result_json is not NULL
  error,        \* error_code
  cached,       \* items whose validated result is in the analysis cache
  interrupted,  \* history: stage of a dispatched generation a restart cut off
  worker,       \* the batch's worker thread
  futures,      \* len(futures) as the worker last counted it
  pc,           \* the executor thread of each item
  wake,         \* an owner request has committed and will call _start_worker
  up            \* the process is running

row == <<item, lease, gen, spent, due, result, error>>
threads == <<worker, futures, pc, wake, up>>
vars == <<batch, row, cached, interrupted, threads>>

-----------------------------------------------------------------------------
(***************************************************************************)
(* The store.                                                              *)
(***************************************************************************)
Verdict(s) ==
  IF \A i \in Items : s[i] = "complete" THEN "completed"
  ELSE IF \E i \in Items : s[i] = "complete" THEN "completed_with_errors"
  ELSE "failed"

\* Mutant: the last stage already counts as settled.
FinishEarly(b, s) ==
  IF \E i \in Items : s[i] \notin ItemTerminalStates \cup {"cleaning_up"} THEN b
  ELSE IF b = "cancelling" THEN "cancelled"
  ELSE IF b \in {"queued", "running"} THEN Verdict(s)
  ELSE b

\* Mutant: only a queued or running batch is ever closed.
FinishForgetsCancelling(b, s) ==
  IF \E i \in Items : s[i] \notin ItemTerminalStates THEN b
  ELSE IF b \in {"queued", "running"} THEN Verdict(s)
  ELSE b

\* _finish_batch_locked: the batch state after the items have become s.
Finish(b, s) ==
  IF \E i \in Items : s[i] \notin ItemTerminalStates THEN b
  ELSE IF b = "cancelling" THEN "cancelled"
  ELSE IF b \in {"queued", "running"} THEN Verdict(s)
  ELSE b

\* Mutant: a cancelling batch does not divert the transitions of its items.
EffectiveIgnoresCancel(s) == s

Effective(s) == IF batch = "cancelling" THEN "cancelled" ELSE s

\* A transition of a cancelling batch commits "cancelled", then raises CANCELLED.
Intercepted(s) == batch = "cancelling" /\ s # "cancelled"

\* Mutant: the reservation of an attempt is not bounded.
RefusedWithoutAttempts(i, s) == spent[i] = "over"

\* _update_item refuses a stage once the budget or the attempts are used up.
Refused(i, s) ==
  \/ spent[i] = "over"
  \/ Effective(s) = "generating" /\ gen[i] >= MaxAttempts



\* The transaction of _update_item, when it commits.
UpdateItem(i, s, code, value, terminal) ==
  LET state == Effective(s) IN
  /\ lease[i]
  /\ item' = [item EXCEPT ![i] = state]
  /\ lease' = [lease EXCEPT ![i] = ~ (terminal \/ state = "waiting_rate_limit")]
  /\ gen' = [gen EXCEPT ![i] = IF state = "generating" THEN @ + 1 ELSE @]
  /\ error' = [error EXCEPT ![i] = code]
  /\ result' = [result EXCEPT ![i] = value]
  /\ spent' = [spent EXCEPT ![i] = IF @ = "queueing" THEN "over" ELSE @]
  /\ batch' = Finish(batch, item')

Cancelled == batch \in {"cancelling", "cancelled"}

\* The thread of item i moves on to s, or ends ("none").
Goto(i, s) == pc' = [pc EXCEPT ![i] = s]

-----------------------------------------------------------------------------
(***************************************************************************)
(* The thread of one item: _run_item around PinnedBatchItemRunner.         *)
(***************************************************************************)
StayVolatile == UNCHANGED <<worker, futures, wake, up>>

\* A step of the thread that commits nothing.
Step(i, s) ==
  /\ Goto(i, s)
  /\ UNCHANGED <<batch, row, cached, interrupted>>
  /\ StayVolatile

\* First poll of _run_item, then the poll and the cache lookup of the runner.
Begin(i) ==
  /\ pc[i] = "begin"
  /\ Step(i, IF Cancelled THEN "cancel" ELSE "lookup")

Lookup(i) ==
  /\ pc[i] = "lookup"
  /\ Step(i, IF Cancelled THEN "cancel"
             ELSE IF i \in cached THEN "validated" ELSE "resolving_commit")

\* The call of advance_item(s): committed, intercepted by a cancellation, or
\* refused, in which case the runner's error becomes a failure of the item.
AdvanceTo(i, s) ==
  /\ spent[i] # "queueing"
  /\ IF Refused(i, s)
     THEN Step(i, "fail")
     ELSE /\ UpdateItem(i, s, "none", FALSE, FALSE)
          /\ Goto(i, IF Intercepted(s) THEN "cancel" ELSE s)
          /\ StayVolatile
          /\ UNCHANGED <<due, cached, interrupted>>

Advance(i) ==
  /\ pc[i] \in DOMAIN NextStage
  /\ AdvanceTo(i, NextStage[pc[i]])

\* A transient provider failure: on_attempt reserves one more attempt.
Regenerate(i) ==
  /\ "error" \in Events
  /\ pc[i] = "generating"
  /\ AdvanceTo(i, "generating")

SeeCancel(i) ==
  /\ pc[i] \in PollStages
  /\ spent[i] # "queueing"
  /\ Cancelled
  /\ Step(i, "cancel")

\* The work of a stage fails; only GitHub reports an empty repository.
WorkFails(i) ==
  /\ "error" \in Events
  /\ \/ /\ pc[i] \in ItemActiveStages \ {"resolving_commit"}
        /\ Step(i, "fail")
     \/ /\ pc[i] = "fetching_source"
        /\ Step(i, "fail_empty")

HitRateLimit(i) ==
  /\ "rate_limit" \in Events
  /\ pc[i] = "fetching_source"
  /\ spent[i] # "queueing"
  /\ Step(i, "rate")

\* The two put_cache calls that follow the stage cleaning_up.
StoreResult(i) ==
  /\ pc[i] = "cleaning_up"
  /\ cached' = cached \cup {i}
  /\ Goto(i, "validated")
  /\ StayVolatile
  /\ UNCHANGED <<batch, row, interrupted>>

\* The poll of _run_item after the runner has returned a result.
Returned(i) ==
  /\ pc[i] = "validated"
  /\ Step(i, IF Cancelled THEN "cancel" ELSE "complete")

\* complete_item, fail_item and cancel_item end the thread, intercepted or not.
Settle(i) ==
  /\ \/ pc[i] = "complete" /\ UpdateItem(i, "complete", "none", TRUE, TRUE)
     \/ pc[i] = "fail" /\ UpdateItem(i, "failed", "other", FALSE, TRUE)
     \/ pc[i] = "fail_empty" /\ UpdateItem(i, "failed", "EMPTY_REPOSITORY", FALSE, TRUE)
     \/ pc[i] = "cancel" /\ UpdateItem(i, "cancelled", "none", FALSE, TRUE)
  /\ Goto(i, "none")
  /\ StayVolatile
  /\ UNCHANGED <<due, cached, interrupted>>

\* advance_item("waiting_rate_limit"), called from an except clause of
\* _run_item: what it raises there ends the thread and is caught by nobody.
WaitRateLimit(i) ==
  /\ pc[i] = "rate"
  /\ IF Refused(i, "waiting_rate_limit")
     THEN Step(i, "none")
     ELSE /\ UpdateItem(i, "waiting_rate_limit", "other", FALSE, FALSE)
          /\ due' = [due EXCEPT ![i] = FALSE]
          /\ Goto(i, "none")
          /\ StayVolatile
          /\ UNCHANGED <<cached, interrupted>>

\* exclude_item_wait: the permit is granted and the wait leaves the clock.
ExcludeWait(i) ==
  /\ spent[i] = "queueing"
  /\ pc[i] \in PermitStages
  /\ spent' = [spent EXCEPT ![i] = "under"]
  /\ UNCHANGED <<batch, item, lease, gen, due, result, error, cached, interrupted, threads>>

RunItem(i) ==
  \/ Begin(i) \/ Lookup(i) \/ Advance(i) \/ Regenerate(i) \/ SeeCancel(i)
  \/ WorkFails(i) \/ HitRateLimit(i) \/ StoreResult(i) \/ Returned(i)
  \/ Settle(i) \/ WaitRateLimit(i)

-----------------------------------------------------------------------------
(***************************************************************************)
(* The worker thread: _run_batch.                                          *)
(***************************************************************************)
Live == {i \in Items : pc[i] # "none"}

\* Drops the finished futures, reads the batch, and stops unless it runs.
ReadBatch ==
  /\ worker = "top"
  /\ futures' = Cardinality(Live)
  /\ worker' = IF batch \notin {"queued", "running"} THEN "exiting"
               ELSE IF Cardinality(Live) < Slots THEN "claim" ELSE "top"
  /\ UNCHANGED <<batch, row, cached, interrupted, pc, wake, up>>

\* claim_next_item serves a queued or running batch only.
ClaimsOf(b) == b \in {"queued", "running"}

\* claim_next_item fails the unleased items that have nothing left to spend.
Exhausted(i) ==
  /\ ~lease[i]
  /\ item[i] \in {"queued", "waiting_rate_limit"}
  /\ spent[i] = "over" \/ gen[i] >= MaxAttempts

Swept == [i \in Items |-> IF Exhausted(i) THEN "failed" ELSE item[i]]

Claimable ==
  {i \in Items : ~lease[i] /\ (Swept[i] = "queued" \/ (Swept[i] = "waiting_rate_limit" /\ due[i]))}

First(i) == i \in Claimable /\ \A j \in Claimable : i <= j

ClaimSweep ==
  /\ error' = [i \in Items |-> IF Exhausted(i) THEN "other" ELSE error[i]]
  /\ UNCHANGED <<gen, spent, due, result, cached, interrupted, wake, up>>

ClaimItem ==
  /\ worker = "claim" /\ futures < Slots
  /\ ClaimsOf(batch)
  /\ batch' = "running"
  /\ \E i \in Items :
       /\ First(i)
       /\ item' = [Swept EXCEPT ![i] = "resolving_commit"]
       /\ lease' = [lease EXCEPT ![i] = TRUE]
       /\ Goto(i, "begin")
  /\ futures' = futures + 1
  /\ worker' = IF futures + 1 < Slots THEN "claim" ELSE "top"
  /\ ClaimSweep

ClaimNothing ==
  /\ worker = "claim"
  /\ ClaimsOf(batch)
  /\ Claimable = {}
  /\ item' = Swept
  /\ batch' = Finish("running", Swept)
  /\ worker' = "idle"
  /\ UNCHANGED <<lease, futures, pc>>
  /\ ClaimSweep

ClaimRefused ==
  /\ worker = "claim"
  /\ ~ClaimsOf(batch)
  /\ worker' = "idle"
  /\ UNCHANGED <<batch, row, cached, interrupted, futures, pc, wake, up>>

\* Nothing claimed: wait for the futures, park for a rate reset, or return.
Idle ==
  /\ worker = "idle"
  /\ worker' = IF futures > 0 \/ \E i \in Items : item[i] = "waiting_rate_limit"
               THEN "top" ELSE "exiting"
  /\ UNCHANGED <<batch, row, cached, interrupted, futures, pc, wake, up>>

\* Leaving the executor waits for the items in flight; until then is_alive().
ExitWorker ==
  /\ worker = "exiting"
  /\ Live = {}
  /\ worker' = "none"
  /\ futures' = 0
  /\ UNCHANGED <<batch, row, cached, interrupted, pc, wake, up>>

Worker == ReadBatch \/ ClaimItem \/ ClaimNothing \/ ClaimRefused \/ Idle \/ ExitWorker

-----------------------------------------------------------------------------
(***************************************************************************)
(* The owner: AnalysisBatchService.action, one request at a time.          *)
(***************************************************************************)
\* What every request of the owner leaves alone.
RequestFrame == UNCHANGED <<cached, worker, futures, pc, up>>

Pause ==
  /\ "pause" \in Events
  /\ up /\ ~wake
  /\ batch = "running"
  /\ batch' = "paused"
  /\ UNCHANGED <<row, interrupted, wake>>
  /\ RequestFrame

\* Resuming a batch that already runs changes nothing but still starts a worker.
Resume ==
  /\ "pause" \in Events
  /\ up /\ ~wake
  /\ batch \in {"paused", "running"}
  /\ batch' = Finish("running", item)
  /\ wake' = (batch' = "running")
  /\ UNCHANGED <<row, interrupted>>
  /\ RequestFrame

Cancel ==
  /\ up /\ ~wake
  /\ batch \in {"queued", "running", "paused"}
  /\ item' = [i \in Items |->
                IF item[i] \in {"queued", "waiting_rate_limit", "needs_retry_confirmation"}
                THEN "cancelled" ELSE item[i]]
  /\ batch' = Finish("cancelling", item')
  /\ UNCHANGED <<lease, gen, spent, due, result, error, interrupted, wake>>
  /\ RequestFrame

Retryable(i) ==
  /\ item[i] \in {"needs_retry_confirmation", "failed"}
  /\ error[i] # "EMPTY_REPOSITORY"
  /\ gen[i] < MaxAttempts
  /\ spent[i] = "under"

Retry ==
  /\ "retry" \in Events
  /\ up /\ ~wake
  /\ batch \in {"failed", "completed_with_errors"}
  /\ \E i \in Items : Retryable(i)
  /\ batch' = "running"
  /\ item' = [i \in Items |-> IF Retryable(i) THEN "queued" ELSE item[i]]
  /\ lease' = [i \in Items |-> IF Retryable(i) THEN FALSE ELSE lease[i]]
  /\ error' = [i \in Items |-> IF Retryable(i) THEN "none" ELSE error[i]]
  /\ interrupted' = [i \in Items |-> IF Retryable(i) THEN "none" ELSE interrupted[i]]
  /\ wake' = TRUE
  /\ UNCHANGED <<gen, spent, due, result>>
  /\ RequestFrame

\* _start_worker after create, resume and retry: a no-op while a worker lives.
StartWorker ==
  /\ wake
  /\ wake' = FALSE
  /\ worker' = IF worker = "none" THEN "top" ELSE worker
  /\ UNCHANGED <<batch, row, cached, interrupted, futures, pc, up>>

Owner == Pause \/ Resume \/ Cancel \/ Retry

-----------------------------------------------------------------------------
(***************************************************************************)
(* Time, crash and restart.                                                *)
(***************************************************************************)
\* The active clock of a leased item passes its budget.
Overrun(i) ==
  /\ "timeout" \in Events
  /\ lease[i] /\ spent[i] = "under"
  /\ spent' = [spent EXCEPT ![i] = "over"]
  /\ UNCHANGED <<batch, item, lease, gen, due, result, error, cached, interrupted, threads>>

\* It passes its budget only because of the wait for a permit in progress.
OverrunWaiting(i) ==
  /\ "timeout" \in Events
  /\ pc[i] \in PermitStages
  /\ lease[i] /\ spent[i] = "under"
  /\ spent' = [spent EXCEPT ![i] = "queueing"]
  /\ UNCHANGED <<batch, item, lease, gen, due, result, error, cached, interrupted, threads>>

RateReset(i) ==
  /\ item[i] = "waiting_rate_limit" /\ ~due[i]
  /\ due' = [due EXCEPT ![i] = TRUE]
  /\ UNCHANGED <<batch, item, lease, gen, spent, result, error, cached, interrupted, threads>>

Crash ==
  /\ "restart" \in Events
  /\ up
  /\ up' = FALSE
  /\ worker' = "none" /\ futures' = 0 /\ wake' = FALSE
  /\ pc' = [i \in Items |-> "none"]
  /\ UNCHANGED <<batch, row, cached, interrupted>>

\* Items recover_after_restart takes back, and the state it gives them.
Unfinished(i) == lease[i] \/ item[i] \in ItemActiveStages

\* Mutant: an item cut off in its validation is requeued.
RecoveredValidating(i) ==
  IF batch = "cancelling" THEN "cancelled"
  ELSE IF item[i] = "generating" THEN "needs_retry_confirmation"
  ELSE "queued"

Recovered(i) ==
  IF batch = "cancelling" THEN "cancelled"
  ELSE IF item[i] \in {"generating", "validating"} THEN "needs_retry_confirmation"
  ELSE "queued"

\* Mutant: recover() resumes running batches only.
ResumesRunning(b) == b = "running"

\* recover_after_restart writes the old state into resume_state, whose CHECK
\* admits the active stages only: any other leased row aborts the recovery, and
\* the process serves without runtime storage until the batch has expired.
Recoverable == \A i \in Items : Unfinished(i) => item[i] \in ItemActiveStages

\* The states in which recover() gives the active batch a worker.
Resumes(b) == b \in {"queued", "running"}

\* AnalysisBatchService.recover: expired cache entries go, unfinished items are
\* taken back with the time since their lease on their clock, a worker starts.
Recover ==
  /\ ~up /\ Recoverable
  /\ up' = TRUE
  /\ cached' \in SUBSET cached
  /\ item' = [i \in Items |-> IF Unfinished(i) THEN Recovered(i) ELSE item[i]]
  /\ lease' = [i \in Items |-> FALSE]
  /\ spent' = [i \in Items |-> IF spent[i] = "queueing" THEN "over" ELSE spent[i]]
  /\ interrupted' =
       [i \in Items |->
          IF Unfinished(i) /\ item[i] \in {"generating", "validating", "cleaning_up"}
          THEN item[i] ELSE interrupted[i]]
  /\ batch' = IF \E i \in Items : Unfinished(i) THEN Finish(batch, item') ELSE batch
  /\ worker' = IF Resumes(batch') THEN "top" ELSE "none"
  /\ UNCHANGED <<gen, due, result, error, futures, pc, wake>>

-----------------------------------------------------------------------------
Init ==
  /\ batch = "queued"
  /\ item = [i \in Items |-> "queued"]
  /\ lease = [i \in Items |-> FALSE]
  /\ gen = [i \in Items |-> 0]
  /\ spent = [i \in Items |-> "under"]
  /\ due = [i \in Items |-> FALSE]
  /\ result = [i \in Items |-> FALSE]
  /\ error = [i \in Items |-> "none"]
  /\ cached = {}
  /\ interrupted = [i \in Items |-> "none"]
  /\ worker = "none"
  /\ futures = 0
  /\ pc = [i \in Items |-> "none"]
  /\ wake = TRUE
  /\ up = TRUE

Time(i) == Overrun(i) \/ OverrunWaiting(i) \/ RateReset(i)

Next ==
  \/ \E i \in Items : RunItem(i) \/ ExcludeWait(i) \/ Time(i)
  \/ Worker \/ StartWorker \/ Owner
  \/ Crash \/ Recover

Spec == Init /\ [][Next]_vars

(***************************************************************************)
(* Threads run as long as the process does, a started request reaches its  *)
(* _start_worker, a restart runs recover(), and the retry time of a rate   *)
(* limit passes.  A stage asks for finitely many permits and every permit   *)
(* is granted or times out, so a thread whose next step is enabled again    *)
(* and again takes it.  Nothing is assumed of the owner or of failures.     *)
(***************************************************************************)
Fairness ==
  /\ \A i \in Items : SF_vars(RunItem(i)) /\ WF_vars(ExcludeWait(i)) /\ WF_vars(RateReset(i))
  /\ WF_vars(Worker)
  /\ WF_vars(StartWorker)
  /\ WF_vars(Recover)

FairSpec == Spec /\ Fairness

-----------------------------------------------------------------------------
(***************************************************************************)
(* Properties.                                                             *)
(***************************************************************************)
TypeOK ==
  /\ batch \in ActiveBatchStates \cup TerminalBatchStates
  /\ item \in [Items -> ItemStates]
  /\ lease \in [Items -> BOOLEAN]
  /\ gen \in [Items -> 0..MaxAttempts]
  /\ spent \in [Items -> {"under", "queueing", "over"}]
  /\ due \in [Items -> BOOLEAN]
  /\ result \in [Items -> BOOLEAN]
  /\ error \in [Items -> {"none", "EMPTY_REPOSITORY", "other"}]
  /\ cached \in SUBSET Items
  /\ interrupted \in [Items -> {"none", "generating", "validating", "cleaning_up"}]
  /\ worker \in {"none", "top", "claim", "idle", "exiting"}
  /\ futures \in Nat
  /\ pc \in [Items -> ThreadStates]
  /\ wake \in BOOLEAN
  /\ up \in BOOLEAN

\* A thread that works on an item holds the item's lease, so no other claim
\* can hand the item to a second thread (claim_next_item, _update_item).
LeaseHeld == \A i \in Items : pc[i] # "none" => lease[i]

\* The executor never runs more items than whole_job_items, and no item thread
\* outlives the worker that started it: the next worker counts from zero.
ExecutorBound ==
  /\ Cardinality(Live) <= Slots
  /\ worker = "none" => Live = {}

\* A terminal batch has only settled items, and the outcome it reports is the
\* outcome of its items, also after retries, restarts and late threads.
OutcomeMatchesItems ==
  batch \in TerminalBatchStates =>
    /\ \A i \in Items : item[i] \in ItemTerminalStates
    /\ batch # "cancelled" => batch = Verdict(item)

\* Once the owner's cancel has committed, no thread still in flight dispatches
\* another generation, completes an item or takes the batch out of cancellation.
CancelIsFinal ==
  [][Cancelled => /\ Cancelled'
                  /\ gen' = gen
                  /\ \A i \in Items : item'[i] = "complete" => item[i] = "complete"]_vars

\* A generation that a restart cut off while the provider or the validation was
\* at work is dispatched again only after the owner's explicit retry.
ConsentBeforeResend ==
  [][\A i \in Items : gen'[i] > gen[i] => interrupted[i] \notin {"generating", "validating"}]_vars

\* A completed item keeps its validated result, whatever its siblings do.
CompletedIsKept ==
  [][\A i \in Items : item[i] = "complete" /\ result[i] => item'[i] = "complete" /\ result'[i]]_vars

\* While the owner has the batch paused no further item is leased.
PausedAdmitsNothing ==
  [][batch = "paused" => \A i \in Items : lease'[i] => lease[i]]_vars

\* The except clause that parks an item for a rate limit raised itself, over
\* the spent budget: no thread is left and the item keeps its lease.
Stranded == \E i \in Items : lease[i] /\ item[i] \in ItemActiveStages /\ pc[i] = "none"

\* Whoever cancels a batch sees it reach its end: every thread in flight stops
\* at its next transition and the last one closes the batch.
CancelSettles == batch = "cancelling" ~> batch \in TerminalBatchStates \/ ~up \/ Stranded

\* GitHub does not refuse the same source for ever.
RateLimitsEnd == <>[](\A i \in Items : pc[i] # "rate")

\* A runnable batch reaches an outcome: no interleaving of claims, failures,
\* rate limits and spent budgets leaves it hanging.
BatchSettles ==
  batch \in {"queued", "running"} ~>
    (batch \in TerminalBatchStates \/ batch \in {"paused", "cancelling"} \/ ~up \/ Stranded)

\* Every batch that was started or cancelled comes to its end, unless the
\* process stops first, its owner pauses it, or an item is stranded by the one
\* handler that raises (Deviations in README.md).
BatchEnds == CancelSettles /\ (RateLimitsEnd => BatchSettles)

\* A leased item is at work, or was cancelled under the thread that holds it.
LeaseExplained ==
  \A i \in Items : lease[i] => item[i] \in ItemActiveStages \/ (item[i] = "cancelled" /\ Cancelled)

\* A thread works on an active item; one that gives up has seen a cancellation.
ThreadMatchesItem ==
  \A i \in Items :
    /\ pc[i] \notin {"none", "cancel"} => item[i] \in ItemActiveStages
    /\ pc[i] = "cancel" => Cancelled

\* A generation a restart cut off waits for the owner, and nobody holds it.
InterruptedWaits ==
  \A i \in Items :
    interrupted[i] \in {"generating", "validating"} =>
      ~lease[i] /\ item[i] \in {"needs_retry_confirmation", "cancelled"}

\* The count the worker acts on may be stale, but never too small; a process
\* that is down has neither a worker nor a request that would start one.
CountIsSafe ==
  /\ Cardinality(Live) <= futures /\ futures <= Slots
  /\ worker = "none" => Live = {}
  /\ ~up => worker = "none" /\ ~wake

\* What every step preserves: rows, leases and threads agree, which is more
\* than each of the invariants above says and what they all follow from.
RowsMatchThreads ==
  /\ LeaseHeld /\ LeaseExplained /\ ThreadMatchesItem /\ InterruptedWaits
  /\ OutcomeMatchesItems /\ CountIsSafe

\* Documented, and not what the code does: see the deviations in README.md.

\* A resumed batch with an item to claim has a worker to claim it.
RunningIsServed ==
  batch = "running" /\ up /\ (\E i \in Items : item[i] = "queued") => worker # "none" \/ wake

\* The output of a cancelled item is discarded.
CancelledKeepsNoResult == \A i \in Items : item[i] = "cancelled" => ~result[i]

\* A generation interrupted after its dispatch is never resubmitted by itself.
NeverResubmitted == [][\A i \in Items : gen'[i] > gen[i] => interrupted[i] = "none"]_vars

\* A cancelled item has given up its lease by the time a restart finds it, so
\* that the startup recovery can commit.
CancellationReleasesLease == ~up => \A i \in Items : item[i] = "cancelled" => ~lease[i]
=============================================================================
