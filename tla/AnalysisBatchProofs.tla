------------------------- MODULE AnalysisBatchProofs -------------------------
(***************************************************************************)
(* Theorems about AnalysisBatch for every number of items, slots and       *)
(* attempts and every set of events: its safety, and, from it, that it     *)
(* implements BatchLifecycle.  At the end, theorems about ProviderPermits, *)
(* whose permits the items share with the owner's analyses and visitors.   *)
(***************************************************************************)
EXTENDS AnalysisBatchRefinement, ProviderPermits, FiniteSetTheorems, TLAPS

-----------------------------------------------------------------------------
(***************************************************************************)
(* Facts about the operators.                                              *)
(***************************************************************************)
BatchStates == ActiveBatchStates \cup TerminalBatchStates
ErrorCodes == {"none", "EMPTY_REPOSITORY", "other"}

\* Every stage the runner advances to is an active stage other than the first.
LEMMA NextStageType ==
  \A s \in DOMAIN NextStage :
    /\ s \in ItemActiveStages
    /\ NextStage[s] \in ItemActiveStages \ {"resolving_commit"}
BY DEF NextStage, ItemActiveStages

\* The number of live threads is a natural number.
LEMMA LiveFinite == IsFiniteSet(Live) /\ Cardinality(Live) \in Nat
<1>1. IsFiniteSet(Items)
  BY ItemCountAssumption, FS_Interval DEF Items
<1>2. Live \subseteq Items
  BY DEF Live
<1> QED
  BY <1>1, <1>2, FS_Subset, FS_CardinalityType

\* Closing a batch gives one of the batch states.
LEMMA FinishType ==
  ASSUME NEW b \in BatchStates, NEW s
  PROVE  Finish(b, s) \in BatchStates
BY DEF Finish, Verdict, BatchStates, ActiveBatchStates, TerminalBatchStates

\* A batch that closing makes terminal has settled items and reports them.
LEMMA FinishOutcome ==
  ASSUME NEW b \in ActiveBatchStates, NEW s,
         Finish(b, s) \in TerminalBatchStates
  PROVE  /\ \A i \in Items : s[i] \in ItemTerminalStates
         /\ Finish(b, s) # "cancelled" => Finish(b, s) = Verdict(s)
BY DEF Finish, Verdict, ActiveBatchStates, TerminalBatchStates

\* Closing keeps a terminal batch as it is and a cancelling batch cancelled.
LEMMA FinishKeeps ==
  ASSUME NEW b, NEW s
  PROVE  /\ b \in TerminalBatchStates => Finish(b, s) = b
         /\ b \in {"cancelling", "cancelled"} => Finish(b, s) \in {"cancelling", "cancelled"}
BY DEF Finish, TerminalBatchStates

\* The type of what the transaction of _update_item writes.
LEMMA UpdateItemType ==
  ASSUME TypeOK, NEW i \in Items, NEW s \in ItemStates, NEW code \in ErrorCodes,
         NEW value \in BOOLEAN, NEW terminal \in BOOLEAN,
         Effective(s) = "generating" => gen[i] < MaxAttempts,
         UpdateItem(i, s, code, value, terminal)
  PROVE  /\ batch' \in BatchStates
         /\ item' \in [Items -> ItemStates]
         /\ lease' \in [Items -> BOOLEAN]
         /\ gen' \in [Items -> 0..MaxAttempts]
         /\ spent' \in [Items -> {"under", "queueing", "over"}]
         /\ result' \in [Items -> BOOLEAN]
         /\ error' \in [Items -> ErrorCodes]
<1>1. Effective(s) \in ItemStates
  BY DEF Effective, ItemStates, ItemTerminalStates
<1>2. batch' \in BatchStates
  BY FinishType DEF UpdateItem, TypeOK, BatchStates
<1>3. gen' \in [Items -> 0..MaxAttempts]
  BY MaxAttemptsAssumption DEF UpdateItem, TypeOK
<1> QED
  BY <1>1, <1>2, <1>3 DEF UpdateItem, TypeOK, ErrorCodes

-----------------------------------------------------------------------------
(***************************************************************************)
(* Type correctness.                                                       *)
(***************************************************************************)
LEMMA TypeInit == Init => TypeOK
BY MaxAttemptsAssumption
   DEF Init, TypeOK, ActiveBatchStates, ItemStates, ThreadStates

LEMMA AdvanceToType ==
  ASSUME TypeOK, NEW i \in Items, NEW s \in ItemActiveStages, AdvanceTo(i, s)
  PROVE  TypeOK'
<1>1. CASE Refused(i, s)
  BY <1>1 DEF AdvanceTo, Step, StayVolatile, row, Goto, TypeOK, ThreadStates
<1>2. CASE ~Refused(i, s)
  <2>1. UpdateItem(i, s, "none", FALSE, FALSE)
    BY <1>2 DEF AdvanceTo
  <2>2. Effective(s) = "generating" => gen[i] < MaxAttempts
    BY <1>2, MaxAttemptsAssumption DEF Refused, TypeOK
  <2>3. s \in ItemStates
    BY DEF ItemStates
  <2>4. pc' \in [Items -> ThreadStates]
    BY <1>2 DEF AdvanceTo, Goto, TypeOK, ThreadStates
  <2> QED
    BY <1>2, <2>1, <2>2, <2>3, <2>4, UpdateItemType
    DEF AdvanceTo, StayVolatile, TypeOK, ErrorCodes, BatchStates
<1> QED
  BY <1>1, <1>2

LEMMA StepType ==
  ASSUME TypeOK, NEW i \in Items, NEW s \in ThreadStates, Step(i, s)
  PROVE  TypeOK'
BY DEF Step, StayVolatile, row, Goto, TypeOK

LEMMA RunItemType ==
  ASSUME TypeOK, NEW i \in Items, RunItem(i)
  PROVE  TypeOK'
<1>1. CASE Begin(i)
  BY <1>1, StepType DEF Begin, ThreadStates
<1>2. CASE Lookup(i)
  BY <1>2, StepType DEF Lookup, ThreadStates, ItemActiveStages
<1>3. CASE Advance(i)
  BY <1>3, NextStageType, AdvanceToType DEF Advance
<1>4. CASE Regenerate(i)
  BY <1>4, AdvanceToType DEF Regenerate, ItemActiveStages
<1>5. CASE SeeCancel(i)
  BY <1>5, StepType DEF SeeCancel, ThreadStates
<1>6. CASE WorkFails(i)
  BY <1>6, StepType DEF WorkFails, ThreadStates
<1>7. CASE HitRateLimit(i)
  BY <1>7, StepType DEF HitRateLimit, ThreadStates
<1>8. CASE StoreResult(i)
  BY <1>8 DEF StoreResult, StayVolatile, row, Goto, TypeOK, ThreadStates
<1>9. CASE Returned(i)
  BY <1>9, StepType DEF Returned, ThreadStates
<1>10. CASE Settle(i)
  <2>1. PICK s \in ItemTerminalStates, code \in ErrorCodes, value \in BOOLEAN :
          UpdateItem(i, s, code, value, TRUE)
    BY <1>10 DEF Settle, ItemTerminalStates, ErrorCodes
  <2>2. Effective(s) # "generating" /\ s \in ItemStates
    BY DEF Effective, ItemTerminalStates, ItemStates
  <2>3. pc' \in [Items -> ThreadStates]
    BY <1>10 DEF Settle, Goto, TypeOK, ThreadStates
  <2> QED
    BY <1>10, <2>1, <2>2, <2>3, UpdateItemType
    DEF Settle, StayVolatile, TypeOK, ErrorCodes, BatchStates
<1>11. CASE WaitRateLimit(i)
  <2>1. CASE Refused(i, "waiting_rate_limit")
    BY <1>11, <2>1, StepType DEF WaitRateLimit, ThreadStates
  <2>2. CASE ~Refused(i, "waiting_rate_limit")
    <3>1. UpdateItem(i, "waiting_rate_limit", "other", FALSE, FALSE)
      BY <1>11, <2>2 DEF WaitRateLimit
    <3>2. Effective("waiting_rate_limit") # "generating" /\ "waiting_rate_limit" \in ItemStates
      BY DEF Effective, ItemStates
    <3>3. pc' \in [Items -> ThreadStates] /\ due' \in [Items -> BOOLEAN]
      BY <1>11, <2>2 DEF WaitRateLimit, Goto, TypeOK, ThreadStates
    <3> QED
      BY <1>11, <2>2, <3>1, <3>2, <3>3, UpdateItemType
      DEF WaitRateLimit, StayVolatile, TypeOK, ErrorCodes, BatchStates
  <2> QED
    BY <2>1, <2>2
<1> QED
  BY <1>1, <1>2, <1>3, <1>4, <1>5, <1>6, <1>7, <1>8, <1>9, <1>10, <1>11 DEF RunItem

LEMMA WorkerType ==
  ASSUME TypeOK, Worker \/ StartWorker
  PROVE  TypeOK'
<1>1. CASE ReadBatch
  BY <1>1, LiveFinite DEF ReadBatch, row, TypeOK
<1>2. Swept \in [Items -> ItemStates]
  BY DEF Swept, TypeOK, ItemStates, ItemTerminalStates
<1>3. CASE ClaimItem
  <2>1. PICK i \in Items : /\ item' = [Swept EXCEPT ![i] = "resolving_commit"]
                           /\ lease' = [lease EXCEPT ![i] = TRUE]
                           /\ Goto(i, "begin")
    BY <1>3 DEF ClaimItem
  <2>2. item' \in [Items -> ItemStates]
    BY <1>2, <2>1 DEF ItemStates, ItemActiveStages
  <2> QED
    BY <1>3, <2>1, <2>2
    DEF ClaimItem, ClaimSweep, Goto, TypeOK, ThreadStates, ActiveBatchStates
<1>4. CASE ClaimNothing
  <2>1. batch' \in BatchStates
    BY <1>4, FinishType DEF ClaimNothing, BatchStates, ActiveBatchStates
  <2> QED
    BY <1>2, <1>4, <2>1 DEF ClaimNothing, ClaimSweep, TypeOK, BatchStates
<1>5. CASE ClaimRefused
  BY <1>5 DEF ClaimRefused, row, TypeOK
<1>6. CASE Idle
  BY <1>6 DEF Idle, row, TypeOK
<1>7. CASE ExitWorker
  BY <1>7 DEF ExitWorker, row, TypeOK
<1>8. CASE StartWorker
  BY <1>8 DEF StartWorker, row, TypeOK
<1> QED
  BY <1>1, <1>3, <1>4, <1>5, <1>6, <1>7, <1>8 DEF Worker

LEMMA OwnerType ==
  ASSUME TypeOK, Owner
  PROVE  TypeOK'
<1>1. CASE Pause
  BY <1>1 DEF Pause, RequestFrame, row, TypeOK, ActiveBatchStates
<1>2. CASE Resume
  <2>1. batch' \in BatchStates
    BY <1>2, FinishType DEF Resume, BatchStates, ActiveBatchStates
  <2> QED
    BY <1>2, <2>1 DEF Resume, RequestFrame, row, TypeOK, BatchStates
<1>3. CASE Cancel
  <2>1. batch' \in BatchStates
    BY <1>3, FinishType DEF Cancel, BatchStates, ActiveBatchStates
  <2>2. item' \in [Items -> ItemStates]
    BY <1>3 DEF Cancel, TypeOK, ItemStates, ItemTerminalStates
  <2> QED
    BY <1>3, <2>1, <2>2 DEF Cancel, RequestFrame, TypeOK, BatchStates
<1>4. CASE Retry
  BY <1>4 DEF Retry, RequestFrame, TypeOK, ActiveBatchStates, ItemStates
<1> QED
  BY <1>1, <1>2, <1>3, <1>4 DEF Owner

LEMMA TimeType ==
  ASSUME TypeOK, NEW i \in Items, ExcludeWait(i) \/ Time(i)
  PROVE  TypeOK'
BY DEF ExcludeWait, Time, Overrun, OverrunWaiting, RateReset, threads, TypeOK

LEMMA RestartType ==
  ASSUME TypeOK, Crash \/ Recover
  PROVE  TypeOK'
<1>1. CASE Crash
  BY <1>1 DEF Crash, row, TypeOK, ThreadStates
<1>2. CASE Recover
  <2>1. batch' \in BatchStates
    BY <1>2, FinishType DEF Recover, TypeOK, BatchStates
  <2>2. item' \in [Items -> ItemStates]
    BY <1>2 DEF Recover, Recovered, TypeOK, ItemStates, ItemTerminalStates
  <2>3. interrupted' \in [Items -> {"none", "generating", "validating", "cleaning_up"}]
    BY <1>2 DEF Recover, TypeOK
  <2> QED
    BY <1>2, <2>1, <2>2, <2>3 DEF Recover, TypeOK, BatchStates
<1> QED
  BY <1>1, <1>2

\* The rows, the cache and the threads always have their types; in particular
\* no item ever reserves more generation attempts than its batch allows.
THEOREM TypeCorrect == Spec => []TypeOK
<1>1. Init => TypeOK
  BY TypeInit
<1>2. TypeOK /\ [Next]_vars => TypeOK'
  <2> SUFFICES ASSUME TypeOK, [Next]_vars PROVE TypeOK'
    OBVIOUS
  <2>1. CASE Next
    BY <2>1, RunItemType, TimeType, WorkerType, OwnerType, RestartType DEF Next
  <2>2. CASE UNCHANGED vars
    BY <2>2 DEF vars, row, threads, TypeOK
  <2> QED
    BY <2>1, <2>2
<1> QED
  BY <1>1, <1>2, PTL DEF Spec

-----------------------------------------------------------------------------
(***************************************************************************)
(* Rows and threads agree.  LeaseHeld and OutcomeMatchesItems are not       *)
(* inductive: whether a thread may still write, and what it writes, depends *)
(* on why its item is leased and on what its batch has become.              *)
(***************************************************************************)
RowsAgree ==
  LeaseHeld /\ LeaseExplained /\ ThreadMatchesItem /\ InterruptedWaits /\ OutcomeMatchesItems

LEMMA RowsInit == Init => RowsAgree
BY DEF Init, RowsAgree, LeaseHeld, LeaseExplained, ThreadMatchesItem, InterruptedWaits,
       OutcomeMatchesItems, TerminalBatchStates

\* A leased item of a closed batch is a cancelled item of a cancelled batch.
LEMMA LeasedInTerminal ==
  ASSUME RowsAgree, batch \in TerminalBatchStates, NEW i \in Items, lease[i]
  PROVE  batch = "cancelled" /\ item[i] = "cancelled" /\ pc[i] \in {"none", "cancel"}
BY DEF RowsAgree, LeaseExplained, ThreadMatchesItem, OutcomeMatchesItems, Cancelled,
       TerminalBatchStates, ItemActiveStages, ItemTerminalStates

\* A thread that takes a step without a transaction.
LEMMA StepRows ==
  ASSUME TypeOK, RowsAgree, NEW i \in Items, NEW p,
         Goto(i, p), UNCHANGED <<batch, item, lease, interrupted>>,
         pc[i] # "none",
         p \notin {"none", "cancel"} => pc[i] # "cancel",
         p = "cancel" => Cancelled
  PROVE  RowsAgree'
BY DEF TypeOK, RowsAgree, LeaseHeld, LeaseExplained, ThreadMatchesItem, InterruptedWaits,
       OutcomeMatchesItems, Cancelled, Goto, Verdict

\* A thread that commits a transition of its item and moves on to p.
LEMMA UpdateRows ==
  ASSUME TypeOK, RowsAgree, NEW i \in Items, NEW p,
         NEW s \in ItemActiveStages \cup {"waiting_rate_limit", "complete", "failed", "cancelled"},
         NEW code, NEW value, NEW terminal \in BOOLEAN,
         UpdateItem(i, s, code, value, terminal), Goto(i, p), UNCHANGED interrupted,
         pc[i] # "none",
         s = "cancelled" <=> pc[i] = "cancel",
         s \in {"complete", "failed", "cancelled"} => terminal,
         p = "none" \/ (~terminal /\ s \in ItemActiveStages
                          /\ p = IF Intercepted(s) THEN "cancel" ELSE s)
  PROVE  RowsAgree'
<1> DEFINE state == Effective(s)
<1>1. /\ item' = [item EXCEPT ![i] = state]
      /\ lease' = [lease EXCEPT ![i] = ~ (terminal \/ state = "waiting_rate_limit")]
      /\ batch' = Finish(batch, item')
      /\ lease[i]
  BY DEF UpdateItem
<1>2. Cancelled => Cancelled'
  BY <1>1, FinishKeeps DEF Cancelled
<1>3. state \in {s, "cancelled"} /\ (state = "cancelled" => Cancelled)
  BY DEF Effective, RowsAgree, ThreadMatchesItem, Cancelled
<1>4. LeaseHeld'
  BY <1>1, <1>3 DEF TypeOK, RowsAgree, LeaseHeld, Goto, ItemActiveStages
<1>5. LeaseExplained'
  BY <1>1, <1>2, <1>3 DEF TypeOK, RowsAgree, LeaseExplained
<1>6. ThreadMatchesItem'
  <2>1. /\ p \notin {"none", "cancel"} => state \in ItemActiveStages
        /\ p = "cancel" => Cancelled
    BY DEF Intercepted, Effective, Cancelled, ItemActiveStages
  <2> QED
    BY <1>1, <1>2, <2>1 DEF TypeOK, RowsAgree, ThreadMatchesItem, Goto
<1>7. InterruptedWaits'
  BY <1>1 DEF TypeOK, RowsAgree, InterruptedWaits
<1>8. OutcomeMatchesItems'
  <2>1. CASE batch \in ActiveBatchStates
    BY <1>1, <2>1, FinishOutcome DEF OutcomeMatchesItems, Verdict
  <2>2. CASE batch \in TerminalBatchStates
    <3>1. batch' = "cancelled" /\ state = "cancelled"
      BY <1>1, <2>2, LeasedInTerminal, FinishKeeps DEF Effective
    <3> QED
      BY <1>1, <2>2, <3>1 DEF TypeOK, RowsAgree, OutcomeMatchesItems, ItemTerminalStates
  <2> QED
    BY <2>1, <2>2 DEF TypeOK
<1> QED
  BY <1>4, <1>5, <1>6, <1>7, <1>8 DEF RowsAgree

LEMMA AdvanceToRows ==
  ASSUME TypeOK, RowsAgree, NEW i \in Items, NEW s \in ItemActiveStages,
         pc[i] \notin {"none", "cancel"}, AdvanceTo(i, s)
  PROVE  RowsAgree'
<1>1. CASE Refused(i, s)
  BY <1>1, StepRows DEF AdvanceTo, Step, row
<1>2. CASE ~Refused(i, s)
  <2> DEFINE p == IF Intercepted(s) THEN "cancel" ELSE s
  <2>1. /\ UpdateItem(i, s, "none", FALSE, FALSE)
        /\ Goto(i, p)
        /\ UNCHANGED interrupted
    BY <1>2 DEF AdvanceTo
  <2>2. s \notin {"complete", "failed", "cancelled"}
    BY DEF ItemActiveStages
  <2> QED
    BY <2>1, <2>2, UpdateRows
<1> QED
  BY <1>1, <1>2

LEMMA RunItemRows ==
  ASSUME TypeOK, RowsAgree, NEW i \in Items, RunItem(i)
  PROVE  RowsAgree'
<1>1. CASE Begin(i) \/ Lookup(i) \/ Returned(i)
  BY <1>1, StepRows DEF Begin, Lookup, Returned, Step, row
<1>2. CASE Advance(i)
  <2>1. pc[i] \in ItemActiveStages /\ NextStage[pc[i]] \in ItemActiveStages
    BY <1>2, NextStageType DEF Advance
  <2>2. pc[i] \notin {"none", "cancel"}
    BY <2>1 DEF ItemActiveStages
  <2> QED
    BY <1>2, <2>1, <2>2, AdvanceToRows DEF Advance
<1>3. CASE Regenerate(i)
  BY <1>3, AdvanceToRows DEF Regenerate, ItemActiveStages
<1>4. CASE SeeCancel(i) \/ HitRateLimit(i)
  BY <1>4, StepRows DEF SeeCancel, HitRateLimit, PollStages, Step, row
<1>5. CASE WorkFails(i)
  BY <1>5, StepRows DEF WorkFails, ItemActiveStages, Step, row
<1>6. CASE StoreResult(i)
  BY <1>6, StepRows DEF StoreResult, row
<1>7. CASE Settle(i)
  <2>1. PICK s \in {"complete", "failed", "cancelled"}, code \in ErrorCodes, value \in BOOLEAN :
          /\ UpdateItem(i, s, code, value, TRUE)
          /\ pc[i] # "none" /\ (s = "cancelled" <=> pc[i] = "cancel")
    BY <1>7 DEF Settle, ErrorCodes
  <2>2. Goto(i, "none") /\ UNCHANGED interrupted
    BY <1>7 DEF Settle
  <2> QED
    BY <2>1, <2>2, UpdateRows
<1>8. CASE WaitRateLimit(i)
  <2>1. CASE Refused(i, "waiting_rate_limit")
    BY <1>8, <2>1, StepRows DEF WaitRateLimit, Step, row
  <2>2. CASE ~Refused(i, "waiting_rate_limit")
    <3>1. UpdateItem(i, "waiting_rate_limit", "other", FALSE, FALSE)
          /\ Goto(i, "none") /\ UNCHANGED interrupted /\ pc[i] = "rate"
      BY <1>8, <2>2 DEF WaitRateLimit
    <3> QED
      BY <3>1, UpdateRows
  <2> QED
    BY <2>1, <2>2
<1> QED
  BY <1>1, <1>2, <1>3, <1>4, <1>5, <1>6, <1>7, <1>8 DEF RunItem

\* A claim leases an item that no thread works on and no restart cut off.
LEMMA ClaimableIsFree ==
  ASSUME TypeOK, RowsAgree, NEW i \in Claimable
  PROVE  i \in Items /\ ~lease[i] /\ pc[i] = "none" /\ interrupted[i] \notin {"generating", "validating"}
BY DEF TypeOK, RowsAgree, LeaseHeld, InterruptedWaits, Claimable, Swept

\* The sweep of a claim touches items that nobody holds.
LEMMA SweptRows ==
  ASSUME TypeOK, NEW i \in Items, Swept[i] # item[i]
  PROVE  ~lease[i] /\ item[i] \in {"queued", "waiting_rate_limit"} /\ Swept[i] = "failed"
BY DEF Swept, Exhausted

LEMMA WorkerRows ==
  ASSUME TypeOK, RowsAgree, Worker \/ StartWorker
  PROVE  RowsAgree'
<1>1. CASE ReadBatch \/ ClaimRefused \/ Idle \/ ExitWorker \/ StartWorker
  <2>1. UNCHANGED <<batch, item, lease, interrupted, pc>>
    BY <1>1 DEF ReadBatch, ClaimRefused, Idle, ExitWorker, StartWorker, row
  <2> QED
    BY <2>1 DEF RowsAgree, LeaseHeld, LeaseExplained, ThreadMatchesItem, InterruptedWaits,
                OutcomeMatchesItems, Cancelled, Verdict
<1>2. CASE ClaimItem
  <2>1. PICK i \in Items : /\ First(i)
                           /\ item' = [Swept EXCEPT ![i] = "resolving_commit"]
                           /\ lease' = [lease EXCEPT ![i] = TRUE]
                           /\ Goto(i, "begin")
    BY <1>2 DEF ClaimItem
  <2>2. ~lease[i] /\ interrupted[i] \notin {"generating", "validating"}
    BY <2>1, ClaimableIsFree DEF First
  <2>3. ~Cancelled /\ batch' = "running" /\ UNCHANGED interrupted
    BY <1>2 DEF ClaimItem, ClaimSweep, ClaimsOf, Cancelled
  <2>4. \A j \in Items \ {i} : item'[j] # item[j] => ~lease[j] /\ item[j] \in {"queued", "waiting_rate_limit"}
    BY <2>1, SweptRows DEF Swept
  <2>5. item'[i] = "resolving_commit" /\ item' \in [Items -> ItemStates \cup {"resolving_commit"}]
    BY <2>1 DEF Swept, TypeOK, ItemStates, ItemTerminalStates
  <2>6. LeaseHeld'
    BY <2>1 DEF TypeOK, RowsAgree, LeaseHeld, Goto
  <2>7. LeaseExplained'
    BY <2>1, <2>3, <2>4, <2>5 DEF TypeOK, RowsAgree, LeaseExplained, ItemActiveStages
  <2>8. ThreadMatchesItem'
    BY <2>1, <2>3, <2>4, <2>5
    DEF TypeOK, RowsAgree, LeaseHeld, ThreadMatchesItem, ItemActiveStages, Goto
  <2>9. InterruptedWaits'
    BY <2>1, <2>2, <2>3, <2>4 DEF TypeOK, RowsAgree, InterruptedWaits
  <2>10. OutcomeMatchesItems'
    BY <2>3 DEF OutcomeMatchesItems, TerminalBatchStates
  <2> QED
    BY <2>6, <2>7, <2>8, <2>9, <2>10 DEF RowsAgree
<1>3. CASE ClaimNothing
  <2>1. /\ ~Cancelled /\ item' = Swept /\ batch' = Finish("running", item')
        /\ UNCHANGED <<lease, pc, interrupted>>
    BY <1>3 DEF ClaimNothing, ClaimSweep, ClaimsOf, Cancelled
  <2>2. \A j \in Items : item'[j] # item[j] => ~lease[j] /\ item[j] \in {"queued", "waiting_rate_limit"}
    BY <2>1, SweptRows
  <2>3. LeaseHeld' /\ LeaseExplained'
    BY <2>1, <2>2 DEF RowsAgree, LeaseHeld, LeaseExplained
  <2>4. ThreadMatchesItem' /\ InterruptedWaits'
    BY <2>1, <2>2 DEF RowsAgree, LeaseHeld, ThreadMatchesItem, InterruptedWaits
  <2>5. OutcomeMatchesItems'
    BY <2>1, FinishOutcome DEF OutcomeMatchesItems, ActiveBatchStates, Verdict
  <2> QED
    BY <2>3, <2>4, <2>5 DEF RowsAgree
<1> QED
  BY <1>1, <1>2, <1>3 DEF Worker

LEMMA OwnerRows ==
  ASSUME TypeOK, RowsAgree, Owner
  PROVE  RowsAgree'
<1>1. CASE Pause
  BY <1>1 DEF Pause, RequestFrame, row, RowsAgree, LeaseHeld, LeaseExplained, ThreadMatchesItem,
              InterruptedWaits, OutcomeMatchesItems, Cancelled, TerminalBatchStates
<1>2. CASE Resume
  <2>1. /\ ~Cancelled /\ batch' = Finish("running", item')
        /\ UNCHANGED <<item, lease, pc, interrupted>>
    BY <1>2 DEF Resume, RequestFrame, row, Cancelled
  <2>2. OutcomeMatchesItems'
    BY <2>1, FinishOutcome DEF OutcomeMatchesItems, ActiveBatchStates, Verdict
  <2> QED
    BY <2>1, <2>2 DEF RowsAgree, LeaseHeld, LeaseExplained, ThreadMatchesItem, InterruptedWaits
<1>3. CASE Cancel
  <2>1. /\ ~Cancelled /\ batch' = Finish("cancelling", item')
        /\ UNCHANGED <<lease, pc, interrupted>>
        /\ \A i \in Items :
             item'[i] # item[i] =>
               /\ item[i] \in {"queued", "waiting_rate_limit", "needs_retry_confirmation"}
               /\ item'[i] = "cancelled"
    BY <1>3 DEF Cancel, RequestFrame, Cancelled
  <2>2. LeaseHeld' /\ LeaseExplained'
    BY <2>1 DEF RowsAgree, LeaseHeld, LeaseExplained, ItemActiveStages
  <2>3. ThreadMatchesItem'
    BY <2>1 DEF RowsAgree, ThreadMatchesItem, ItemActiveStages
  <2>4. InterruptedWaits'
    BY <2>1 DEF RowsAgree, InterruptedWaits
  <2>5. OutcomeMatchesItems'
    BY <2>1, FinishOutcome DEF OutcomeMatchesItems, ActiveBatchStates, Verdict
  <2> QED
    BY <2>2, <2>3, <2>4, <2>5 DEF RowsAgree
<1>4. CASE Retry
  <2>1. /\ batch \in TerminalBatchStates /\ ~Cancelled /\ batch' = "running" /\ UNCHANGED pc
        /\ \A i \in Items : ~lease[i] /\ item[i] \notin ItemActiveStages
    BY <1>4, LeasedInTerminal
    DEF Retry, RequestFrame, Cancelled, TerminalBatchStates, RowsAgree, OutcomeMatchesItems,
        ItemTerminalStates, ItemActiveStages
  <2>2. \A i \in Items : pc[i] = "none" /\ ~lease'[i]
    BY <1>4, <2>1 DEF Retry, RowsAgree, LeaseHeld
  <2>3. InterruptedWaits'
    BY <1>4, <2>1 DEF Retry, RowsAgree, InterruptedWaits
  <2> QED
    BY <2>1, <2>2, <2>3
    DEF RowsAgree, LeaseHeld, LeaseExplained, ThreadMatchesItem, OutcomeMatchesItems, TerminalBatchStates
<1> QED
  BY <1>1, <1>2, <1>3, <1>4 DEF Owner

LEMMA TimeRows ==
  ASSUME TypeOK, RowsAgree, NEW i \in Items, ExcludeWait(i) \/ Time(i)
  PROVE  RowsAgree'
<1>1. UNCHANGED <<batch, item, lease, interrupted, pc>>
  BY DEF ExcludeWait, Time, Overrun, OverrunWaiting, RateReset, threads
<1> QED
  BY <1>1 DEF RowsAgree, LeaseHeld, LeaseExplained, ThreadMatchesItem, InterruptedWaits,
              OutcomeMatchesItems, Cancelled, Verdict

LEMMA RestartRows ==
  ASSUME TypeOK, RowsAgree, CountIsSafe, Crash \/ Recover
  PROVE  RowsAgree'
<1>1. CASE Crash
  BY <1>1 DEF Crash, row, RowsAgree, LeaseHeld, LeaseExplained, ThreadMatchesItem,
              InterruptedWaits, OutcomeMatchesItems, Cancelled, Verdict
<1>2. CASE Recover
  <2>1. \A i \in Items : pc'[i] = "none" /\ ~lease'[i]
    BY <1>2 DEF Recover, CountIsSafe, Live
  <2>2. LeaseHeld' /\ LeaseExplained' /\ ThreadMatchesItem'
    BY <2>1 DEF LeaseHeld, LeaseExplained, ThreadMatchesItem
  <2>3. InterruptedWaits'
    BY <1>2, <2>1 DEF Recover, Recovered, Unfinished, RowsAgree, InterruptedWaits, ItemActiveStages
  <2>4. OutcomeMatchesItems'
    <3>1. CASE batch \in ActiveBatchStates
      BY <1>2, <3>1, FinishOutcome
      DEF Recover, OutcomeMatchesItems, Verdict, ActiveBatchStates, TerminalBatchStates
    <3>2. CASE batch \in TerminalBatchStates
      <4>1. \A i \in Items : ~Unfinished(i)
        BY <1>2, <3>2
        DEF Recover, Recoverable, Unfinished, RowsAgree, OutcomeMatchesItems, ItemActiveStages,
            ItemTerminalStates
      <4>2. batch' = batch /\ item' = [i \in Items |-> item[i]]
        BY <1>2, <4>1 DEF Recover
      <4> QED
        BY <4>2 DEF TypeOK, RowsAgree, OutcomeMatchesItems, Verdict
    <3> QED
      BY <3>1, <3>2 DEF TypeOK
  <2> QED
    BY <2>2, <2>3, <2>4 DEF RowsAgree
<1> QED
  BY <1>1, <1>2

-----------------------------------------------------------------------------
(***************************************************************************)
(* The worker's count of its threads.                                      *)
(***************************************************************************)
\* No step of a thread starts another thread.
LEMMA RunItemLive ==
  ASSUME TypeOK, NEW i \in Items, RunItem(i)
  PROVE  Live' \subseteq Live /\ UNCHANGED <<worker, futures, wake, up>>
<1>1. pc[i] # "none" /\ (\E p : Goto(i, p)) /\ UNCHANGED <<worker, futures, wake, up>>
  BY DEF RunItem, Begin, Lookup, Advance, AdvanceTo, NextStage, Regenerate, SeeCancel, PollStages,
         WorkFails, ItemActiveStages, HitRateLimit, StoreResult, Returned, Settle,
         WaitRateLimit, Step, StayVolatile
<1> QED
  BY <1>1 DEF TypeOK, Live, Goto

\* The count is safe in the next state when threads have at most ended.
LEMMA CountShrinks ==
  ASSUME Live' \subseteq Live, Cardinality(Live) <= futures', futures' <= Slots, futures' \in Nat,
         worker' = "none" => Live = {}, ~up' => worker' = "none" /\ ~wake'
  PROVE  CountIsSafe'
<1>1. Cardinality(Live') <= Cardinality(Live) /\ Cardinality(Live') \in Nat
  BY LiveFinite, FS_Subset, FS_CardinalityType
<1> QED
  BY <1>1, LiveFinite DEF CountIsSafe

LEMMA CountInit == Init => CountIsSafe
<1>1. Init => Live = {}
  BY DEF Init, Live
<1> QED
  BY <1>1, FS_EmptySet, SlotsAssumption DEF Init, CountIsSafe

LEMMA WorkerCount ==
  ASSUME TypeOK, RowsAgree, CountIsSafe, Worker \/ StartWorker
  PROVE  CountIsSafe'
<1>1. CASE ReadBatch
  <2>1. Live' = Live /\ futures' = Cardinality(Live) /\ worker' # "none"
    BY <1>1 DEF ReadBatch, Live
  <2>2. futures' <= Slots
    BY <2>1, LiveFinite, SlotsAssumption DEF CountIsSafe, TypeOK
  <2>3. up' /\ up
    BY <1>1 DEF ReadBatch, CountIsSafe
  <2> QED
    BY <2>1, <2>2, <2>3, LiveFinite, CountShrinks
<1>2. CASE ClaimItem
  <2>1. PICK i \in Items : First(i) /\ Goto(i, "begin")
    BY <1>2 DEF ClaimItem
  <2>2. i \notin Live /\ Live' = Live \cup {i}
    BY <2>1, ClaimableIsFree DEF First, Goto, Live, TypeOK
  <2>3. Cardinality(Live') = Cardinality(Live) + 1
    BY <2>2, LiveFinite, FS_AddElement
  <2>4. futures' = futures + 1 /\ futures' <= Slots /\ worker' # "none" /\ up'
    BY <1>2, SlotsAssumption DEF ClaimItem, ClaimSweep, CountIsSafe, TypeOK
  <2> QED
    BY <2>3, <2>4, LiveFinite DEF CountIsSafe, TypeOK
<1>3. CASE ClaimNothing \/ ClaimRefused \/ Idle
  <2>1. Live' = Live /\ futures' = futures /\ worker' # "none" /\ up'
    BY <1>3 DEF ClaimNothing, ClaimSweep, ClaimRefused, Idle, Live, CountIsSafe
  <2> QED
    BY <2>1, CountShrinks DEF CountIsSafe, TypeOK
<1>4. CASE ExitWorker
  <2>1. Live' = {} /\ Live = {} /\ futures' = 0 /\ up'
    BY <1>4 DEF ExitWorker, Live, CountIsSafe
  <2> QED
    BY <2>1, FS_EmptySet, SlotsAssumption DEF CountIsSafe
<1>5. CASE StartWorker
  <2>1. Live' = Live /\ futures' = futures /\ worker' # "none" /\ up'
    BY <1>5 DEF StartWorker, Live, CountIsSafe
  <2> QED
    BY <2>1, CountShrinks DEF CountIsSafe, TypeOK
<1> QED
  BY <1>1, <1>2, <1>3, <1>4, <1>5 DEF Worker

LEMMA NextCount ==
  ASSUME TypeOK, RowsAgree, CountIsSafe, Next
  PROVE  CountIsSafe'
<1>1. ASSUME NEW i \in Items, RunItem(i)
      PROVE  CountIsSafe'
  BY <1>1, RunItemLive, CountShrinks DEF CountIsSafe, TypeOK
<1>2. ASSUME NEW i \in Items, ExcludeWait(i) \/ Time(i)
      PROVE  CountIsSafe'
  <2>1. UNCHANGED threads
    BY <1>2 DEF ExcludeWait, Time, Overrun, OverrunWaiting, RateReset
  <2> QED
    BY <2>1 DEF threads, CountIsSafe, Live
<1>3. CASE Owner
  <2>1. UNCHANGED <<worker, futures, pc, up>> /\ up
    BY <1>3 DEF Owner, Pause, Resume, Cancel, Retry, RequestFrame
  <2> QED
    BY <2>1 DEF CountIsSafe, Live
<1>4. CASE Crash
  <2>1. Live' = {} /\ futures' = 0 /\ worker' = "none" /\ ~wake'
    BY <1>4 DEF Crash, Live
  <2> QED
    BY <2>1, FS_EmptySet, SlotsAssumption DEF CountIsSafe
<1>5. CASE Recover
  <2>1. Live' = Live /\ futures' = futures /\ Live = {} /\ up'
    BY <1>5 DEF Recover, Live, CountIsSafe
  <2> QED
    BY <2>1 DEF CountIsSafe
<1> QED
  BY <1>1, <1>2, <1>3, <1>4, <1>5, WorkerCount DEF Next

-----------------------------------------------------------------------------
(***************************************************************************)
(* The theorems.                                                           *)
(***************************************************************************)
Inv == TypeOK /\ RowsAgree /\ CountIsSafe

\* Rows, leases and threads agree in every reachable state.
THEOREM InvHolds == Spec => []Inv
<1>1. Init => Inv
  BY TypeInit, RowsInit, CountInit DEF Inv
<1>2. Inv /\ [Next]_vars => Inv'
  <2> SUFFICES ASSUME Inv, [Next]_vars PROVE Inv'
    OBVIOUS
  <2>1. CASE Next
    <3>1. TypeOK'
      BY <2>1, RunItemType, TimeType, WorkerType, OwnerType, RestartType DEF Inv, Next
    <3>2. RowsAgree'
      BY <2>1, RunItemRows, TimeRows, WorkerRows, OwnerRows, RestartRows DEF Inv, Next
    <3> QED
      BY <2>1, <3>1, <3>2, NextCount DEF Inv
  <2>2. CASE UNCHANGED vars
    BY <2>2 DEF vars, row, threads, Inv, TypeOK, RowsAgree, LeaseHeld, LeaseExplained,
                ThreadMatchesItem, InterruptedWaits, OutcomeMatchesItems, Cancelled, Verdict,
                CountIsSafe, Live
  <2> QED
    BY <2>1, <2>2
<1> QED
  BY <1>1, <1>2, PTL DEF Spec

\* The rows, leases and threads agree: RowsMatchThreads of the model checking runs.
THEOREM RowsAndThreadsAgree == Spec => []RowsMatchThreads
<1>1. Inv => RowsMatchThreads
  BY DEF Inv, RowsAgree, RowsMatchThreads
<1> QED
  BY <1>1, InvHolds, PTL

\* No item is ever worked on by two threads: every thread holds the lease of its
\* item, and claim_next_item leases only what is not leased.
THEOREM ThreadsHoldLeases == Spec => []LeaseHeld
<1>1. Inv => LeaseHeld
  BY DEF Inv, RowsAgree
<1> QED
  BY <1>1, InvHolds, PTL

\* A closed batch reports what its settled items are.
THEOREM OutcomeCorrect == Spec => []OutcomeMatchesItems
<1>1. Inv => OutcomeMatchesItems
  BY DEF Inv, RowsAgree
<1> QED
  BY <1>1, InvHolds, PTL

\* At most whole_job_items threads run, and none outlives its worker.
THEOREM ExecutorBounded == Spec => []ExecutorBound
<1>1. Inv => ExecutorBound
  BY LiveFinite, SlotsAssumption DEF Inv, CountIsSafe, ExecutorBound, TypeOK
<1> QED
  BY <1>1, InvHolds, PTL

-----------------------------------------------------------------------------
(***************************************************************************)
(* What a step may never do.                                               *)
(***************************************************************************)
\* A step of thread i that goes through UpdateItem; only a thread that has seen
\* a cancellation asks for "cancelled", and it asks for nothing else.
Writes(i, s, code, value, terminal) ==
  /\ UpdateItem(i, s, code, value, terminal)
  /\ pc[i] # "none"
  /\ s = "cancelled" <=> pc[i] = "cancel"

\* A step of a thread writes its own row, through UpdateItem, or none.
LEMMA RunItemWrites ==
  ASSUME TypeOK, NEW i \in Items, RunItem(i)
  PROVE  \/ UNCHANGED <<batch, item, lease, gen, result>>
         \/ \E s, code, value, terminal : Writes(i, s, code, value, terminal)
<1>1. CASE Begin(i) \/ Lookup(i) \/ SeeCancel(i) \/ WorkFails(i) \/ HitRateLimit(i) \/ Returned(i)
  BY <1>1 DEF Begin, Lookup, SeeCancel, WorkFails, HitRateLimit, Returned, Step, row
<1>2. CASE StoreResult(i)
  BY <1>2 DEF StoreResult, row
<1>3. ASSUME NEW s \in ItemActiveStages, AdvanceTo(i, s), pc[i] \notin {"none", "cancel"}
      PROVE  \/ UNCHANGED <<batch, item, lease, gen, result>>
             \/ Writes(i, s, "none", FALSE, FALSE)
  BY <1>3 DEF AdvanceTo, Step, row, Writes, ItemActiveStages
<1>4. CASE Advance(i)
  <2>1. pc[i] \notin {"none", "cancel"} /\ NextStage[pc[i]] \in ItemActiveStages
    BY <1>4 DEF Advance, NextStage, ItemActiveStages
  <2>2. AdvanceTo(i, NextStage[pc[i]])
    BY <1>4 DEF Advance
  <2> QED
    BY <1>3, <2>1, <2>2
<1>5. CASE Regenerate(i)
  <2>1. AdvanceTo(i, "generating") /\ pc[i] = "generating" /\ "generating" \in ItemActiveStages
    BY <1>5 DEF Regenerate, ItemActiveStages
  <2> QED
    BY <1>3, <2>1
<1>6. CASE Settle(i)
  <2>1. \/ Writes(i, "complete", "none", TRUE, TRUE)
        \/ Writes(i, "failed", "other", FALSE, TRUE)
        \/ Writes(i, "failed", "EMPTY_REPOSITORY", FALSE, TRUE)
        \/ Writes(i, "cancelled", "none", FALSE, TRUE)
    BY <1>6 DEF Settle, Writes
  <2> QED
    BY <2>1
<1>7. CASE WaitRateLimit(i)
  <2>1. CASE Step(i, "none")
    BY <2>1 DEF Step, row
  <2>2. CASE UpdateItem(i, "waiting_rate_limit", "other", FALSE, FALSE)
    <3>1. Writes(i, "waiting_rate_limit", "other", FALSE, FALSE)
      BY <1>7, <2>2 DEF WaitRateLimit, Writes
    <3> QED
      BY <3>1
  <2> QED
    BY <1>7, <2>1, <2>2 DEF WaitRateLimit
<1> QED
  BY <1>1, <1>2, <1>4, <1>5, <1>6, <1>7 DEF RunItem

\* The steps of time and of the worker's bookkeeping leave these rows alone.
LEMMA QuietSteps ==
  ASSUME NEW i \in Items,
         ExcludeWait(i) \/ Time(i) \/ StartWorker \/ Crash \/ ReadBatch \/ ClaimRefused
           \/ Idle \/ ExitWorker
  PROVE  UNCHANGED <<batch, item, lease, gen, result>>
BY DEF ExcludeWait, Time, Overrun, OverrunWaiting, RateReset, StartWorker, Crash, ReadBatch,
       ClaimRefused, Idle, ExitWorker, row

\* Items is not empty, so the steps above need no item of their own.
LEMMA SomeItem == 1 \in Items
BY ItemCountAssumption DEF Items

LEMMA CancelledStep ==
  ASSUME Inv, [Next]_vars, Cancelled
  PROVE  /\ Cancelled' /\ gen' = gen
         /\ \A i \in Items : item'[i] = "complete" => item[i] = "complete"
<1> USE DEF Inv
<1>1. ASSUME UNCHANGED <<batch, item, lease, gen, result>>
      PROVE  /\ Cancelled' /\ gen' = gen
             /\ \A i \in Items : item'[i] = "complete" => item[i] = "complete"
  BY <1>1 DEF Cancelled
<1>2. ASSUME NEW i \in Items, NEW s, NEW code, NEW value, NEW terminal,
             UpdateItem(i, s, code, value, terminal),
             s = "cancelled" <=> pc[i] = "cancel", pc[i] # "none"
      PROVE  /\ Cancelled' /\ gen' = gen
             /\ \A j \in Items : item'[j] = "complete" => item[j] = "complete"
  <2>1. Effective(s) = "cancelled"
    BY <1>2, LeasedInTerminal DEF UpdateItem, Effective, Cancelled, TerminalBatchStates
  <2>2. gen' = gen
    BY <1>2, <2>1 DEF UpdateItem, TypeOK
  <2>3. Cancelled'
    BY <1>2, FinishKeeps DEF UpdateItem, Cancelled
  <2> QED
    BY <1>2, <2>1, <2>2, <2>3 DEF UpdateItem, TypeOK
<1>3. ASSUME NEW i \in Items, RunItem(i)
      PROVE  /\ Cancelled' /\ gen' = gen
             /\ \A j \in Items : item'[j] = "complete" => item[j] = "complete"
  BY <1>1, <1>2, <1>3, RunItemWrites DEF Writes
<1>4. ~ (ClaimItem \/ ClaimNothing \/ Owner)
  BY DEF ClaimItem, ClaimNothing, ClaimsOf, Owner, Pause, Resume, Cancel, Retry, Cancelled
<1>5. CASE Recover
  <2>1. gen' = gen /\ \A i \in Items : item'[i] = "complete" => item[i] = "complete"
    BY <1>5 DEF Recover, Recovered
  <2> QED
    BY <1>5, <2>1, FinishKeeps DEF Recover, Cancelled
<1>6. CASE UNCHANGED vars
  BY <1>1, <1>6 DEF vars, row
<1> QED
  BY <1>1, <1>3, <1>4, <1>5, <1>6, QuietSteps, SomeItem DEF Next, Worker

\* After the owner's cancel no generation is reserved and no item completes,
\* whatever thread, restart or request comes next.
THEOREM CancellationIsFinal == Spec => CancelIsFinal
<1>1. Inv /\ [Next]_vars =>
        [Cancelled => /\ Cancelled'
                      /\ gen' = gen
                      /\ \A i \in Items : item'[i] = "complete" => item[i] = "complete"]_vars
  BY CancelledStep
<1> QED
  BY <1>1, InvHolds, PTL DEF Spec, CancelIsFinal

LEMMA GenStep ==
  ASSUME Inv, [Next]_vars, NEW i \in Items, gen'[i] > gen[i]
  PROVE  lease[i]
<1> USE DEF Inv
<1>1. gen[i] \in Nat
  BY MaxAttemptsAssumption DEF TypeOK
<1>2. gen' # gen
  BY <1>1
<1>3. PICK j \in Items : RunItem(j)
  BY <1>2, QuietSteps, SomeItem
  DEF Next, Worker, ClaimItem, ClaimNothing, ClaimSweep, Owner, Pause, Resume, Cancel, Retry,
      Recover, row, vars
<1>4. PICK s, code, value, terminal : UpdateItem(j, s, code, value, terminal)
  BY <1>2, <1>3, RunItemWrites DEF Writes
<1>5. gen'[i] = gen[i] \/ i = j
  BY <1>4 DEF UpdateItem, TypeOK
<1> QED
  BY <1>1, <1>4, <1>5 DEF UpdateItem

\* A generation that a restart cut off while the provider or the validation was
\* at work is not repeated before the owner retries the item.
THEOREM ConsentIsAsked == Spec => ConsentBeforeResend
<1>1. Inv /\ [Next]_vars =>
        [\A i \in Items : gen'[i] > gen[i] => interrupted[i] \notin {"generating", "validating"}]_vars
  BY GenStep DEF Inv, RowsAgree, InterruptedWaits
<1> QED
  BY <1>1, InvHolds, PTL DEF Spec, ConsentBeforeResend

LEMMA CompleteStep ==
  ASSUME Inv, [Next]_vars, NEW i \in Items, item[i] = "complete", result[i]
  PROVE  item'[i] = "complete" /\ result'[i]
<1> USE DEF Inv
<1>1. ~lease[i]
  BY DEF RowsAgree, LeaseExplained, ItemActiveStages
<1>2. ASSUME NEW j \in Items, RunItem(j)
      PROVE  item'[i] = "complete" /\ result'[i]
  <2>1. ASSUME NEW s, NEW code, NEW value, NEW terminal, UpdateItem(j, s, code, value, terminal)
        PROVE  item'[i] = "complete" /\ result'[i]
    BY <1>1, <2>1 DEF UpdateItem, TypeOK
  <2> QED
    BY <1>2, <2>1, RunItemWrites DEF Writes
<1>3. CASE ClaimItem \/ ClaimNothing
  <2>1. Swept[i] = "complete" /\ i \notin Claimable /\ result' = result
    BY <1>3 DEF Swept, Exhausted, Claimable, ClaimItem, ClaimNothing, ClaimSweep
  <2> QED
    BY <1>3, <2>1 DEF ClaimItem, ClaimNothing, First, Swept
<1>4. CASE Owner
  BY <1>4 DEF Owner, Pause, Resume, Cancel, Retry, Retryable, row
<1>5. CASE Recover
  BY <1>1, <1>5 DEF Recover, Unfinished, ItemActiveStages
<1>6. CASE UNCHANGED vars
  BY <1>6 DEF vars, row
<1> QED
  BY <1>2, <1>3, <1>4, <1>5, <1>6, QuietSteps, SomeItem DEF Next, Worker

\* A completed item keeps its result through retries, cancellations and restarts.
THEOREM CompletedStays == Spec => CompletedIsKept
<1>1. Inv /\ [Next]_vars =>
        [\A i \in Items : item[i] = "complete" /\ result[i] => item'[i] = "complete" /\ result'[i]]_vars
  BY CompleteStep
<1> QED
  BY <1>1, InvHolds, PTL DEF Spec, CompletedIsKept

LEMMA PausedStep ==
  ASSUME Inv, [Next]_vars, batch = "paused", NEW i \in Items, lease'[i]
  PROVE  lease[i]
<1> USE DEF Inv
<1>1. ASSUME NEW j \in Items, RunItem(j)
      PROVE  lease[i]
  <2>1. ASSUME NEW s, NEW code, NEW value, NEW terminal, UpdateItem(j, s, code, value, terminal)
        PROVE  lease[i]
    BY <2>1 DEF UpdateItem, TypeOK
  <2> QED
    BY <1>1, <2>1, RunItemWrites DEF Writes
<1>2. ~ClaimItem /\ ~ClaimNothing /\ ~Pause /\ ~Retry
  BY DEF ClaimItem, ClaimNothing, ClaimsOf, Pause, Retry
<1>3. CASE Resume \/ Cancel \/ Recover
  BY <1>3 DEF Resume, Cancel, Recover, row
<1>4. CASE UNCHANGED vars
  BY <1>4 DEF vars, row
<1> QED
  BY <1>1, <1>2, <1>3, <1>4, QuietSteps, SomeItem DEF Next, Worker, Owner

\* A paused batch leases nothing: the worker that is still alive claims no more.
THEOREM PauseAdmitsNothing == Spec => PausedAdmitsNothing
<1>1. Inv /\ [Next]_vars =>
        [batch = "paused" => \A i \in Items : lease'[i] => lease[i]]_vars
  BY PausedStep
<1> QED
  BY <1>1, InvHolds, PTL DEF Spec, PausedAdmitsNothing
-----------------------------------------------------------------------------
(***************************************************************************)
(* AnalysisBatch implements BatchLifecycle.                                *)
(***************************************************************************)
lifeStep == [Life!Next]_(Life!lifecycle)

\* A batch that has not begun has no item at work: the lifecycle counts an
\* attempt only of a batch that runs or is paused.
QueuedIsIdle == batch = "queued" => \A i \in Items : ~lease[i]

LEMMA QueuedStep ==
  ASSUME Inv, QueuedIsIdle, [Next]_vars
  PROVE  QueuedIsIdle'
<1> USE DEF QueuedIsIdle
<1>1. ASSUME UNCHANGED <<batch, item, lease, gen, result>>
      PROVE  QueuedIsIdle'
  BY <1>1
<1>2. ASSUME NEW i \in Items, RunItem(i)
      PROVE  QueuedIsIdle'
  <2>1. ASSUME NEW s, NEW code, NEW value, NEW terminal, UpdateItem(i, s, code, value, terminal)
        PROVE  QueuedIsIdle'
    BY <2>1 DEF UpdateItem, Finish, Verdict
  <2> QED
    BY <1>1, <1>2, <2>1, RunItemWrites DEF Writes, Inv
<1>3. CASE ClaimItem \/ ClaimNothing
  BY <1>3 DEF ClaimItem, ClaimNothing, Finish, Verdict
<1>4. CASE Owner
  BY <1>4 DEF Owner, Pause, Resume, Cancel, Retry, Finish, Verdict
<1>5. CASE Recover
  BY <1>5 DEF Recover
<1>6. CASE UNCHANGED vars
  BY <1>1, <1>6 DEF vars, row
<1> QED
  BY <1>1, <1>2, <1>3, <1>4, <1>5, <1>6, QuietSteps, SomeItem DEF Next, Worker

-----------------------------------------------------------------------------
\* The code's closing of a batch is the lifecycle's.
LEMMA FinishIsClosed ==
  ASSUME NEW b \in ActiveBatchStates, NEW s \in [Items -> ItemStates]
  PROVE  Finish(b, s) = Life!Closed(b, OutcomesOf(s))
<1>1. \A i \in Items : /\ OutcomesOf(s)[i] = "open" <=> s[i] \notin ItemTerminalStates
                       /\ OutcomesOf(s)[i] = "complete" <=> s[i] = "complete"
  BY DEF OutcomesOf, OutcomeOf, ItemTerminalStates
<1>2. Life!SomeOf(OutcomesOf(s), "open") <=> \E i \in Items : s[i] \notin ItemTerminalStates
  BY <1>1 DEF Life!SomeOf
<1>3. Life!SomeOf(OutcomesOf(s), "complete") <=> \E i \in Items : s[i] = "complete"
  BY <1>1 DEF Life!SomeOf
<1>4. Life!AllOf(OutcomesOf(s), "complete") <=> \A i \in Items : s[i] = "complete"
  BY <1>1 DEF Life!AllOf
<1> QED
  BY <1>2, <1>3, <1>4 DEF Finish, Verdict, Life!Closed, ActiveBatchStates

\* Some open items get outcomes other than the owner's, in a batch at work.
LEMMA ProgressStep ==
  ASSUME TypeOK, item' \in [Items -> ItemStates], gen' = gen,
         \A i \in Items : \/ item[i] \notin ItemTerminalStates
                             /\ item'[i] \in ItemTerminalStates \ {"cancelled"}
                          \/ OutcomeOf(item'[i]) = OutcomeOf(item[i]),
         batch \in {"queued", "running", "paused"},
         NEW b \in {batch, IF batch = "queued" THEN "running" ELSE batch},
         batch' = Finish(b, item')
  PROVE  lifeStep
<1> DEFINE S == {i \in Items : OutcomeOf(item'[i]) # OutcomeOf(item[i])}
           o == [i \in Items |-> IF i \in S THEN OutcomeOf(item'[i]) ELSE "failed"]
<1>1. o \in [Items -> {"complete", "failed", "confirm"}]
  BY DEF OutcomeOf, ItemTerminalStates
<1>2. S \in SUBSET Life!Unsettled
  BY DEF Life!Unsettled, OutcomesOf, OutcomeOf, ItemTerminalStates
<1>3. OutcomesOf(item') = Life!Settled(S, o)
  BY DEF Life!Settled, OutcomesOf
<1>4. batch' = Life!Closed(b, OutcomesOf(item'))
  BY FinishIsClosed DEF ActiveBatchStates
<1>5. OutcomesOf(item)' = OutcomesOf(item')
  BY DEF OutcomesOf, OutcomeOf
<1>6. Life!Progress
  BY <1>1, <1>2, <1>3, <1>4, <1>5 DEF Life!Progress
<1> QED
  BY <1>6 DEF lifeStep, Life!Next

\* Some open items of a cancelling batch are cancelled.
LEMMA DrainStep ==
  ASSUME TypeOK, item' \in [Items -> ItemStates], gen' = gen,
         \A i \in Items : \/ item[i] \notin ItemTerminalStates /\ item'[i] = "cancelled"
                          \/ OutcomeOf(item'[i]) = OutcomeOf(item[i]),
         batch = "cancelling", batch' = Finish(batch, item')
  PROVE  lifeStep
<1> DEFINE S == {i \in Items : OutcomeOf(item'[i]) # OutcomeOf(item[i])}
<1>1. S \in SUBSET Life!Unsettled
  BY DEF Life!Unsettled, OutcomesOf, OutcomeOf, ItemTerminalStates
<1>2. OutcomesOf(item') = Life!Settled(S, [i \in Items |-> "cancelled"])
  BY DEF Life!Settled, OutcomesOf, OutcomeOf, ItemTerminalStates
<1>3. batch' = Life!Closed("cancelling", OutcomesOf(item'))
  BY FinishIsClosed DEF ActiveBatchStates
<1>4. OutcomesOf(item)' = OutcomesOf(item')
  BY DEF OutcomesOf, OutcomeOf
<1>5. Life!Drain
  BY <1>1, <1>2, <1>3, <1>4 DEF Life!Drain
<1> QED
  BY <1>5 DEF lifeStep, Life!Next

\* Rows that stand for the same outcomes, in a batch that stays as it is.
LEMMA HiddenStep ==
  ASSUME batch' = batch, gen' = gen, \A i \in Items : OutcomeOf(item'[i]) = OutcomeOf(item[i])
  PROVE  lifeStep
BY DEF lifeStep, Life!lifecycle, OutcomesOf

-----------------------------------------------------------------------------
LEMMA LifeInit == Init => Life!Init
<1> SUFFICES ASSUME Init PROVE Life!Init
  OBVIOUS
<1>1. OutcomesOf(item) = [i \in Items |-> "open"]
  BY DEF Init, OutcomesOf, OutcomeOf, ItemTerminalStates
<1> QED
  BY <1>1 DEF Init, Life!Init

\* The transaction of a thread: it dispatches, settles or drains its item.
LEMMA WriteIsLife ==
  ASSUME Inv, Inv', QueuedIsIdle, NEW i \in Items, NEW s, NEW code, NEW value, NEW terminal,
         Writes(i, s, code, value, terminal)
  PROVE  lifeStep
<1> USE DEF Inv
<1> DEFINE state == Effective(s)
<1>1. /\ item' = [item EXCEPT ![i] = state]
      /\ gen' = [gen EXCEPT ![i] = IF state = "generating" THEN @ + 1 ELSE @]
      /\ batch' = Finish(batch, item')
      /\ lease[i]
  BY DEF Writes, UpdateItem
<1>2. item' \in [Items -> ItemStates] /\ gen' \in [Items -> 0..MaxAttempts]
  BY DEF TypeOK
<1>3. batch # "queued"
  BY <1>1 DEF QueuedIsIdle
<1>4. \A j \in Items \ {i} : item'[j] = item[j]
  BY <1>1 DEF TypeOK
<1>5. item'[i] = state /\ item \in [Items -> ItemStates] /\ gen \in [Items -> 0..MaxAttempts]
  BY <1>1 DEF TypeOK
<1>6. CASE batch \in TerminalBatchStates
  <2>1. state = "cancelled" /\ item[i] = "cancelled"
    BY <1>1, <1>6, LeasedInTerminal DEF Writes, Effective, TerminalBatchStates
  <2>2. batch' = batch /\ gen' = gen
    BY <1>1, <1>5, <1>6, <2>1, FinishKeeps
  <2> QED
    BY <1>4, <1>5, <2>1, <2>2, HiddenStep
<1>7. CASE batch = "cancelling"
  <2>1. state = "cancelled" /\ gen' = gen
    BY <1>1, <1>5, <1>7 DEF Effective
  <2>2. item[i] \in ItemActiveStages \cup {"cancelled"}
    BY <1>1 DEF RowsAgree, LeaseExplained
  <2>3. \A j \in Items : \/ item[j] \notin ItemTerminalStates /\ item'[j] = "cancelled"
                         \/ OutcomeOf(item'[j]) = OutcomeOf(item[j])
    BY <1>4, <1>5, <2>1, <2>2 DEF ItemActiveStages, ItemTerminalStates
  <2> QED
    BY <1>1, <1>2, <1>7, <2>1, <2>3, DrainStep
<1>8. CASE batch \in {"running", "paused"}
  <2>1. state = s /\ s # "cancelled" /\ item[i] \in ItemActiveStages
    BY <1>1, <1>8 DEF Effective, Writes, RowsAgree, ThreadMatchesItem, LeaseExplained, Cancelled
  <2>2. CASE state = "generating"
    <3>1. gen[i] < MaxAttempts /\ gen' = [gen EXCEPT ![i] = @ + 1]
      BY <1>1, <1>2, <1>5, <2>2, MaxAttemptsAssumption
    <3>2. batch' = batch
      BY <1>1, <1>5, <2>2 DEF Finish, ItemTerminalStates
    <3>3. OutcomesOf(item)[i] = "open"
      BY <2>1 DEF OutcomesOf, OutcomeOf, ItemActiveStages, ItemTerminalStates
    <3>4. \A j \in Items : OutcomeOf(item'[j]) = OutcomeOf(item[j])
      BY <1>4, <1>5, <2>1, <2>2 DEF OutcomeOf, ItemActiveStages, ItemTerminalStates
    <3>5. OutcomesOf(item)' = OutcomesOf(item)
      BY <3>4 DEF OutcomesOf
    <3>6. Life!Dispatch(i)
      BY <1>8, <3>1, <3>2, <3>3, <3>5 DEF Life!Dispatch
    <3> QED
      BY <3>6 DEF lifeStep, Life!Next
  <2>3. CASE state # "generating"
    <3>1. gen' = gen
      BY <1>1, <1>5, <2>3
    <3>2. item[i] \notin ItemTerminalStates
      BY <2>1 DEF ItemActiveStages, ItemTerminalStates
    <3>3. \/ item'[i] \in ItemTerminalStates \ {"cancelled"}
          \/ OutcomeOf(item'[i]) = OutcomeOf(item[i])
      BY <1>5, <2>1, <3>2 DEF OutcomeOf, ItemTerminalStates
    <3>4. \A j \in Items : \/ item[j] \notin ItemTerminalStates
                              /\ item'[j] \in ItemTerminalStates \ {"cancelled"}
                           \/ OutcomeOf(item'[j]) = OutcomeOf(item[j])
      BY <1>4, <3>2, <3>3
    <3>5. batch \in {"queued", "running", "paused"}
      BY <1>8
    <3> QED
      BY <1>1, <1>2, <3>1, <3>4, <3>5, ProgressStep
  <2> QED
    BY <2>2, <2>3
<1> QED
  BY <1>3, <1>6, <1>7, <1>8 DEF TypeOK, ActiveBatchStates

\* A claim fails the items that have nothing left to spend and begins the batch.
LEMMA ClaimIsLife ==
  ASSUME Inv, Inv', ClaimItem \/ ClaimNothing
  PROVE  lifeStep
<1> USE DEF Inv
<1>1. batch \in {"queued", "running", "paused"} /\ gen' = gen
  BY DEF ClaimItem, ClaimNothing, ClaimsOf, ClaimSweep
<1>2. "running" \in {batch, IF batch = "queued" THEN "running" ELSE batch}
  BY DEF ClaimItem, ClaimNothing, ClaimsOf
<1>3. item' \in [Items -> ItemStates] /\ item \in [Items -> ItemStates]
  BY DEF TypeOK
<1>4. \A i \in Items : \/ item[i] \notin ItemTerminalStates /\ Swept[i] = "failed"
                       \/ Swept[i] = item[i]
  BY DEF Swept, Exhausted, ItemTerminalStates
<1>5. CASE ClaimNothing
  <2>1. item' = Swept /\ batch' = Finish("running", item')
    BY <1>5 DEF ClaimNothing
  <2>2. \A i \in Items : \/ item[i] \notin ItemTerminalStates
                            /\ item'[i] \in ItemTerminalStates \ {"cancelled"}
                         \/ OutcomeOf(item'[i]) = OutcomeOf(item[i])
    BY <1>4, <2>1 DEF ItemTerminalStates
  <2> QED
    BY <1>1, <1>2, <1>3, <2>1, <2>2, ProgressStep
<1>6. CASE ClaimItem
  <2>1. PICK i \in Items : First(i) /\ item' = [Swept EXCEPT ![i] = "resolving_commit"]
    BY <1>6 DEF ClaimItem
  <2>2. Swept[i] \in {"queued", "waiting_rate_limit"}
    BY <2>1 DEF First, Claimable
  <2>3. item'[i] = "resolving_commit" /\ \A j \in Items \ {i} : item'[j] = Swept[j]
    BY <2>1 DEF Swept
  <2>4. batch' = Finish("running", item')
    BY <1>6, <2>3 DEF ClaimItem, Finish, ItemTerminalStates
  <2>5. OutcomeOf(item'[i]) = OutcomeOf(item[i])
    BY <1>4, <2>2, <2>3 DEF OutcomeOf, ItemTerminalStates
  <2>6. \A j \in Items : \/ item[j] \notin ItemTerminalStates
                            /\ item'[j] \in ItemTerminalStates \ {"cancelled"}
                         \/ OutcomeOf(item'[j]) = OutcomeOf(item[j])
    BY <1>4, <2>3, <2>5 DEF ItemTerminalStates
  <2> QED
    BY <1>1, <1>2, <1>3, <2>4, <2>6, ProgressStep
<1> QED
  BY <1>5, <1>6

\* A request of the owner is the lifecycle's request.
LEMMA OwnerIsLife ==
  ASSUME Inv, Inv', Owner
  PROVE  lifeStep
<1> USE DEF Inv
<1>1. CASE Pause
  <2>1. Life!Pause
    BY <1>1 DEF Pause, Life!Pause, row, OutcomesOf
  <2> QED
    BY <2>1 DEF lifeStep, Life!Next
<1>2. CASE Resume
  <2>1. batch' = Life!Closed("running", OutcomesOf(item))
    BY <1>2, FinishIsClosed DEF Resume, TypeOK, ActiveBatchStates
  <2>2. Life!Resume
    BY <1>2, <2>1 DEF Resume, Life!Resume, row, OutcomesOf
  <2> QED
    BY <2>2 DEF lifeStep, Life!Next
<1>3. CASE Cancel
  <2> DEFINE S == {i \in Items : item[i] \in {"queued", "waiting_rate_limit"}}
             confirm == {i \in Items : OutcomesOf(item)[i] = "confirm"}
  <2>1. S \in SUBSET Life!Unsettled
    BY DEF Life!Unsettled, OutcomesOf, OutcomeOf, ItemTerminalStates
  <2>2. \A i \in Items : i \in S \cup confirm <=>
          item[i] \in {"queued", "waiting_rate_limit", "needs_retry_confirmation"}
    BY DEF OutcomesOf, OutcomeOf, ItemTerminalStates
  <2>3. OutcomesOf(item') = Life!Settled(S \cup confirm, [i \in Items |-> "cancelled"])
    BY <1>3, <2>2 DEF Cancel, Life!Settled, OutcomesOf, OutcomeOf, ItemTerminalStates
  <2>4. batch' = Life!Closed("cancelling", OutcomesOf(item'))
    BY <1>3, FinishIsClosed DEF Cancel, TypeOK, ActiveBatchStates
  <2>5. OutcomesOf(item)' = OutcomesOf(item')
    BY DEF OutcomesOf, OutcomeOf
  <2>6. Life!Cancel
    BY <1>3, <2>1, <2>3, <2>4, <2>5 DEF Cancel, Life!Cancel
  <2> QED
    BY <2>6 DEF lifeStep, Life!Next
<1>4. CASE Retry
  <2> DEFINE S == {i \in Items : Retryable(i)}
             reopened == {i \in Items : OutcomesOf(item)[i] \in {"failed", "confirm"}
                                        /\ gen[i] < MaxAttempts}
  <2>1. S \in SUBSET reopened /\ S # {}
    BY <1>4 DEF Retry, Retryable, OutcomesOf, OutcomeOf, ItemTerminalStates
  <2>2. OutcomesOf(item') = Life!Settled(S, [i \in Items |-> "open"])
    BY <1>4 DEF Retry, Life!Settled, OutcomesOf, OutcomeOf, ItemTerminalStates
  <2>3. OutcomesOf(item)' = OutcomesOf(item')
    BY DEF OutcomesOf, OutcomeOf
  <2>4. Life!Retry
    BY <1>4, <2>1, <2>2, <2>3 DEF Retry, Life!Retry
  <2> QED
    BY <2>4 DEF lifeStep, Life!Next
<1> QED
  BY <1>1, <1>2, <1>3, <1>4 DEF Owner

\* A restart drains a cancelling batch, and leaves the generations it cut off in
\* any other to the owner.
LEMMA RecoverIsLife ==
  ASSUME Inv, Inv', Recover
  PROVE  lifeStep
<1> USE DEF Inv
<1>1. item' = [i \in Items |-> IF Unfinished(i) THEN Recovered(i) ELSE item[i]] /\ gen' = gen
  BY DEF Recover
<1>2. \A i \in Items : Unfinished(i) => item[i] \notin ItemTerminalStates
  BY DEF Recover, Recoverable, ItemActiveStages, ItemTerminalStates
<1>3. item' \in [Items -> ItemStates]
  BY DEF TypeOK
<1>4. CASE ~ \E i \in Items : Unfinished(i)
  <2>1. batch' = batch /\ \A i \in Items : item'[i] = item[i]
    BY <1>1, <1>4 DEF Recover
  <2> QED
    BY <1>1, <2>1, HiddenStep
<1>5. CASE \E i \in Items : Unfinished(i)
  <2>1. batch \notin TerminalBatchStates
    BY <1>2, <1>5 DEF RowsAgree, OutcomeMatchesItems
  <2>2. batch' = Finish(batch, item')
    BY <1>5 DEF Recover
  <2>3. CASE batch = "cancelling"
    <3>1. \A i \in Items : \/ item[i] \notin ItemTerminalStates /\ item'[i] = "cancelled"
                           \/ OutcomeOf(item'[i]) = OutcomeOf(item[i])
      BY <1>1, <1>2, <2>3 DEF Recovered
    <3> QED
      BY <1>1, <1>3, <2>2, <2>3, <3>1, DrainStep
  <2>4. CASE batch # "cancelling"
    <3>1. \A i \in Items : \/ item[i] \notin ItemTerminalStates
                              /\ item'[i] \in ItemTerminalStates \ {"cancelled"}
                           \/ OutcomeOf(item'[i]) = OutcomeOf(item[i])
      BY <1>1, <1>2, <2>4 DEF Recovered, OutcomeOf, ItemTerminalStates
    <3>2. batch \in {"queued", "running", "paused"}
      BY <2>1, <2>4 DEF TypeOK, ActiveBatchStates
    <3> QED
      BY <1>1, <1>3, <2>2, <3>1, <3>2, ProgressStep
  <2> QED
    BY <2>3, <2>4
<1> QED
  BY <1>4, <1>5

\* Every step of the rows, the threads, the worker, the owner and the restarts
\* (admin/batch_runtime.py, admin/batches.py) is a step of BatchLifecycle or
\* leaves what the owner sees alone.
THEOREM BatchImplementsLifecycle == Spec => ImplementsLifecycle
<1>1. Init => Life!Init /\ QueuedIsIdle
  BY LifeInit DEF Init, QueuedIsIdle
<1>2. Inv /\ Inv' /\ QueuedIsIdle /\ [Next]_vars => lifeStep
  <2> SUFFICES ASSUME Inv, Inv', QueuedIsIdle, [Next]_vars PROVE lifeStep
    OBVIOUS
  <2>1. ASSUME UNCHANGED <<batch, item, lease, gen, result>>
        PROVE  lifeStep
    BY <2>1, HiddenStep
  <2>2. ASSUME NEW i \in Items, RunItem(i)
        PROVE  lifeStep
    BY <2>1, <2>2, RunItemWrites, WriteIsLife DEF Inv
  <2>3. CASE UNCHANGED vars
    BY <2>1, <2>3 DEF vars, row
  <2> QED
    BY <2>1, <2>2, <2>3, ClaimIsLife, OwnerIsLife, RecoverIsLife, QuietSteps, SomeItem
    DEF Next, Worker
<1>3. Inv /\ QueuedIsIdle /\ [Next]_vars => QueuedIsIdle'
  BY QueuedStep
<1> QED
  BY <1>1, <1>2, <1>3, InvHolds, PTL DEF Spec, ImplementsLifecycle, Life!Spec, lifeStep
-----------------------------------------------------------------------------
(***************************************************************************)
(* Provider permits: the operators of the queue.                           *)
(***************************************************************************)
Entries == [of : Threads \cup {Nobody}, lane : Lanes]

\* A nonempty set of natural numbers has a least member.
LEMMA LeastNatural ==
  ASSUME NEW T \in SUBSET Nat, T # {}
  PROVE  \E m \in T : \A n \in T : m <= n
<1> DEFINE F == {0..n : n \in T}
<1>1. F \subseteq FiniteSubsetsOf(Nat)
  <2> SUFFICES ASSUME NEW n \in T PROVE 0..n \in FiniteSubsetsOf(Nat)
    OBVIOUS
  <2>1. IsFiniteSet(0..n)
    BY FS_Interval
  <2> QED
    BY <2>1 DEF FiniteSubsetsOf
<1>2. F # {}
  OBVIOUS
<1>3. IsWellFoundedOn(StrictSubsetOrdering(Nat), FiniteSubsetsOf(Nat))
  BY FS_StrictSubsetOrderingWellFounded
<1>4. PICK x \in F : \A y \in F : ~ (<<y, x>> \in StrictSubsetOrdering(Nat))
  <2> HIDE DEF F
  <2> QED
    BY <1>1, <1>2, <1>3, WFMin
<1>5. PICK m \in T : x = 0..m
  OBVIOUS
<1>6. ASSUME NEW n \in T, ~(m <= n)
      PROVE  FALSE
  <2>1. n \in Nat /\ m \in Nat /\ n < m
    BY <1>6
  <2>2. 0..n \subseteq 0..m /\ m \in 0..m /\ m \notin 0..n
    BY <2>1
  <2>3. <<0..n, 0..m>> \in StrictSubsetOrdering(Nat)
    BY <2>1, <2>2 DEF StrictSubsetOrdering
  <2> QED
    BY <2>3, <1>4, <1>5, <1>6
<1> QED
  BY <1>6

\* The first waiter of a lane is one, if the lane has any.
LEMMA OldestIsFirst ==
  ASSUME NEW q \in Seq(Entries), NEW l \in Waiting(q)
  PROVE  /\ Oldest(q, l) \in 1..Len(q)
         /\ q[Oldest(q, l)].lane = l
         /\ \A j \in 1..(Oldest(q, l) - 1) : q[j].lane # l
<1> DEFINE T == {k \in 1..Len(q) : q[k].lane = l}
<1>1. T \in SUBSET Nat /\ T # {}
  BY DEF Waiting
<1>2. PICK m \in T : \A n \in T : m <= n
  <2> HIDE DEF T
  <2> QED
    BY <1>1, LeastNatural
<1>3. m \in DOMAIN q /\ q[m].lane = l /\ \A j \in 1..(m - 1) : q[j].lane # l
  BY <1>2
<1> QED
  BY <1>3 DEF Oldest

\* The first lane of a set of lanes is in it, and none before it is.
LEMMA FirstLaneIsFirst ==
  ASSUME NEW ls \in SUBSET Lanes, ls # {}
  PROVE  \E k \in 1..3 : /\ FirstLane(ls) = Order[k] /\ Order[k] \in ls
                         /\ \A j \in 1..(k - 1) : Order[j] \notin ls
<1>1. /\ DOMAIN Order = 1..3
      /\ Order[1] = "public_chat" /\ Order[2] = "admin_single" /\ Order[3] = "admin_batch"
  BY DEF Order
<1>2. \E k \in DOMAIN Order : Order[k] \in ls /\ \A j \in 1..(k - 1) : Order[j] \notin ls
  <2>1. CASE "public_chat" \in ls
    <3>1. Order[1] \in ls /\ \A j \in 1..(1 - 1) : Order[j] \notin ls
      BY <1>1, <2>1
    <3> QED
      BY <1>1, <3>1
  <2>2. CASE "public_chat" \notin ls /\ "admin_single" \in ls
    <3>1. Order[2] \in ls /\ \A j \in 1..(2 - 1) : Order[j] \notin ls
      BY <1>1, <2>2
    <3> QED
      BY <1>1, <3>1
  <2>3. CASE "public_chat" \notin ls /\ "admin_single" \notin ls
    <3>1. "admin_batch" \in ls
      BY <2>3 DEF Lanes
    <3>2. Order[3] \in ls /\ \A j \in 1..(3 - 1) : Order[j] \notin ls
      BY <1>1, <2>3, <3>1
    <3> QED
      BY <1>1, <3>2
  <2> QED
    BY <2>1, <2>2, <2>3
<1> DEFINE k0 == CHOOSE k \in DOMAIN Order :
                   Order[k] \in ls /\ \A j \in 1..(k - 1) : Order[j] \notin ls
<1>3. k0 \in DOMAIN Order /\ Order[k0] \in ls /\ \A j \in 1..(k0 - 1) : Order[j] \notin ls
  BY <1>2
<1>4. FirstLane(ls) = Order[k0]
  BY DEF FirstLane
<1> QED
  BY <1>1, <1>3, <1>4

\* Two sequences in a row.
LEMMA Joined ==
  ASSUME NEW S, NEW a \in Seq(S), NEW b \in Seq(S)
  PROVE  /\ a \o b \in Seq(S)
         /\ Len(a \o b) = Len(a) + Len(b)
         /\ \A j \in 1..(Len(a) + Len(b)) :
              (a \o b)[j] = IF j <= Len(a) THEN a[j] ELSE b[j - Len(a)]
  OBVIOUS

\* A queue without one of its entries.
LEMMA Removed ==
  ASSUME NEW S, NEW q \in Seq(S), NEW k \in 1..Len(q)
  PROVE  /\ RemoveAt(q, k) \in Seq(S)
         /\ Len(RemoveAt(q, k)) = Len(q) - 1
         /\ \A j \in 1..(Len(q) - 1) : RemoveAt(q, k)[j] = q[IF j < k THEN j ELSE j + 1]
<1> DEFINE a == SubSeq(q, 1, k - 1)
           b == SubSeq(q, k + 1, Len(q))
<1>1. a \in Seq(S) /\ Len(a) = k - 1 /\ \A j \in 1..(k - 1) : a[j] = q[j]
  OBVIOUS
<1>2. b \in Seq(S) /\ Len(b) = Len(q) - k /\ \A j \in 1..(Len(q) - k) : b[j] = q[k + j]
  OBVIOUS
<1>3. RemoveAt(q, k) = a \o b
  BY DEF RemoveAt
<1> HIDE DEF a, b
<1>4. a \o b \in Seq(S) /\ Len(a \o b) = Len(q) - 1
  <2>1. a \o b \in Seq(S) /\ Len(a \o b) = Len(a) + Len(b)
    BY <1>1, <1>2, Joined
  <2>2. Len(q) \in Nat /\ (k - 1) + (Len(q) - k) = Len(q) - 1
    OBVIOUS
  <2> QED
    BY <1>1, <1>2, <2>1, <2>2
<1>5. ASSUME NEW j \in 1..(Len(q) - 1)
      PROVE  (a \o b)[j] = q[IF j < k THEN j ELSE j + 1]
  <2>1. CASE j < k
    <3>1. (a \o b)[j] = a[j]
      BY <1>1, <1>2, <2>1
    <3> QED
      BY <1>1, <2>1, <3>1
  <2>2. CASE ~(j < k)
    <3>1. (a \o b)[j] = b[j - (k - 1)] /\ j - (k - 1) \in 1..(Len(q) - k)
      BY <1>1, <1>2, <2>2
    <3>2. b[j - (k - 1)] = q[k + (j - (k - 1))] /\ k + (j - (k - 1)) = j + 1
      BY <1>2, <3>1
    <3> QED
      BY <2>2, <3>1, <3>2
  <2> QED
    BY <2>1, <2>2
<1> QED
  BY <1>3, <1>4, <1>5

(***************************************************************************)
(* Provider permits: what the loop does.  It grants at most one permit,    *)
(* because a permit is available only while nobody waits.                  *)
(***************************************************************************)
\* The scheduler as the loop finds it.
Entered(a, q) == [available |-> a, waiters |-> q, remaining |-> remaining, granted |-> <<>>]

CreditTyped(credit) == credit \in [Lanes -> Nat] /\ \A l \in Lanes : credit[l] <= Weight[l]

\* The credit from which a grant is taken: renewed if no waiting lane has any.
CreditFor(credit, q) == IF Credited(credit, q) = {} THEN Weight ELSE credit

\* A grant takes one entry of a lane that has credit, and none of the lanes
\* before that one has both a waiter and credit.
LEMMA GrantIsOne ==
  ASSUME NEW a \in Nat \ {0}, NEW q \in Seq(Entries), q # <<>>, CreditTyped(remaining)
  PROVE  \E l \in Waiting(q), k \in 1..Len(q) :
           /\ q[k].lane = l
           /\ GrantOne(Entered(a, q)) =
                [available |-> a - 1, waiters |-> RemoveAt(q, k),
                 remaining |-> [CreditFor(remaining, q) EXCEPT ![l] = @ - 1],
                 granted |-> <<q[k]>>]
           /\ CreditFor(remaining, q)[l] > 0
           /\ \E i \in 1..3 : /\ l = Order[i]
                              /\ \A j \in 1..(i - 1) : Order[j] \notin Credited(CreditFor(remaining, q), q)
           /\ \A j \in 1..(k - 1) : q[j].lane # l
<1> DEFINE credit == CreditFor(remaining, q)
           ls == Credited(credit, q)
           l == FirstLane(ls)
           k == Oldest(q, l)
<1>1. Waiting(q) \in SUBSET Lanes /\ Waiting(q) # {}
  <2>1. ASSUME NEW j \in DOMAIN q PROVE q[j].lane \in Lanes
    <3>1. q[j] \in Entries
      OBVIOUS
    <3> QED
      BY <3>1 DEF Entries
  <2>2. 1 \in DOMAIN q
    OBVIOUS
  <2>3. q[1].lane \in Waiting(q)
    BY <2>2 DEF Waiting
  <2> QED
    BY <2>1, <2>3 DEF Waiting
<1>2. ls \in SUBSET Lanes /\ ls \subseteq Waiting(q)
  BY <1>1 DEF Credited
<1>3. ls # {}
  <2>1. CASE Credited(remaining, q) = {}
    <3>1. credit = Weight
      BY <2>1 DEF CreditFor
    <3>2. PICK m \in Waiting(q) : m \in Lanes
      BY <1>1
    <3>3. Weight[m] \in Nat \ {0}
      BY <3>2, WeightAssumption
    <3> QED
      BY <3>1, <3>2, <3>3 DEF Credited
  <2>2. CASE Credited(remaining, q) # {}
    BY <2>2 DEF CreditFor
  <2> QED
    BY <2>1, <2>2
<1>4. l \in ls /\ \E i \in 1..3 : l = Order[i] /\ \A j \in 1..(i - 1) : Order[j] \notin ls
  <2> HIDE DEF ls
  <2> QED
    BY <1>2, <1>3, FirstLaneIsFirst
<1>5. l \in Waiting(q) /\ credit[l] > 0
  BY <1>2, <1>4 DEF Credited
<1>6. k \in 1..Len(q) /\ q[k].lane = l /\ \A j \in 1..(k - 1) : q[j].lane # l
  <2> HIDE DEF l
  <2> QED
    BY <1>5, OldestIsFirst
<1>7. GrantOne(Entered(a, q)) =
        [available |-> a - 1, waiters |-> RemoveAt(q, k),
         remaining |-> [credit EXCEPT ![l] = @ - 1], granted |-> Append(<<>>, q[k])]
  BY DEF GrantOne, Entered, CreditFor
<1>8. Append(<<>>, q[k]) = <<q[k]>>
  OBVIOUS
<1> HIDE DEF credit, ls, l, k
<1> QED
  BY <1>4, <1>5, <1>6, <1>7, <1>8 DEF credit, ls

\* The loop grants nothing or once, if there is one permit or one waiter.
LEMMA LoopIsOne ==
  ASSUME NEW a \in Nat, NEW q \in Seq(Entries), CreditTyped(remaining), a <= 1 \/ Len(q) <= 1
  PROVE  GrantAvailable(a, q) =
           IF a = 0 \/ q = <<>> THEN Entered(a, q) ELSE GrantOne(Entered(a, q))
<1> DEFINE one == IF q = <<>> THEN Entered(a, q) ELSE GrantOne(Entered(a, q))
           after(s) == IF s.waiters = <<>> THEN s ELSE GrantOne(s)
           loop(f) == [n \in 0..a |-> IF n = 0 THEN Entered(a, q) ELSE after(f[n - 1])]
           turn == CHOOSE f : f = loop(f)
<1>1. Entered(a, q).waiters = q
  BY DEF Entered
<1>2. after(Entered(a, q)) = one
  BY <1>1
<1>3. a >= 2 => one.waiters = <<>>
  <2> SUFFICES ASSUME a >= 2, q # <<>>
               PROVE  GrantOne(Entered(a, q)).waiters = <<>>
    BY <1>1
  <2>1. PICK k \in 1..Len(q) : GrantOne(Entered(a, q)).waiters = RemoveAt(q, k)
    BY GrantIsOne
  <2>2. RemoveAt(q, k) \in Seq(Entries) /\ Len(RemoveAt(q, k)) = Len(q) - 1
    BY Removed
  <2>3. Len(q) \in Nat /\ Len(q) <= 1
    OBVIOUS
  <2>4. Len(RemoveAt(q, k)) = 0
    BY <2>2, <2>3
  <2> QED
    BY <2>1, <2>2, <2>4
<1>4. a >= 2 => after(one) = one
  BY <1>3
<1> HIDE DEF one, after
<1>5. turn = loop(turn)
  <2> DEFINE w == [n \in 0..a |-> IF n = 0 THEN Entered(a, q) ELSE one]
  <2>1. \A n \in 0..a : w[n] = loop(w)[n]
    <3> SUFFICES ASSUME NEW n \in 0..a, n # 0
                 PROVE  one = after(w[n - 1])
      OBVIOUS
    <3>1. CASE n = 1
      BY <3>1, <1>2
    <3>2. CASE n # 1
      <4>1. n - 1 \in 0..a /\ n - 1 # 0 /\ a >= 2
        BY <3>2
      <4> QED
        BY <4>1, <1>4
    <3> QED
      BY <3>1, <3>2
  <2>2. w = loop(w)
    BY <2>1
  <2> HIDE DEF loop, w
  <2> QED
    BY <2>2
<1>6. GrantAvailable(a, q) = turn[a]
  BY DEF GrantAvailable, after, Entered
<1> HIDE DEF turn
<1>7. turn[0] = Entered(a, q)
  BY <1>5
<1>8. \A n \in 1..a : turn[n] = after(turn[n - 1])
  BY <1>5
<1>9. \A n \in 1..a : turn[n] = one
  <2> DEFINE bad == {n \in 1..a : turn[n] # one}
  <2> SUFFICES ASSUME bad # {} PROVE FALSE
    OBVIOUS
  <2>1. bad \in SUBSET Nat
    OBVIOUS
  <2>2. PICK m \in bad : \A n \in bad : m <= n
    <3> HIDE DEF bad
    <3> QED
      BY <2>1, LeastNatural
  <2>3. m \in 1..a /\ turn[m] # one
    OBVIOUS
  <2>4. CASE m = 1
    BY <2>3, <2>4, <1>7, <1>8, <1>2
  <2>5. CASE m # 1
    <3>1. m - 1 \in 1..a /\ a >= 2 /\ ~(m <= m - 1)
      BY <2>3, <2>5
    <3>2. turn[m - 1] = one
      BY <2>2, <3>1
    <3> QED
      BY <2>3, <3>1, <3>2, <1>8, <1>4
  <2> QED
    BY <2>4, <2>5
<1>10. CASE a = 0
  BY <1>10, <1>6, <1>7
<1>11. CASE a # 0
  <2>1. GrantAvailable(a, q) = one
    BY <1>11, <1>6, <1>9
  <2> QED
    BY <2>1, <1>11 DEF one
<1> QED
  BY <1>10, <1>11

\* What the scheduler leaves when the loop grants nothing, and when it grants
\* entry k of q, of lane l.
Quiet(a, q, calls) ==
  /\ a = 0 \/ q = <<>>
  /\ available' = a /\ waiters' = q /\ remaining' = remaining
  /\ call' = [t \in Threads |-> calls[t]]
  /\ bypassed' = [m \in Lanes |-> IF m \notin Waiting(q) THEN 0 ELSE bypassed[m]]

Grants(a, q, calls, l, k) ==
  /\ a > 0 /\ q[k].lane = l
  /\ CreditFor(remaining, q)[l] > 0
  /\ \E i \in 1..3 : /\ l = Order[i]
                     /\ \A j \in 1..(i - 1) : Order[j] \notin Credited(CreditFor(remaining, q), q)
  /\ available' = a - 1 /\ waiters' = RemoveAt(q, k)
  /\ remaining' = [CreditFor(remaining, q) EXCEPT ![l] = @ - 1]
  /\ call' = [t \in Threads |-> IF t = q[k].of THEN "holding" ELSE calls[t]]
  /\ bypassed' = [m \in Lanes |-> IF m \notin Waiting(RemoveAt(q, k)) \/ m = l THEN 0
                                  ELSE bypassed[m] + 1]

LEMMA ScheduledIsOne ==
  ASSUME NEW a \in Nat, NEW q \in Seq(Entries), CreditTyped(remaining), a <= 1 \/ Len(q) <= 1,
         bypassed \in [Lanes -> Nat], NEW calls, Scheduled(a, q, calls)
  PROVE  \/ Quiet(a, q, calls)
         \/ \E l \in Waiting(q), k \in 1..Len(q) : Grants(a, q, calls, l, k)
<1> DEFINE s == GrantAvailable(a, q)
           to == {s.granted[k].of : k \in DOMAIN s.granted}
           grantsOf(ls) == Cardinality({k \in DOMAIN s.granted : s.granted[k].lane \in ls})
<1>1. /\ available' = s.available /\ waiters' = s.waiters /\ remaining' = s.remaining
      /\ call' = [t \in Threads |-> IF t \in to THEN "holding" ELSE calls[t]]
      /\ bypassed' = [l \in Lanes |->
                        IF l \notin Waiting(s.waiters) \/ grantsOf({l}) > 0 THEN 0
                        ELSE bypassed[l] + grantsOf(Lanes \ {l})]
  BY DEF Scheduled
<1>2. CASE a = 0 \/ q = <<>>
  <2>1. s = Entered(a, q)
    BY <1>2, LoopIsOne
  <2>2. /\ s.available = a /\ s.waiters = q /\ s.remaining = remaining /\ s.granted = <<>>
    BY <2>1 DEF Entered
  <2>3. to = {} /\ \A ls : grantsOf(ls) = 0
    BY <2>2, FS_EmptySet
  <2> HIDE DEF s, to, grantsOf
  <2>4. \A l \in Lanes : bypassed[l] \in Nat
    OBVIOUS
  <2> QED
    BY <1>1, <1>2, <2>2, <2>3, <2>4 DEF Quiet
<1>3. CASE a # 0 /\ q # <<>>
  <2>1. s = GrantOne(Entered(a, q))
    BY <1>3, LoopIsOne
  <2>2. PICK l \in Waiting(q), k \in 1..Len(q) :
           /\ q[k].lane = l
           /\ GrantOne(Entered(a, q)) =
                [available |-> a - 1, waiters |-> RemoveAt(q, k),
                 remaining |-> [CreditFor(remaining, q) EXCEPT ![l] = @ - 1],
                 granted |-> <<q[k]>>]
           /\ CreditFor(remaining, q)[l] > 0
           /\ \E i \in 1..3 : /\ l = Order[i]
                              /\ \A j \in 1..(i - 1) : Order[j] \notin Credited(CreditFor(remaining, q), q)
    BY <1>3, GrantIsOne
  <2>3. /\ s.available = a - 1 /\ s.waiters = RemoveAt(q, k) /\ s.granted = <<q[k]>>
        /\ s.remaining = [CreditFor(remaining, q) EXCEPT ![l] = @ - 1]
    BY <2>1, <2>2
  <2>4. DOMAIN s.granted = {1} /\ s.granted[1] = q[k]
    BY <2>3
  <2>5. to = {q[k].of}
    BY <2>4
  <2>6. \A ls : grantsOf(ls) = IF l \in ls THEN 1 ELSE 0
    <3> SUFFICES ASSUME NEW ls PROVE grantsOf(ls) = IF l \in ls THEN 1 ELSE 0
      OBVIOUS
    <3>1. CASE l \in ls
      <4>1. {j \in DOMAIN s.granted : s.granted[j].lane \in ls} = {1}
        BY <2>2, <2>4, <3>1
      <4> QED
        BY <4>1, <3>1, FS_Singleton
    <3>2. CASE l \notin ls
      <4>1. {j \in DOMAIN s.granted : s.granted[j].lane \in ls} = {}
        BY <2>2, <2>4, <3>2
      <4> QED
        BY <4>1, <3>2, FS_EmptySet
    <3> QED
      BY <3>1, <3>2
  <2> HIDE DEF s, to, grantsOf
  <2>7. l \in Lanes
    <3>1. q[k] \in Entries
      OBVIOUS
    <3> QED
      BY <2>2, <3>1 DEF Entries
  <2>8. bypassed' = [m \in Lanes |-> IF m \notin Waiting(RemoveAt(q, k)) \/ m = l THEN 0
                                     ELSE bypassed[m] + 1]
    BY <1>1, <2>3, <2>6, <2>7
  <2>9. call' = [t \in Threads |-> IF t = q[k].of THEN "holding" ELSE calls[t]]
    BY <1>1, <2>5
  <2>10. a > 0
    BY <1>3
  <2>11. /\ available' = a - 1 /\ waiters' = RemoveAt(q, k)
         /\ remaining' = [CreditFor(remaining, q) EXCEPT ![l] = @ - 1]
    BY <1>1, <2>3
  <2>12. Grants(a, q, calls, l, k)
    BY <2>2, <2>8, <2>9, <2>10, <2>11, Zenon DEF Grants
  <2> QED
    BY <2>12
<1> QED
  BY <1>2, <1>3

(***************************************************************************)
(* Provider permits: types, and that no lane is passed over too often.     *)
(***************************************************************************)
PermitsTyped ==
  /\ available \in Nat
  /\ waiters \in Seq(Entries)
  /\ CreditTyped(remaining)
  /\ call \in [Threads -> {"idle", "waiting", "holding"}]
  /\ lane \in [Threads -> Lanes]
  /\ bypassed \in [Lanes -> Nat]

\* A permit is available only while nobody is in the queue.
NoneIdle == available > 0 => waiters = <<>>

\* What a lane has been passed over, and what it may still be in this round: it
\* is served before the round is renewed while it has credit, and after it else.
LaneIsOwed(l) ==
  IF remaining[l] = 0
  THEN bypassed[l] + Others(remaining, l) <= Others(Weight, l)
  ELSE bypassed[l] + Before(remaining, l) <= Others(Weight, l) + Before(Weight, l)

FairInv == PermitsTyped /\ NoneIdle /\ \A l \in Lanes : LaneIsOwed(l)

\* Sums of credit are natural numbers, at most those of the weights.
LEMMA CreditSums ==
  ASSUME NEW credit, CreditTyped(credit), NEW l \in Lanes
  PROVE  /\ Others(credit, l) \in Nat /\ Others(credit, l) <= Others(Weight, l)
         /\ Before(credit, l) \in Nat /\ Before(credit, l) <= Before(Weight, l)
         /\ Others(Weight, l) \in Nat /\ Before(Weight, l) \in Nat
<1>1. /\ "public_chat" \in Lanes /\ "admin_single" \in Lanes /\ "admin_batch" \in Lanes
      /\ l = "public_chat" \/ l = "admin_single" \/ l = "admin_batch"
  BY DEF Lanes
<1>2. \A m \in Lanes : credit[m] \in Nat /\ Weight[m] \in Nat /\ credit[m] <= Weight[m]
  BY WeightAssumption DEF CreditTyped
<1>3. CASE l = "public_chat"
  BY <1>1, <1>2, <1>3 DEF Others, Before
<1>4. CASE l = "admin_single"
  BY <1>1, <1>2, <1>4 DEF Others, Before
<1>5. CASE l = "admin_batch"
  BY <1>1, <1>2, <1>5 DEF Others, Before
<1> QED
  BY <1>1, <1>3, <1>4, <1>5

\* One grant to another lane takes one from the credit of the others; to a lane
\* before it, one from the credit before it.
LEMMA CreditTaken ==
  ASSUME NEW credit \in [Lanes -> Nat], NEW l \in Lanes, NEW g \in Lanes, g # l, credit[g] > 0
  PROVE  LET taken == [credit EXCEPT ![g] = @ - 1]
         IN  /\ taken \in [Lanes -> Nat]
             /\ taken[l] = credit[l]
             /\ Others(taken, l) = Others(credit, l) - 1
             /\ (\E i \in 1..3 : g = Order[i] /\ \A j \in 1..(i - 1) : Order[j] # l)
                  => Before(taken, l) = Before(credit, l) - 1
<1> DEFINE taken == [credit EXCEPT ![g] = @ - 1]
<1>1. /\ "public_chat" \in Lanes /\ "admin_single" \in Lanes /\ "admin_batch" \in Lanes
      /\ l = "public_chat" \/ l = "admin_single" \/ l = "admin_batch"
      /\ g = "public_chat" \/ g = "admin_single" \/ g = "admin_batch"
  BY DEF Lanes
<1>2. /\ taken \in [Lanes -> Nat]
      /\ taken[g] = credit[g] - 1
      /\ \A m \in Lanes : credit[m] \in Nat /\ (m # g => taken[m] = credit[m])
  OBVIOUS
<1> HIDE DEF taken
<1>3. Others(taken, l) = Others(credit, l) - 1
  <2>1. CASE l = "public_chat"
    BY <1>1, <1>2, <2>1 DEF Others
  <2>2. CASE l = "admin_single"
    BY <1>1, <1>2, <2>2 DEF Others
  <2>3. CASE l = "admin_batch"
    BY <1>1, <1>2, <2>3 DEF Others
  <2> QED
    BY <1>1, <2>1, <2>2, <2>3
<1>4. ASSUME NEW i \in 1..3, g = Order[i], \A j \in 1..(i - 1) : Order[j] # l
      PROVE  Before(taken, l) = Before(credit, l) - 1
  <2>1. /\ Order[1] = "public_chat" /\ Order[2] = "admin_single" /\ Order[3] = "admin_batch"
    BY DEF Order
  <2>2. CASE l = "public_chat"
    <3>1. i # 1
      BY <2>1, <2>2, <1>4
    <3>2. 1 \in 1..(i - 1)
      BY <3>1
    <3> QED
      BY <2>1, <2>2, <3>2, <1>4
  <2>3. CASE l = "admin_single"
    <3>1. i # 2
      BY <2>1, <2>3, <1>4
    <3>2. i # 3
      <4>1. i = 3 => 2 \in 1..(i - 1)
        OBVIOUS
      <4> QED
        BY <4>1, <2>1, <2>3, <1>4
    <3>3. g = "public_chat"
      BY <3>1, <3>2, <2>1, <1>4
    <3> QED
      BY <3>3, <2>3, <1>1, <1>2 DEF Before
  <2>4. CASE l = "admin_batch"
    BY <2>4, <1>1, <1>2 DEF Before
  <2> QED
    BY <1>1, <2>2, <2>3, <2>4
<1> QED
  BY <1>2, <1>3, <1>4 DEF taken

\* Credit that is renewed has its type, and so has what a queue still holds.
LEMMA RestTyped ==
  ASSUME CreditTyped(remaining), NEW q \in Seq(Entries), NEW k \in 1..Len(q)
  PROVE  /\ CreditTyped(CreditFor(remaining, q))
         /\ RemoveAt(q, k) \in Seq(Entries)
         /\ Waiting(q) \subseteq Lanes
         /\ Waiting(RemoveAt(q, k)) \subseteq Waiting(q)
<1>1. CreditTyped(Weight)
  BY WeightAssumption DEF CreditTyped
<1>2. CreditTyped(CreditFor(remaining, q))
  BY <1>1 DEF CreditFor
<1>3. /\ RemoveAt(q, k) \in Seq(Entries) /\ Len(RemoveAt(q, k)) = Len(q) - 1
      /\ \A j \in 1..(Len(q) - 1) : RemoveAt(q, k)[j] = q[IF j < k THEN j ELSE j + 1]
  BY Removed
<1>4. ASSUME NEW j \in 1..Len(q) PROVE q[j].lane \in Lanes
  <2>1. q[j] \in Entries
    OBVIOUS
  <2> QED
    BY <2>1 DEF Entries
<1>5. Waiting(q) \subseteq Lanes
  BY <1>4 DEF Waiting
<1>6. ASSUME NEW j \in DOMAIN RemoveAt(q, k)
      PROVE  RemoveAt(q, k)[j].lane \in Waiting(q)
  <2>1. j \in 1..(Len(q) - 1)
    BY <1>3
  <2>2. PICK i \in 1..Len(q) : RemoveAt(q, k)[j] = q[i]
    <3>1. CASE j < k
      BY <3>1, <2>1, <1>3
    <3>2. CASE ~(j < k)
      <4>1. j + 1 \in 1..Len(q)
        BY <2>1
      <4> QED
        BY <3>2, <4>1, <2>1, <1>3
    <3> QED
      BY <3>1, <3>2
  <2>3. i \in DOMAIN q
    OBVIOUS
  <2> QED
    BY <2>2, <2>3 DEF Waiting
<1> QED
  BY <1>2, <1>3, <1>5, <1>6 DEF Waiting

\* A schedule keeps what every lane is owed.
LEMMA OwedAfterOne ==
  ASSUME CreditTyped(remaining), bypassed \in [Lanes -> Nat],
         NEW a \in Nat, NEW q \in Seq(Entries), NEW calls,
         \A l \in Lanes : LaneIsOwed(l),
         \/ Quiet(a, q, calls)
         \/ \E l \in Waiting(q), k \in 1..Len(q) : Grants(a, q, calls, l, k)
  PROVE  /\ CreditTyped(remaining)'
         /\ bypassed' \in [Lanes -> Nat]
         /\ \A l \in Lanes : LaneIsOwed(l)'
<1>1. CASE Quiet(a, q, calls)
  <2>1. remaining' = remaining
        /\ bypassed' = [m \in Lanes |-> IF m \notin Waiting(q) THEN 0 ELSE bypassed[m]]
    BY <1>1 DEF Quiet
  <2>2. CreditTyped(remaining)' /\ bypassed' \in [Lanes -> Nat]
    BY <2>1 DEF CreditTyped
  <2>3. ASSUME NEW l \in Lanes PROVE LaneIsOwed(l)'
    <3>1. bypassed'[l] \in Nat /\ bypassed[l] \in Nat /\ bypassed'[l] <= bypassed[l]
      BY <2>1
    <3>2. /\ Others(remaining, l) \in Nat /\ Others(Weight, l) \in Nat
          /\ Before(remaining, l) \in Nat /\ Before(Weight, l) \in Nat
      BY CreditSums
    <3>3. LaneIsOwed(l)
      OBVIOUS
    <3> QED
      BY <3>1, <3>2, <3>3, <2>1 DEF LaneIsOwed
  <2> QED
    BY <2>2, <2>3
<1>2. ASSUME NEW g \in Waiting(q), NEW k \in 1..Len(q), Grants(a, q, calls, g, k)
      PROVE  /\ CreditTyped(remaining)'
             /\ bypassed' \in [Lanes -> Nat]
             /\ \A l \in Lanes : LaneIsOwed(l)'
  <2> DEFINE credit == CreditFor(remaining, q)
  <2>1. /\ CreditTyped(credit) /\ Waiting(q) \subseteq Lanes
        /\ Waiting(RemoveAt(q, k)) \subseteq Waiting(q)
    BY RestTyped
  <2>2. /\ credit[g] > 0
        /\ \E i \in 1..3 : g = Order[i] /\ \A j \in 1..(i - 1) : Order[j] \notin Credited(credit, q)
        /\ remaining' = [credit EXCEPT ![g] = @ - 1]
        /\ bypassed' = [m \in Lanes |-> IF m \notin Waiting(RemoveAt(q, k)) \/ m = g THEN 0
                                        ELSE bypassed[m] + 1]
    BY <1>2 DEF Grants
  <2>3. /\ credit = IF Credited(remaining, q) = {} THEN Weight ELSE remaining
        /\ \A l \in Lanes : Weight[l] \in Nat \ {0}
    BY WeightAssumption DEF CreditFor
  <2> HIDE DEF credit
  <2>4. g \in Lanes /\ credit \in [Lanes -> Nat] /\ \A m \in Lanes : credit[m] <= Weight[m]
    BY <2>1 DEF CreditTyped
  <2>5. CreditTyped(remaining)'
    <3>1. remaining' \in [Lanes -> Nat]
      BY <2>2, <2>4
    <3>2. ASSUME NEW m \in Lanes PROVE remaining'[m] <= Weight[m]
      <4>1. credit[m] \in Nat /\ credit[m] <= Weight[m] /\ Weight[m] \in Nat
        BY <2>3, <2>4
      <4>2. CASE m = g
        BY <4>1, <4>2, <2>2, <2>4
      <4>3. CASE m # g
        BY <4>1, <4>3, <2>2, <2>4
      <4> QED
        BY <4>2, <4>3
    <3> QED
      BY <3>1, <3>2 DEF CreditTyped
  <2>6. bypassed' \in [Lanes -> Nat]
    BY <2>2
  <2>7. ASSUME NEW l \in Lanes PROVE LaneIsOwed(l)'
    <3>1. /\ Others(remaining', l) \in Nat /\ Others(remaining', l) <= Others(Weight, l)
          /\ Before(remaining', l) \in Nat /\ Before(remaining', l) <= Before(Weight, l)
          /\ Others(Weight, l) \in Nat /\ Before(Weight, l) \in Nat
      <4> DEFINE c == remaining'
      <4>1. CreditTyped(c)
        BY <2>5 DEF CreditTyped
      <4> HIDE DEF c
      <4>2. /\ Others(c, l) \in Nat /\ Others(c, l) <= Others(Weight, l)
            /\ Before(c, l) \in Nat /\ Before(c, l) <= Before(Weight, l)
            /\ Others(Weight, l) \in Nat /\ Before(Weight, l) \in Nat
        BY <4>1, CreditSums
      <4> QED
        BY <4>2 DEF c
    <3>2. CASE l \notin Waiting(RemoveAt(q, k)) \/ l = g
      <4>1. bypassed'[l] = 0
        BY <3>2, <2>2
      <4> QED
        BY <4>1, <3>1 DEF LaneIsOwed
    <3>3. CASE l \in Waiting(q) /\ l # g /\ l \in Waiting(RemoveAt(q, k))
      <4>1. bypassed'[l] = bypassed[l] + 1 /\ bypassed[l] \in Nat
        BY <3>3, <2>2
      <4>2. /\ remaining'[l] = credit[l]
            /\ Others(remaining', l) = Others(credit, l) - 1
            /\ (\E i \in 1..3 : g = Order[i] /\ \A j \in 1..(i - 1) : Order[j] # l)
                 => Before(remaining', l) = Before(credit, l) - 1
        BY <2>2, <2>4, <3>3, CreditTaken
      <4>3. /\ Others(remaining, l) \in Nat /\ Others(remaining, l) <= Others(Weight, l)
            /\ Before(remaining, l) \in Nat /\ Before(remaining, l) <= Before(Weight, l)
        BY CreditSums
      <4>4. LaneIsOwed(l)
        OBVIOUS
      <4>5. remaining[l] \in Nat
        BY DEF CreditTyped
      <4>6. CASE credit[l] > 0
        <5>1. l \in Credited(credit, q)
          BY <4>6, <3>3 DEF Credited
        <5>2. Before(remaining', l) = Before(credit, l) - 1
          BY <5>1, <2>2, <4>2
        <5>3. remaining'[l] > 0
          BY <4>2, <4>6
        <5>4. CASE Credited(remaining, q) = {}
          <6>1. remaining[l] = 0
            BY <5>4, <3>3, <4>5 DEF Credited
          <6>2. bypassed[l] <= Others(Weight, l)
            BY <6>1, <4>1, <4>3, <4>4, <3>1 DEF LaneIsOwed
          <6>3. Before(remaining', l) = Before(Weight, l) - 1
            BY <5>2, <5>4, <2>3
          <6> QED
            BY <6>2, <6>3, <5>3, <4>1, <3>1 DEF LaneIsOwed
        <5>5. CASE Credited(remaining, q) # {}
          <6>1. credit = remaining
            BY <5>5, <2>3
          <6>2. bypassed[l] + Before(remaining, l) <= Others(Weight, l) + Before(Weight, l)
            BY <6>1, <4>6, <4>4 DEF LaneIsOwed
          <6> QED
            BY <6>1, <6>2, <5>2, <5>3, <4>1, <4>3, <3>1 DEF LaneIsOwed
        <5> QED
          BY <5>4, <5>5
      <4>7. CASE credit[l] = 0
        <5>1. credit = remaining
          BY <4>7, <2>3
        <5>2. bypassed[l] + Others(remaining, l) <= Others(Weight, l)
          BY <5>1, <4>7, <4>4 DEF LaneIsOwed
        <5> QED
          BY <5>1, <5>2, <4>1, <4>2, <4>3, <4>7, <3>1 DEF LaneIsOwed
      <4>8. credit[l] \in Nat
        BY <2>4
      <4> QED
        BY <4>6, <4>7, <4>8
    <3> QED
      BY <3>2, <3>3, <2>1
  <2> QED
    BY <2>5, <2>6, <2>7
<1> QED
  BY <1>1, <1>2

\* A schedule keeps the invariant of fairness.
LEMMA FairAfterSchedule ==
  ASSUME FairInv, NEW a \in Nat, NEW q \in Seq(Entries), a <= 1 \/ Len(q) <= 1,
         NEW calls \in [Threads -> {"idle", "waiting", "holding"}], Scheduled(a, q, calls),
         lane' \in [Threads -> Lanes]
  PROVE  /\ FairInv'
         /\ \/ Quiet(a, q, calls)
            \/ \E l \in Waiting(q), k \in 1..Len(q) : Grants(a, q, calls, l, k)
<1>1. /\ CreditTyped(remaining) /\ bypassed \in [Lanes -> Nat]
      /\ \A l \in Lanes : LaneIsOwed(l)
  BY DEF FairInv, PermitsTyped
<1>2. \/ Quiet(a, q, calls)
      \/ \E l \in Waiting(q), k \in 1..Len(q) : Grants(a, q, calls, l, k)
  BY <1>1, ScheduledIsOne
<1>3. /\ CreditTyped(remaining)' /\ bypassed' \in [Lanes -> Nat]
      /\ \A l \in Lanes : LaneIsOwed(l)'
  BY <1>1, <1>2, OwedAfterOne
<1>4. CASE Quiet(a, q, calls)
  <2>1. /\ available' = a /\ waiters' = q /\ (a = 0 \/ q = <<>>)
        /\ call' = [t \in Threads |-> calls[t]]
    BY <1>4 DEF Quiet
  <2>2. call' \in [Threads -> {"idle", "waiting", "holding"}]
    BY <2>1
  <2>3. NoneIdle'
    BY <2>1 DEF NoneIdle
  <2>4. PermitsTyped'
    BY <1>3, <2>1, <2>2 DEF PermitsTyped
  <2> QED
    BY <1>2, <1>3, <2>3, <2>4 DEF FairInv
<1>5. ASSUME NEW l \in Waiting(q), NEW k \in 1..Len(q), Grants(a, q, calls, l, k)
      PROVE  FairInv'
  <2>1. /\ a > 0 /\ available' = a - 1 /\ waiters' = RemoveAt(q, k)
        /\ call' = [t \in Threads |-> IF t = q[k].of THEN "holding" ELSE calls[t]]
    BY <1>5 DEF Grants
  <2>2. call' \in [Threads -> {"idle", "waiting", "holding"}]
    BY <2>1
  <2>3. RemoveAt(q, k) \in Seq(Entries) /\ Len(RemoveAt(q, k)) = Len(q) - 1
    BY Removed
  <2>4. NoneIdle'
    <3>1. CASE a <= 1
      BY <3>1, <2>1 DEF NoneIdle
    <3>2. CASE Len(q) <= 1
      <4>1. Len(RemoveAt(q, k)) = 0
        BY <3>2, <2>3
      <4>2. RemoveAt(q, k) = <<>>
        BY <2>3, <4>1
      <4> QED
        BY <4>2, <2>1 DEF NoneIdle
    <3> QED
      BY <3>1, <3>2
  <2>5. available' \in Nat
    BY <2>1
  <2>6. PermitsTyped'
    BY <1>3, <2>1, <2>2, <2>3, <2>5 DEF PermitsTyped
  <2> QED
    BY <1>3, <2>4, <2>6 DEF FairInv
<1> QED
  BY <1>2, <1>4, <1>5

\* The queue without an entry of the lane of a caller who gives up.
LEMMA WithdrawnTyped ==
  ASSUME PermitsTyped, NEW t \in Threads, lane[t] \in Waiting(waiters)
  PROVE  Withdrawn(t) \in Seq(Entries)
<1> DEFINE k == Oldest(waiters, lane[t])
           rest == RemoveAt(waiters, k)
           own(w) == IF w.of = t THEN [w EXCEPT !.of = Nobody] ELSE w
<1>1. waiters \in Seq(Entries)
  BY DEF PermitsTyped
<1>2. k \in 1..Len(waiters)
  BY <1>1, OldestIsFirst
<1> HIDE DEF k
<1>3. rest \in Seq(Entries)
  BY <1>1, <1>2, Removed
<1>4. Withdrawn(t) = [j \in DOMAIN rest |-> own(rest[j])]
  BY DEF Withdrawn, k
<1> HIDE DEF rest
<1>5. ASSUME NEW j \in DOMAIN rest PROVE own(rest[j]) \in Entries
  <2>1. rest[j] \in Entries
    BY <1>3
  <2> QED
    BY <2>1 DEF Entries
<1>6. DOMAIN rest = 1..Len(rest) /\ Len(rest) \in Nat
  BY <1>3
<1> HIDE DEF own
<1>7. [j \in 1..Len(rest) |-> own(rest[j])] \in Seq(Entries)
  BY <1>5, <1>6
<1> QED
  BY <1>4, <1>6, <1>7

LEMMA FairInit == PermitsInit => FairInv
<1> SUFFICES ASSUME PermitsInit PROVE FairInv
  OBVIOUS
<1>1. PermitsTyped
  BY CapacityAssumption, WeightAssumption
  DEF PermitsInit, PermitsTyped, CreditTyped, Lanes
<1>2. NoneIdle
  BY DEF PermitsInit, NoneIdle
<1>3. ASSUME NEW l \in Lanes PROVE LaneIsOwed(l)
  <2>1. CreditTyped(remaining)
    BY <1>1 DEF PermitsTyped
  <2>2. bypassed[l] = 0
    BY DEF PermitsInit
  <2>3. /\ Others(remaining, l) \in Nat /\ Others(remaining, l) <= Others(Weight, l)
        /\ Before(remaining, l) \in Nat /\ Before(remaining, l) <= Before(Weight, l)
        /\ Others(Weight, l) \in Nat /\ Before(Weight, l) \in Nat
    BY <2>1, CreditSums
  <2> QED
    BY <2>2, <2>3 DEF LaneIsOwed
<1> QED
  BY <1>1, <1>2, <1>3 DEF FairInv

LEMMA FairNext == FairInv /\ [PermitsNext]_permitsVars => FairInv'
<1> SUFFICES ASSUME FairInv, [PermitsNext]_permitsVars PROVE FairInv'
  OBVIOUS
<1>1. /\ available \in Nat /\ waiters \in Seq(Entries)
      /\ call \in [Threads -> {"idle", "waiting", "holding"}] /\ lane \in [Threads -> Lanes]
      /\ available > 0 => waiters = <<>>
  BY DEF FairInv, PermitsTyped, NoneIdle
<1>2. ASSUME NEW t \in Threads, NEW l \in Lanes, Acquire(t, l)
      PROVE  FairInv'
  <2> DEFINE q == Append(waiters, [of |-> t, lane |-> l])
             calls == [call EXCEPT ![t] = "waiting"]
  <2>1. Scheduled(available, q, calls) /\ lane' \in [Threads -> Lanes]
    BY <1>1, <1>2 DEF Acquire
  <2>2. [of |-> t, lane |-> l] \in Entries
    BY DEF Entries
  <2>3. q \in Seq(Entries) /\ Len(q) = Len(waiters) + 1
    BY <1>1, <2>2
  <2>4. calls \in [Threads -> {"idle", "waiting", "holding"}]
    BY <1>1
  <2>5. available <= 1 \/ Len(q) <= 1
    BY <1>1, <2>3
  <2> HIDE DEF q, calls
  <2> QED
    BY <1>1, <2>1, <2>3, <2>4, <2>5, FairAfterSchedule
<1>3. ASSUME NEW t \in Threads, Expire(t)
      PROVE  FairInv'
  <2>1. lane' = lane
    BY <1>3 DEF Expire
  <2>2. CASE lane[t] \in Waiting(waiters)
    <3> DEFINE calls == [call EXCEPT ![t] = "idle"]
    <3>1. Scheduled(available, Withdrawn(t), calls)
      BY <1>3, <2>2 DEF Expire
    <3>2. Withdrawn(t) \in Seq(Entries)
      BY <2>2, WithdrawnTyped DEF FairInv
    <3>3. calls \in [Threads -> {"idle", "waiting", "holding"}]
      BY <1>1
    <3>4. available <= 1
      <4>1. waiters # <<>>
        BY <2>2 DEF Waiting
      <4> QED
        BY <4>1, <1>1
    <3> HIDE DEF calls
    <3> QED
      BY <1>1, <2>1, <3>1, <3>2, <3>3, <3>4, FairAfterSchedule
  <2>3. CASE lane[t] \notin Waiting(waiters)
    <3>1. call' = [call EXCEPT ![t] = "idle"]
          /\ UNCHANGED <<available, waiters, remaining, bypassed, lane>>
      BY <1>3, <2>1, <2>3 DEF Expire
    <3>2. call' \in [Threads -> {"idle", "waiting", "holding"}]
      BY <3>1, <1>1
    <3> QED
      BY <3>1, <3>2 DEF FairInv, PermitsTyped, CreditTyped, NoneIdle, LaneIsOwed
  <2> QED
    BY <2>2, <2>3
<1>4. ASSUME NEW t \in Threads, Release(t)
      PROVE  FairInv'
  <2> DEFINE calls == [call EXCEPT ![t] = "idle"]
  <2>1. Scheduled(available + 1, waiters, calls) /\ lane' = lane
    BY <1>4 DEF Release
  <2>2. calls \in [Threads -> {"idle", "waiting", "holding"}]
    BY <1>1
  <2>3. available + 1 \in Nat /\ (available + 1 <= 1 \/ Len(waiters) <= 1)
    BY <1>1
  <2> HIDE DEF calls
  <2> QED
    BY <1>1, <2>1, <2>2, <2>3, FairAfterSchedule
<1>5. CASE UNCHANGED permitsVars
  BY <1>5 DEF permitsVars, FairInv, PermitsTyped, CreditTyped, NoneIdle, LaneIsOwed
<1> QED
  BY <1>2, <1>3, <1>4, <1>5 DEF PermitsNext

LEMMA FairHolds == PermitsSpec => []FairInv
<1> QED
  BY FairInit, FairNext, PTL DEF PermitsSpec

\* No lane starves (_next_waiter_locked): for every number of callers, every
\* capacity and all weights, and in whatever order the callers time out, the
\* others get no more grants before a waiting lane than their weights allow.
THEOREM LanesAreServed == PermitsSpec => []BoundedBypass
<1>1. FairInv => BoundedBypass
  <2> SUFFICES ASSUME FairInv, NEW l \in Lanes
               PROVE  bypassed[l] <= Others(Weight, l) + Before(Weight, l)
    BY DEF BoundedBypass
  <2>1. bypassed[l] \in Nat /\ remaining[l] \in Nat /\ CreditTyped(remaining) /\ LaneIsOwed(l)
    BY DEF FairInv, PermitsTyped, CreditTyped
  <2>2. /\ Others(remaining, l) \in Nat /\ Before(remaining, l) \in Nat
        /\ Others(Weight, l) \in Nat /\ Before(Weight, l) \in Nat
    BY <2>1, CreditSums
  <2> QED
    BY <2>1, <2>2 DEF LaneIsOwed
<1> QED
  BY <1>1, FairHolds, PTL

(***************************************************************************)
(* Provider permits: none is given twice, in whatever order callers give   *)
(* up.  None is lost as long as nobody gives up before a caller of its     *)
(* lane that came earlier (~jumped): then list.remove takes the caller's   *)
(* own entry, and the queue holds one entry of each caller that waits.     *)
(***************************************************************************)
HoldersOf(calls) == {t \in Threads : calls[t] = "holding"}

Queued(q, calls, lanes) ==
  /\ \A k \in 1..Len(q) : /\ q[k].of \in Threads
                          /\ calls[q[k].of] = "waiting"
                          /\ q[k].lane = lanes[q[k].of]
  /\ \A j, k \in 1..Len(q) : q[j].of = q[k].of => j = k
  /\ \A t \in Threads : calls[t] = "waiting" => \E k \in 1..Len(q) : q[k].of = t

AllHeld(a, calls) ==
  IsFiniteSet(HoldersOf(calls)) /\ a + Cardinality(HoldersOf(calls)) = Capacity

Capped(a, calls) ==
  IsFiniteSet(HoldersOf(calls)) /\ a + Cardinality(HoldersOf(calls)) <= Capacity

PermitsInv ==
  /\ FairInv /\ jumped \in BOOLEAN /\ Capped(available, call)
  /\ ~jumped => Queued(waiters, call, lane) /\ AllHeld(available, call)

\* A caller that no longer waits leaves with its entry.
LEMMA EntryLeaves ==
  ASSUME NEW q \in Seq(Entries), NEW calls, NEW lanes, Queued(q, calls, lanes),
         NEW k \in 1..Len(q), NEW after,
         \A t \in Threads : t # q[k].of => after[t] = calls[t],
         after[q[k].of] # "waiting"
  PROVE  /\ Queued(RemoveAt(q, k), after, lanes)
         /\ \A j \in 1..Len(RemoveAt(q, k)) : RemoveAt(q, k)[j].of # q[k].of
<1> DEFINE rest == RemoveAt(q, k)
           from(j) == IF j < k THEN j ELSE j + 1
<1>1. /\ Len(rest) = Len(q) - 1
      /\ \A j \in 1..(Len(q) - 1) : rest[j] = q[from(j)]
  BY Removed
<1>2. Len(q) \in Nat /\ k \in 1..Len(q)
  OBVIOUS
<1> HIDE DEF rest
<1>3. \A j \in 1..Len(rest) : from(j) \in 1..Len(q) /\ from(j) # k /\ rest[j] = q[from(j)]
  BY <1>1, <1>2
<1>4. \A i, j \in 1..Len(rest) : from(i) = from(j) => i = j
  BY <1>1, <1>2
<1>5. \A i \in 1..Len(q) : i # k => \E j \in 1..Len(rest) : from(j) = i
  <2> SUFFICES ASSUME NEW i \in 1..Len(q), i # k
               PROVE  \E j \in 1..Len(rest) : from(j) = i
    OBVIOUS
  <2>1. CASE i < k
    <3>1. i \in 1..Len(rest) /\ from(i) = i
      BY <2>1, <1>1, <1>2
    <3> QED
      BY <3>1
  <2>2. CASE i > k
    <3>1. i - 1 \in 1..Len(rest) /\ from(i - 1) = i
      BY <2>2, <1>1, <1>2
    <3> QED
      BY <3>1
  <2> QED
    BY <2>1, <2>2
<1> HIDE DEF from
<1>6. \A j \in 1..Len(rest) : rest[j].of # q[k].of
  <2> SUFFICES ASSUME NEW j \in 1..Len(rest) PROVE rest[j].of # q[k].of
    OBVIOUS
  <2>1. from(j) \in 1..Len(q) /\ from(j) # k /\ rest[j] = q[from(j)]
    BY <1>3
  <2> QED
    BY <2>1 DEF Queued
<1>7. ASSUME NEW j \in 1..Len(rest)
      PROVE  rest[j].of \in Threads /\ after[rest[j].of] = "waiting" /\ rest[j].lane = lanes[rest[j].of]
  <2>1. from(j) \in 1..Len(q) /\ rest[j] = q[from(j)]
    BY <1>3
  <2>2. /\ rest[j].of \in Threads /\ calls[rest[j].of] = "waiting"
        /\ rest[j].lane = lanes[rest[j].of]
    BY <2>1 DEF Queued
  <2> QED
    BY <2>2, <1>6
<1>8. ASSUME NEW i \in 1..Len(rest), NEW j \in 1..Len(rest), rest[i].of = rest[j].of
      PROVE  i = j
  <2>1. /\ from(i) \in 1..Len(q) /\ rest[i] = q[from(i)]
        /\ from(j) \in 1..Len(q) /\ rest[j] = q[from(j)]
    BY <1>3
  <2>2. from(i) = from(j)
    BY <2>1, <1>8 DEF Queued
  <2> QED
    BY <2>2, <1>4
<1>9. ASSUME NEW t \in Threads, after[t] = "waiting"
      PROVE  \E j \in 1..Len(rest) : rest[j].of = t
  <2>1. t # q[k].of /\ calls[t] = "waiting"
    BY <1>9
  <2>2. PICK i \in 1..Len(q) : q[i].of = t
    BY <2>1 DEF Queued
  <2>3. PICK j \in 1..Len(rest) : from(j) = i
    BY <2>1, <2>2, <1>5
  <2> QED
    BY <2>2, <2>3, <1>3
<1>10. Queued(rest, after, lanes)
  BY <1>7, <1>8, <1>9 DEF Queued
<1> QED
  BY <1>6, <1>10 DEF rest

\* A schedule loses no permit and no caller.
LEMMA HeldAfterOne ==
  ASSUME NEW a \in Nat, NEW q \in Seq(Entries),
         NEW calls \in [Threads -> {"idle", "waiting", "holding"}],
         Queued(q, calls, lane'), AllHeld(a, calls),
         \/ Quiet(a, q, calls)
         \/ \E l \in Waiting(q), k \in 1..Len(q) : Grants(a, q, calls, l, k)
  PROVE  Queued(waiters, call, lane)' /\ AllHeld(available, call)'
<1>1. CASE Quiet(a, q, calls)
  <2>1. available' = a /\ waiters' = q /\ call' = [t \in Threads |-> calls[t]]
    BY <1>1 DEF Quiet
  <2>2. call' = calls
    BY <2>1
  <2>3. Queued(waiters', call', lane') /\ AllHeld(available', call')
    BY <2>1, <2>2
  <2> QED
    BY <2>3 DEF Queued, AllHeld, HoldersOf
<1>2. ASSUME NEW l \in Waiting(q), NEW k \in 1..Len(q), Grants(a, q, calls, l, k)
      PROVE  Queued(waiters, call, lane)' /\ AllHeld(available, call)'
  <2> DEFINE u == q[k].of
             after == [t \in Threads |-> IF t = u THEN "holding" ELSE calls[t]]
  <2>1. available' = a - 1 /\ waiters' = RemoveAt(q, k) /\ call' = after
    BY <1>2 DEF Grants
  <2>2. u \in Threads /\ calls[u] = "waiting"
    BY DEF Queued
  <2>3. /\ \A t \in Threads : t # u => after[t] = calls[t]
        /\ after[u] = "holding"
    BY <2>2
  <2> HIDE DEF after
  <2>4. Queued(RemoveAt(q, k), after, lane')
    BY <2>3, EntryLeaves
  <2>5. HoldersOf(after) = HoldersOf(calls) \cup {u} /\ u \notin HoldersOf(calls)
    BY <2>2, <2>3 DEF HoldersOf
  <2>6. /\ IsFiniteSet(HoldersOf(after))
        /\ Cardinality(HoldersOf(after)) = Cardinality(HoldersOf(calls)) + 1
    BY <2>5, FS_AddElement DEF AllHeld
  <2>7. Cardinality(HoldersOf(calls)) \in Nat
    BY FS_CardinalityType DEF AllHeld
  <2>8. AllHeld(a - 1, after)
    BY <2>6, <2>7 DEF AllHeld
  <2> QED
    BY <2>1, <2>4, <2>8 DEF Queued, AllHeld, HoldersOf
<1> QED
  BY <1>1, <1>2

\* A schedule gives no permit twice, whoever the entries belong to.
LEMMA CappedAfterOne ==
  ASSUME NEW a \in Nat, NEW q, NEW calls, Capped(a, calls),
         \/ Quiet(a, q, calls)
         \/ \E l \in Waiting(q), k \in 1..Len(q) : Grants(a, q, calls, l, k)
  PROVE  Capped(available, call)'
<1> DEFINE H == HoldersOf(calls)
<1>1. IsFiniteSet(H) /\ Cardinality(H) \in Nat /\ a + Cardinality(H) <= Capacity
  BY FS_CardinalityType DEF Capped
<1>2. CASE Quiet(a, q, calls)
  <2>1. available' = a /\ HoldersOf(call') = H
    BY <1>2 DEF Quiet, HoldersOf
  <2> QED
    BY <1>1, <2>1 DEF Capped, HoldersOf
<1>3. ASSUME NEW l \in Waiting(q), NEW k \in 1..Len(q), Grants(a, q, calls, l, k)
      PROVE  Capped(available, call)'
  <2>1. available' = a - 1 /\ a > 0
    BY <1>3 DEF Grants
  <2> DEFINE x == q[k].of
  <2>2. HoldersOf(call') \subseteq H \cup {x}
    BY <1>3 DEF Grants, HoldersOf
  <2> HIDE DEF H, x
  <2>3. /\ IsFiniteSet(H \cup {x})
        /\ Cardinality(H \cup {x}) \in Nat
        /\ Cardinality(H \cup {x}) <= Cardinality(H) + 1
    <3>1. /\ IsFiniteSet(H \cup {x})
          /\ \/ Cardinality(H \cup {x}) = Cardinality(H)
             \/ Cardinality(H \cup {x}) = Cardinality(H) + 1
      BY <1>1, FS_AddElement
    <3> QED
      BY <3>1, <1>1
  <2>4. /\ IsFiniteSet(HoldersOf(call')) /\ Cardinality(HoldersOf(call')) \in Nat
        /\ Cardinality(HoldersOf(call')) <= Cardinality(H \cup {x})
    BY <2>2, <2>3, FS_Subset, FS_CardinalityType
  <2>5. available' + Cardinality(HoldersOf(call')) <= Capacity
    BY <1>1, <2>1, <2>3, <2>4, CapacityAssumption
  <2> QED
    BY <2>4, <2>5 DEF Capped, HoldersOf
<1> QED
  BY <1>2, <1>3

LEMMA CappedNext ==
  ASSUME FairInv, Capped(available, call), [PermitsNext]_permitsVars
  PROVE  Capped(available, call)'
<1>1. /\ available \in Nat /\ waiters \in Seq(Entries)
      /\ call \in [Threads -> {"idle", "waiting", "holding"}] /\ lane \in [Threads -> Lanes]
      /\ available > 0 => waiters = <<>>
  BY DEF FairInv, PermitsTyped, NoneIdle
<1>2. ASSUME NEW t \in Threads, NEW s \in {"idle", "waiting"}, call[t] # "holding"
      PROVE  Capped(available, [call EXCEPT ![t] = s])
  <2>1. HoldersOf([call EXCEPT ![t] = s]) = HoldersOf(call)
    BY <1>1, <1>2 DEF HoldersOf
  <2> QED
    BY <2>1 DEF Capped
<1>3. ASSUME NEW t \in Threads, NEW l \in Lanes, Acquire(t, l)
      PROVE  Capped(available, call)'
  <2> DEFINE q == Append(waiters, [of |-> t, lane |-> l])
             calls == [call EXCEPT ![t] = "waiting"]
  <2>1. Scheduled(available, q, calls) /\ lane' \in [Threads -> Lanes] /\ call[t] = "idle"
    BY <1>1, <1>3 DEF Acquire
  <2>2. Capped(available, calls)
    BY <1>2, <2>1
  <2>3. calls \in [Threads -> {"idle", "waiting", "holding"}]
    BY <1>1
  <2>4. q \in Seq(Entries) /\ Len(q) = Len(waiters) + 1
    BY <1>1 DEF Entries
  <2>5. available <= 1 \/ Len(q) <= 1
    BY <1>1, <2>4
  <2> HIDE DEF q, calls
  <2>6. \/ Quiet(available, q, calls)
        \/ \E m \in Waiting(q), k \in 1..Len(q) : Grants(available, q, calls, m, k)
    BY <1>1, <2>1, <2>3, <2>4, <2>5, FairAfterSchedule
  <2> QED
    BY <1>1, <2>2, <2>6, CappedAfterOne
<1>4. ASSUME NEW t \in Threads, Expire(t)
      PROVE  Capped(available, call)'
  <2> DEFINE calls == [call EXCEPT ![t] = "idle"]
  <2>1. Capped(available, calls)
    BY <1>2, <1>4 DEF Expire
  <2>2. calls \in [Threads -> {"idle", "waiting", "holding"}]
    BY <1>1
  <2> HIDE DEF calls
  <2>3. CASE lane[t] \in Waiting(waiters)
    <3>1. Scheduled(available, Withdrawn(t), calls)
      BY <2>3, <1>4 DEF Expire, calls
    <3>2. Withdrawn(t) \in Seq(Entries)
      <4>1. PermitsTyped
        BY DEF FairInv
      <4> QED
        BY <4>1, <2>3, WithdrawnTyped
    <3>3. available <= 1 /\ lane' \in [Threads -> Lanes]
      <4>1. waiters # <<>>
        BY <2>3 DEF Waiting
      <4> QED
        BY <4>1, <1>1, <1>4 DEF Expire
    <3>4. \/ Quiet(available, Withdrawn(t), calls)
          \/ \E m \in Waiting(Withdrawn(t)), k \in 1..Len(Withdrawn(t)) :
               Grants(available, Withdrawn(t), calls, m, k)
      BY <1>1, <2>2, <3>1, <3>2, <3>3, FairAfterSchedule
    <3> QED
      BY <1>1, <2>1, <3>4, CappedAfterOne
  <2>4. CASE lane[t] \notin Waiting(waiters)
    <3>1. available' = available /\ call' = calls
      BY <2>4, <1>4 DEF Expire, calls
    <3> QED
      BY <2>1, <3>1 DEF Capped, HoldersOf
  <2> QED
    BY <2>3, <2>4
<1>5. ASSUME NEW t \in Threads, Release(t)
      PROVE  Capped(available, call)'
  <2> DEFINE calls == [call EXCEPT ![t] = "idle"]
  <2>1. Scheduled(available + 1, waiters, calls) /\ lane' = lane /\ call[t] = "holding"
    BY <1>5 DEF Release
  <2>2. calls \in [Threads -> {"idle", "waiting", "holding"}]
    BY <1>1
  <2>3. available + 1 \in Nat /\ (available + 1 <= 1 \/ Len(waiters) <= 1)
    BY <1>1
  <2>4. HoldersOf(calls) = HoldersOf(call) \ {t} /\ t \in HoldersOf(call)
    BY <1>1, <2>1 DEF HoldersOf
  <2> HIDE DEF calls
  <2>5. IsFiniteSet(HoldersOf(call)) /\ Cardinality(HoldersOf(call)) \in Nat
        /\ available + Cardinality(HoldersOf(call)) <= Capacity
    BY FS_CardinalityType DEF Capped
  <2>6. /\ IsFiniteSet(HoldersOf(calls))
        /\ Cardinality(HoldersOf(calls)) = Cardinality(HoldersOf(call)) - 1
    BY <2>4, <2>5, FS_RemoveElement
  <2>7. (available + 1) + Cardinality(HoldersOf(calls)) <= Capacity
    BY <1>1, <2>5, <2>6, CapacityAssumption
  <2>8. Capped(available + 1, calls)
    BY <2>6, <2>7 DEF Capped
  <2>9. \/ Quiet(available + 1, waiters, calls)
        \/ \E m \in Waiting(waiters), k \in 1..Len(waiters) :
             Grants(available + 1, waiters, calls, m, k)
    BY <1>1, <2>1, <2>2, <2>3, FairAfterSchedule
  <2> QED
    BY <2>3, <2>8, <2>9, CappedAfterOne
<1>6. CASE UNCHANGED permitsVars
  BY <1>6 DEF permitsVars, Capped, HoldersOf
<1> QED
  BY <1>3, <1>4, <1>5, <1>6 DEF PermitsNext

LEMMA PermitsInvInit == PermitsInit => PermitsInv
<1> SUFFICES ASSUME PermitsInit PROVE PermitsInv
  OBVIOUS
<1>1. FairInv
  BY FairInit
<1>2. Queued(waiters, call, lane)
  BY DEF PermitsInit, Queued
<1>3. HoldersOf(call) = {}
  BY DEF PermitsInit, HoldersOf
<1>4. AllHeld(available, call)
  <2>1. IsFiniteSet(HoldersOf(call)) /\ Cardinality(HoldersOf(call)) = 0
    BY <1>3, FS_EmptySet
  <2>2. available = Capacity /\ Capacity \in Nat
    BY CapacityAssumption DEF PermitsInit
  <2>3. available + Cardinality(HoldersOf(call)) = Capacity
    BY <2>1, <2>2
  <2> QED
    BY <2>1, <2>3 DEF AllHeld
<1>5. Capped(available, call)
  BY <1>4, CapacityAssumption DEF AllHeld, Capped
<1> QED
  BY <1>1, <1>2, <1>4, <1>5 DEF PermitsInv, PermitsInit

\* As long as nobody jumps the queue, it holds those who wait.
LEMMA QueuedNext ==
  ASSUME FairInv, Queued(waiters, call, lane), AllHeld(available, call),
         [PermitsNext]_permitsVars, ~jumped'
  PROVE  Queued(waiters, call, lane)' /\ AllHeld(available, call)'
<1>1. /\ available \in Nat /\ waiters \in Seq(Entries)
      /\ call \in [Threads -> {"idle", "waiting", "holding"}] /\ lane \in [Threads -> Lanes]
      /\ available > 0 => waiters = <<>>
      /\ FairInv /\ Queued(waiters, call, lane) /\ AllHeld(available, call)
  BY DEF FairInv, PermitsTyped, NoneIdle
<1>3. ASSUME NEW t \in Threads, NEW l \in Lanes, Acquire(t, l)
      PROVE  Queued(waiters, call, lane)' /\ AllHeld(available, call)'
  <2> DEFINE e == [of |-> t, lane |-> l]
             q == Append(waiters, e)
             calls == [call EXCEPT ![t] = "waiting"]
  <2>1. /\ Scheduled(available, q, calls)
        /\ lane' = [lane EXCEPT ![t] = l] /\ call[t] = "idle"
    BY <1>3 DEF Acquire
  <2>2. e \in Entries /\ e.of = t /\ e.lane = l
    BY DEF Entries
  <2> HIDE DEF e
  <2>3. /\ q \in Seq(Entries) /\ Len(q) = Len(waiters) + 1 /\ q[Len(q)] = e
        /\ \A k \in 1..Len(waiters) : q[k] = waiters[k]
    BY <1>1, <2>2
  <2>4. /\ calls \in [Threads -> {"idle", "waiting", "holding"}]
        /\ calls[t] = "waiting" /\ \A u \in Threads : u # t => calls[u] = call[u]
    BY <1>1
  <2>5. available <= 1 \/ Len(q) <= 1
    BY <1>1, <2>3
  <2>6. lane' \in [Threads -> Lanes] /\ lane'[t] = l /\ \A u \in Threads : u # t => lane'[u] = lane[u]
    BY <1>1, <2>1
  <2>7. Len(waiters) \in Nat
    BY <1>1
  <2> HIDE DEF q, calls
  <2>8. Queued(q, calls, lane')
    <3>1. ASSUME NEW k \in 1..Len(waiters)
          PROVE  /\ q[k] = waiters[k] /\ waiters[k].of \in Threads /\ waiters[k].of # t
                 /\ call[waiters[k].of] = "waiting" /\ waiters[k].lane = lane[waiters[k].of]
      BY <1>1, <2>1, <2>3 DEF Queued
    <3>2. ASSUME NEW k \in 1..Len(q)
          PROVE  q[k].of \in Threads /\ calls[q[k].of] = "waiting" /\ q[k].lane = lane'[q[k].of]
      <4>1. CASE k \in 1..Len(waiters)
        BY <4>1, <3>1, <2>4, <2>6
      <4>2. CASE k = Len(q)
        BY <4>2, <2>2, <2>3, <2>4, <2>6
      <4> QED
        BY <4>1, <4>2, <2>3, <2>7
    <3>3. ASSUME NEW j \in 1..Len(q), NEW k \in 1..Len(q), q[j].of = q[k].of
          PROVE  j = k
      <4>1. CASE j \in 1..Len(waiters) /\ k \in 1..Len(waiters)
        BY <4>1, <3>1, <3>3, <1>1 DEF Queued
      <4>2. CASE j \in 1..Len(waiters) /\ k = Len(q)
        BY <4>2, <3>1, <3>3, <2>2, <2>3
      <4>3. CASE k \in 1..Len(waiters) /\ j = Len(q)
        BY <4>3, <3>1, <3>3, <2>2, <2>3
      <4> QED
        BY <4>1, <4>2, <4>3, <2>3, <2>7
    <3>4. ASSUME NEW u \in Threads, calls[u] = "waiting"
          PROVE  \E k \in 1..Len(q) : q[k].of = u
      <4>1. CASE u = t
        <5>1. Len(q) \in 1..Len(q)
          BY <2>3, <2>7
        <5> QED
          BY <5>1, <4>1, <2>2, <2>3
      <4>2. CASE u # t
        <5>1. PICK k \in 1..Len(waiters) : waiters[k].of = u
          BY <4>2, <3>4, <2>4, <1>1 DEF Queued
        <5>2. k \in 1..Len(q) /\ q[k].of = u
          BY <5>1, <3>1, <2>3, <2>7
        <5> QED
          BY <5>2
      <4> QED
        BY <4>1, <4>2
    <3> QED
      BY <3>2, <3>3, <3>4 DEF Queued
  <2>9. AllHeld(available, calls)
    <3>1. HoldersOf(calls) = HoldersOf(call)
      BY <2>1, <2>4 DEF HoldersOf
    <3> QED
      BY <3>1, <1>1 DEF AllHeld
  <2>10. \/ Quiet(available, q, calls)
         \/ \E m \in Waiting(q), k \in 1..Len(q) : Grants(available, q, calls, m, k)
    BY <1>1, <2>1, <2>3, <2>4, <2>5, <2>6, FairAfterSchedule
  <2>11. Queued(waiters, call, lane)' /\ AllHeld(available, call)'
    BY <1>1, <2>3, <2>4, <2>8, <2>9, <2>10, HeldAfterOne
  <2> QED
    BY <2>11
<1>4. ASSUME NEW t \in Threads, Expire(t)
      PROVE  Queued(waiters, call, lane)' /\ AllHeld(available, call)'
  <2> DEFINE k == Oldest(waiters, lane[t])
             rest == RemoveAt(waiters, k)
             calls == [call EXCEPT ![t] = "idle"]
  <2>1. call[t] = "waiting" /\ lane' = lane
    BY <1>4 DEF Expire
  <2>2. lane[t] \in Waiting(waiters)
    <3>1. PICK j \in 1..Len(waiters) : waiters[j].of = t
      BY <1>1, <2>1 DEF Queued
    <3>2. j \in DOMAIN waiters /\ waiters[j].lane = lane[t]
      BY <1>1, <3>1 DEF Queued
    <3> QED
      BY <3>2 DEF Waiting
  <2>3. k \in 1..Len(waiters)
    BY <1>1, <2>2, OldestIsFirst
  <2>4. Scheduled(available, Withdrawn(t), calls) /\ waiters[k].of = t
    BY <1>4, <2>2 DEF Expire
  <2>5. /\ calls \in [Threads -> {"idle", "waiting", "holding"}]
        /\ calls[t] = "idle" /\ \A u \in Threads : u # t => calls[u] = call[u]
    BY <1>1
  <2>6. Withdrawn(t) = [j \in DOMAIN rest |->
                          IF rest[j].of = t THEN [rest[j] EXCEPT !.of = Nobody] ELSE rest[j]]
    BY DEF Withdrawn
  <2> HIDE DEF k, calls
  <2>7. /\ Queued(rest, calls, lane)
        /\ \A j \in 1..Len(rest) : rest[j].of # t
    BY <1>1, <2>1, <2>3, <2>4, <2>5, EntryLeaves
  <2>8. rest \in Seq(Entries)
    BY <1>1, <2>3, Removed
  <2> HIDE DEF rest
  <2>9. Withdrawn(t) = rest
    BY <2>6, <2>7, <2>8
  <2>10. AllHeld(available, calls)
    <3>1. HoldersOf(calls) = HoldersOf(call)
      BY <2>1, <2>5 DEF HoldersOf
    <3> QED
      BY <3>1, <1>1 DEF AllHeld
  <2>11. available <= 1
    <3>1. waiters # <<>>
      BY <2>2 DEF Waiting
    <3> QED
      BY <3>1, <1>1
  <2>12. \/ Quiet(available, rest, calls)
         \/ \E m \in Waiting(rest), j \in 1..Len(rest) : Grants(available, rest, calls, m, j)
    BY <1>1, <2>1, <2>4, <2>5, <2>8, <2>9, <2>11, FairAfterSchedule
  <2>13. Queued(rest, calls, lane')
    BY <2>1, <2>7
  <2>14. Queued(waiters, call, lane)' /\ AllHeld(available, call)'
    BY <1>1, <2>5, <2>8, <2>10, <2>12, <2>13, HeldAfterOne
  <2> QED
    BY <2>14
<1>5. ASSUME NEW t \in Threads, Release(t)
      PROVE  Queued(waiters, call, lane)' /\ AllHeld(available, call)'
  <2> DEFINE calls == [call EXCEPT ![t] = "idle"]
  <2>1. Scheduled(available + 1, waiters, calls) /\ lane' = lane /\ call[t] = "holding"
    BY <1>5 DEF Release
  <2>2. /\ calls \in [Threads -> {"idle", "waiting", "holding"}]
        /\ calls[t] = "idle" /\ \A u \in Threads : u # t => calls[u] = call[u]
    BY <1>1
  <2>3. available + 1 \in Nat /\ (available + 1 <= 1 \/ Len(waiters) <= 1)
    BY <1>1
  <2> HIDE DEF calls
  <2>4. Queued(waiters, calls, lane')
    <3>1. ASSUME NEW k \in 1..Len(waiters)
          PROVE  /\ waiters[k].of \in Threads /\ calls[waiters[k].of] = "waiting"
                 /\ waiters[k].lane = lane'[waiters[k].of]
      <4>1. /\ waiters[k].of \in Threads /\ call[waiters[k].of] = "waiting"
            /\ waiters[k].lane = lane[waiters[k].of]
        BY <1>1 DEF Queued
      <4>2. waiters[k].of # t
        BY <4>1, <2>1
      <4> QED
        BY <4>1, <4>2, <2>1, <2>2
    <3>2. \A j, k \in 1..Len(waiters) : waiters[j].of = waiters[k].of => j = k
      BY <1>1 DEF Queued
    <3>3. ASSUME NEW u \in Threads, calls[u] = "waiting"
          PROVE  \E k \in 1..Len(waiters) : waiters[k].of = u
      <4>1. call[u] = "waiting"
        BY <3>3, <2>2
      <4> QED
        BY <4>1, <1>1 DEF Queued
    <3> QED
      BY <3>1, <3>2, <3>3 DEF Queued
  <2>5. AllHeld(available + 1, calls)
    <3>1. HoldersOf(calls) = HoldersOf(call) \ {t} /\ t \in HoldersOf(call)
      BY <2>1, <2>2 DEF HoldersOf
    <3>2. IsFiniteSet(HoldersOf(call)) /\ Cardinality(HoldersOf(call)) \in Nat
      BY <1>1, FS_CardinalityType DEF AllHeld
    <3>3. /\ IsFiniteSet(HoldersOf(calls))
          /\ Cardinality(HoldersOf(calls)) = Cardinality(HoldersOf(call)) - 1
      BY <3>1, <3>2, FS_RemoveElement
    <3>4. available + Cardinality(HoldersOf(call)) = Capacity
      BY <1>1 DEF AllHeld
    <3>5. (available + 1) + Cardinality(HoldersOf(calls)) = Capacity
      BY <3>2, <3>3, <3>4, <1>1
    <3> QED
      BY <3>3, <3>5 DEF AllHeld
  <2>6. \/ Quiet(available + 1, waiters, calls)
        \/ \E m \in Waiting(waiters), k \in 1..Len(waiters) :
             Grants(available + 1, waiters, calls, m, k)
    BY <1>1, <2>1, <2>2, <2>3, FairAfterSchedule
  <2>7. Queued(waiters, call, lane)' /\ AllHeld(available, call)'
    BY <1>1, <2>2, <2>3, <2>4, <2>5, <2>6, HeldAfterOne
  <2> QED
    BY <2>7
<1>6. CASE UNCHANGED permitsVars
  <2>1. UNCHANGED <<available, waiters, call, lane>>
    BY <1>6 DEF permitsVars
  <2>2. Queued(waiters', call', lane') /\ AllHeld(available', call')
    BY <2>1, <1>1
  <2>3. Queued(waiters, call, lane)' /\ AllHeld(available, call)'
    BY <2>2 DEF Queued, AllHeld, HoldersOf
  <2> QED
    BY <2>3
<1> QED
  BY <1>3, <1>4, <1>5, <1>6 DEF PermitsNext

LEMMA PermitsInvNext ==
  ASSUME PermitsInv, [PermitsNext]_permitsVars
  PROVE  PermitsInv'
<1>1. FairInv' /\ Capped(available, call)'
  BY FairNext, CappedNext DEF PermitsInv
<1>2. jumped' \in BOOLEAN /\ (jumped => jumped')
  BY DEF PermitsInv, PermitsNext, Acquire, Expire, Release, permitsVars
<1>3. ~jumped' => Queued(waiters, call, lane)' /\ AllHeld(available, call)'
  BY <1>2, QueuedNext DEF PermitsInv
<1> QED
  BY <1>1, <1>2, <1>3 DEF PermitsInv

\* Whoever gives up when (acquire, release), for every number of callers, every
\* capacity and all weights: no permit is given twice and none lies idle while
\* the queue has an entry; and as long as nobody has given up before a caller of
\* its lane that came earlier, none is lost and none lies idle while anybody waits.
THEOREM PermitsAreConserved == PermitsSpec => []PermitsConserved
<1>1. PermitsInv /\ [PermitsNext]_permitsVars => PermitsInv'
  BY PermitsInvNext
<1>2. PermitsInv => PermitsConserved
  <2> SUFFICES ASSUME PermitsInv PROVE PermitsConserved
    OBVIOUS
  <2>1. PermitsTyped /\ NoneIdle /\ Capped(available, call) /\ jumped \in BOOLEAN
    BY DEF PermitsInv, FairInv
  <2>2. Holders = HoldersOf(call)
    BY DEF Holders, HoldersOf
  <2>3. Cardinality(Holders) \in Nat /\ available + Cardinality(Holders) <= Capacity
    BY <2>1, <2>2, FS_CardinalityType DEF Capped
  <2>4. available \in 0..Capacity
    BY <2>1, <2>3, CapacityAssumption DEF PermitsTyped
  <2>5. PermitsTypeOK
    BY <2>1, <2>4 DEF PermitsTypeOK, PermitsTyped, CreditTyped, Entries
  <2>6. available > 0 => waiters = <<>>
    BY <2>1 DEF NoneIdle
  <2>7. ASSUME ~jumped
        PROVE  /\ available + Cardinality(Holders) = Capacity
               /\ available > 0 => \A t \in Threads : call[t] # "waiting"
    <3>1. Queued(waiters, call, lane) /\ AllHeld(available, call)
      BY <2>7 DEF PermitsInv
    <3>2. available + Cardinality(Holders) = Capacity
      BY <2>2, <3>1 DEF AllHeld
    <3>3. ASSUME available > 0, NEW t \in Threads PROVE call[t] # "waiting"
      <4>1. Len(waiters) = 0
        BY <2>6, <3>3
      <4> QED
        BY <4>1, <3>1 DEF Queued
    <3> QED
      BY <3>2, <3>3
  <2> QED
    BY <2>3, <2>5, <2>6, <2>7 DEF PermitsConserved
<1> QED
  BY <1>1, <1>2, PermitsInvInit, PTL DEF PermitsSpec
=============================================================================
