---------------------------- MODULE BatchLifecycle ----------------------------
(***************************************************************************)
(* What an analysis batch promises its owner, with no rows, leases,        *)
(* threads or restarts: a batch has items that are open until they have an *)
(* outcome, a request moves the batch, and the batch closes with the       *)
(* verdict of its items when the last one settles.  AnalysisBatch is shown *)
(* to implement it in AnalysisBatchRefinement.                             *)
(***************************************************************************)
EXTENDS Naturals

CONSTANTS
  Items,        \* the repositories of the batch
  MaxAttempts   \* generations the owner agreed to, per item

VARIABLES
  batch,        \* the state the owner is shown
  outcome,      \* of each item: "open" until it is settled
  attempts      \* generations dispatched for each item

lifecycle == <<batch, outcome, attempts>>

Outcomes == {"complete", "failed", "cancelled", "confirm"}
Ended == {"cancelled", "completed", "completed_with_errors", "failed"}

AllOf(o, s) == \A i \in Items : o[i] = s
SomeOf(o, s) == \E i \in Items : o[i] = s

\* A batch in state b whose items have the outcomes o.
Closed(b, o) ==
  IF SomeOf(o, "open") \/ b = "paused" THEN b
  ELSE IF b = "cancelling" THEN "cancelled"
  ELSE IF AllOf(o, "complete") THEN "completed"
  ELSE IF SomeOf(o, "complete") THEN "completed_with_errors" ELSE "failed"

Settled(s, o) == [i \in Items |-> IF i \in s THEN o[i] ELSE outcome[i]]
Unsettled == {i \in Items : outcome[i] = "open"}

-----------------------------------------------------------------------------
\* One more generation of an open item is sent to the provider.
Dispatch(i) ==
  /\ batch \in {"running", "paused"}
  /\ outcome[i] = "open"
  /\ attempts[i] < MaxAttempts
  /\ attempts' = [attempts EXCEPT ![i] = @ + 1]
  /\ UNCHANGED <<batch, outcome>>

\* Open items get an outcome, none of them the owner's: work ends, a restart
\* leaves some to the owner's confirmation, a waiting batch begins.
Progress ==
  /\ batch \in {"queued", "running", "paused"}
  /\ \E s \in SUBSET Unsettled, o \in [Items -> {"complete", "failed", "confirm"}] :
       outcome' = Settled(s, o)
  /\ \E b \in {batch, IF batch = "queued" THEN "running" ELSE batch} : batch' = Closed(b, outcome')
  /\ UNCHANGED attempts

\* A cancelled batch only drains: what was open is cancelled.
Drain ==
  /\ batch = "cancelling"
  /\ \E s \in SUBSET Unsettled : outcome' = Settled(s, [i \in Items |-> "cancelled"])
  /\ batch' = Closed("cancelling", outcome')
  /\ UNCHANGED attempts

Pause ==
  /\ batch = "running" /\ batch' = "paused"
  /\ UNCHANGED <<outcome, attempts>>

Resume ==
  /\ batch \in {"paused", "running"} /\ batch' = Closed("running", outcome)
  /\ UNCHANGED <<outcome, attempts>>

\* The items nobody works on are cancelled at once, those that wait for the
\* owner's confirmation among them.
Cancel ==
  /\ batch \in {"queued", "running", "paused"}
  /\ \E s \in SUBSET Unsettled :
       outcome' = Settled(s \cup {i \in Items : outcome[i] = "confirm"},
                          [i \in Items |-> "cancelled"])
  /\ batch' = Closed("cancelling", outcome')
  /\ UNCHANGED attempts

\* The owner opens unsuccessful items again, while they have attempts left.
Retry ==
  /\ batch \in {"failed", "completed_with_errors"}
  /\ \E s \in SUBSET {i \in Items : outcome[i] \in {"failed", "confirm"} /\ attempts[i] < MaxAttempts} :
       /\ s # {}
       /\ outcome' = Settled(s, [i \in Items |-> "open"])
  /\ batch' = "running"
  /\ UNCHANGED attempts

Init ==
  /\ batch = "queued"
  /\ outcome = [i \in Items |-> "open"]
  /\ attempts = [i \in Items |-> 0]

Next ==
  \/ \E i \in Items : Dispatch(i)
  \/ Progress \/ Drain \/ Pause \/ Resume \/ Cancel \/ Retry

Spec == Init /\ [][Next]_lifecycle
=============================================================================
