----------------------- MODULE AnalysisBatchRefinement -----------------------
(***************************************************************************)
(* AnalysisBatch implements BatchLifecycle: the leases, the threads, the   *)
(* worker, the cache and the restarts are hidden, an item that has not     *)
(* settled is open, and a dispatched generation is an attempt.             *)
(***************************************************************************)
EXTENDS AnalysisBatch

\* The outcome the item's row stands for.
OutcomeOf(s) ==
  IF s = "needs_retry_confirmation" THEN "confirm"
  ELSE IF s \in ItemTerminalStates THEN s ELSE "open"
OutcomesOf(s) == [i \in Items |-> OutcomeOf(s[i])]

Life == INSTANCE BatchLifecycle WITH
  outcome <- OutcomesOf(item),
  attempts <- gen

\* Every step of the rows and the threads is a step of the lifecycle the owner
\* is promised, or one the owner does not see: no thread, claim, retry or
\* restart takes an outcome back, reopens a cancelled batch, sends a generation
\* too many or closes a batch with anything but the verdict of its items.
ImplementsLifecycle == Life!Spec
=============================================================================
