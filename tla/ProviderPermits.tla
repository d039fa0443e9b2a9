--------------------------- MODULE ProviderPermits ---------------------------
(***************************************************************************)
(* _ProviderPermitScheduler (chat/limits.py): the weighted round-robin     *)
(* allocator of provider permits, shared by visitor chat, single owner     *)
(* analyses and batch items.  Every method holds the scheduler's condition *)
(* from beginning to end, so each is one step; a waiter is granted by the  *)
(* step of another thread and then always returns with its permit.         *)
(***************************************************************************)
EXTENDS Naturals, FiniteSets, Sequences, SequencesExt

CONSTANTS
  Threads,     \* callers of acquire_generation
  Nobody,      \* owner of a queue entry whose caller has left
  Capacity,    \* global_chat_concurrency
  Weight       \* _weights: provider opportunities of a lane in one round

Lanes == {"public_chat", "admin_single", "admin_batch"}
\* ProviderLane, in the order in which the scheduler tries its lanes.
Order == <<"public_chat", "admin_single", "admin_batch">>

ASSUME NobodyAssumption == Nobody \notin Threads
ASSUME CapacityAssumption == Capacity \in Nat \ {0}
ASSUME WeightAssumption == Weight \in [Lanes -> Nat \ {0}]

VARIABLES
  available,   \* _available
  waiters,     \* _waiters, in order of arrival
  remaining,   \* _remaining: credit of the lanes in this round
  call,        \* what each thread is doing
  lane,        \* lane of the thread's last call
  bypassed,    \* history: grants to others while the lane has been waiting
  jumped       \* history: somebody gave up before a caller of its lane that
               \* had come earlier

permitsVars == <<available, waiters, remaining, call, lane, bypassed, jumped>>

Waiting(q) == {q[k].lane : k \in DOMAIN q}

\* The lanes with a waiter and with credit left.
Credited(credit, q) == {l \in Waiting(q) : credit[l] > 0}

\* The first lane of Order in a set of lanes.
FirstLane(ls) ==
  LET k == CHOOSE k \in DOMAIN Order :
             Order[k] \in ls /\ \A j \in 1..(k - 1) : Order[j] \notin ls
  IN  Order[k]

\* The first waiter of a lane.
Oldest(q, l) ==
  CHOOSE k \in DOMAIN q : q[k].lane = l /\ \A j \in 1..(k - 1) : q[j].lane # l

\* Mutant: a grant costs its lane no credit.
GrantOneFree(s) ==
  LET credit == IF Credited(s.remaining, s.waiters) = {} THEN Weight ELSE s.remaining
      l == FirstLane(Credited(credit, s.waiters))
      k == Oldest(s.waiters, l)
  IN  [available |-> s.available - 1,
       waiters   |-> RemoveAt(s.waiters, k),
       remaining |-> credit,
       granted   |-> Append(s.granted, s.waiters[k])]

\* Mutant: the credit is not renewed, so a lane that has none overdraws.
GrantOneOverdrawn(s) ==
  LET l == FirstLane(Waiting(s.waiters))
      k == Oldest(s.waiters, l)
  IN  [available |-> s.available - 1,
       waiters   |-> RemoveAt(s.waiters, k),
       remaining |-> [s.remaining EXCEPT ![l] = @ - 1],
       granted   |-> Append(s.granted, s.waiters[k])]

\* _next_waiter_locked and one turn of the loop in _grant_available_locked: the
\* credit of every lane is renewed when no waiting lane has any.
GrantOne(s) ==
  LET credit == IF Credited(s.remaining, s.waiters) = {} THEN Weight ELSE s.remaining
      l == FirstLane(Credited(credit, s.waiters))
      k == Oldest(s.waiters, l)
  IN  [available |-> s.available - 1,
       waiters   |-> RemoveAt(s.waiters, k),
       remaining |-> [credit EXCEPT ![l] = @ - 1],
       granted   |-> Append(s.granted, s.waiters[k])]

\* _grant_available_locked: the state in which its loop stops.
GrantAvailable(a, q) ==
  LET turn[n \in 0..a] ==
        IF n = 0
        THEN [available |-> a, waiters |-> q, remaining |-> remaining, granted |-> <<>>]
        ELSE LET s == turn[n - 1] IN IF s.waiters = <<>> THEN s ELSE GrantOne(s)
  IN  turn[a]

\* The scheduler after its loop has run on a permits and queue q; calls is what
\* the threads do if the loop grants nothing.
Scheduled(a, q, calls) ==
  \E s \in {GrantAvailable(a, q)} :
  LET to == {s.granted[k].of : k \in DOMAIN s.granted}
      grantsOf(ls) == Cardinality({k \in DOMAIN s.granted : s.granted[k].lane \in ls})
  IN  /\ available' = s.available
      /\ waiters' = s.waiters
      /\ remaining' = s.remaining
      /\ call' = [t \in Threads |-> IF t \in to THEN "holding" ELSE calls[t]]
      /\ bypassed' = [l \in Lanes |->
                        IF l \notin Waiting(s.waiters) \/ grantsOf({l}) > 0 THEN 0
                        ELSE bypassed[l] + grantsOf(Lanes \ {l})]

-----------------------------------------------------------------------------
\* acquire, up to the wait: with a timeout of zero the same thread expires next.
Acquire(t, l) ==
  /\ call[t] = "idle"
  /\ lane' = [lane EXCEPT ![t] = l]
  /\ Scheduled(available, Append(waiters, [of |-> t, lane |-> l]),
               [call EXCEPT ![t] = "waiting"])
  /\ UNCHANGED jumped

\* Mutant: a caller that gives up leaves its entry in the queue.
WithdrawnNothing(t) ==
  [j \in DOMAIN waiters |->
     IF waiters[j].of = t THEN [waiters[j] EXCEPT !.of = Nobody] ELSE waiters[j]]

\* list.remove compares by value, and _ProviderWaiter is a dataclass: the first
\* entry of the caller's lane goes, whoever waits on it.  The caller's own entry
\* then stays behind with nobody waiting on it.
Withdrawn(t) ==
  LET k == Oldest(waiters, lane[t])
      own(w) == IF w.of = t THEN [w EXCEPT !.of = Nobody] ELSE w
      rest == RemoveAt(waiters, k)
  IN  [j \in DOMAIN rest |-> own(rest[j])]

\* acquire after its deadline, in any order: ValueError if no entry of the lane
\* is left, else CONCURRENCY_LIMIT.
Expire(t) ==
  /\ call[t] = "waiting"
  /\ IF lane[t] \in Waiting(waiters)
     THEN /\ Scheduled(available, Withdrawn(t), [call EXCEPT ![t] = "idle"])
          /\ jumped' = (jumped \/ waiters[Oldest(waiters, lane[t])].of # t)
     ELSE /\ call' = [call EXCEPT ![t] = "idle"]
          /\ UNCHANGED <<available, waiters, remaining, bypassed, jumped>>
  /\ UNCHANGED lane

\* Mutant: a permit is returned without a look at the queue.
ReleaseQuietly(t) ==
  /\ call[t] = "holding"
  /\ available' = available + 1
  /\ call' = [call EXCEPT ![t] = "idle"]
  /\ UNCHANGED <<waiters, remaining, lane, bypassed, jumped>>

Release(t) ==
  /\ call[t] = "holding"
  /\ Scheduled(available + 1, waiters, [call EXCEPT ![t] = "idle"])
  /\ UNCHANGED <<lane, jumped>>

PermitsInit ==
  /\ available = Capacity
  /\ waiters = <<>>
  /\ remaining = Weight
  /\ call = [t \in Threads |-> "idle"]
  /\ lane = [t \in Threads |-> "public_chat"]
  /\ bypassed = [l \in Lanes |-> 0]
  /\ jumped = FALSE

PermitsNext ==
  \E t \in Threads : (\E l \in Lanes : Acquire(t, l)) \/ Expire(t) \/ Release(t)

PermitsSpec == PermitsInit /\ [][PermitsNext]_permitsVars

\* A provider call ends (it has a deadline), and its permit is then released.
PermitsFairSpec == PermitsSpec /\ \A t \in Threads : WF_permitsVars(Release(t))

-----------------------------------------------------------------------------
Holders == {t \in Threads : call[t] = "holding"}

PermitsTypeOK ==
  /\ available \in 0..Capacity
  /\ waiters \in Seq([of : Threads \cup {Nobody}, lane : Lanes])
  /\ remaining \in [Lanes -> Nat]
  /\ \A l \in Lanes : remaining[l] <= Weight[l]
  /\ call \in [Threads -> {"idle", "waiting", "holding"}]
  /\ lane \in [Threads -> Lanes]
  /\ bypassed \in [Lanes -> Nat] /\ jumped \in BOOLEAN

\* In whatever order callers give up, no permit is given twice: there are never
\* more calls in progress than permits, and a permit lies idle only if the queue
\* is empty.  As long as nobody gives up before a caller of its lane that came
\* earlier, no permit is lost either, and none lies idle while anybody waits.
\* (The types are checked with it.)
PermitsConserved ==
  /\ PermitsTypeOK
  /\ available + Cardinality(Holders) <= Capacity
  /\ available > 0 => waiters = <<>>
  /\ ~jumped => /\ available + Cardinality(Holders) = Capacity
                /\ available > 0 => \A t \in Threads : call[t] # "waiting"

\* The credit of the other lanes, and of the lanes before l in Order.
Others(credit, l) ==
  CASE l = "public_chat"  -> credit["admin_single"] + credit["admin_batch"]
    [] l = "admin_single" -> credit["public_chat"] + credit["admin_batch"]
    [] l = "admin_batch"  -> credit["public_chat"] + credit["admin_single"]
Before(credit, l) ==
  CASE l = "public_chat"  -> 0
    [] l = "admin_single" -> credit["public_chat"]
    [] l = "admin_batch"  -> credit["public_chat"] + credit["admin_single"]

\* No lane starves: a lane waits at most for the credit of all others in the
\* round in which its own is used up, then for that of the lanes before it.
BoundedBypass ==
  \A l \in Lanes : bypassed[l] <= Others(Weight, l) + Before(Weight, l)

\* Whoever waits is served or has given up, however busy the other lanes are, as
\* long as nobody gives up before a caller of its lane that came earlier.
WaitEnds == \A t \in Threads : call[t] = "waiting" ~> call[t] # "waiting" \/ jumped

\* Documented, and not what the code does: see the deviations in README.md.
\* A rejected call leaves no waiter behind.
RejectionLeavesNoStaleWaiter == \A k \in DOMAIN waiters : waiters[k].of # Nobody
=============================================================================
