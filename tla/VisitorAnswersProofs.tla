------------------------ MODULE VisitorAnswersProofs ------------------------
(***************************************************************************)
(* What visitors are answered with: the reviewed questions and the public  *)
(* pages that show them (PagesSharing), and the chat model behind the      *)
(* assistant (ChatRuntime).  The two components share no state, and their  *)
(* proofs follow one another.                                              *)
(***************************************************************************)
EXTENDS PagesSharing, ChatRuntime, FiniteSetTheorems, TLAPS

-----------------------------------------------------------------------------
(***************************************************************************)
(* The safety of the reviewed questions and of the public pages, for every *)
(* number of requests, bundles, addresses, changes and uploads.            *)
(*                                                                         *)
(* The argument about the questions rests on revisions: a request that     *)
(* approves a row and still finds the revision it was made for has been    *)
(* shown that row.  The argument about a site rests on the appearance's    *)
(* revision only growing: read before and after the questions and found    *)
(* the same, it was the same when they were read.                          *)
(***************************************************************************)
CallSteps == {"idle", "asked", "leased", "original", "copy", "withdraw", "answering", "checked"}
CallKinds == {"none", "check", "regenerate", "variants", "approve", "reject"}
Copies == [bundle : Bundles, answer : Answers]
Views == [entry : Entries, bundle : Bundles, answer : Answers \cup {None}, variants : Variants]

CallRecords ==
  [step : CallSteps, kind : CallKinds, entry : Entries, rev : 0..MaxRevision,
   of : Bundles \cup {None}, bundle : Bundles \cup {None}, copy : Copies \cup {None},
   shown : Views \cup {None}]

\* What a row in the language of e holds was drawn from its bundle, and is
\* what the owner has approved if the row says that it is approved.
Drawn(e, r) == r.answer # None => r.answer.of = r.bundle /\ r.answer.in = e
RowKnown(e) ==
  row[e] # None => /\ Drawn(e, row[e])
                   /\ row[e].review = "approved" => approved[e] = Entry(e, row[e])

\* What a request k carries, in terms of the row it is about.
RevisionSeen(k) ==
  k.step # "idle" /\ k.kind # "check" =>
    /\ row[k.entry] # None
    /\ k.rev \in 1..MaxRevision /\ k.rev <= row[k.entry].rev
    /\ k.kind = "approve" /\ k.rev = row[k.entry].rev =>
         /\ k.shown = Entry(k.entry, row[k.entry])
         /\ k.step = "checked" => row[k.entry].answer # None

\* What it has read and may write.
ReadSoFar(k) ==
  /\ k.step \in {"original", "copy"} => k.entry = "derived"
  /\ k.step = "copy" => /\ k.copy \in Copies
                        /\ k.copy.answer.of = k.copy.bundle /\ k.copy.answer.in = "derived"
  /\ k.kind = "regenerate" /\ k.step \in {"withdraw", "answering", "leased"} =>
       k.entry = "written"
  /\ k.step = "leased" => k.bundle \in Bundles

CallKnown(k) == RevisionSeen(k) /\ ReadSoFar(k)

FaqTypes ==
  /\ active \in Bundles
  /\ row \in [Entries -> Rows \cup {None}]
  /\ approved \in [Entries -> Seen \cup {None}]
  /\ call \in [Owners -> CallRecords]

FaqInv ==
  /\ FaqTypes
  /\ \A e \in Entries : RowKnown(e)
  /\ \A c \in Owners : CallKnown(call[c])
-----------------------------------------------------------------------------
(***************************************************************************)
(* Facts about rows.                                                       *)
(***************************************************************************)
\* A new row is a row.
LEMMA FreshRow ==
  ASSUME NEW b \in Bundles
  PROVE  Fresh(b) \in Rows /\ Fresh(b).answer = None /\ Fresh(b).review = "pending"
BY MaxRevisionAssumption DEF Fresh, Rows, Variants

\* The copy of a row that was drawn from its bundle is a row of the derived
\* language, drawn from the same bundle, with nothing decided.
LEMMA ConvertedRow ==
  ASSUME NEW r \in Rows, Drawn("written", r)
  PROVE  /\ Converted(r) \in Rows /\ Converted(r).bundle = r.bundle
         /\ Converted(r).review = "pending" /\ Drawn("derived", Converted(r))
         /\ r.answer # None => /\ Converted(r).answer \in Answers
                              /\ Converted(r).answer.of = r.bundle
                              /\ Converted(r).answer.in = "derived"
<1>1. CASE r.answer = None
  BY <1>1 DEF Converted, Rows, Drawn
<1>2. CASE r.answer # None
  <2>1. r.answer \in Answers
    BY <1>2 DEF Rows
  <2>2. [r.answer EXCEPT !.in = "derived"] \in Answers
    BY <2>1 DEF Answers, Entries
  <2>3. Converted(r).answer = [r.answer EXCEPT !.in = "derived"]
    BY <1>2 DEF Converted, Rows
  <2>4. Converted(r) \in Rows /\ Converted(r).bundle = r.bundle /\ Converted(r).review = "pending"
    BY <1>2, <2>2 DEF Converted, Rows
  <2>5. Drawn("derived", Converted(r))
    BY <1>2, <2>1, <2>3, <2>4 DEF Drawn, Answers
  <2> QED
    BY <1>2, <2>1, <2>2, <2>3, <2>4, <2>5 DEF Answers, Drawn
<1> QED
  BY <1>1, <1>2

\* A request stands where it did when rows only appear or get a later revision.
LEMMA CallsSurviveWrites ==
  ASSUME FaqTypes,
         \A e \in Entries : row[e] # None =>
           \/ row'[e] = row[e]
           \/ row'[e] \in Rows /\ row'[e].rev > row[e].rev,
         NEW k \in CallRecords, CallKnown(k)
  PROVE  CallKnown(k)'
<1>1. k.entry \in Entries /\ k.rev \in 0..MaxRevision
  BY DEF CallRecords
<1>2. ReadSoFar(k)'
  BY DEF CallKnown, ReadSoFar
<1>3. RevisionSeen(k)'
  <2> SUFFICES ASSUME k.step # "idle", k.kind # "check"
               PROVE  RevisionSeen(k)'
    BY DEF RevisionSeen
  <2>1. /\ row[k.entry] # None /\ row[k.entry] \in Rows
        /\ k.rev \in 1..MaxRevision /\ k.rev <= row[k.entry].rev
    BY <1>1 DEF CallKnown, RevisionSeen, FaqTypes
  <2>2. CASE row'[k.entry] = row[k.entry]
    BY <2>2 DEF CallKnown, RevisionSeen
  <2>3. CASE row'[k.entry] \in Rows /\ row'[k.entry].rev > row[k.entry].rev
    <3>1. row'[k.entry] # None
      BY <2>3, NoneAssumption
    <3>2. row[k.entry].rev \in Nat /\ row'[k.entry].rev \in Nat
      BY <2>1, <2>3 DEF Rows
    <3> QED
      BY <2>1, <2>3, <3>1, <3>2, MaxRevisionAssumption DEF RevisionSeen
  <2> QED
    BY <1>1, <2>1, <2>2, <2>3
<1> QED
  BY <1>2, <1>3 DEF CallKnown

\* A write of a request: a row that keeps its bundle's answers, and that is
\* not approved, takes the place of the one with the revision before.
LEMMA WriteKeepsRows ==
  ASSUME FaqInv, NEW c \in Owners, Mine(c) # None, NEW r \in Rows,
         r.rev = Mine(c).rev, Drawn(call[c].entry, r), r.review # "approved",
         Write(c, r), UNCHANGED <<active, approved>>
  PROVE  /\ row' \in [Entries -> Rows \cup {None}]
         /\ \A e \in Entries : RowKnown(e)'
         /\ \A k \in CallRecords : CallKnown(k) => CallKnown(k)'
<1> DEFINE e == call[c].entry
           w == [r EXCEPT !.rev = @ + 1]
<1>1. e \in Entries /\ row[e] \in Rows
  BY DEF FaqInv, FaqTypes, CallRecords, Mine
<1>2. row[e].rev < MaxRevision /\ row' = [row EXCEPT ![e] = w]
  BY DEF Write
<1>3. /\ w \in Rows /\ w.rev = row[e].rev + 1 /\ w.review # "approved"
      /\ w.answer = r.answer /\ w.bundle = r.bundle
  <2>1. r.rev \in 1..MaxRevision /\ r.rev + 1 \in 1..MaxRevision
    BY <1>1, <1>2, MaxRevisionAssumption DEF Rows, Mine
  <2> QED
    BY <2>1 DEF Rows, Mine
<1>4. row' \in [Entries -> Rows \cup {None}]
  BY <1>1, <1>2, <1>3 DEF FaqInv, FaqTypes
<1>5. ASSUME NEW f \in Entries PROVE RowKnown(f)'
  <2>1. CASE f = e
    BY <1>1, <1>2, <1>3, <2>1 DEF RowKnown, Drawn, FaqInv, FaqTypes
  <2>2. CASE f # e
    <3>1. row'[f] = row[f] /\ approved'[f] = approved[f]
      BY <1>1, <1>2, <2>2 DEF FaqInv, FaqTypes
    <3> QED
      BY <3>1 DEF FaqInv, RowKnown
  <2> QED
    BY <2>1, <2>2
<1>6. \A f \in Entries : row[f] # None =>
        \/ row'[f] = row[f]
        \/ row'[f] \in Rows /\ row'[f].rev > row[f].rev
  <2>1. row[e].rev \in Nat
    BY <1>1 DEF Rows
  <2> QED
    BY <1>1, <1>2, <1>3, <2>1 DEF FaqInv, FaqTypes
<1> HIDE DEF e, w
<1>7. \A k \in CallRecords : CallKnown(k) => CallKnown(k)'
  BY <1>6, CallsSurviveWrites DEF FaqInv
<1> QED
  BY <1>4, <1>5, <1>7

\* The invariant holds again once the rows have theirs and the one request
\* that moves has a record that is known.
LEMMA CallReplaced ==
  ASSUME FaqInv, NEW c \in Owners, NEW k \in CallRecords, CallKnown(k)',
         call' = [call EXCEPT ![c] = k],
         active' \in Bundles, row' \in [Entries -> Rows \cup {None}],
         approved' \in [Entries -> Seen \cup {None}],
         \A e \in Entries : RowKnown(e)',
         \A q \in CallRecords : CallKnown(q) => CallKnown(q)'
  PROVE  FaqInv'
<1>1. call' \in [Owners -> CallRecords]
  BY DEF FaqInv, FaqTypes
<1>2. ASSUME NEW d \in Owners PROVE CallKnown(call[d])'
  <2>1. CASE d = c
    <3>1. call'[d] = k
      BY <2>1 DEF FaqInv, FaqTypes
    <3> QED
      BY <3>1 DEF CallKnown, RevisionSeen, ReadSoFar
  <2>2. CASE d # c
    <3>1. call'[d] = call[d] /\ call[d] \in CallRecords /\ CallKnown(call[d])
      BY <2>2 DEF FaqInv, FaqTypes
    <3> QED
      BY <3>1 DEF CallKnown, RevisionSeen, ReadSoFar
  <2> QED
    BY <2>1, <2>2
<1> QED
  BY <1>1, <1>2 DEF FaqInv, FaqTypes

\* A request with nothing under way.
LEMMA NoCallKnown == NoCall \in CallRecords /\ CallKnown(NoCall) /\ CallKnown(NoCall)'
BY MaxRevisionAssumption
   DEF NoCall, CallRecords, CallKnown, RevisionSeen, ReadSoFar, CallSteps, CallKinds, Entries

\* A request that only reads.
LEMMA CallMoves ==
  ASSUME FaqInv, NEW c \in Owners, NEW k \in CallRecords, CallKnown(k),
         call' = [call EXCEPT ![c] = k], Unwritten
  PROVE  FaqInv'
<1>1. \A q \in CallRecords : CallKnown(q) => CallKnown(q)'
  BY DEF Unwritten, CallKnown, RevisionSeen, ReadSoFar
<1>2. \A e \in Entries : RowKnown(e)'
  BY DEF FaqInv, Unwritten, RowKnown
<1> QED
  BY <1>1, <1>2, CallReplaced DEF FaqInv, FaqTypes, Unwritten

LEMMA CallEnds ==
  ASSUME FaqInv, NEW c \in Owners, End(c), Unwritten
  PROVE  FaqInv'
BY CallMoves, NoCallKnown DEF End

-----------------------------------------------------------------------------
(***************************************************************************)
(* The steps of a request about questions.                                 *)
(***************************************************************************)
LEMMA AskStep ==
  ASSUME FaqInv, NEW c \in Owners, Ask(c)
  PROVE  FaqInv'
<1>1. PICK kind \in {"check", "regenerate", "variants", "approve", "reject"}, e \in Entries :
        /\ kind # "check" => row[e] # None
        /\ call' = [call EXCEPT ![c] =
             [NoCall EXCEPT !.step = "asked", !.kind = kind, !.entry = e,
                            !.rev = IF kind = "check" THEN 0 ELSE row[e].rev,
                            !.of = IF kind = "variants" THEN row[e].bundle ELSE None,
                            !.shown = IF kind = "approve" THEN Entry(e, row[e]) ELSE None]]
  BY DEF Ask
<1> DEFINE rev == IF kind = "check" THEN 0 ELSE row[e].rev
           of == IF kind = "variants" THEN row[e].bundle ELSE None
           shown == IF kind = "approve" THEN Entry(e, row[e]) ELSE None
           k == [NoCall EXCEPT !.step = "asked", !.kind = kind, !.entry = e, !.rev = rev,
                               !.of = of, !.shown = shown]
<1>2. kind # "check" => row[e] \in Rows
  BY <1>1 DEF FaqInv, FaqTypes
<1>3. k \in CallRecords
  <2>1. rev \in 0..MaxRevision
    BY <1>2, MaxRevisionAssumption DEF Rows
  <2>2. of \in Bundles \cup {None}
    BY <1>2 DEF Rows
  <2>3. shown \in Views \cup {None}
    BY <1>2 DEF Rows, Views, Entry
  <2> HIDE DEF rev, of, shown
  <2> QED
    BY <2>1, <2>2, <2>3, NoCallKnown DEF CallRecords, CallSteps, CallKinds
<1>4. CallKnown(k)
  <2>1. kind # "check" => row[e].rev \in 1..MaxRevision
    BY <1>2 DEF Rows
  <2>2. /\ k.step = "asked" /\ k.kind = kind /\ k.entry = e /\ k.rev = rev /\ k.shown = shown
    BY NoCallKnown DEF CallRecords
  <2> HIDE DEF k
  <2>3. RevisionSeen(k)
    BY <1>1, <2>1, <2>2, MaxRevisionAssumption DEF RevisionSeen
  <2>4. ReadSoFar(k)
    BY <2>2 DEF ReadSoFar
  <2> QED
    BY <2>3, <2>4 DEF CallKnown
<1> QED
  BY <1>1, <1>3, <1>4, CallMoves DEF Ask

LEMMA LeaseStep ==
  ASSUME FaqInv, NEW c \in Owners, Lease(c)
  PROVE  FaqInv'
<1> DEFINE k == [call[c] EXCEPT !.step = "leased", !.bundle = active]
<1>1. call[c] \in CallRecords /\ CallKnown(call[c]) /\ active \in Bundles
  BY DEF FaqInv, FaqTypes
<1>2. k \in CallRecords
  BY <1>1 DEF CallRecords, CallSteps
<1>3. CallKnown(k)
  BY <1>1 DEF CallRecords, CallKnown, RevisionSeen, ReadSoFar, Lease, At
<1>4. call' = [call EXCEPT ![c] = k]
  BY DEF Lease, FaqInv, FaqTypes
<1> QED
  BY <1>2, <1>3, <1>4, CallMoves DEF Lease

LEMMA ReadStep ==
  ASSUME FaqInv, NEW c \in Owners, Read(c) \/ ReadOriginal(c) \/ Review(c)
  PROVE  FaqInv'
<1>1. call[c] \in CallRecords /\ CallKnown(call[c])
  BY DEF FaqInv, FaqTypes
<1>2. CASE Read(c)
  <2>1. CASE End(c)
    BY <1>2, <2>1, CallEnds DEF Read
  <2>2. CASE ~End(c)
    <3> DEFINE k == [call[c] EXCEPT
                       !.step = IF call[c].entry = "derived" THEN "original" ELSE "withdraw"]
    <3>1. call' = [call EXCEPT ![c] = k]
      BY <1>2, <2>2 DEF Read, Goto, FaqInv, FaqTypes
    <3>2. k \in CallRecords
      BY <1>1 DEF CallRecords, CallSteps
    <3>3. CallKnown(k)
      BY <1>1, <1>2 DEF CallRecords, CallKnown, RevisionSeen, ReadSoFar, Read, At, Entries
    <3> QED
      BY <1>2, <3>1, <3>2, <3>3, CallMoves DEF Read
  <2> QED
    BY <2>1, <2>2
<1>3. CASE ReadOriginal(c)
  <2> DEFINE r == row["written"]
             p == [bundle |-> r.bundle, answer |-> Converted(r).answer]
             k == [call[c] EXCEPT !.step = "copy", !.copy = p]
  <2>1. CASE End(c)
    BY <1>3, <2>1, CallEnds DEF ReadOriginal
  <2>2. CASE ~End(c)
    <3>1. r # None /\ r.answer # None /\ call' = [call EXCEPT ![c] = k]
      BY <1>3, <2>2 DEF ReadOriginal, FaqInv, FaqTypes
    <3>2. r \in Rows /\ Drawn("written", r)
      BY <3>1 DEF FaqInv, FaqTypes, RowKnown, Entries
    <3>3. p \in Copies /\ p.answer.of = p.bundle /\ p.answer.in = "derived"
      <4>1. /\ Converted(r).answer \in Answers
            /\ Converted(r).answer.of = r.bundle /\ Converted(r).answer.in = "derived"
        BY <3>1, <3>2, ConvertedRow
      <4> QED
        BY <3>2, <4>1 DEF Copies, Rows
    <3>4. k \in CallRecords
      BY <1>1, <3>3 DEF CallRecords, CallSteps
    <3>5. CallKnown(k)
      BY <1>1, <1>3, <3>3 DEF CallRecords, CallKnown, RevisionSeen, ReadSoFar, ReadOriginal, At
    <3> QED
      BY <1>3, <3>1, <3>4, <3>5, CallMoves DEF ReadOriginal
  <2> QED
    BY <2>1, <2>2
<1>4. CASE Review(c)
  <2>1. CASE End(c)
    BY <1>4, <2>1, CallEnds DEF Review
  <2>2. CASE ~End(c)
    <3> DEFINE k == [call[c] EXCEPT !.step = "checked"]
    <3>1. /\ call' = [call EXCEPT ![c] = k]
          /\ call[c].kind = "approve" => Mine(c).answer # None
      BY <1>4, <2>2 DEF Review, Goto, FaqInv, FaqTypes
    <3>2. k \in CallRecords
      BY <1>1 DEF CallRecords, CallSteps
    <3>3. CallKnown(k)
      BY <1>1, <1>4, <3>1 DEF CallRecords, CallKnown, RevisionSeen, ReadSoFar, Review, At, Mine
    <3> QED
      BY <1>4, <3>1, <3>2, <3>3, CallMoves DEF Review
  <2> QED
    BY <2>1, <2>2
<1> QED
  BY <1>2, <1>3, <1>4

\* initialize_queue adds rows and writes none that is there.
LEMMA InitializeStep ==
  ASSUME FaqInv, NEW c \in Owners, Initialize(c)
  PROVE  FaqInv'
<1> DEFINE b == call[c].bundle
           written == IF row["written"] = None THEN Fresh(b) ELSE row["written"]
           copied == /\ call[c].entry = "derived" /\ row["derived"] = None
                     /\ written.bundle = b
           derived == IF copied THEN [Converted(written) EXCEPT !.rev = 1] ELSE row["derived"]
<1>1. row' = [e \in Entries |-> IF e = "written" THEN written ELSE derived]
  BY DEF Initialize
<1>2. b \in Bundles
  BY DEF Initialize, At, FaqInv, CallKnown, ReadSoFar
<1>3. /\ written \in Rows /\ Drawn("written", written)
      /\ row["written"] # None => written = row["written"]
      /\ row["written"] = None => written.review = "pending"
  BY <1>2, FreshRow DEF FaqInv, FaqTypes, RowKnown, Drawn, Entries
<1>4. copied => /\ derived \in Rows /\ derived.review = "pending"
                /\ Drawn("derived", derived)
  BY <1>3, ConvertedRow, MaxRevisionAssumption DEF Rows, Drawn
<1>5. ~copied => derived = row["derived"]
  OBVIOUS
<1>6. copied => row["derived"] = None
  OBVIOUS
<1>7. "written" \in Entries /\ "derived" \in Entries /\ "derived" # "written"
      /\ \A e \in Entries : e = "written" \/ e = "derived"
  BY DEF Entries
<1> HIDE DEF b, written, copied, derived
<1>8. row' \in [Entries -> Rows \cup {None}]
  BY <1>1, <1>3, <1>4, <1>5, <1>7 DEF FaqInv, FaqTypes
<1>9. \A e \in Entries : RowKnown(e)'
  <2>1. RowKnown("written")'
    <3>1. row'["written"] = written /\ UNCHANGED approved
      BY <1>1, <1>7 DEF Initialize
    <3> QED
      BY <1>3, <1>7, <3>1 DEF FaqInv, RowKnown
  <2>2. RowKnown("derived")'
    <3>1. row'["derived"] = derived /\ UNCHANGED approved
      BY <1>1, <1>7 DEF Initialize
    <3> QED
      BY <1>4, <1>5, <1>7, <3>1 DEF FaqInv, RowKnown
  <2> QED
    BY <1>7, <2>1, <2>2
<1>10. \A e \in Entries : row[e] # None => row'[e] = row[e]
  BY <1>1, <1>3, <1>5, <1>6, <1>7
<1>11. \A k \in CallRecords : CallKnown(k) => CallKnown(k)'
  BY <1>10, CallsSurviveWrites DEF FaqInv
<1> QED
  BY <1>8, <1>9, <1>11, CallReplaced, NoCallKnown DEF Initialize, End, FaqInv, FaqTypes

\* A write of a row that is not approved, after which the request ends.
LEMMA WriteEnds ==
  ASSUME FaqInv, NEW c \in Owners, Mine(c) # None, NEW r \in Rows,
         r.rev = Mine(c).rev, Drawn(call[c].entry, r), r.review # "approved",
         Write(c, r), End(c), UNCHANGED <<active, approved>>
  PROVE  FaqInv'
BY WriteKeepsRows, CallReplaced, NoCallKnown DEF End, FaqInv, FaqTypes

\* A derived row takes a copy of the original's answer.
LEMMA CopyStep ==
  ASSUME FaqInv, NEW c \in Owners, Copy(c)
  PROVE  FaqInv'
<1>1. CASE Conflict(c, call[c].rev)
  BY <1>1, CallEnds DEF Conflict
<1>2. CASE ~Conflict(c, call[c].rev)
  <2> DEFINE k == call[c]
             r == [Mine(c) EXCEPT !.answer = k.copy.answer, !.bundle = k.copy.bundle,
                                  !.review = "pending", !.error = FALSE]
  <2>1. /\ Current(c, k.rev) /\ Write(c, r) /\ End(c) /\ UNCHANGED <<active, approved>>
    BY <1>2 DEF Copy
  <2>2. Mine(c) \in Rows /\ Mine(c) # None
    BY <2>1 DEF Current, Mine, FaqInv, FaqTypes, CallRecords
  <2>3. /\ k.entry = "derived" /\ k.copy \in Copies
        /\ k.copy.answer.of = k.copy.bundle /\ k.copy.answer.in = "derived"
    BY DEF Copy, At, FaqInv, CallKnown, ReadSoFar
  <2>4. /\ r \in Rows /\ r.rev = Mine(c).rev /\ r.review = "pending"
        /\ r.answer = k.copy.answer /\ r.bundle = k.copy.bundle
    BY <2>2, <2>3 DEF Rows, Copies
  <2>5. Drawn(k.entry, r)
    BY <2>3, <2>4 DEF Drawn
  <2> QED
    BY <2>1, <2>2, <2>4, <2>5, WriteEnds
<1> QED
  BY <1>1, <1>2

\* The old answer goes, and the request goes on to ask for a new one.
LEMMA WithdrawStep ==
  ASSUME FaqInv, NEW c \in Owners, Withdraw(c)
  PROVE  FaqInv'
<1>1. CASE Conflict(c, call[c].rev)
  BY <1>1, CallEnds DEF Conflict
<1>2. CASE ~Conflict(c, call[c].rev)
  <2> DEFINE r == [Mine(c) EXCEPT !.answer = None, !.review = "pending", !.error = FALSE]
             k == [call[c] EXCEPT !.step = "answering"]
  <2>1. /\ Current(c, call[c].rev) /\ Write(c, r) /\ Goto(c, "answering")
        /\ UNCHANGED <<active, approved>>
    BY <1>2 DEF Withdraw
  <2>2. Mine(c) \in Rows /\ Mine(c) # None
    BY <2>1 DEF Current, Mine, FaqInv, FaqTypes, CallRecords
  <2>3. r \in Rows /\ r.rev = Mine(c).rev /\ r.review = "pending" /\ r.answer = None
    BY <2>2 DEF Rows
  <2>4. Drawn(call[c].entry, r)
    BY <2>3 DEF Drawn
  <2>5. call[c] \in CallRecords /\ CallKnown(call[c]) /\ call[c].kind = "regenerate"
        /\ call[c].step = "withdraw"
    BY DEF FaqInv, FaqTypes, Withdraw, At
  <2>6. k \in CallRecords /\ call' = [call EXCEPT ![c] = k]
    BY <2>1, <2>5 DEF CallRecords, CallSteps, Goto, FaqInv, FaqTypes
  <2>7. CallKnown(k)
    BY <2>5 DEF CallRecords, CallKnown, RevisionSeen, ReadSoFar
  <2> HIDE DEF k, r
  <2>8. /\ row' \in [Entries -> Rows \cup {None}]
        /\ \A e \in Entries : RowKnown(e)'
        /\ \A q \in CallRecords : CallKnown(q) => CallKnown(q)'
    BY <2>1, <2>2, <2>3, <2>4, WriteKeepsRows
  <2> QED
    BY <2>1, <2>6, <2>7, <2>8, CallReplaced DEF FaqInv, FaqTypes
<1> QED
  BY <1>1, <1>2

\* The answer that arrives is drawn from the bundle that was leased for it.
LEMMA DeliverStep ==
  ASSUME FaqInv, NEW c \in Owners, Deliver(c)
  PROVE  FaqInv'
<1>1. CASE Conflict(c, call[c].rev + 1)
  BY <1>1, CallEnds DEF Conflict
<1>2. CASE ~Conflict(c, call[c].rev + 1)
  <2> DEFINE k == call[c]
             a(t) == [text |-> t, of |-> k.bundle, in |-> "written"]
             r(t) == [Mine(c) EXCEPT !.answer = a(t), !.bundle = k.bundle,
                                     !.review = "pending", !.error = FALSE]
  <2>1. PICK t \in Texts : Write(c, r(t))
    BY <1>2 DEF Deliver
  <2>2. Current(c, k.rev + 1) /\ End(c) /\ UNCHANGED <<active, approved>>
    BY <1>2 DEF Deliver
  <2>3. Mine(c) \in Rows /\ Mine(c) # None
    BY <2>2 DEF Current, Mine, FaqInv, FaqTypes, CallRecords
  <2>4. k.entry = "written" /\ k.bundle \in Bundles
    BY DEF Deliver, At, FaqInv, CallKnown, ReadSoFar
  <2>5. a(t) \in Answers /\ a(t).of = k.bundle /\ a(t).in = k.entry
    BY <2>4 DEF Answers, Entries
  <2> HIDE DEF a
  <2>6. /\ r(t) \in Rows /\ r(t).rev = Mine(c).rev /\ r(t).review = "pending"
        /\ r(t).answer = a(t) /\ r(t).bundle = k.bundle
    BY <2>3, <2>4, <2>5 DEF Rows
  <2>7. Drawn(k.entry, r(t))
    BY <2>5, <2>6 DEF Drawn
  <2> HIDE DEF r
  <2> QED
    BY <2>1, <2>2, <2>3, <2>6, <2>7, WriteEnds
<1> QED
  BY <1>1, <1>2

LEMMA GenerationFailsStep ==
  ASSUME FaqInv, NEW c \in Owners, GenerationFails(c)
  PROVE  FaqInv'
<1>1. CASE Conflict(c, call[c].rev + 1)
  BY <1>1, CallEnds DEF Conflict
<1>2. CASE ~Conflict(c, call[c].rev + 1)
  <2> DEFINE r == [Mine(c) EXCEPT !.error = TRUE, !.review = "pending"]
  <2>1. /\ Current(c, call[c].rev + 1) /\ Write(c, r) /\ End(c)
        /\ UNCHANGED <<active, approved>>
    BY <1>2 DEF GenerationFails
  <2>2. Mine(c) \in Rows /\ Mine(c) # None /\ Drawn(call[c].entry, Mine(c))
    BY <2>1 DEF Current, Mine, FaqInv, FaqTypes, CallRecords, RowKnown
  <2>3. r \in Rows /\ r.rev = Mine(c).rev /\ r.review = "pending" /\ Drawn(call[c].entry, r)
    BY <2>2 DEF Rows, Drawn
  <2> HIDE DEF r
  <2> QED
    BY <2>1, <2>2, <2>3, WriteEnds
<1> QED
  BY <1>1, <1>2

LEMMA ReplaceVariantsStep ==
  ASSUME FaqInv, NEW c \in Owners, ReplaceVariants(c)
  PROVE  FaqInv'
<1>1. CASE Unwritten
  BY <1>1, CallEnds DEF ReplaceVariants
<1>2. CASE ~Unwritten
  <2> DEFINE r(v) == [Mine(c) EXCEPT !.variants = v, !.review = "pending"]
  <2>1. PICK v \in Variants : Write(c, r(v))
    BY <1>2 DEF ReplaceVariants
  <2>2. Current(c, call[c].rev) /\ End(c) /\ UNCHANGED <<active, approved>>
    BY <1>2 DEF ReplaceVariants
  <2>3. Mine(c) \in Rows /\ Mine(c) # None /\ Drawn(call[c].entry, Mine(c))
    BY <2>2 DEF Current, Mine, FaqInv, FaqTypes, CallRecords, RowKnown
  <2>4. /\ r(v) \in Rows /\ r(v).rev = Mine(c).rev /\ r(v).review = "pending"
        /\ Drawn(call[c].entry, r(v))
    BY <2>3 DEF Rows, Drawn
  <2> HIDE DEF r
  <2> QED
    BY <2>1, <2>2, <2>3, <2>4, WriteEnds
<1> QED
  BY <1>1, <1>2

\* A row is approved at the revision the owner was shown: it is the row that
\* was shown, and nothing has touched it since.
LEMMA DecideStep ==
  ASSUME FaqInv, NEW c \in Owners, Decide(c)
  PROVE  FaqInv'
<1>1. CASE Conflict(c, call[c].rev)
  BY <1>1, CallEnds DEF Conflict
<1>2. CASE ~Conflict(c, call[c].rev)
  <2> DEFINE k == call[c]
             e == k.entry
             to == IF k.kind = "approve" THEN "approved" ELSE "rejected"
             w == [[Mine(c) EXCEPT !.review = to] EXCEPT !.rev = @ + 1]
  <2>1. /\ Current(c, k.rev) /\ Write(c, [Mine(c) EXCEPT !.review = to]) /\ End(c)
        /\ approved' = IF k.kind = "approve" THEN [approved EXCEPT ![e] = k.shown] ELSE approved
        /\ UNCHANGED active
    BY <1>2 DEF Decide
  <2>2. e \in Entries /\ row[e] \in Rows /\ row[e].rev = k.rev /\ Drawn(e, row[e])
    BY <2>1 DEF Current, FaqInv, FaqTypes, CallRecords, RowKnown
  <2>3. k.kind = "approve" => k.shown = Entry(e, row[e]) /\ row[e].answer # None
    BY <2>2 DEF Decide, At, FaqInv, CallKnown, RevisionSeen
  <2>4. row[e].rev < MaxRevision /\ row' = [row EXCEPT ![e] = w]
    BY <2>1, <2>2 DEF Write, Mine, Rows
  <2>5. /\ w \in Rows /\ w.rev = row[e].rev + 1 /\ w.review = to
        /\ w.answer = row[e].answer /\ w.bundle = row[e].bundle /\ w.variants = row[e].variants
    <3>1. row[e].rev \in 1..MaxRevision /\ row[e].rev + 1 \in 1..MaxRevision
      BY <2>2, <2>4, MaxRevisionAssumption DEF Rows
    <3> QED
      BY <2>2, <3>1 DEF Rows, Mine
  <2>6. to = "approved" <=> k.kind = "approve"
    OBVIOUS
  <2> HIDE DEF w, to
  <2>7. Entry(e, w) = Entry(e, row[e])
    BY <2>5 DEF Entry
  <2>8. Entry(e, row[e]) \in Views
    BY <2>2 DEF Entry, Views, Rows
  <2>9. k.kind = "approve" => Entry(e, row[e]) \in Seen
    BY <2>2, <2>3 DEF Entry, Seen, Rows
  <2>10. approved' \in [Entries -> Seen \cup {None}]
    BY <2>1, <2>2, <2>3, <2>9 DEF FaqInv, FaqTypes
  <2>11. row' \in [Entries -> Rows \cup {None}]
    BY <2>2, <2>4, <2>5 DEF FaqInv, FaqTypes
  <2>12. ASSUME NEW f \in Entries PROVE RowKnown(f)'
    <3>1. CASE f # e
      <4>1. row'[f] = row[f] /\ approved'[f] = approved[f]
        BY <2>1, <2>4, <3>1 DEF FaqInv, FaqTypes
      <4> QED
        BY <4>1 DEF FaqInv, RowKnown
    <3>2. CASE f = e
      <4>1. row'[e] = w /\ Drawn(e, w)
        BY <2>2, <2>4, <2>5 DEF FaqInv, FaqTypes, Drawn
      <4>2. w.review = "approved" => approved'[e] = Entry(e, w)
        BY <2>1, <2>2, <2>3, <2>5, <2>6, <2>7 DEF FaqInv, FaqTypes
      <4> QED
        BY <3>2, <4>1, <4>2 DEF RowKnown
    <3> QED
      BY <3>1, <3>2
  <2>13. \A f \in Entries : row[f] # None =>
           \/ row'[f] = row[f]
           \/ row'[f] \in Rows /\ row'[f].rev > row[f].rev
    <3>1. row[e].rev \in Nat
      BY <2>2 DEF Rows
    <3> QED
      BY <2>2, <2>4, <2>5, <3>1 DEF FaqInv, FaqTypes
  <2>14. \A q \in CallRecords : CallKnown(q) => CallKnown(q)'
    BY <2>13, CallsSurviveWrites DEF FaqInv
  <2> QED
    BY <2>1, <2>10, <2>11, <2>12, <2>14, CallReplaced, NoCallKnown DEF End, FaqInv, FaqTypes
<1> QED
  BY <1>1, <1>2

\* Every step of a request about questions, an activation and the end of the
\* process keep the invariant.
LEMMA RequestStep ==
  ASSUME FaqInv, NEW c \in Owners, Request(c)
  PROVE  FaqInv'
BY AskStep, LeaseStep, InitializeStep, ReadStep, CopyStep, WithdrawStep, DeliverStep,
   GenerationFailsStep, ReplaceVariantsStep, DecideStep DEF Request

LEMMA ActivateStep ==
  ASSUME FaqInv, Activate
  PROVE  FaqInv'
BY DEF FaqInv, FaqTypes, Activate, RowKnown, CallKnown, RevisionSeen, ReadSoFar

LEMMA RequestsGone ==
  ASSUME FaqInv, call' = [c \in Owners |-> NoCall], Unwritten
  PROVE  FaqInv'
<1>1. \A e \in Entries : RowKnown(e)'
  BY DEF FaqInv, Unwritten, RowKnown
<1>2. ASSUME NEW c \in Owners PROVE CallKnown(call[c])'
  <2>1. call'[c] = NoCall
    OBVIOUS
  <2> QED
    BY <2>1, NoCallKnown DEF CallKnown, RevisionSeen, ReadSoFar
<1> QED
  BY <1>1, <1>2, NoCallKnown DEF FaqInv, FaqTypes, Unwritten

\* Rows of an earlier run are missing, waiting, or what the owner approved.
LEMMA FaqInitInv ==
  ASSUME FaqInit
  PROVE  FaqInv
<1>1. PICK b \in Bundles, t \in Texts :
        LET answered(e) == [Fresh(b) EXCEPT !.answer = [text |-> t, of |-> b, in |-> e]]
            kept(e) == [answered(e) EXCEPT !.review = "approved"]
        IN \/ /\ row = [e \in Entries |-> None]
              /\ approved = [e \in Entries |-> None]
           \/ /\ row = [e \in Entries |-> kept(e)]
              /\ approved = [e \in Entries |-> Entry(e, kept(e))]
           \/ /\ row = [e \in Entries |-> answered(e)]
              /\ approved = [e \in Entries |-> None]
  BY DEF FaqInit
<1> DEFINE a(e) == [text |-> t, of |-> b, in |-> e]
           answered(e) == [Fresh(b) EXCEPT !.answer = a(e)]
           kept(e) == [answered(e) EXCEPT !.review = "approved"]
<1>2. \A e \in Entries : a(e) \in Answers /\ a(e).of = b /\ a(e).in = e
  BY DEF Answers
<1> HIDE DEF a
<1>3. \A e \in Entries :
        /\ answered(e) \in Rows /\ answered(e).answer = a(e) /\ answered(e).bundle = b
        /\ answered(e).review = "pending"
  BY <1>2, FreshRow DEF Rows, Fresh
<1> HIDE DEF answered
<1>4. \A e \in Entries :
        /\ kept(e) \in Rows /\ kept(e).answer = a(e) /\ kept(e).bundle = b
        /\ Entry(e, kept(e)) \in Seen
  BY <1>2, <1>3 DEF Rows, Entry, Seen
<1> HIDE DEF kept
<1>5. /\ row \in [Entries -> Rows \cup {None}] /\ approved \in [Entries -> Seen \cup {None}]
      /\ \A e \in Entries : RowKnown(e)
  <2>1. CASE row = [e \in Entries |-> None] /\ approved = [e \in Entries |-> None]
    BY <2>1 DEF RowKnown
  <2>2. CASE row = [e \in Entries |-> kept(e)] /\ approved = [e \in Entries |-> Entry(e, kept(e))]
    BY <1>2, <1>4, <2>2 DEF RowKnown, Drawn
  <2>3. CASE row = [e \in Entries |-> answered(e)] /\ approved = [e \in Entries |-> None]
    BY <1>2, <1>3, <2>3 DEF RowKnown, Drawn
  <2> QED
    BY <1>1, <2>1, <2>2, <2>3 DEF answered, kept, a
<1>6. call \in [Owners -> CallRecords] /\ \A c \in Owners : CallKnown(call[c])
  BY NoCallKnown DEF FaqInit
<1> QED
  BY <1>5, <1>6 DEF FaqInv, FaqTypes, FaqInit

\* What visitors are shown follows from what is known of the rows.
LEMMA FaqInvShows ==
  ASSUME FaqInv
  PROVE  FaqTypeOK /\ ShownWasReviewed
<1>1. FaqTypeOK
  BY DEF FaqInv, FaqTypes, FaqTypeOK, CallKnown, RevisionSeen, CallRecords
<1>2. ShownWasReviewed
  BY DEF FaqInv, RowKnown, Drawn, ShownWasReviewed, ShownIn
<1> QED
  BY <1>1, <1>2

\* The registry of questions by itself: visitors of the active bundle are only
\* shown what the owner has looked at and approved.
THEOREM FaqShowsReviewed == FaqSpec => []ShownWasReviewed
<1>1. FaqInv /\ [FaqNext]_faqVars => FaqInv'
  <2> SUFFICES ASSUME FaqInv, [FaqNext]_faqVars PROVE FaqInv'
    OBVIOUS
  <2>1. CASE UNCHANGED faqVars
    BY <2>1 DEF faqVars, FaqInv, FaqTypes, RowKnown, CallKnown, RevisionSeen, ReadSoFar
  <2>2. CASE Restart
    BY <2>2, RequestsGone DEF Restart
  <2> QED
    BY <2>1, <2>2, RequestStep, ActivateStep DEF FaqNext
<1> QED
  BY <1>1, FaqInitInv, FaqInvShows, PTL DEF FaqSpec

-----------------------------------------------------------------------------
(***************************************************************************)
(* The pages.                                                              *)
(***************************************************************************)
PageRows == [url : Urls \cup {None}, verified : Sites \cup {None}]
Questions == [Entries -> Seen \cup {None}]
Looks == 0..MaxChanges

JobSteps == {"idle", "capture", "questions", "recheck", "entrance", "manifest", "record", "card",
             "failed"}
JobRecords ==
  [step : JobSteps, kind : {"none", "export", "verify", "readme"}, row : PageRows \cup {None},
   chat : Chats, bundle : Bundles \cup {None}, look : Looks, faq : Questions, at : Looks,
   good : BOOLEAN, round : 0..2]

\* The site that job j is about.
SiteOf(j) == [url |-> j.row.url, chat |-> j.chat, bundle |-> j.bundle, look |-> j.look,
              faq |-> j.faq]

\* Questions q that were all drawn from bundle b, each in its language.
OfBundle(q, b) ==
  \A e \in Entries : q[e] # None => q[e].bundle = b /\ q[e].answer.of = b /\ q[e].answer.in = e

\* What a job has read so far.
JobReads(j) ==
  /\ j.step \notin {"idle", "failed"} =>
       /\ j.kind \in {"export", "verify", "readme"}
       /\ j.row \in PageRows /\ j.row.url \in Urls
  /\ j.kind = "readme" => j.row.verified # None
  /\ j.step \in {"questions", "recheck", "entrance", "manifest", "record", "card"} =>
       j.bundle \in Bundles /\ j.look <= look
  /\ j.step = "recheck" => j.look <= j.at /\ j.at <= look /\ OfBundle(j.faq, j.bundle)

\* What it has seen on the page before it records a verification.
JobFetched(j) ==
  j.step = "record" /\ SiteOf(j) # None => <<j.row.url, SiteOf(j)>> \in uploads

JobKnown(j) == JobReads(j) /\ JobFetched(j)

PagesTypes ==
  /\ look \in Looks /\ changes \in Looks /\ look <= changes
  /\ gateway \in [chat : Chats, pages : Urls \cup {None}]
  /\ pages \in PageRows
  /\ job \in [Owners -> JobRecords]
  /\ served \in [Urls -> Sites \cup {None}]
  /\ exported # None => exported.site \in Sites
  /\ readme # None => readme.site \in Sites

ServedIsUploaded == \A u \in Urls : served[u] # None => <<u, served[u]>> \in uploads

ExportedIsWhole ==
  exported # None => /\ exported.site.look = exported.at
                     /\ OfBundle(exported.site.faq, exported.site.bundle)

PagesInv ==
  /\ PagesTypes
  /\ \A c \in Owners : JobKnown(job[c])
  /\ ServedIsUploaded /\ ExportedIsWhole /\ VerifiedWasServed

Inv == FaqInv /\ PagesInv
-----------------------------------------------------------------------------
\* What is known of a job stays known while the appearance's revision grows
\* and uploads are only added.
LEMMA JobSurvives ==
  ASSUME NEW q \in JobRecords, JobKnown(q), look \in Looks,
         look' \in Looks, look <= look', uploads \subseteq uploads'
  PROVE  JobKnown(q)'
<1>1. q.look \in Nat /\ q.at \in Nat /\ look \in Nat /\ look' \in Nat
  BY SharingBoundsAssumption DEF JobRecords, Looks
<1>2. JobReads(q)'
  BY <1>1 DEF JobKnown, JobReads
<1>3. JobFetched(q)'
  BY DEF JobKnown, JobFetched
<1> QED
  BY <1>2, <1>3 DEF JobKnown

LEMMA JobsStay ==
  ASSUME PagesInv, UNCHANGED job, look' \in Looks, look <= look', uploads \subseteq uploads'
  PROVE  \A d \in Owners : JobKnown(job[d])'
<1> SUFFICES ASSUME NEW d \in Owners PROVE JobKnown(job[d])'
  OBVIOUS
<1>1. job[d] \in JobRecords /\ JobKnown(job[d])
  BY DEF PagesInv, PagesTypes
<1>2. \A q \in JobRecords : JobKnown(q) => JobKnown(q)'
  BY JobSurvives DEF PagesInv, PagesTypes
<1>3. job'[d] = job[d]
  OBVIOUS
<1> QED
  BY <1>1, <1>2, <1>3 DEF JobKnown, JobReads, JobFetched, SiteOf

LEMMA JobReplaced ==
  ASSUME PagesInv, NEW c \in Owners, NEW j \in JobRecords, JobKnown(j)',
         job' = [job EXCEPT ![c] = j],
         look' \in Looks, look <= look', uploads \subseteq uploads'
  PROVE  job' \in [Owners -> JobRecords] /\ \A d \in Owners : JobKnown(job[d])'
<1>1. job' \in [Owners -> JobRecords]
  BY DEF PagesInv, PagesTypes
<1>2. \A q \in JobRecords : JobKnown(q) => JobKnown(q)'
  BY JobSurvives DEF PagesInv, PagesTypes
<1>3. ASSUME NEW d \in Owners PROVE JobKnown(job[d])'
  <2>1. CASE d = c
    <3>1. job'[d] = j
      BY <2>1 DEF PagesInv, PagesTypes
    <3> QED
      BY <3>1 DEF JobKnown, JobReads, JobFetched, SiteOf
  <2>2. CASE d # c
    <3>1. job'[d] = job[d] /\ job[d] \in JobRecords /\ JobKnown(job[d])
      BY <2>2 DEF PagesInv, PagesTypes
    <3> QED
      BY <1>2, <3>1 DEF JobKnown, JobReads, JobFetched, SiteOf
  <2> QED
    BY <2>1, <2>2
<1> QED
  BY <1>1, <1>3

\* A window with nothing under way, and one whose verification failed.
LEMMA NoJobKnown ==
  /\ NoJob \in JobRecords /\ JobKnown(NoJob)'
  /\ LET failed == [NoJob EXCEPT !.step = "failed", !.kind = "verify"]
     IN failed \in JobRecords /\ JobKnown(failed)'
<1>1. 0 \in Looks
  BY SharingBoundsAssumption DEF Looks
<1>2. NoJob \in JobRecords
  BY <1>1 DEF NoJob, JobRecords, JobSteps, Chats, Questions
<1> DEFINE failed == [NoJob EXCEPT !.step = "failed", !.kind = "verify"]
<1>3. failed \in JobRecords /\ failed.step = "failed" /\ failed.kind = "verify"
  BY <1>2 DEF JobRecords, JobSteps
<1>4. JobKnown(NoJob)'
  BY DEF NoJob, JobKnown, JobReads, JobFetched
<1> HIDE DEF failed
<1>5. JobKnown(failed)'
  BY <1>3 DEF JobKnown, JobReads, JobFetched
<1> QED
  BY <1>2, <1>3, <1>4, <1>5 DEF failed

\* A request about the pages reads something and writes nothing.
LEMMA QuestionsStay ==
  ASSUME FaqInv, UNCHANGED faqVars
  PROVE  FaqInv'
BY DEF faqVars, FaqInv, FaqTypes, RowKnown, CallKnown, RevisionSeen, ReadSoFar

LEMMA JobMoves ==
  ASSUME Inv, NEW c \in Owners, NEW j \in JobRecords, JobKnown(j)', Only(c, j), NothingKept
  PROVE  Inv'
<1>1. /\ UNCHANGED <<look, changes, gateway, served, uploads, pages, exported, readme>>
      /\ FaqInv'
  BY QuestionsStay DEF Inv, NothingKept, Elsewhere
<1>2. look' \in Looks /\ look <= look' /\ uploads \subseteq uploads'
  BY <1>1, SharingBoundsAssumption DEF Inv, PagesInv, PagesTypes, Looks
<1>3. job' \in [Owners -> JobRecords] /\ \A d \in Owners : JobKnown(job[d])'
  BY <1>2, JobReplaced DEF Inv, Only
<1> QED
  BY <1>1, <1>3 DEF Inv, PagesInv, PagesTypes, ServedIsUploaded, ExportedIsWhole, VerifiedWasServed

LEMMA GivesUp ==
  ASSUME Inv, NEW c \in Owners, GiveUp(c), NothingKept
  PROVE  Inv'
BY JobMoves, NoJobKnown DEF GiveUp, Only

LEMMA BeginJobStep ==
  ASSUME Inv, NEW c \in Owners, BeginJob(c)
  PROVE  Inv'
<1>1. PICK kind \in Kinds :
        /\ kind = "readme" => pages.verified # None
        /\ Only(c, [NoJob EXCEPT !.step = "capture", !.kind = kind, !.row = pages,
                                 !.chat = gateway.chat, !.round = 1])
  BY DEF BeginJob
<1>2. NothingKept /\ pages \in PageRows /\ pages.url \in Urls /\ gateway.chat \in Chats
  BY DEF BeginJob, Origins, Inv, PagesInv, PagesTypes, PageRows
<1>3. kind \in {"export", "verify", "readme"}
  BY DEF Kinds
<1> DEFINE j == [NoJob EXCEPT !.step = "capture", !.kind = kind, !.row = pages,
                              !.chat = gateway.chat, !.round = 1]
<1>4. /\ j \in JobRecords /\ j.step = "capture" /\ j.kind = kind /\ j.row = pages
  <2>1. NoJob \in JobRecords /\ 1 \in 0..2
    BY NoJobKnown
  <2> QED
    BY <1>2, <1>3, <2>1 DEF JobRecords, JobSteps
<1> SUFFICES ASSUME NEW q \in JobRecords, q = j PROVE Inv'
  BY <1>4
<1>5. q.step = "capture" /\ q.kind = kind /\ q.row = pages /\ Only(c, q)
  BY <1>1, <1>4
<1> HIDE DEF j
<1>6. JobKnown(q)'
  BY <1>1, <1>2, <1>3, <1>5 DEF JobKnown, JobReads, JobFetched
<1> QED
  BY <1>2, <1>5, <1>6, JobMoves

LEMMA CaptureStep ==
  ASSUME Inv, NEW c \in Owners, Capture(c)
  PROVE  Inv'
<1>1. CASE GiveUp(c)
  BY <1>1, GivesUp DEF Capture
<1>2. CASE ~GiveUp(c)
  <2> DEFINE j == [job[c] EXCEPT !.step = "questions", !.bundle = active, !.look = look]
  <2>1. Only(c, j) /\ NothingKept /\ job[c].step = "capture"
    BY <1>2 DEF Capture, OnPages
  <2>2. job[c] \in JobRecords /\ JobReads(job[c]) /\ look \in Looks /\ active \in Bundles
    BY DEF Inv, PagesInv, PagesTypes, JobKnown, FaqInv, FaqTypes
  <2>3. /\ j \in JobRecords /\ j.step = "questions" /\ j.kind = job[c].kind
        /\ j.row = job[c].row /\ j.bundle = active /\ j.look = look
    BY <2>2 DEF JobRecords, JobSteps
  <2>4. look' = look /\ look \in Nat
    BY <2>1, <2>2, SharingBoundsAssumption DEF NothingKept, Elsewhere, Looks
  <2> SUFFICES ASSUME NEW q \in JobRecords, q = j PROVE Inv'
    BY <2>3
  <2> HIDE DEF j
  <2>5. JobKnown(q)'
    BY <2>1, <2>2, <2>3, <2>4 DEF JobKnown, JobReads, JobFetched
  <2> QED
    BY <2>1, <2>5, JobMoves
<1> QED
  BY <1>1, <1>2

\* The questions are those shown in the active bundle: what is known of the
\* rows makes them whole.
LEMMA PayloadWhole ==
  ASSUME FaqInv
  PROVE  Payload(active) \in Questions /\ OfBundle(Payload(active), active)
<1>1. ASSUME NEW e \in Entries, ShownIn(e, active)
      PROVE  /\ Entry(e, row[e]) \in Seen
             /\ Entry(e, row[e]).bundle = active /\ Entry(e, row[e]).answer = row[e].answer
             /\ row[e].answer.of = active /\ row[e].answer.in = e
  <2>1. row[e] \in Rows /\ Drawn(e, row[e])
    BY <1>1 DEF ShownIn, FaqInv, FaqTypes, RowKnown
  <2> QED
    BY <1>1, <2>1 DEF ShownIn, Drawn, Entry, Seen, Rows
<1> QED
  BY <1>1 DEF Payload, Questions, OfBundle

LEMMA ReadQuestionsStep ==
  ASSUME Inv, NEW c \in Owners, ReadQuestions(c)
  PROVE  Inv'
<1>1. CASE GiveUp(c)
  BY <1>1, GivesUp DEF ReadQuestions
<1>2. CASE ~GiveUp(c)
  <2> DEFINE f == Payload(active)
             j == [job[c] EXCEPT !.step = "recheck", !.faq = f, !.at = look]
  <2>1. Only(c, j) /\ NothingKept /\ job[c].step = "questions" /\ active = job[c].bundle
    BY <1>2 DEF ReadQuestions, OnPages
  <2>2. job[c] \in JobRecords /\ JobReads(job[c]) /\ look \in Looks
    BY DEF Inv, PagesInv, PagesTypes, JobKnown
  <2>3. f \in Questions /\ OfBundle(f, active)
    BY PayloadWhole DEF Inv
  <2> HIDE DEF f
  <2>4. /\ j \in JobRecords /\ j.step = "recheck" /\ j.kind = job[c].kind
        /\ j.row = job[c].row /\ j.bundle = active /\ j.look = job[c].look
        /\ j.at = look /\ j.faq = f
    BY <2>1, <2>2, <2>3 DEF JobRecords, JobSteps
  <2>5. look' = look /\ look \in Nat
    BY <2>1, <2>2, SharingBoundsAssumption DEF NothingKept, Elsewhere, Looks
  <2> SUFFICES ASSUME NEW q \in JobRecords, q = j PROVE Inv'
    BY <2>4
  <2> HIDE DEF j
  <2>6. OfBundle(q.faq, q.bundle)
    BY <2>3, <2>4
  <2>7. JobReads(q)'
    BY <2>1, <2>2, <2>4, <2>5, <2>6 DEF JobReads
  <2>8. JobFetched(q)'
    BY <2>4 DEF JobFetched
  <2> QED
    BY <2>1, <2>7, <2>8, JobMoves DEF JobKnown
<1> QED
  BY <1>1, <1>2

\* The site of a job that has been read to the end is a site of one moment if
\* the appearance is still the one it began with.
LEMMA SiteRead ==
  ASSUME Inv, NEW c \in Owners, job[c].step \in {"recheck", "record", "manifest", "card"}
  PROVE  /\ Site(c) = SiteOf(job[c]) /\ Site(c) \in Sites
         /\ Site(c).url = job[c].row.url /\ Site(c).look = job[c].look
         /\ Site(c).faq = job[c].faq /\ Site(c).bundle = job[c].bundle
<1>1. job[c] \in JobRecords /\ JobReads(job[c])
  BY DEF Inv, PagesInv, PagesTypes, JobKnown
<1>2. /\ job[c].row.url \in Urls /\ job[c].chat \in Chats /\ job[c].bundle \in Bundles
      /\ job[c].look \in Looks /\ job[c].faq \in Questions
  BY <1>1 DEF JobRecords, JobReads
<1> QED
  BY <1>2 DEF Site, SiteOf, Sites, Looks, Questions

\* A job that goes on to fetch a page has read what it had read before.
LEMMA JobGoesOn ==
  ASSUME Inv, NEW c \in Owners, NothingKept,
         job[c].step \in {"recheck", "entrance"},
         NEW to \in {"entrance", "manifest", "card"}, NEW good \in BOOLEAN,
         Only(c, [job[c] EXCEPT !.step = to, !.good = good])
  PROVE  Inv'
<1> DEFINE j == [job[c] EXCEPT !.step = to, !.good = good]
<1>1. job[c] \in JobRecords /\ JobReads(job[c])
  BY DEF Inv, PagesInv, PagesTypes, JobKnown
<1>2. /\ j \in JobRecords /\ j.step = to /\ j.kind = job[c].kind /\ j.row = job[c].row
      /\ j.bundle = job[c].bundle /\ j.look = job[c].look
  BY <1>1 DEF JobRecords, JobSteps
<1>3. look' = look
  BY DEF NothingKept, Elsewhere
<1> SUFFICES ASSUME NEW q \in JobRecords, q = j PROVE Inv'
  BY <1>2
<1>4. Only(c, q)
  OBVIOUS
<1> HIDE DEF j
<1>5. JobKnown(q)'
  BY <1>1, <1>2, <1>3 DEF JobKnown, JobReads, JobFetched
<1> QED
  BY <1>4, <1>5, JobMoves

\* An export is whole: the appearance was the same before and after the
\* questions were read, and its revision only grows.
LEMMA ExportStep ==
  ASSUME Inv, NEW c \in Owners, OnPages(c, "recheck"), look = job[c].look,
         exported' = [site |-> Site(c), at |-> job[c].at], Only(c, NoJob),
         UNCHANGED <<pages, readme>>, Elsewhere
  PROVE  Inv'
<1>1. job[c] \in JobRecords /\ JobReads(job[c]) /\ job[c].step = "recheck"
  BY DEF OnPages, Inv, PagesInv, PagesTypes, JobKnown
<1>2. look \in Nat /\ job[c].at \in Nat
  BY <1>1, SharingBoundsAssumption DEF Inv, PagesInv, PagesTypes, JobRecords, Looks
<1>3. job[c].at = job[c].look /\ OfBundle(job[c].faq, job[c].bundle)
  BY <1>1, <1>2 DEF JobReads
<1>4. /\ exported'.site = Site(c) /\ exported'.at = job[c].at
  OBVIOUS
<1>5. exported'.site \in Sites /\ ExportedIsWhole'
  BY <1>1, <1>3, <1>4, SiteRead DEF ExportedIsWhole, OfBundle
<1>6. UNCHANGED <<look, changes, gateway, served, uploads, pages, readme>> /\ FaqInv'
  BY QuestionsStay DEF Inv, Elsewhere
<1>7. look' \in Looks /\ look <= look' /\ uploads \subseteq uploads'
  BY <1>2, <1>6 DEF Inv, PagesInv, PagesTypes
<1>8. job' \in [Owners -> JobRecords] /\ \A d \in Owners : JobKnown(job[d])'
  BY <1>7, JobReplaced, NoJobKnown DEF Inv, Only
<1> QED
  BY <1>5, <1>6, <1>8 DEF Inv, PagesInv, PagesTypes, ServedIsUploaded, VerifiedWasServed

\* A README names the page and the site of a verified row.
LEMMA ReadmeStep ==
  ASSUME Inv, NEW c \in Owners, OnPages(c, "recheck"), job[c].kind = "readme",
         Only(c, NoJob), UNCHANGED <<pages, exported>>, Elsewhere,
         readme' = IF Site(c) = job[c].row.verified /\ SameState(c)
                   THEN [url |-> pages.url, site |-> Site(c)] ELSE readme
  PROVE  Inv'
<1>1. job[c] \in JobRecords /\ JobReads(job[c]) /\ job[c].step = "recheck"
  BY DEF OnPages, Inv, PagesInv, PagesTypes, JobKnown
<1>2. readme' # None => readme'.site \in Sites /\ <<readme'.url, readme'.site>> \in uploads
  <2>1. CASE Site(c) = job[c].row.verified /\ SameState(c)
    <3>1. readme'.url = pages.url /\ readme'.site = Site(c)
      BY <2>1
    <3>2. pages = job[c].row /\ pages.verified # None /\ pages.verified = Site(c)
      BY <1>1, <2>1 DEF SameState, JobReads
    <3> QED
      BY <1>1, <3>1, <3>2, SiteRead DEF Inv, PagesInv, VerifiedWasServed
  <2>2. CASE ~(Site(c) = job[c].row.verified /\ SameState(c))
    BY <2>2 DEF Inv, PagesInv, PagesTypes, VerifiedWasServed
  <2> QED
    BY <2>1, <2>2
<1>3. UNCHANGED <<look, changes, gateway, served, uploads, pages, exported>> /\ FaqInv'
  BY QuestionsStay DEF Inv, Elsewhere
<1>4. look' \in Looks /\ look <= look' /\ uploads \subseteq uploads'
  BY <1>3, SharingBoundsAssumption DEF Inv, PagesInv, PagesTypes, Looks
<1>5. job' \in [Owners -> JobRecords] /\ \A d \in Owners : JobKnown(job[d])'
  BY <1>4, JobReplaced, NoJobKnown DEF Inv, Only
<1> QED
  BY <1>2, <1>3, <1>5 DEF Inv, PagesInv, PagesTypes, ServedIsUploaded, ExportedIsWhole,
                          VerifiedWasServed

LEMMA RecheckStep ==
  ASSUME Inv, NEW c \in Owners, Recheck(c)
  PROVE  Inv'
<1>1. OnPages(c, "recheck") /\ job[c].step = "recheck" /\ Elsewhere
  BY DEF Recheck, OnPages
<1>2. job[c] \in JobRecords /\ job[c].kind \in {"export", "verify", "readme"}
  BY <1>1 DEF Inv, PagesInv, PagesTypes, JobKnown, JobReads
<1>3. job[c].good \in BOOLEAN
  BY <1>2 DEF JobRecords
<1>4. CASE GiveUp(c) /\ UNCHANGED <<pages, exported, readme>>
  BY <1>1, <1>4, GivesUp DEF NothingKept
<1>5. CASE look = job[c].look /\ Built(c)
  <2>1. CASE job[c].kind = "export"
    BY <1>1, <1>5, <2>1, ExportStep DEF Built
  <2>2. CASE job[c].kind = "verify"
    <3>1. Only(c, [job[c] EXCEPT !.step = "entrance"]) /\ NothingKept
      BY <1>1, <1>5, <2>2 DEF Built, NothingKept
    <3>2. [job[c] EXCEPT !.step = "entrance"]
            = [job[c] EXCEPT !.step = "entrance", !.good = job[c].good]
      BY <1>2 DEF JobRecords
    <3> QED
      BY <1>1, <1>3, <3>1, <3>2, JobGoesOn
  <2>3. CASE job[c].kind = "readme" /\ job[c].round = 1
    <3>1. \/ Only(c, [job[c] EXCEPT !.step = "card"]) \/ GiveUp(c)
      BY <1>5, <2>3 DEF Built
    <3>2. NothingKept
      BY <1>1, <1>5, <2>3 DEF Built, NothingKept
    <3>3. [job[c] EXCEPT !.step = "card"]
            = [job[c] EXCEPT !.step = "card", !.good = job[c].good]
      BY <1>2 DEF JobRecords
    <3> QED
      BY <1>1, <1>3, <3>1, <3>2, <3>3, JobGoesOn, GivesUp
  <2>4. CASE job[c].kind = "readme" /\ job[c].round # 1
    BY <1>1, <1>5, <2>4, ReadmeStep DEF Built
  <2> QED
    BY <1>2, <2>1, <2>2, <2>3, <2>4
<1> QED
  BY <1>4, <1>5 DEF Recheck

LEMMA FetchEntranceStep ==
  ASSUME Inv, NEW c \in Owners, FetchEntrance(c)
  PROVE  Inv'
BY JobGoesOn DEF FetchEntrance, OnPages

\* A verification is recorded of a page that has just been seen to serve the
\* site, and what was served was uploaded.
LEMMA FetchManifestStep ==
  ASSUME Inv, NEW c \in Owners, FetchManifest(c)
  PROVE  Inv'
<1>1. CASE GiveUp(c)
  BY <1>1, GivesUp DEF FetchManifest
<1>2. CASE ~GiveUp(c)
  <2> DEFINE j == [job[c] EXCEPT !.step = "record"]
  <2>1. /\ Only(c, j) /\ NothingKept /\ job[c].step = "manifest"
        /\ served[job[c].row.url] = Site(c)
    BY <1>2 DEF FetchManifest, OnPages
  <2>2. job[c] \in JobRecords /\ JobReads(job[c]) /\ job[c].row.url \in Urls
    BY <2>1 DEF Inv, PagesInv, PagesTypes, JobKnown, JobReads
  <2>3. /\ j \in JobRecords /\ j.step = "record" /\ j.kind = job[c].kind /\ j.row = job[c].row
        /\ j.bundle = job[c].bundle /\ j.look = job[c].look /\ j.chat = job[c].chat
        /\ j.faq = job[c].faq
    BY <2>2 DEF JobRecords, JobSteps
  <2>4. look' = look /\ uploads' = uploads
    BY <2>1 DEF NothingKept, Elsewhere
  <2>5. SiteOf(j) = Site(c)
    BY <2>3 DEF SiteOf, Site
  <2>6. SiteOf(j) # None => <<j.row.url, SiteOf(j)>> \in uploads
    BY <2>1, <2>2, <2>3, <2>5 DEF Inv, PagesInv, ServedIsUploaded
  <2> SUFFICES ASSUME NEW q \in JobRecords, q = j PROVE Inv'
    BY <2>3
  <2> HIDE DEF j
  <2>7. JobReads(q)'
    BY <2>1, <2>2, <2>3, <2>4 DEF JobReads
  <2>8. SiteOf(q) # None => <<q.row.url, SiteOf(q)>> \in uploads
    BY <2>6
  <2>9. JobFetched(q)'
    BY <2>4, <2>8 DEF JobFetched, SiteOf
  <2> QED
    BY <2>1, <2>7, <2>9, JobMoves DEF JobKnown
<1> QED
  BY <1>1, <1>2

LEMMA FetchCardStep ==
  ASSUME Inv, NEW c \in Owners, FetchCard(c)
  PROVE  Inv'
<1>1. CASE GiveUp(c)
  BY <1>1, GivesUp DEF FetchCard
<1>2. CASE ~GiveUp(c)
  <2> DEFINE j == [job[c] EXCEPT !.step = "capture", !.round = 2]
  <2>1. Only(c, j) /\ NothingKept /\ job[c].step = "card"
    BY <1>2 DEF FetchCard, OnPages
  <2>2. job[c] \in JobRecords /\ JobReads(job[c]) /\ 2 \in 0..2
    BY DEF Inv, PagesInv, PagesTypes, JobKnown
  <2>3. j \in JobRecords /\ j.step = "capture" /\ j.kind = job[c].kind /\ j.row = job[c].row
    BY <2>2 DEF JobRecords, JobSteps
  <2> SUFFICES ASSUME NEW q \in JobRecords, q = j PROVE Inv'
    BY <2>3
  <2> HIDE DEF j
  <2>4. JobKnown(q)'
    BY <2>1, <2>2, <2>3 DEF JobKnown, JobReads, JobFetched
  <2> QED
    BY <2>1, <2>4, JobMoves
<1> QED
  BY <1>1, <1>2

\* The row of the pages is written: a verification is that of its address, or
\* there is none.
LEMMA RowWritten ==
  ASSUME Inv, pages' \in PageRows,
         pages'.verified # None => /\ pages'.verified.url = pages'.url
                                   /\ <<pages'.url, pages'.verified>> \in uploads,
         job' \in [Owners -> JobRecords], \A d \in Owners : JobKnown(job[d])',
         UNCHANGED <<faqVars, look, gateway, served, uploads, exported, readme>>,
         changes' \in Looks, look <= changes'
  PROVE  Inv'
<1>1. FaqInv'
  BY QuestionsStay DEF Inv
<1> QED
  BY <1>1 DEF Inv, PagesInv, PagesTypes, ServedIsUploaded, ExportedIsWhole, VerifiedWasServed

LEMMA RecordStep ==
  ASSUME Inv, NEW c \in Owners, Record(c)
  PROVE  Inv'
<1>1. job[c].step = "record" /\ Only(c, NoJob) /\ Elsewhere /\ UNCHANGED <<exported, readme>>
  BY DEF Record, OnPages
<1>2. JobFetched(job[c]) /\ pages \in PageRows
  BY DEF Inv, PagesInv, PagesTypes, JobKnown
<1>3. Site(c) = SiteOf(job[c]) /\ Site(c) \in Sites /\ Site(c).url = job[c].row.url
  BY <1>1, SiteRead
<1>4. /\ pages' \in PageRows
      /\ pages'.verified # None => /\ pages'.verified.url = pages'.url
                                   /\ <<pages'.url, pages'.verified>> \in uploads
  <2>1. CASE pages.url = job[c].row.url
    <3>1. pages' = [pages EXCEPT !.verified = Site(c)]
      BY <2>1 DEF Record
    <3>2. pages' \in PageRows /\ pages'.url = pages.url /\ pages'.verified = Site(c)
      BY <1>2, <1>3, <3>1 DEF PageRows
    <3> QED
      BY <1>1, <1>2, <1>3, <2>1, <3>2 DEF JobFetched
  <2>2. CASE pages.url # job[c].row.url
    BY <1>2, <2>2 DEF Record, Inv, PagesInv, VerifiedWasServed
  <2> QED
    BY <2>1, <2>2
<1>5. look' \in Looks /\ look <= look' /\ uploads \subseteq uploads'
  BY <1>1, SharingBoundsAssumption DEF Elsewhere, Inv, PagesInv, PagesTypes, Looks
<1>6. job' \in [Owners -> JobRecords] /\ \A d \in Owners : JobKnown(job[d])'
  BY <1>1, <1>5, JobReplaced, NoJobKnown DEF Inv, Only
<1>7. changes' \in Looks /\ look <= changes'
  BY <1>1 DEF Elsewhere, Inv, PagesInv, PagesTypes
<1> QED
  BY <1>1, <1>4, <1>6, <1>7, RowWritten DEF Elsewhere

LEMMA ClearVerificationStep ==
  ASSUME Inv, NEW c \in Owners, ClearVerification(c)
  PROVE  Inv'
<1>1. /\ pages' = [pages EXCEPT !.verified = None]
      /\ Only(c, NoJob) /\ Elsewhere /\ UNCHANGED <<exported, readme>>
  BY DEF ClearVerification
<1>2. pages' \in PageRows /\ pages'.verified = None
  BY <1>1 DEF Inv, PagesInv, PagesTypes, PageRows
<1>3. look' \in Looks /\ look <= look' /\ uploads \subseteq uploads'
  BY <1>1, SharingBoundsAssumption DEF Elsewhere, Inv, PagesInv, PagesTypes, Looks
<1>4. job' \in [Owners -> JobRecords] /\ \A d \in Owners : JobKnown(job[d])'
  BY <1>1, <1>3, JobReplaced, NoJobKnown DEF Inv, Only
<1>5. changes' \in Looks /\ look <= changes'
  BY <1>1 DEF Elsewhere, Inv, PagesInv, PagesTypes
<1> QED
  BY <1>1, <1>2, <1>4, <1>5, RowWritten DEF Elsewhere

LEMMA PagesRequestStep ==
  ASSUME Inv, NEW c \in Owners, PagesRequest(c)
  PROVE  Inv'
BY BeginJobStep, CaptureStep, ReadQuestionsStep, RecheckStep, FetchEntranceStep,
   FetchManifestStep, RecordStep, ClearVerificationStep, FetchCardStep DEF PagesRequest

-----------------------------------------------------------------------------
(***************************************************************************)
(* What the owner changes, and the end of the process.                     *)
(***************************************************************************)
LEMMA ChangeCounted ==
  ASSUME Inv, Change
  PROVE  /\ look \in Nat /\ changes \in Nat /\ changes' = changes + 1
         /\ changes' \in Looks /\ changes < changes'
BY SharingBoundsAssumption DEF Inv, PagesInv, PagesTypes, Looks, Change

LEMMA ConfigurePagesStep ==
  ASSUME Inv, NEW u \in Urls, ConfigurePages(u)
  PROVE  Inv'
<1>1. /\ pages' = [url |-> u, verified |-> None] /\ Change
      /\ UNCHANGED <<faqVars, look, gateway, job, exported, readme, served, uploads>>
  BY DEF ConfigurePages
<1>2. pages' \in PageRows /\ pages'.verified = None
  BY <1>1 DEF PageRows
<1>3. changes' \in Looks /\ look <= changes'
  BY <1>1, ChangeCounted DEF Inv, PagesInv, PagesTypes
<1>4. look' \in Looks /\ look <= look' /\ uploads \subseteq uploads'
  BY <1>1, <1>3, ChangeCounted DEF Inv, PagesInv, PagesTypes
<1>5. \A d \in Owners : JobKnown(job[d])'
  BY <1>1, <1>4, JobsStay DEF Inv
<1> QED
  BY <1>1, <1>2, <1>3, <1>5, RowWritten DEF Inv, PagesInv, PagesTypes

LEMMA ConfigureGatewayStep ==
  ASSUME Inv, ConfigureGateway
  PROVE  Inv'
<1>1. /\ Change
      /\ UNCHANGED <<faqVars, look, pages, job, exported, readme, served, uploads>>
  BY DEF ConfigureGateway
<1>2. gateway' \in [chat : Chats, pages : Urls \cup {None}]
  <2>1. PICK chat \in Chats, u \in Urls \cup {None} : gateway' = [chat |-> chat, pages |-> u]
    BY DEF ConfigureGateway
  <2> QED
    BY <2>1
<1>3. changes' \in Looks /\ look <= changes'
  BY <1>1, ChangeCounted DEF Inv, PagesInv, PagesTypes
<1>4. look' \in Looks /\ look <= look' /\ uploads \subseteq uploads'
  BY <1>1, <1>3, ChangeCounted DEF Inv, PagesInv, PagesTypes
<1>5. FaqInv' /\ \A d \in Owners : JobKnown(job[d])'
  BY <1>1, <1>4, JobsStay, QuestionsStay DEF Inv
<1> QED
  BY <1>1, <1>2, <1>3, <1>5
     DEF Inv, PagesInv, PagesTypes, ServedIsUploaded, ExportedIsWhole, VerifiedWasServed

LEMMA ApplyAppearanceStep ==
  ASSUME Inv, ApplyAppearance
  PROVE  Inv'
<1>1. /\ Change /\ look' = look + 1
      /\ UNCHANGED <<faqVars, gateway, pages, job, exported, readme, served, uploads>>
  BY DEF ApplyAppearance
<1>2. look' \in Looks /\ look <= look' /\ look' <= changes' /\ changes' \in Looks
  BY <1>1, ChangeCounted, SharingBoundsAssumption DEF Inv, PagesInv, PagesTypes, Looks
<1>3. FaqInv' /\ \A d \in Owners : JobKnown(job[d])'
  BY <1>1, <1>2, JobsStay, QuestionsStay DEF Inv
<1> QED
  BY <1>1, <1>2, <1>3
     DEF Inv, PagesInv, PagesTypes, ServedIsUploaded, ExportedIsWhole, VerifiedWasServed

LEMMA UploadStep ==
  ASSUME Inv, Upload
  PROVE  Inv'
<1> DEFINE site == exported.site
<1>1. /\ exported # None /\ site \in Sites /\ site.url \in Urls
      /\ served' = [served EXCEPT ![site.url] = site]
      /\ uploads' = uploads \cup {<<site.url, site>>}
      /\ UNCHANGED <<faqVars, look, gateway, pages, job, exported, readme, changes>>
  BY DEF Upload, Inv, PagesInv, PagesTypes, Sites
<1> HIDE DEF site
<1>2. served' \in [Urls -> Sites \cup {None}] /\ ServedIsUploaded'
  BY <1>1 DEF Inv, PagesInv, PagesTypes, ServedIsUploaded
<1>3. look' \in Looks /\ look <= look' /\ uploads \subseteq uploads'
  BY <1>1, SharingBoundsAssumption DEF Inv, PagesInv, PagesTypes, Looks
<1>4. FaqInv' /\ \A d \in Owners : JobKnown(job[d])'
  BY <1>1, <1>3, JobsStay, QuestionsStay DEF Inv
<1> QED
  BY <1>1, <1>2, <1>3, <1>4 DEF Inv, PagesInv, PagesTypes, ExportedIsWhole, VerifiedWasServed

LEMMA RestartAllStep ==
  ASSUME Inv, RestartAll
  PROVE  Inv'
<1>1. /\ job' = [c \in Owners |-> NoJob]
      /\ UNCHANGED <<look, gateway, pages, exported, readme, served, changes, uploads>>
  BY DEF RestartAll
<1>2. FaqInv'
  BY RequestsGone DEF RestartAll, Inv
<1>3. \A d \in Owners : JobKnown(job[d])'
  <2> SUFFICES ASSUME NEW d \in Owners PROVE JobKnown(job[d])'
    OBVIOUS
  <2>1. job'[d] = NoJob
    BY <1>1
  <2> QED
    BY <2>1, NoJobKnown DEF JobKnown, JobReads, JobFetched, SiteOf
<1>4. job' \in [Owners -> JobRecords]
  BY <1>1, NoJobKnown
<1> QED
  BY <1>1, <1>2, <1>3, <1>4
     DEF Inv, PagesInv, PagesTypes, ServedIsUploaded, ExportedIsWhole, VerifiedWasServed

\* Requests about questions and activations leave the pages alone.
LEMMA PagesStay ==
  ASSUME Inv, FaqInv', changes' \in Looks, look <= changes',
         UNCHANGED <<look, gateway, pages, job, exported, readme, served, uploads>>
  PROVE  Inv'
<1>1. look' \in Looks /\ look <= look' /\ uploads \subseteq uploads'
  BY SharingBoundsAssumption DEF Inv, PagesInv, PagesTypes, Looks
<1>2. \A d \in Owners : JobKnown(job[d])'
  BY <1>1, JobsStay DEF Inv
<1> QED
  BY <1>2 DEF Inv, PagesInv, PagesTypes, ServedIsUploaded, ExportedIsWhole, VerifiedWasServed

LEMMA ActivateElsewhereStep ==
  ASSUME Inv, ActivateElsewhere
  PROVE  Inv'
<1>1. changes' \in Looks /\ look <= changes'
  <2>1. CASE Change
    BY <2>1, ChangeCounted DEF Inv, PagesInv, PagesTypes
  <2>2. CASE UNCHANGED changes
    BY <2>2 DEF Inv, PagesInv, PagesTypes
  <2> QED
    BY <2>1, <2>2 DEF ActivateElsewhere
<1>2. FaqInv'
  BY ActivateStep DEF ActivateElsewhere, Inv
<1> QED
  BY <1>1, <1>2, PagesStay DEF ActivateElsewhere

-----------------------------------------------------------------------------
LEMMA InitInv ==
  ASSUME Init
  PROVE  Inv
<1>1. FaqInv
  BY FaqInitInv DEF Init
<1>2. 0 \in Looks /\ look = 0 /\ changes = 0
  BY SharingBoundsAssumption DEF Looks, Init
<1>3. NoJob \in JobRecords /\ JobKnown(NoJob)
  BY NoJobKnown DEF NoJob, JobKnown, JobReads, JobFetched
<1>4. job \in [Owners -> JobRecords] /\ \A c \in Owners : JobKnown(job[c])
  BY <1>3 DEF Init
<1>5. pages \in PageRows /\ pages.verified = None
  BY DEF Init, PageRows
<1> QED
  BY <1>1, <1>2, <1>4, <1>5
     DEF Init, Inv, PagesInv, PagesTypes, Chats, ServedIsUploaded, ExportedIsWhole,
         VerifiedWasServed

LEMMA NextInv ==
  ASSUME Inv, [Next]_siteVars
  PROVE  Inv'
<1>1. look <= changes /\ changes \in Looks
  BY DEF Inv, PagesInv, PagesTypes
<1>2. CASE UNCHANGED siteVars
  BY <1>1, <1>2, QuestionsStay, PagesStay DEF siteVars, pagesVars, Inv
<1>3. ASSUME NEW c \in Owners, Request(c), UNCHANGED pagesVars PROVE Inv'
  BY <1>1, <1>3, RequestStep, PagesStay DEF pagesVars, Inv
<1>4. CASE Next
  BY <1>3, <1>4, ActivateElsewhereStep, PagesRequestStep, ConfigurePagesStep,
     ConfigureGatewayStep, ApplyAppearanceStep, UploadStep, RestartAllStep DEF Next
<1> QED
  BY <1>2, <1>4

\* Requests about questions beside requests about the pages: visitors of the
\* active bundle are only shown what the owner has looked at and approved,
\* while sites are exported, verified and handed out (ReviewedFaq, admin/faq.py).
THEOREM ShowsReviewed == Spec => []ShownWasReviewed
BY InitInv, NextInv, FaqInvShows, PTL DEF Spec, Inv

\* A site that leaves the program is of one moment, whatever is activated,
\* redecorated or approved while its parts are read (build_site_files).
THEOREM SitesAreOfOneMoment == Spec => []SiteIsOfOneMoment
<1>1. Inv => SiteIsOfOneMoment
  BY FaqInvShows DEF Inv, PagesInv, PagesTypes, PageRows, Looks, ExportedIsWhole, OfBundle,
                     SiteIsOfOneMoment, TypeOK
<1> QED
  BY <1>1, InitInv, NextInv, PTL DEF Spec

\* A page shown as verified has really served the site it is verified for, and
\* so has the page of a README (verify and readme, sharing/pages.py).
THEOREM VerifiedPagesServed == Spec => []VerifiedWasServed
BY InitInv, NextInv, PTL DEF Spec, Inv, PagesInv

-----------------------------------------------------------------------------
(***************************************************************************)
(* The chat model visitors are served by, for every number of requests,    *)
(* profiles, models and bundles.                                           *)
(*                                                                         *)
(* The types hold always (Types).  As long as no write has landed where    *)
(* ChatServed excepts it, one row at most is active and what may be active *)
(* has answered a probe (Sound), a bundle has a row to be answered with    *)
(* (Founded), and whoever is switching the runtime knows the way back: a   *)
(* request its chat and object (UndoKnown), the publication the rows, the  *)
(* runtime and the bundle it has begun with (LaneKnown).                   *)
(***************************************************************************)
ChatRows == [Profiles -> Row \cup {Nothing}]
RuntimeChats == [p : Profiles, model : Models] \cup {Nothing}
Runtimes == [object : {0, 1}, chat : RuntimeChats]
BundleStates == [active : 0..MaxVersions, previous : 0..MaxVersions,
                 newest : 0..MaxVersions, pinned : BOOLEAN]
Shareds == [index : 0..MaxVersions, ready : BOOLEAN]
AskSteps == {"idle", "read", "undo"}
AskKinds == {"none", "update", "delete", "probe", "activate", "pin"}
Asks == [step : AskSteps, kind : AskKinds, p : Profiles \cup {Nothing},
         seen : Row \cup {Nothing}, model : Models \cup {Nothing}, back : RuntimeChats,
         object : Nat]
LaneSteps == {"idle", "built", "select", "unselect", "assign", "pointer", "commit", "undo",
              "restore", "failed", "publish", "writing"}
Previous == UNION {[S -> Statuses] : S \in SUBSET Profiles}
Befores == [rows : ChatRows, bundle : BundleStates]
Lanes == [step : LaneSteps, p : Profiles \cup {Nothing}, frozen : Row \cup {Nothing},
          old : Runtimes \cup {Nothing}, selected : Row \cup {Nothing},
          previous : Previous \cup {Nothing}, ready : BOOLEAN,
          before : Befores \cup {Nothing}, stuck : BOOLEAN]
Polls == [step : {"idle", "polled", "read"}, ready : BOOLEAN, read : Shareds \cup {Nothing}]

\* The variables that hold no rows.
Types ==
  /\ runtime \in Runtimes /\ bundle \in BundleStates /\ shared \in Shareds
  /\ ask \in [Askers -> Asks] /\ lane \in Lanes /\ poll \in Polls
  /\ tested \subseteq Models /\ amiss \in BOOLEAN

AtMostOne(rows) == ActiveIn(rows) = {} \/ \E p \in Profiles : ActiveIn(rows) = {p}
RowsTyped == prof \in ChatRows /\ AtMostOne(prof)

\* A request has read the row of a profile, and what its kind requires of it.
AskKnown(k) ==
  /\ k.kind \in {"update", "delete", "probe", "activate"} =>
       /\ k.p \in Profiles /\ k.seen \in Row
       /\ k.kind \in {"update", "delete"} => ~k.seen.active
       /\ k.kind = "activate" => k.seen.status = "ready"
  /\ k.kind = "update" => k.model \in Models
  /\ k.kind = "pin" => k.object \in 0..MaxVersions
  /\ k.step = "undo" => k.kind = "activate"

AsksKnown == \A c \in Askers : AskKnown(ask[c])

\* A publication has frozen a profile that was ready, for a bundle to come, and
\* has read what it began with.
FrozenKnown ==
  /\ lane.step = "built" \/ Activating =>
       lane.p \in Profiles /\ lane.frozen \in Row /\ lane.frozen.status = "ready"
  /\ lane.step \in {"built", "select", "assign", "pointer"} => bundle.newest < MaxVersions
  /\ Activating => /\ lane.selected \in Row /\ lane.previous \in Previous
                   /\ lane.old \in Runtimes /\ lane.before \in Befores
  /\ poll.step = "read" => poll.read \in Shareds

\* One row at most is active; what is active or may be has answered a probe.
Sound(rows) ==
  /\ AtMostOne(rows)
  /\ \A p \in Profiles : rows[p] # Nothing /\ (rows[p].active \/ rows[p].status = "ready") =>
       rows[p].model \in tested

\* A bundle is served with the profile of an active row.
Founded(b, rows) ==
  /\ b.previous # 0 => b.active # 0
  /\ b.active # 0 => ActiveIn(rows) # {}

\* Chat c, if there is one, is that of the active row.
Serves(rows, c) ==
  c # Nothing => \E p \in Profiles : ActiveIn(rows) = {p} /\ c = Chat(p, rows[p])

\* One request at most undoes a switch, and leads back to the active row's chat.
UndoKnown ==
  \A c \in Askers : ask[c].step = "undo" =>
    /\ ~Activating
    /\ \A d \in Askers : ask[d].step = "undo" => d = c
    /\ Serves(prof, ask[c].back)
    /\ runtime.chat # Nothing => ask[c].back # Nothing /\ ask[c].object = runtime.object

\* The publication leads back to the rows, the runtime and the bundle it has
\* begun with.
BeforeKnown ==
  /\ lane.before \in Befores /\ lane.old \in Runtimes
  /\ Sound(lane.before.rows) /\ Founded(lane.before.bundle, lane.before.rows)
  /\ Serves(lane.before.rows, lane.old.chat)
  /\ lane.before.bundle.active # 0 => lane.old.chat # Nothing
  /\ lane.before.rows[lane.p] = lane.frozen /\ lane.selected = lane.frozen
  /\ lane.previous = [q \in ActiveIn(lane.before.rows) |-> lane.before.rows[q].status]

\* Once selected, the new chat is in use, or none if there was none before.
Reached(c) ==
  c = Chat(lane.p, lane.frozen) \/ (c = Nothing /\ lane.old.chat = Nothing)

LaneKnown ==
  /\ Activating => BeforeKnown
  /\ Activating /\ lane.step # "commit" => bundle = lane.before.bundle
  /\ lane.step = "commit" => bundle.active # 0
  /\ lane.step \in {"select", "unselect", "restore"} => prof = lane.before.rows
  /\ lane.step = "select" => runtime = lane.old
  /\ lane.step = "unselect" =>
       runtime.object = lane.old.object /\ Reached(runtime.chat)
  /\ lane.step \in {"assign", "pointer", "commit", "undo"} =>
       prof = Selected(lane.before.rows, lane.p) /\ Reached(runtime.chat)
  /\ lane.step \in {"pointer", "commit"} => runtime.chat = Chat(lane.p, lane.frozen)

Known ==
  /\ Sound(prof) /\ Founded(bundle, prof) /\ UndoKnown /\ LaneKnown
  /\ ~Activating /\ bundle.active # 0 => runtime.chat # Nothing
  /\ ~Pending => Serves(prof, runtime.chat)

ChatInv == Types /\ RowsTyped /\ AsksKnown /\ FrozenKnown /\ (~amiss => Known)

-----------------------------------------------------------------------------
(***************************************************************************)
(* The records.                                                            *)
(***************************************************************************)
LEMMA Records ==
  /\ NoAsk \in Asks /\ NoLane \in Lanes
  /\ NoAsk.step = "idle" /\ NoAsk.kind = "none" /\ NoLane.step = "idle"
  /\ Nothing \notin Row
BY NothingAssumption DEF NoAsk, Asks, AskSteps, AskKinds, RuntimeChats, NoLane, Lanes, LaneSteps

LEMMA ChatIsChat ==
  ASSUME NEW p \in Profiles, NEW r \in Row
  PROVE  Chat(p, r) \in RuntimeChats /\ Chat(p, r) # Nothing /\ Chat(p, r).model = r.model
BY NothingAssumption DEF Chat, RuntimeChats, Row

\* The lane moves to a step and keeps what it knows.
LEMMA LaneTo ==
  ASSUME lane \in Lanes, NEW s \in LaneSteps, lane' = [lane EXCEPT !.step = s]
  PROVE  /\ lane' \in Lanes /\ lane'.step = s
         /\ lane'.p = lane.p /\ lane'.frozen = lane.frozen /\ lane'.old = lane.old
         /\ lane'.selected = lane.selected /\ lane'.previous = lane.previous
         /\ lane'.before = lane.before
BY DEF Lanes

\* Where the lane ends, or goes on to tell visitors: nothing is kept.
LEMMA LaneEnds ==
  ASSUME NEW s \in LaneSteps, NEW b \in BOOLEAN,
         lane' = [step |-> s, p |-> Nothing, frozen |-> Nothing, old |-> Nothing,
                  selected |-> Nothing, previous |-> Nothing, ready |-> FALSE,
                  before |-> Nothing, stuck |-> b]
  PROVE  lane' \in Lanes /\ lane'.step = s /\ lane'.stuck = b
<1>1. [step |-> s, p |-> Nothing, frozen |-> Nothing, old |-> Nothing,
       selected |-> Nothing, previous |-> Nothing, ready |-> FALSE,
       before |-> Nothing, stuck |-> b] \in Lanes
  BY DEF Lanes
<1> QED
  BY <1>1

\* replace_chat on whatever runtime there is.
LEMMA SwitchedRuntime ==
  ASSUME runtime \in Runtimes, NEW x \in RuntimeChats
  PROVE  /\ Switched(x) \in Runtimes /\ Switched(x).object = runtime.object
         /\ runtime.chat = Nothing => Switched(x) = runtime
         /\ runtime.chat # Nothing => Switched(x).chat = x
BY DEF Switched, Runtimes

\* The way back from the rows leads to the active row's chat.
LEMMA RowChatServes ==
  ASSUME RowsTyped
  PROVE  /\ RowChat \in RuntimeChats /\ Serves(prof, RowChat)
         /\ ActiveIn(prof) # {} => RowChat # Nothing
<1>1. CASE ActiveIn(prof) = {}
  <2>1. RowChat = Nothing
    BY <1>1 DEF RowChat, ActiveRow
  <2> QED
    BY <1>1, <2>1 DEF RuntimeChats, Serves
<1>2. CASE ActiveIn(prof) # {}
  <2>1. PICK p \in Profiles : ActiveIn(prof) = {p}
    BY <1>2 DEF RowsTyped, AtMostOne
  <2>2. PICK x : x = CHOOSE q \in ActiveIn(prof) : TRUE
    OBVIOUS
  <2>3. x = p
    BY <2>1, <2>2
  <2>4. RowChat = Chat(p, prof[p])
    BY <1>2, <2>2, <2>3 DEF RowChat, ActiveRow
  <2>5. prof[p] \in Row
    BY <2>1 DEF ActiveIn, RowsTyped, ChatRows
  <2> QED
    BY <2>1, <2>4, <2>5, ChatIsChat DEF Serves
<1> QED
  BY <1>1, <1>2

LEMMA AskTo ==
  ASSUME ask \in [Askers -> Asks], NEW c \in Askers, NEW k \in Asks,
         ask' = [ask EXCEPT ![c] = k]
  PROVE  ask' \in [Askers -> Asks] /\ ask'[c] = k /\ \A d \in Askers : d # c => ask'[d] = ask[d]
OBVIOUS

LEMMA AskDone ==
  ASSUME ask \in [Askers -> Asks], NEW c \in Askers, Done(c)
  PROVE  /\ ask' \in [Askers -> Asks]
         /\ ask'[c] = NoAsk /\ \A d \in Askers : d # c => ask'[d] = ask[d]
BY Records, AskTo DEF Done

-----------------------------------------------------------------------------
(***************************************************************************)
(* The rows.                                                               *)
(***************************************************************************)
LEMMA SelectedRows ==
  ASSUME NEW rows \in ChatRows, NEW p \in Profiles
  PROVE  /\ Selected(rows, p) \in ChatRows
         /\ rows[p] = Nothing => ActiveIn(Selected(rows, p)) = {}
         /\ rows[p] # Nothing => /\ ActiveIn(Selected(rows, p)) = {p}
                                 /\ Selected(rows, p)[p].model = rows[p].model
                                 /\ Selected(rows, p)[p] # Nothing
         /\ \A q \in Profiles : Selected(rows, p)[q] # Nothing =>
              /\ rows[q] # Nothing
              /\ Selected(rows, p)[q].model = rows[q].model
              /\ Selected(rows, p)[q].status = "ready" => q = p \/ rows[q].status = "ready"
<1> DEFINE new == Selected(rows, p)
<1>1. ASSUME NEW q \in Profiles
      PROVE  /\ new[q] \in Row \cup {Nothing}
             /\ new[q] = Nothing <=> rows[q] = Nothing
             /\ new[q] # Nothing =>
                  /\ new[q].model = rows[q].model
                  /\ new[q].active <=> q = p
                  /\ new[q].status = "ready" => q = p \/ rows[q].status = "ready"
  <2>1. new[q] = IF rows[q] = Nothing THEN Nothing
                 ELSE IF q = p THEN [rows[q] EXCEPT !.active = TRUE, !.status = "ready"]
                 ELSE IF rows[q].active
                 THEN [rows[q] EXCEPT !.active = FALSE, !.status = "last_known_good"]
                 ELSE rows[q]
    BY DEF Selected
  <2>2. PICK r \in Row \cup {Nothing} : r = rows[q]
    BY DEF ChatRows
  <2>3. CASE r = Nothing
    BY <2>1, <2>2, <2>3
  <2>4. CASE r \in Row /\ r # Nothing /\ q = p
    <3>1. new[q] = [r EXCEPT !.active = TRUE, !.status = "ready"]
      BY <2>1, <2>2, <2>4
    <3> QED
      BY <2>2, <2>4, <3>1, Records DEF Row, Statuses
  <2>5. CASE r \in Row /\ r # Nothing /\ q # p /\ r.active
    <3>1. new[q] = [r EXCEPT !.active = FALSE, !.status = "last_known_good"]
      BY <2>1, <2>2, <2>5
    <3> QED
      BY <2>2, <2>5, <3>1, Records DEF Row, Statuses
  <2>6. CASE r \in Row /\ r # Nothing /\ q # p /\ ~r.active
    BY <2>1, <2>2, <2>6, Records
  <2> QED
    BY <2>2, <2>3, <2>4, <2>5, <2>6
<1>2. new \in ChatRows
  <2>1. new = [q \in Profiles |-> new[q]]
    BY DEF Selected
  <2> QED
    BY <1>1, <2>1 DEF ChatRows
<1> HIDE DEF new
<1> QED
  BY <1>1, <1>2 DEF ActiveIn, new

LEMMA ActiveCount ==
  ASSUME NEW rows
  PROVE  AtMostOne(rows) <=> Cardinality(ActiveIn(rows)) <= 1
<1> DEFINE A == ActiveIn(rows)
<1>1. IsFiniteSet(A)
  <2>1. A \subseteq Profiles
    BY DEF ActiveIn
  <2> QED
    BY <2>1, ProfilesAssumption, FS_Subset
<1>2. Cardinality(A) \in Nat /\ (Cardinality(A) = 0 <=> A = {})
  BY <1>1, FS_CardinalityType, FS_EmptySet
<1>3. Cardinality(A) = 1 <=> \E p : A = {p}
  BY <1>1, FS_Singleton
<1>4. \A p : A = {p} => p \in Profiles
  BY DEF ActiveIn
<1> HIDE DEF A
<1>5. Cardinality(A) <= 1 <=> A = {} \/ \E p \in Profiles : A = {p}
  BY <1>2, <1>3, <1>4
<1> QED
  BY <1>5 DEF AtMostOne, A

\* The rows a rollback puts back are rows, and those it began with if nothing
\* else has been written since.
LEMMA UnselectedRows ==
  ASSUME NEW rows \in ChatRows, lane.selected \in Row, lane.previous \in Previous
  PROVE  Unselected(rows) \in ChatRows
<1>1. PICK S \in SUBSET Profiles : lane.previous \in [S -> Statuses]
  BY DEF Previous
<1>2. ASSUME NEW q \in Profiles PROVE Unselected(rows)[q] \in Row \cup {Nothing}
  <2>1. Unselected(rows)[q] =
          IF rows[q] = Nothing THEN Nothing
          ELSE IF q = lane.p THEN [rows[q] EXCEPT !.active = lane.selected.active,
                                                  !.status = lane.selected.status]
          ELSE IF q \in DOMAIN lane.previous THEN [rows[q] EXCEPT !.active = TRUE,
                                                                 !.status = lane.previous[q]]
          ELSE rows[q]
    BY DEF Unselected
  <2>2. PICK r \in Row \cup {Nothing} : r = rows[q]
    BY DEF ChatRows
  <2>3. PICK a \in BOOLEAN, t \in Statuses : a = lane.selected.active /\ t = lane.selected.status
    BY DEF Row
  <2>4. CASE r \in Row /\ q = lane.p /\ r # Nothing
    <3>1. Unselected(rows)[q] = [r EXCEPT !.active = a, !.status = t]
      BY <2>1, <2>2, <2>3, <2>4
    <3> QED
      BY <2>4, <3>1 DEF Row
  <2>5. CASE r \in Row /\ q # lane.p /\ q \in DOMAIN lane.previous /\ r # Nothing
    <3>1. PICK u \in Statuses : u = lane.previous[q]
      BY <1>1, <2>5
    <3>2. Unselected(rows)[q] = [r EXCEPT !.active = TRUE, !.status = u]
      BY <2>1, <2>2, <2>5, <3>1
    <3> QED
      BY <2>5, <3>2 DEF Row
  <2> QED
    BY <2>1, <2>2, <2>4, <2>5
<1>3. Unselected(rows) = [q \in Profiles |-> Unselected(rows)[q]]
  BY DEF Unselected
<1> QED
  BY <1>2, <1>3 DEF ChatRows

LEMMA UnselectedIsBefore ==
  ASSUME BeforeKnown, lane.p \in Profiles, lane.frozen \in Row
  PROVE  Unselected(Selected(lane.before.rows, lane.p)) = lane.before.rows
<1> DEFINE B == lane.before.rows
           N == Selected(B, lane.p)
           A == ActiveIn(B)
<1>0. B \in ChatRows
  BY DEF BeforeKnown, Befores
<1>1. /\ B[lane.p] = lane.frozen /\ lane.selected = lane.frozen
      /\ DOMAIN lane.previous = A /\ \A q \in A : lane.previous[q] = B[q].status
  BY DEF BeforeKnown
<1>2. ASSUME NEW q \in Profiles PROVE Unselected(N)[q] = B[q]
  <2>1. N[q] = IF B[q] = Nothing THEN Nothing
               ELSE IF q = lane.p THEN [B[q] EXCEPT !.active = TRUE, !.status = "ready"]
               ELSE IF B[q].active
               THEN [B[q] EXCEPT !.active = FALSE, !.status = "last_known_good"]
               ELSE B[q]
    BY DEF Selected
  <2>2. Unselected(N)[q] =
          IF N[q] = Nothing THEN Nothing
          ELSE IF q = lane.p THEN [N[q] EXCEPT !.active = lane.selected.active,
                                               !.status = lane.selected.status]
          ELSE IF q \in DOMAIN lane.previous THEN [N[q] EXCEPT !.active = TRUE,
                                                              !.status = lane.previous[q]]
          ELSE N[q]
    BY DEF Unselected
  <2>3. PICK r \in Row \cup {Nothing} : r = B[q]
    BY <1>0 DEF ChatRows
  <2>4. N[q] = Nothing <=> r = Nothing
    <3>1. r \in Row => [r EXCEPT !.active = TRUE, !.status = "ready"] \in Row
      BY DEF Row, Statuses
    <3>2. r \in Row => [r EXCEPT !.active = FALSE, !.status = "last_known_good"] \in Row
      BY DEF Row, Statuses
    <3> QED
      BY <2>1, <2>3, <3>1, <3>2, Records
  <2>5. q \in A <=> r # Nothing /\ r.active
    BY <2>3 DEF ActiveIn
  <2>6. CASE r \in Row /\ r # Nothing /\ q = lane.p
    <3>1. N[q] = [r EXCEPT !.active = TRUE, !.status = "ready"]
      BY <2>1, <2>3, <2>6
    <3>2. Unselected(N)[q] = [N[q] EXCEPT !.active = r.active, !.status = r.status]
      BY <1>1, <2>2, <2>3, <2>4, <2>6
    <3> QED
      BY <2>3, <2>6, <3>1, <3>2 DEF Row
  <2>7. CASE r \in Row /\ r # Nothing /\ q # lane.p /\ r.active
    <3>1. N[q] = [r EXCEPT !.active = FALSE, !.status = "last_known_good"]
      BY <2>1, <2>3, <2>7
    <3>2. Unselected(N)[q] = [N[q] EXCEPT !.active = TRUE, !.status = r.status]
      BY <1>1, <2>2, <2>3, <2>4, <2>5, <2>7
    <3>3. PICK m \in Models, t \in Statuses : r = [model |-> m, status |-> t, active |-> TRUE]
      BY <2>7 DEF Row
    <3>4. N[q] = [model |-> m, status |-> "last_known_good", active |-> FALSE]
      BY <3>1, <3>3
    <3>5. r.status = t
      BY <3>3
    <3>6. Unselected(N)[q] = [[model |-> m, status |-> "last_known_good", active |-> FALSE]
                              EXCEPT !.active = TRUE, !.status = t]
      BY <3>2, <3>4, <3>5
    <3>7. Unselected(N)[q] = [model |-> m, status |-> t, active |-> TRUE]
      BY <3>6
    <3> QED
      BY <2>3, <3>3, <3>7
  <2>8. CASE r \in Row /\ r # Nothing /\ q # lane.p /\ ~r.active
    <3>1. q \notin DOMAIN lane.previous
      BY <1>1, <2>5, <2>8
    <3> QED
      BY <2>1, <2>2, <2>3, <2>4, <2>8, <3>1
  <2> QED
    BY <2>2, <2>3, <2>4, <2>6, <2>7, <2>8
<1>3. Unselected(N) = [q \in Profiles |-> Unselected(N)[q]] /\ B = [q \in Profiles |-> B[q]]
  BY <1>0 DEF Unselected, ChatRows
<1> QED
  BY <1>2, <1>3

\* A row that is written keeps whether it is active.
Rewritten(rows, p, m, s) ==
  [rows EXCEPT ![p] = [model |-> m, status |-> s, active |-> rows[p].active]]

LEMMA RewrittenRows ==
  ASSUME NEW rows \in ChatRows, NEW p \in Profiles, rows[p] \in Row,
         NEW m \in Models, NEW s \in Statuses, NEW new, new = Rewritten(rows, p, m, s)
  PROVE  /\ new \in ChatRows /\ ActiveIn(new) = ActiveIn(rows)
         /\ new[p] \in Row /\ new[p].model = m /\ new[p].status = s
         /\ new[p].active = rows[p].active
         /\ \A q \in Profiles : q # p => new[q] = rows[q]
<1>1. PICK a \in BOOLEAN : a = rows[p].active
  BY DEF Row
<1>2. PICK n : n = [model |-> m, status |-> s, active |-> a]
  OBVIOUS
<1>3. n \in Row /\ n.model = m /\ n.status = s /\ n.active = a
  BY <1>2 DEF Row
<1>4. new = [rows EXCEPT ![p] = n]
  BY <1>1, <1>2 DEF Rewritten
<1>5. new \in ChatRows /\ new[p] = n /\ \A q \in Profiles : q # p => new[q] = rows[q]
  BY <1>3, <1>4 DEF ChatRows
<1>6. ActiveIn(new) = ActiveIn(rows)
  BY <1>1, <1>3, <1>5, Records DEF ActiveIn
<1> QED
  BY <1>1, <1>3, <1>5, <1>6

LEMMA UpdateWrites ==
  ASSUME RowsTyped, AsksKnown, NEW c \in Askers, UpdateProfile(c), prof[ask[c].p] # Nothing
  PROVE  /\ ask[c].p \in Profiles /\ ask[c].model \in Models /\ prof[ask[c].p] \in Row
         /\ prof' = Rewritten(prof, ask[c].p, ask[c].model, "probe")
<1>1. PICK p \in Profiles, m \in Models : p = ask[c].p /\ m = ask[c].model
  BY DEF UpdateProfile, Asked, AsksKnown, AskKnown
<1>2. PICK r \in Row : r = prof[p]
  BY <1>1 DEF RowsTyped, ChatRows
<1>3. prof' = [prof EXCEPT ![p].model = m, ![p].status = "probe"]
  BY <1>1 DEF UpdateProfile
<1>4. PICK q \in Models, s \in Statuses, a \in BOOLEAN :
        r = [model |-> q, status |-> s, active |-> a]
  BY DEF Row
<1>5. [r EXCEPT !.model = m, !.status = "probe"]
        = [model |-> m, status |-> "probe", active |-> r.active]
  <2>1. r.active = a
    BY <1>4
  <2>2. PICK n : n = [r EXCEPT !.model = m, !.status = "probe"]
    OBVIOUS
  <2>3. n \in Row
    BY <2>2 DEF Row, Statuses
  <2>4. n.model = m /\ n.status = "probe" /\ n.active = a
    BY <1>4, <2>2
  <2> QED
    BY <2>1, <2>2, <2>3, <2>4 DEF Row
<1>6. prof' = [prof EXCEPT ![p] = [r EXCEPT !.model = m, !.status = "probe"]]
  BY <1>2, <1>3 DEF RowsTyped, ChatRows
<1> QED
  BY <1>1, <1>2, <1>5, <1>6 DEF Rewritten

LEMMA ProbeWrites ==
  ASSUME RowsTyped, AsksKnown, NEW c \in Askers, ProbeProfile(c), prof[ask[c].p] # Nothing
  PROVE  /\ ask[c].p \in Profiles /\ prof[ask[c].p] \in Row
         /\ \E s \in Statuses :
              /\ prof' = Rewritten(prof, ask[c].p, prof[ask[c].p].model, s)
              /\ s = "ready" <=> ask[c].seen.model \in HealthyModels
<1>1. PICK p \in Profiles : p = ask[c].p
  BY DEF ProbeProfile, Asked, AsksKnown, AskKnown
<1>2. PICK r \in Row : r = prof[p]
  BY <1>1 DEF RowsTyped, ChatRows
<1>3. PICK s \in Statuses :
        /\ prof' = [prof EXCEPT ![p].status = s]
        /\ s = "ready" <=> ask[c].seen.model \in HealthyModels
  BY <1>1 DEF ProbeProfile, Statuses
<1>4. r = [model |-> r.model, status |-> r.status, active |-> r.active]
  BY DEF Row
<1>5. [r EXCEPT !.status = s] = [model |-> r.model, status |-> s, active |-> r.active]
  BY <1>4
<1>6. prof' = [prof EXCEPT ![p] = [r EXCEPT !.status = s]]
  BY <1>2, <1>3 DEF RowsTyped, ChatRows
<1> QED
  BY <1>1, <1>2, <1>3, <1>5, <1>6 DEF Rewritten

-----------------------------------------------------------------------------
(***************************************************************************)
(* The owner's requests.                                                   *)
(***************************************************************************)
\* A step of a request changes that request only, and keeps what it has read.
LEMMA OwnerAsks ==
  ASSUME Types, RowsTyped, AsksKnown, NEW c \in Askers, OwnerStep(c)
  PROVE  /\ ask' \in [Askers -> Asks] /\ AskKnown(ask'[c])
         /\ \A d \in Askers : d # c => ask'[d] = ask[d]
         /\ ask'[c].step = "undo" => CommitFails(c)
<1>0. ask \in [Askers -> Asks]
  BY DEF Types
<1>1. CASE AskChat(c)
  <2>1. PICK kind \in {"update", "delete", "probe", "activate"}, p \in Profiles, m \in Models :
          /\ prof[p] # Nothing
          /\ kind \in {"update", "delete"} => ~prof[p].active
          /\ kind = "activate" => prof[p].status = "ready"
          /\ kind # "update" => m = prof[p].model
          /\ ask' = [ask EXCEPT ![c] = [NoAsk EXCEPT !.step = "read", !.kind = kind, !.p = p,
                                                     !.seen = prof[p], !.model = m]]
    BY <1>1 DEF AskChat
  <2>2. PICK k : k = [NoAsk EXCEPT !.step = "read", !.kind = kind, !.p = p, !.seen = prof[p],
                                   !.model = m]
    OBVIOUS
  <2>3. prof[p] \in Row
    BY <2>1 DEF RowsTyped, ChatRows
  <2>4. PICK r \in Row : r = prof[p]
    BY <2>3
  <2>5. kind \in AskKinds
    BY DEF AskKinds
  <2>6. /\ k \in Asks /\ k.step = "read" /\ k.kind = kind /\ k.p = p /\ k.seen = r
        /\ k.model = m
    <3>1. k = [step |-> "read", kind |-> kind, p |-> p, seen |-> r, model |-> m,
               back |-> Nothing, object |-> 0]
      BY <2>2, <2>4 DEF NoAsk
    <3> QED
      BY <2>5, <3>1 DEF Asks, AskSteps, RuntimeChats
  <2>7. AskKnown(k)
    BY <2>1, <2>4, <2>6 DEF AskKnown
  <2>8. ask' = [ask EXCEPT ![c] = k]
    BY <2>1, <2>2
  <2> QED
    BY <1>0, <2>6, <2>7, <2>8, AskTo
<1>2. CASE CommitFails(c)
  <2>1. PICK k : k = [ask[c] EXCEPT !.step = "undo", !.back = WayBack.chat,
                                    !.object = WayBack.object]
    OBVIOUS
  <2>2. ask' = [ask EXCEPT ![c] = k]
    BY <1>2, <2>1 DEF CommitFails
  <2>3. WayBack.chat \in RuntimeChats /\ WayBack.object \in Nat
    BY RowChatServes DEF WayBack, Types, Runtimes, AnyObject
  <2>4. PICK a \in Asks, x \in RuntimeChats, o \in Nat :
          a = ask[c] /\ x = WayBack.chat /\ o = WayBack.object
    BY <2>3 DEF Types
  <2>5. k \in Asks
    BY <2>1, <2>4 DEF Asks, AskSteps
  <2>6. /\ k.kind = ask[c].kind /\ k.p = ask[c].p /\ k.seen = ask[c].seen
        /\ k.model = ask[c].model /\ k.step = "undo"
    BY <2>1, <2>4 DEF Asks
  <2>7. ask[c].kind = "activate" /\ AskKnown(ask[c])
    BY <1>2 DEF AsksKnown, CommitFails, Asked
  <2>8. AskKnown(k)
    BY <2>6, <2>7 DEF AskKnown
  <2> QED
    BY <1>0, <1>2, <2>2, <2>5, <2>8, AskTo
<1>3. CASE PinPrevious(c)
  <2>1. PICK k : k = [NoAsk EXCEPT !.step = "read", !.kind = "pin", !.object = bundle'.active]
    OBVIOUS
  <2>2. ask' = [ask EXCEPT ![c] = k] /\ bundle'.active = bundle.previous
    BY <1>3, <2>1 DEF PinPrevious
  <2>3. k = [step |-> "read", kind |-> "pin", p |-> Nothing, seen |-> Nothing,
             model |-> Nothing, back |-> Nothing, object |-> bundle.previous]
    BY <2>1, <2>2 DEF NoAsk
  <2>4. PICK o \in 0..MaxVersions : o = bundle.previous
    BY DEF Types, BundleStates
  <2>5. k \in Asks /\ AskKnown(k) /\ k.step = "read"
    BY <2>3, <2>4 DEF Asks, AskSteps, AskKinds, RuntimeChats, AskKnown
  <2> QED
    BY <1>0, <2>2, <2>5, AskTo
<1>4. CASE Done(c)
  <2>1. AskKnown(NoAsk)
    BY Records DEF AskKnown
  <2> QED
    BY <1>0, <1>4, <2>1, AskDone, Records
<1> QED
  BY <1>1, <1>2, <1>3, <1>4
     DEF OwnerStep, UpdateProfile, DeleteProfile, ProbeProfile, ActivateProfile, Undo, PinPublished

\* It leaves the publication and the poll alone, and the types hold.
LEMMA OwnerTypes ==
  ASSUME Types, RowsTyped, AsksKnown, FrozenKnown, NEW c \in Askers, OwnerStep(c)
  PROVE  Types' /\ AsksKnown' /\ FrozenKnown' /\ lane' = lane
<1>1. lane' = lane /\ poll' = poll
  BY DEF OwnerStep, AskChat, UpdateProfile, DeleteProfile, ProbeProfile, ActivateProfile,
         CommitFails, Undo, PinPrevious, PinPublished, RowsOnly
<1>2. AsksKnown' /\ ask' \in [Askers -> Asks]
  BY OwnerAsks DEF AsksKnown
<1>3. amiss' \in BOOLEAN
  BY DEF Types, OwnerStep, AskChat, UpdateProfile, DeleteProfile, ProbeProfile, ActivateProfile,
         CommitFails, Undo, PinPrevious, PinPublished, Landed
<1>4. tested' \subseteq Models
  <2>1. CASE ProbeProfile(c)
    <3>1. ask[c].seen.model \in Models
      BY <2>1 DEF ProbeProfile, Asked, AsksKnown, AskKnown, Row
    <3>2. tested' \subseteq tested \cup {ask[c].seen.model}
      BY <2>1 DEF ProbeProfile
    <3> QED
      BY <3>1, <3>2 DEF Types
  <2> QED
    BY <2>1 DEF Types, OwnerStep, AskChat, UpdateProfile, DeleteProfile, ActivateProfile,
         CommitFails, Undo, PinPrevious, PinPublished
<1>5. runtime' \in Runtimes
  <2>1. CASE ActivateProfile(c) \/ CommitFails(c)
    <3>1. ask[c].p \in Profiles /\ ask[c].seen \in Row
      BY <2>1 DEF ActivateProfile, CommitFails, Asked, AsksKnown, AskKnown
    <3>2. Chat(ask[c].p, ask[c].seen) \in RuntimeChats
      BY <3>1, ChatIsChat
    <3> QED
      BY <2>1, <3>2, SwitchedRuntime DEF ActivateProfile, CommitFails, Types
  <2>2. CASE Undo(c)
    <3>1. ask[c].back \in RuntimeChats
      BY DEF Types, Asks
    <3> QED
      BY <2>2, <3>1, SwitchedRuntime DEF Undo, Types
  <2> QED
    BY <2>1, <2>2 DEF Types, OwnerStep, AskChat, UpdateProfile, DeleteProfile, ProbeProfile,
         RowsOnly, PinPrevious, PinPublished
<1>6. bundle' \in BundleStates /\ bundle'.newest = bundle.newest
  <2>1. CASE PinPrevious(c)
    <3>1. PICK a \in 0..MaxVersions, b \in 0..MaxVersions :
            bundle' = [bundle EXCEPT !.active = b, !.previous = a, !.pinned = TRUE]
      BY <2>1 DEF PinPrevious, Types, BundleStates
    <3> QED
      BY <3>1 DEF Types, BundleStates
  <2> QED
    BY <2>1 DEF Types, OwnerStep, AskChat, UpdateProfile, DeleteProfile, ProbeProfile,
         ActivateProfile, CommitFails, Undo, RowsOnly, PinPublished
<1>7. shared' \in Shareds
  <2>1. CASE PinPublished(c)
    <3>1. PICK x \in 0..MaxVersions : x = ask[c].object
      BY <2>1 DEF PinPublished, Asked, AsksKnown, AskKnown
    <3>2. shared' = [shared EXCEPT !.index = x]
      BY <2>1, <3>1 DEF PinPublished
    <3> QED
      BY <3>2 DEF Types, Shareds
  <2> QED
    BY <2>1 DEF Types, OwnerStep, AskChat, UpdateProfile, DeleteProfile, ProbeProfile,
         ActivateProfile, CommitFails, Undo, RowsOnly, PinPrevious
<1> QED
  BY <1>1, <1>2, <1>3, <1>4, <1>5, <1>6, <1>7 DEF Types, FrozenKnown, Activating

LEMMA OwnerRows ==
  ASSUME RowsTyped, AsksKnown, NEW c \in Askers, OwnerStep(c)
  PROVE  RowsTyped'
<1> DEFINE p == ask[c].p
<1>1. CASE UpdateProfile(c)
  <2>1. CASE prof[p] = Nothing
    BY <1>1, <2>1 DEF UpdateProfile, RowsTyped
  <2>2. CASE prof[p] # Nothing
    <3>1. /\ p \in Profiles /\ ask[c].model \in Models /\ prof[p] \in Row
          /\ prof' = Rewritten(prof, p, ask[c].model, "probe")
      BY <1>1, <2>2, UpdateWrites
    <3>2. prof' \in ChatRows /\ ActiveIn(prof') = ActiveIn(prof)
      BY <3>1, RewrittenRows DEF RowsTyped, Statuses
    <3> QED
      BY <3>2 DEF RowsTyped, AtMostOne
  <2> QED
    BY <2>1, <2>2
<1>2. CASE DeleteProfile(c)
  <2>1. p \in Profiles /\ prof' = [prof EXCEPT ![p] = Nothing]
    BY <1>2 DEF DeleteProfile, Asked, AsksKnown, AskKnown
  <2>2. prof' \in ChatRows /\ ActiveIn(prof') = ActiveIn(prof) \ {p}
    BY <2>1 DEF RowsTyped, ChatRows, ActiveIn
  <2> QED
    BY <2>2 DEF RowsTyped, AtMostOne
<1>3. CASE ProbeProfile(c)
  <2>1. CASE prof[p] = Nothing
    BY <1>3, <2>1 DEF ProbeProfile, RowsTyped
  <2>2. CASE prof[p] # Nothing
    <3>1. /\ p \in Profiles /\ prof[p] \in Row
          /\ \E s \in Statuses : prof' = Rewritten(prof, p, prof[p].model, s)
      BY <1>3, <2>2, ProbeWrites
    <3>2. prof' \in ChatRows /\ ActiveIn(prof') = ActiveIn(prof)
      BY <3>1, RewrittenRows DEF RowsTyped, Row
    <3> QED
      BY <3>2 DEF RowsTyped, AtMostOne
  <2> QED
    BY <2>1, <2>2
<1>4. CASE ActivateProfile(c)
  <2>1. p \in Profiles /\ prof' = Selected(prof, p)
    BY <1>4 DEF ActivateProfile, Asked, AsksKnown, AskKnown
  <2>2. Selected(prof, p) \in ChatRows /\ AtMostOne(Selected(prof, p))
    BY <2>1, SelectedRows DEF RowsTyped, AtMostOne
  <2> QED
    BY <2>1, <2>2 DEF RowsTyped
<1> QED
  BY <1>1, <1>2, <1>3, <1>4
     DEF OwnerStep, AskChat, CommitFails, Undo, PinPrevious, PinPublished, RowsTyped

\* A request that does not undo a switch leaves the publication's way back.
LEMMA OwnerAside ==
  ASSUME Types, RowsTyped, AsksKnown, FrozenKnown, Known, NEW c \in Askers, OwnerStep(c),
         ask[c].step # "undo", ask'[c].step # "undo"
  PROVE  /\ Activating' <=> Activating
         /\ Undoing' <=> Undoing
         /\ \A d \in Askers : ask'[d].step = "undo" => d # c /\ ask'[d] = ask[d]
<1>1. lane' = lane
  BY OwnerTypes
<1>2. \A d \in Askers : d # c => ask'[d] = ask[d]
  BY OwnerAsks
<1> QED
  BY <1>1, <1>2 DEF Activating, Undoing

\* The publication's way back stays as it was while it goes on.
LEMMA BeforeStays ==
  ASSUME BeforeKnown, tested' = tested, lane'.p = lane.p, lane'.frozen = lane.frozen,
         lane'.old = lane.old, lane'.selected = lane.selected,
         lane'.previous = lane.previous, lane'.before = lane.before
  PROVE  BeforeKnown'
<1>1. Sound(lane.before.rows) => Sound(lane.before.rows)'
  BY DEF Sound, AtMostOne
<1>2. Serves(lane.before.rows, lane.old.chat) => Serves(lane.before.rows, lane.old.chat)'
  BY DEF Serves
<1>3. Founded(lane.before.bundle, lane.before.rows)
        => Founded(lane.before.bundle, lane.before.rows)'
  BY DEF Founded
<1> QED
  BY <1>1, <1>2, <1>3 DEF BeforeKnown

\* A write lands on the row it has read, while nothing is being switched.
LEMMA OwnerWrites ==
  ASSUME Types, RowsTyped, AsksKnown, FrozenKnown, Known, NEW c \in Askers, ~amiss',
         UpdateProfile(c) \/ DeleteProfile(c) \/ ProbeProfile(c)
  PROVE  Known'
<1> DEFINE p == ask[c].p
<1>1. OwnerStep(c) /\ ask[c].step = "read"
  BY DEF OwnerStep, UpdateProfile, DeleteProfile, ProbeProfile, Asked
<1>2. ask'[c].step # "undo" /\ ~Activating /\ prof[p] = ask[c].seen
  BY <1>1, AskDone, Records
     DEF UpdateProfile, DeleteProfile, ProbeProfile, Landed, Types
<1>3. /\ ~Activating'
      /\ Undoing' <=> Undoing
      /\ \A d \in Askers : ask'[d].step = "undo" => d # c /\ ask'[d] = ask[d]
  BY <1>1, <1>2, OwnerAside
<1>4. p \in Profiles /\ prof[p] \in Row /\ prof[p] # Nothing
  BY <1>2, Records DEF UpdateProfile, DeleteProfile, ProbeProfile, Asked, AsksKnown, AskKnown
<1>5. runtime' = runtime /\ lane' = lane /\ bundle' = bundle
  BY DEF UpdateProfile, DeleteProfile, ProbeProfile, RowsOnly
<1>6. /\ ActiveIn(prof') = ActiveIn(prof)
      /\ \A q \in ActiveIn(prof) : Chat(q, prof'[q]) = Chat(q, prof[q])
      /\ \A q \in Profiles :
           prof'[q] # Nothing /\ (prof'[q].active \/ prof'[q].status = "ready") =>
             prof'[q].model \in tested'
  <2>1. CASE UpdateProfile(c)
    <3>1. /\ ask[c].model \in Models /\ ~prof[p].active /\ tested' = tested
      BY <1>2, <2>1, UpdateWrites, <1>4
         DEF UpdateProfile, Asked, AsksKnown, AskKnown
    <3>2. prof' = Rewritten(prof, p, ask[c].model, "probe")
      BY <1>4, <2>1, UpdateWrites
    <3>3. /\ ActiveIn(prof') = ActiveIn(prof) /\ prof'[p].status = "probe"
          /\ prof'[p].active = prof[p].active
          /\ \A q \in Profiles : q # p => prof'[q] = prof[q]
      BY <1>4, <3>1, <3>2, RewrittenRows DEF RowsTyped, Statuses
    <3> QED
      BY <3>1, <3>3 DEF Known, Sound, ActiveIn
  <2>2. CASE DeleteProfile(c)
    <3>1. /\ prof' = [prof EXCEPT ![p] = Nothing] /\ ~prof[p].active /\ tested' = tested
      BY <1>2, <2>2 DEF DeleteProfile, Asked, AsksKnown, AskKnown
    <3>2. prof'[p] = Nothing /\ \A q \in Profiles : q # p => prof'[q] = prof[q]
      BY <1>4, <3>1 DEF RowsTyped, ChatRows
    <3> QED
      BY <3>1, <3>2 DEF Known, Sound, ActiveIn
  <2>3. CASE ProbeProfile(c)
    <3>1. PICK s \in Statuses :
            /\ prof' = Rewritten(prof, p, prof[p].model, s)
            /\ s = "ready" <=> prof[p].model \in HealthyModels
      BY <1>2, <1>4, <2>3, ProbeWrites
    <3>2. /\ ActiveIn(prof') = ActiveIn(prof) /\ prof'[p].status = s
          /\ prof'[p].model = prof[p].model
          /\ prof'[p].active = prof[p].active
          /\ \A q \in Profiles : q # p => prof'[q] = prof[q]
      BY <1>4, <3>1, RewrittenRows DEF RowsTyped, Row
    <3>3. tested \subseteq tested' /\ (s = "ready" => prof[p].model \in tested')
      BY <1>2, <2>3, <3>1 DEF ProbeProfile
    <3>4. \A q \in Profiles : prof[q] # Nothing /\ (prof[q].active \/ prof[q].status = "ready") =>
            prof[q].model \in tested
      BY DEF Known, Sound
    <3>5. \A q \in ActiveIn(prof) : Chat(q, prof'[q]) = Chat(q, prof[q])
      BY <3>2 DEF ActiveIn, Chat
    <3>6. prof'[p].active \/ prof'[p].status = "ready" => prof'[p].model \in tested'
      BY <1>4, <3>2, <3>3, <3>4
    <3>7. \A q \in Profiles : q # p =>
            (prof'[q] # Nothing /\ (prof'[q].active \/ prof'[q].status = "ready") =>
               prof'[q].model \in tested')
      BY <3>2, <3>3, <3>4
    <3> QED
      BY <3>2, <3>5, <3>6, <3>7
  <2> QED
    BY <2>1, <2>2, <2>3
<1>7. Sound(prof)' /\ Founded(bundle, prof)'
  BY <1>5, <1>6 DEF Known, Sound, AtMostOne, Founded
<1>8. \A x : Serves(prof, x) => Serves(prof', x)
  BY <1>6 DEF Serves
<1>9. UndoKnown'
  <2>1. ASSUME NEW d \in Askers, ask'[d].step = "undo"
        PROVE  /\ ~Activating' /\ \A e \in Askers : ask'[e].step = "undo" => e = d
               /\ Serves(prof', ask'[d].back)
               /\ runtime'.chat # Nothing =>
                    ask'[d].back # Nothing /\ ask'[d].object = runtime'.object
    <3>1. ask'[d] = ask[d] /\ ask[d].step = "undo"
      BY <1>3, <2>1
    <3>2. /\ \A e \in Askers : ask[e].step = "undo" => e = d
          /\ Serves(prof, ask[d].back)
          /\ runtime.chat # Nothing => ask[d].back # Nothing /\ ask[d].object = runtime.object
      BY <3>1 DEF Known, UndoKnown
    <3> QED
      BY <1>3, <1>5, <1>8, <3>1, <3>2
  <2> QED
    BY <2>1 DEF UndoKnown, Serves
<1>10. LaneKnown'
  BY <1>3 DEF LaneKnown, Activating
<1>11. /\ ~Pending' => Serves(prof', runtime'.chat)
       /\ bundle'.active # 0 => runtime'.chat # Nothing
  BY <1>2, <1>3, <1>5, <1>8 DEF Known, Pending
<1> QED
  BY <1>7, <1>9, <1>10, <1>11 DEF Known, Serves

LEMMA ActivateKnown ==
  ASSUME Types, RowsTyped, AsksKnown, FrozenKnown, Known, NEW c \in Askers, ~amiss',
         ActivateProfile(c)
  PROVE  Known'
<1>1. PICK p \in Profiles, r \in Row :
        p = ask[c].p /\ r = ask[c].seen /\ r.status = "ready" /\ prof[p] = r /\ r # Nothing
  BY Records DEF ActivateProfile, Asked, AsksKnown, AskKnown
<1>2. /\ prof' = Selected(prof, p) /\ runtime' = Switched(Chat(p, r))
      /\ tested' = tested /\ bundle' = bundle
  BY <1>1 DEF ActivateProfile
<1>3. ~Pending /\ OwnerStep(c) /\ ask[c].step # "undo" /\ ask'[c].step # "undo"
  BY AskDone, Records DEF ActivateProfile, OwnerStep, Asked, Types
<1>4. ~Activating' /\ ~Undoing'
  BY <1>3, OwnerAside DEF Pending
<1>5. /\ ActiveIn(prof') = {p} /\ prof'[p].model = r.model
      /\ \A q \in Profiles : prof'[q] # Nothing =>
           /\ prof[q] # Nothing /\ prof'[q].model = prof[q].model
           /\ prof'[q].status = "ready" => q = p \/ prof[q].status = "ready"
  BY <1>1, <1>2, SelectedRows DEF RowsTyped
<1>6. r.model \in tested
  BY <1>1 DEF Known, Sound
<1>7. Sound(prof)'
  <2>1. ASSUME NEW q \in Profiles, prof'[q] # Nothing,
               prof'[q].active \/ prof'[q].status = "ready"
        PROVE  prof'[q].model \in tested'
    <3>1. q = p \/ prof[q].status = "ready"
      BY <1>5, <2>1 DEF ActiveIn
    <3> QED
      BY <1>1, <1>2, <1>5, <1>6, <2>1, <3>1 DEF Known, Sound
  <2> QED
    BY <1>5, <2>1 DEF Sound, AtMostOne
<1>8. /\ runtime.chat = Nothing => runtime'.chat = Nothing
      /\ runtime.chat # Nothing => runtime'.chat = Chat(p, r)
      /\ Chat(p, r) # Nothing
  BY <1>2, ChatIsChat, SwitchedRuntime DEF Types
<1>9. Serves(prof', runtime'.chat)
  BY <1>5, <1>8 DEF Serves, Chat
<1>10. LaneKnown' /\ UndoKnown'
  BY <1>4 DEF LaneKnown, UndoKnown, Activating, Undoing
<1>11. Founded(bundle, prof)'
  BY <1>2, <1>5 DEF Known, Founded
<1>12. bundle'.active # 0 => runtime'.chat # Nothing
  BY <1>2, <1>3, <1>8 DEF Known, Pending
<1> QED
  BY <1>7, <1>9, <1>10, <1>11, <1>12 DEF Known, Serves

LEMMA SwitchBackKnown ==
  ASSUME Types, RowsTyped, AsksKnown, FrozenKnown, Known, NEW c \in Askers, ~amiss',
         CommitFails(c) \/ Undo(c)
  PROVE  Known'
<1>1. OwnerStep(c) /\ lane' = lane /\ prof' = prof /\ tested' = tested /\ bundle' = bundle
  BY DEF OwnerStep, CommitFails, Undo
<1>2. Activating' <=> Activating
  BY <1>1 DEF Activating
<1>3. \A d \in Askers : d # c => ask'[d] = ask[d]
  BY <1>1, OwnerAsks
<1>4. Sound(prof)' /\ Founded(bundle, prof)'
  BY <1>1 DEF Known, Sound, Founded, AtMostOne
<1>5. CASE CommitFails(c)
  <2>1. ~Pending /\ ask[c].step = "read" /\ ask[c].p \in Profiles /\ ask[c].seen \in Row
    BY <1>5 DEF CommitFails, Asked, AsksKnown, AskKnown
  <2>2. PICK k \in Asks : k = ask[c]
    BY DEF Types
  <2>3. ask'[c] = [k EXCEPT !.step = "undo", !.back = WayBack.chat, !.object = WayBack.object]
    BY <1>5, <2>2 DEF CommitFails, Types
  <2>4. ask'[c].step = "undo" /\ ask'[c].back = WayBack.chat /\ ask'[c].object = WayBack.object
    BY <2>2, <2>3 DEF Asks
  <2>5. /\ runtime'.object = runtime.object
        /\ runtime.chat = Nothing => runtime'.chat = Nothing
        /\ runtime.chat # Nothing => runtime'.chat # Nothing
    BY <1>5, <2>1, ChatIsChat, SwitchedRuntime DEF CommitFails, Types
  <2>6. Undoing' /\ ~Activating'
    BY <1>2, <2>1, <2>4 DEF Undoing, Pending
  <2>7. Serves(prof, runtime.chat)
    BY <2>1 DEF Known
  <2>8. /\ Serves(prof, WayBack.chat)
        /\ runtime.chat # Nothing => WayBack.chat # Nothing /\ WayBack.object = runtime.object
    BY <2>7, RowChatServes DEF WayBack
  <2>9. UndoKnown'
    <3>1. \A d \in Askers : ask'[d].step = "undo" => d = c
      BY <1>3, <2>1 DEF Pending, Undoing
    <3> QED
      BY <1>1, <2>4, <2>5, <2>6, <2>8, <3>1 DEF UndoKnown, Serves
  <2>10. LaneKnown'
    BY <2>6 DEF LaneKnown, Activating
  <2>11. bundle'.active # 0 => runtime'.chat # Nothing
    BY <1>1, <2>1, <2>5 DEF Known, Pending
  <2> QED
    BY <1>4, <2>6, <2>9, <2>10, <2>11 DEF Known, Pending
<1>6. CASE Undo(c)
  <2>1. /\ ask[c].step = "undo" /\ ~Activating
        /\ Serves(prof, ask[c].back) /\ ask[c].back \in RuntimeChats
        /\ runtime.chat # Nothing => ask[c].back # Nothing /\ ask[c].object = runtime.object
        /\ \A d \in Askers : ask[d].step = "undo" => d = c
    BY <1>6 DEF Undo, Asked, Known, UndoKnown, Types, Asks
  <2>2. /\ runtime.chat = Nothing => runtime'.chat = Nothing
        /\ runtime.chat # Nothing => runtime'.chat = ask[c].back
    BY <1>6, <2>1, SwitchedRuntime DEF Undo, Types
  <2>3. ask'[c].step = "idle"
    BY <1>6, AskDone, Records DEF Undo, Types
  <2>4. \A d \in Askers : ask'[d].step # "undo"
    BY <1>3, <2>1, <2>3
  <2>5. LaneKnown' /\ UndoKnown'
    BY <1>2, <2>1, <2>4 DEF UndoKnown, LaneKnown, Activating
  <2>6. Serves(prof', runtime'.chat)
    BY <1>1, <2>1, <2>2 DEF Serves
  <2>7. bundle'.active # 0 => runtime'.chat # Nothing
    BY <1>1, <2>1, <2>2 DEF Known
  <2> QED
    BY <1>4, <2>5, <2>6, <2>7 DEF Known, Serves
<1> QED
  BY <1>5, <1>6

LEMMA OwnerKnown ==
  ASSUME Types, RowsTyped, AsksKnown, FrozenKnown, Known, NEW c \in Askers, ~amiss',
         OwnerStep(c)
  PROVE  Known'
<1>1. CASE AskChat(c) \/ PinPrevious(c) \/ PinPublished(c)
  <2>1. /\ prof' = prof /\ runtime' = runtime /\ lane' = lane /\ tested' = tested
        /\ ask[c].step # "undo" /\ ask'[c].step # "undo"
    <3>1. prof' = prof /\ runtime' = runtime /\ lane' = lane /\ tested' = tested
      BY <1>1 DEF AskChat, PinPrevious, PinPublished
    <3>2. ask[c].step # "undo"
      BY <1>1, Records DEF AskChat, PinPrevious, PinPublished, Asked
    <3>3. ~CommitFails(c)
      BY <1>1, Records DEF AskChat, PinPrevious, PinPublished, CommitFails, Asked
    <3> QED
      BY <3>1, <3>2, <3>3, OwnerAsks
  <2>2. /\ Activating' <=> Activating
        /\ Undoing' <=> Undoing
        /\ \A d \in Askers : ask'[d].step = "undo" => d # c /\ ask'[d] = ask[d]
    BY <2>1, OwnerAside
  <2>3. UndoKnown'
    BY <2>1, <2>2 DEF Known, UndoKnown, Serves
  <2>4. \/ bundle' = bundle
        \/ /\ ~Activating /\ bundle.previous # 0
           /\ bundle'.active = bundle.previous /\ bundle'.previous = bundle.active
    BY <1>1 DEF AskChat, PinPrevious, PinPublished, Types, BundleStates
  <2>5. Founded(bundle, prof)' /\ (bundle'.active # 0 => bundle.active # 0)
    BY <2>1, <2>4 DEF Known, Founded
  <2>6. Sound(prof)'
    BY <2>1 DEF Known, Sound, AtMostOne
  <2>7. LaneKnown'
    <3>1. BeforeKnown => BeforeKnown'
      BY <2>1, BeforeStays
    <3>2. CASE Activating
      BY <2>1, <2>2, <2>4, <3>1, <3>2 DEF Known, LaneKnown, Selected, Reached, Chat
    <3> QED
      BY <2>2, <3>2 DEF LaneKnown, Activating
  <2>8. /\ ~Pending' => Serves(prof', runtime'.chat)
        /\ ~Activating' /\ bundle'.active # 0 => runtime'.chat # Nothing
    BY <2>1, <2>2, <2>5 DEF Known, Pending
  <2> QED
    BY <2>3, <2>5, <2>6, <2>7, <2>8 DEF Known, Serves
<1> QED
  BY <1>1, OwnerWrites, ActivateKnown, SwitchBackKnown DEF OwnerStep

-----------------------------------------------------------------------------
(***************************************************************************)
(* The publication.                                                        *)
(***************************************************************************)
\* What a publication freezes, and what it reads before it switches.
LEMMA Prepared ==
  ASSUME RowsTyped, Prepare
  PROVE  /\ lane' \in Lanes /\ lane'.step = "built"
         /\ lane'.p \in Profiles /\ lane'.frozen \in Row /\ lane'.frozen.status = "ready"
<1>1. PICK p \in Profiles : /\ prof[p] # Nothing /\ prof[p].status = "ready"
                            /\ lane' = [NoLane EXCEPT !.step = "built", !.p = p, !.frozen = prof[p]]
  BY DEF Prepare
<1>2. PICK r \in Row : r = prof[p]
  BY <1>1 DEF RowsTyped, ChatRows
<1>3. lane' = [step |-> "built", p |-> p, frozen |-> r, old |-> Nothing, selected |-> Nothing,
               previous |-> Nothing, ready |-> FALSE, before |-> Nothing, stuck |-> FALSE]
  BY <1>1, <1>2 DEF NoLane
<1>4. lane' \in Lanes
  BY <1>3 DEF Lanes, LaneSteps
<1>5. lane'.step = "built" /\ lane'.p = p /\ lane'.frozen = r
  BY <1>3
<1> QED
  BY <1>1, <1>2, <1>4, <1>5

LEMMA Begun ==
  ASSUME Types, RowsTyped, FrozenKnown, BeginSelect
  PROVE  /\ lane' \in Lanes /\ lane'.step = "select"
         /\ lane'.p = lane.p /\ lane'.frozen = lane.frozen /\ lane'.selected = lane.frozen
         /\ lane'.old = runtime
         /\ lane'.previous = [q \in ActiveRow |-> prof[q].status] /\ lane'.previous \in Previous
         /\ lane'.before \in Befores
         /\ lane'.before.rows = prof /\ lane'.before.bundle = bundle
<1>1. PICK l \in Lanes : l = lane
  BY DEF Types
<1>2. PICK x \in Runtimes, f \in Row : x = runtime /\ f = l.frozen
  BY <1>1 DEF Types, FrozenKnown, BeginSelect
<1>3. PICK b : b = [rows |-> prof, bundle |-> bundle]
  OBVIOUS
<1>4. b \in Befores /\ b.rows = prof /\ b.bundle = bundle
  BY <1>3 DEF Befores, RowsTyped, Types
<1>5. PICK v : v = [q \in ActiveRow |-> prof[q].status]
  OBVIOUS
<1>6. v \in Previous
  <2>1. \A q \in ActiveRow : prof[q].status \in Statuses
    BY DEF ActiveRow, ActiveIn, RowsTyped, ChatRows, Row
  <2>2. ActiveRow \in SUBSET Profiles
    BY DEF ActiveRow, ActiveIn
  <2>3. v \in [ActiveRow -> Statuses]
    BY <1>5, <2>1
  <2> QED
    BY <2>2, <2>3 DEF Previous
<1>7. lane' = [l EXCEPT !.step = "select", !.old = x, !.selected = f, !.previous = v,
                        !.before = b]
  BY <1>1, <1>2, <1>3, <1>5 DEF BeginSelect
<1>8. lane' \in Lanes
  BY <1>2, <1>4, <1>6, <1>7 DEF Lanes, LaneSteps
<1>9. /\ lane'.step = "select" /\ lane'.p = l.p /\ lane'.frozen = l.frozen
      /\ lane'.selected = f /\ lane'.old = x /\ lane'.previous = v /\ lane'.before = b
  BY <1>7 DEF Lanes
<1> QED
  BY <1>1, <1>2, <1>4, <1>5, <1>6, <1>8, <1>9

\* Each other step of the publication, as far as the lane is concerned.
LEMMA LaneMoves ==
  ASSUME Types, LaneStep
  PROVE  \/ BeginSelect
         \/ /\ lane' \in Lanes
            /\ \/ (Refused \/ Forget \/ PublishWrite) /\ lane'.step = "idle"
               \/ Unselect /\ lane'.step = "failed"
               \/ CommitPublication /\ lane'.step = "publish"
               \/ UndoRows /\ prof' = prof /\ lane'.step = "failed" /\ lane'.stuck
               \/ RestoreRuntime /\ lane'.step = "failed"
               \/ PublishHealth /\ lane'.step = "writing"
         \/ /\ lane' \in Lanes
            /\ lane'.p = lane.p /\ lane'.frozen = lane.frozen /\ lane'.old = lane.old
            /\ lane'.selected = lane.selected /\ lane'.previous = lane.previous
            /\ lane'.before = lane.before
            /\ \/ Select /\ lane'.step = "assign"
               \/ SelectFails /\ lane'.step = "unselect"
               \/ Assign /\ lane'.step = "pointer"
               \/ MovePointer /\ lane'.step = "commit"
               \/ (PublicationFails \/ CommitPublicationFails) /\ lane'.step = "undo"
               \/ /\ UndoRows /\ lane'.step = "restore" /\ prof' = Unselected(prof)
                  /\ Cardinality(ActiveIn(Unselected(prof))) <= 1
<1>0. PICK l \in Lanes : l = lane
  BY DEF Types
<1>1. {"assign", "unselect", "pointer", "commit", "undo", "restore", "failed", "publish"}
        \subseteq LaneSteps
  BY DEF LaneSteps
<1>2. ASSUME NEW s \in LaneSteps, lane' = [lane EXCEPT !.step = s]
      PROVE  /\ lane' \in Lanes /\ lane'.step = s
             /\ lane'.p = lane.p /\ lane'.frozen = lane.frozen /\ lane'.old = lane.old
             /\ lane'.selected = lane.selected /\ lane'.previous = lane.previous
             /\ lane'.before = lane.before
  BY <1>2, LaneTo DEF Types
<1>3. ASSUME NEW s \in LaneSteps, lane' = [NoLane EXCEPT !.step = s]
      PROVE  lane' \in Lanes /\ lane'.step = s
  <2>1. lane' = [step |-> s, p |-> Nothing, frozen |-> Nothing, old |-> Nothing,
                 selected |-> Nothing, previous |-> Nothing, ready |-> FALSE,
                 before |-> Nothing, stuck |-> FALSE]
    BY <1>3 DEF NoLane
  <2> QED
    BY <2>1, LaneEnds
<1>4. CASE Select
  BY <1>1, <1>2, <1>4 DEF Select
<1>5. CASE SelectFails
  BY <1>1, <1>2, <1>5 DEF SelectFails
<1>6. CASE Assign
  BY <1>1, <1>2, <1>6 DEF Assign
<1>7. CASE MovePointer
  BY <1>1, <1>2, <1>7 DEF MovePointer
<1>8. CASE PublicationFails
  BY <1>1, <1>2, <1>8 DEF PublicationFails
<1>9. CASE CommitPublicationFails
  BY <1>1, <1>2, <1>9 DEF CommitPublicationFails
<1>10. CASE Unselect
  BY <1>1, <1>3, <1>10 DEF Unselect
<1>11. CASE RestoreRuntime
  BY <1>1, <1>3, <1>11 DEF RestoreRuntime
<1>12. CASE CommitPublication
  BY <1>1, <1>3, <1>12 DEF CommitPublication
<1>13. CASE UndoRows
  <2>1. CASE prof' = Unselected(prof) /\ lane' = [lane EXCEPT !.step = "restore"]
             /\ Cardinality(ActiveIn(Unselected(prof))) <= 1
    BY <1>1, <1>2, <1>13, <2>1
  <2>2. CASE prof' = prof /\ lane' = [NoLane EXCEPT !.step = "failed", !.stuck = TRUE]
    <3>1. lane' = [step |-> "failed", p |-> Nothing, frozen |-> Nothing, old |-> Nothing,
                   selected |-> Nothing, previous |-> Nothing, ready |-> FALSE,
                   before |-> Nothing, stuck |-> TRUE]
      BY <2>2 DEF NoLane
    <3>2. lane' \in Lanes /\ lane'.step = "failed" /\ lane'.stuck = TRUE
      BY <1>1, <3>1, LaneEnds
    <3> QED
      BY <1>13, <2>2, <3>2
  <2> QED
    BY <1>13, <2>1, <2>2 DEF UndoRows
<1>14. CASE PublishHealth
  <2>1. PICK b \in BOOLEAN : lane' = [l EXCEPT !.step = "writing", !.ready = b]
    BY <1>0, <1>14 DEF PublishHealth, Healthy
  <2>2. lane' \in Lanes /\ lane'.step = "writing"
    BY <2>1 DEF Lanes, LaneSteps
  <2> QED
    BY <1>14, <2>2
<1>15. CASE Refused \/ Forget \/ PublishWrite
  BY <1>15, Records DEF Refused, Forget, PublishWrite
<1> QED
  BY <1>4, <1>5, <1>6, <1>7, <1>8, <1>9, <1>10, <1>11, <1>12, <1>13, <1>14, <1>15 DEF LaneStep

LEMMA LaneTypes ==
  ASSUME Types, RowsTyped, AsksKnown, FrozenKnown, Prepare \/ LaneStep
  PROVE  Types' /\ AsksKnown' /\ FrozenKnown' /\ ask' = ask /\ tested' = tested
<1>1. ask' = ask /\ tested' = tested /\ poll' = poll /\ amiss' \in BOOLEAN
  BY DEF Types, Prepare, LaneStep, BeginSelect, Select, SelectFails, Unselect, Refused, Assign,
         MovePointer, PublicationFails, CommitPublication, CommitPublicationFails, UndoRows,
         RestoreRuntime, Forget, PublishHealth, PublishWrite
<1>2. lane' \in Lanes
  BY Prepared, Begun, LaneMoves
<1>3. runtime' \in Runtimes
  <2>1. CASE Select \/ SelectFails \/ Assign
    <3>1. lane.p \in Profiles /\ lane.frozen \in Row
      BY <2>1 DEF FrozenKnown, Activating, Select, SelectFails, Assign
    <3>2. PICK x \in RuntimeChats : x = Chat(lane.p, lane.frozen)
      BY <3>1, ChatIsChat
    <3>3. \/ runtime' = Switched(x)
          \/ runtime' = [object |-> 1 - runtime.object, chat |-> x]
      BY <2>1, <3>2 DEF Select, SelectFails, Assign
    <3> QED
      BY <3>3, SwitchedRuntime DEF Types, Runtimes
  <2>2. CASE Unselect \/ RestoreRuntime
    <3>1. lane.old \in Runtimes
      BY <2>2 DEF FrozenKnown, Activating, Unselect, RestoreRuntime
    <3>2. lane.old.chat \in RuntimeChats
      BY <3>1 DEF Runtimes
    <3> QED
      BY <2>2, <3>1, <3>2, SwitchedRuntime DEF Unselect, RestoreRuntime, Types
  <2> QED
    BY <2>1, <2>2 DEF Types, Prepare, LaneStep, BeginSelect, Refused, MovePointer,
         PublicationFails, CommitPublication, CommitPublicationFails, UndoRows, Forget,
         PublishHealth, PublishWrite
<1>4. /\ bundle' \in BundleStates
      /\ bundle' = bundle \/ MovePointer \/ CommitPublicationFails
  <2>1. CASE MovePointer
    <3>1. bundle.newest \in 0..MaxVersions /\ bundle.newest < MaxVersions
      BY <2>1 DEF Types, BundleStates, FrozenKnown, MovePointer
    <3>2. bundle.newest + 1 \in 0..MaxVersions /\ bundle.active \in 0..MaxVersions
      BY <3>1, ChatBoundsAssumption DEF Types, BundleStates
    <3>3. PICK n \in 0..MaxVersions, a \in 0..MaxVersions :
            bundle' = [bundle EXCEPT !.active = n, !.newest = n, !.previous = a]
      BY <2>1, <3>2 DEF MovePointer
    <3> QED
      BY <2>1, <3>3 DEF Types, BundleStates
  <2>2. CASE CommitPublicationFails
    BY <2>2 DEF CommitPublicationFails, FrozenKnown, Activating, Befores
  <2> QED
    BY <2>1, <2>2 DEF Types, Prepare, LaneStep, BeginSelect, Select, SelectFails, Unselect,
         Refused, Assign, PublicationFails, CommitPublication, UndoRows, RestoreRuntime,
         Forget, PublishHealth, PublishWrite
<1>5. shared' \in Shareds
  <2>1. CASE PublishWrite
    <3>1. PICK n \in 0..MaxVersions, b \in BOOLEAN : n = bundle.newest /\ b = lane.ready
      BY DEF Types, Lanes, BundleStates
    <3>2. shared' = [index |-> n, ready |-> b]
      BY <2>1, <3>1 DEF PublishWrite
    <3> QED
      BY <3>2 DEF Shareds
  <2> QED
    BY <2>1 DEF Types, Prepare, LaneStep, BeginSelect, Select, SelectFails, Unselect, Refused,
         Assign, MovePointer, PublicationFails, CommitPublication, CommitPublicationFails,
         UndoRows, RestoreRuntime, Forget, PublishHealth
<1>6. FrozenKnown'
  <2>1. CASE Prepare
    <3>1. bundle' = bundle /\ bundle.newest < MaxVersions
      BY <2>1 DEF Prepare
    <3> QED
      BY <1>1, <2>1, <3>1, Prepared DEF FrozenKnown, Activating
  <2>2. CASE BeginSelect
    <3>1. bundle' = bundle /\ lane.step = "built"
      BY <2>2 DEF BeginSelect
    <3>2. lane'.old \in Runtimes
      BY <2>2, Begun DEF Types
    <3> QED
      BY <1>1, <2>2, <3>1, <3>2, Begun DEF FrozenKnown, Activating, Row
  <2>3. CASE lane'.step \in {"idle", "failed", "publish", "writing"}
    BY <1>1, <2>3 DEF FrozenKnown, Activating
  <2>4. CASE ~Prepare /\ ~BeginSelect /\ lane'.step \notin {"idle", "failed", "publish", "writing"}
    <3>1. /\ lane'.p = lane.p /\ lane'.frozen = lane.frozen /\ lane'.old = lane.old
          /\ lane'.selected = lane.selected /\ lane'.previous = lane.previous
          /\ lane'.before = lane.before
      BY <2>4, LaneMoves
    <3>2. \/ lane.step = "select" /\ lane'.step \in {"assign", "unselect"} /\ bundle' = bundle
          \/ lane.step = "assign" /\ lane'.step = "pointer" /\ bundle' = bundle
          \/ lane.step = "pointer" /\ lane'.step = "commit"
          \/ lane.step \in {"assign", "pointer", "commit"} /\ lane'.step = "undo"
          \/ lane.step = "undo" /\ lane'.step = "restore"
      BY <2>4, LaneMoves DEF Select, SelectFails, Assign, MovePointer, PublicationFails,
         CommitPublicationFails, UndoRows
    <3> QED
      BY <1>1, <3>1, <3>2 DEF FrozenKnown, Activating
  <2> QED
    BY <2>1, <2>2, <2>3, <2>4
<1> QED
  BY <1>1, <1>2, <1>3, <1>4, <1>5, <1>6 DEF Types, AsksKnown

LEMMA LaneRows ==
  ASSUME Types, RowsTyped, FrozenKnown, Prepare \/ LaneStep
  PROVE  RowsTyped'
<1>1. CASE Select
  <2>1. lane.p \in Profiles /\ prof' = Selected(prof, lane.p)
    BY <1>1 DEF Select, FrozenKnown, Activating
  <2>2. Selected(prof, lane.p) \in ChatRows /\ AtMostOne(Selected(prof, lane.p))
    BY <2>1, SelectedRows DEF RowsTyped, AtMostOne
  <2> QED
    BY <2>1, <2>2 DEF RowsTyped
<1>2. CASE UndoRows
  <2>1. Unselected(prof) \in ChatRows
    BY <1>2, UnselectedRows DEF UndoRows, FrozenKnown, Activating, RowsTyped
  <2>2. CASE prof' = Unselected(prof) /\ Cardinality(ActiveIn(Unselected(prof))) <= 1
    <3>1. AtMostOne(Unselected(prof))
      BY <2>2, ActiveCount
    <3> QED
      BY <2>1, <2>2, <3>1 DEF RowsTyped
  <2>3. CASE prof' = prof
    BY <2>3 DEF RowsTyped
  <2> QED
    BY <1>2, <2>2, <2>3 DEF UndoRows
<1> QED
  BY <1>1, <1>2 DEF RowsTyped, Prepare, LaneStep, BeginSelect, SelectFails, Unselect, Refused,
     Assign, MovePointer, PublicationFails, CommitPublication, CommitPublicationFails,
     RestoreRuntime, Forget, PublishHealth, PublishWrite

\* What is selected is active and has answered a probe.
LEMMA SelectedServes ==
  ASSUME Types, FrozenKnown, BeforeKnown, lane.p \in Profiles, lane.frozen \in Row,
         lane.frozen.status = "ready", NEW rows, rows = Selected(lane.before.rows, lane.p)
  PROVE  /\ Sound(rows) /\ ActiveIn(rows) # {} /\ Chat(lane.p, lane.frozen) # Nothing
         /\ \A c : Reached(c) => Serves(rows, c)
<1>1. PICK B \in ChatRows : B = lane.before.rows
  BY DEF BeforeKnown, Befores
<1>2. PICK p \in Profiles, r \in Row :
        p = lane.p /\ r = lane.frozen /\ B[p] = r /\ r # Nothing /\ r.status = "ready"
  BY <1>1, Records DEF BeforeKnown
<1>3. /\ ActiveIn(rows) = {p} /\ rows[p].model = r.model
      /\ \A q \in Profiles : rows[q] # Nothing =>
           /\ B[q] # Nothing /\ rows[q].model = B[q].model
           /\ rows[q].status = "ready" => q = p \/ B[q].status = "ready"
  BY <1>1, <1>2, SelectedRows
<1>4. ASSUME NEW q \in Profiles, rows[q] # Nothing, rows[q].active \/ rows[q].status = "ready"
      PROVE  rows[q].model \in tested
  <2>1. q = p \/ B[q].status = "ready"
    BY <1>3, <1>4 DEF ActiveIn
  <2> QED
    BY <1>1, <1>2, <1>3, <1>4, <2>1 DEF BeforeKnown, Sound
<1>5. Chat(p, r) = Chat(p, rows[p]) /\ Chat(p, r) # Nothing
  BY <1>2, <1>3, ChatIsChat DEF Chat
<1> QED
  BY <1>2, <1>3, <1>4, <1>5 DEF Sound, AtMostOne, Serves, Reached

\* The old chat goes back to the object that was switched.
LEMMA BackToOld ==
  ASSUME runtime \in Runtimes, lane.old \in Runtimes, runtime.object = lane.old.object,
         runtime.chat = Nothing => lane.old.chat = Nothing
  PROVE  Switched(lane.old.chat) = lane.old
BY DEF Switched, Runtimes

\* The lane ends, or has committed: what is left is sound.
LEMMA LaneLets ==
  ASSUME ask' = ask, tested' = tested, Known, Activating, ~Activating',
         Sound(prof'), Founded(bundle', prof'), Serves(prof', runtime'.chat),
         bundle'.active # 0 => runtime'.chat # Nothing
  PROVE  Known'
<1>1. UndoKnown'
  BY DEF Known, UndoKnown
<1>2. LaneKnown'
  BY DEF LaneKnown, Activating
<1>3. Sound(prof)' /\ Founded(bundle, prof)' /\ Serves(prof, runtime.chat)'
  BY DEF Sound, AtMostOne, Founded, Serves
<1> QED
  BY <1>1, <1>2, <1>3 DEF Known

\* The lane goes on, and still knows the way back.
LEMMA LaneGoesOn ==
  ASSUME ask' = ask, tested' = tested, Known, Activating, Activating',
         Sound(prof'), Founded(bundle', prof'), LaneKnown'
  PROVE  Known'
<1>1. UndoKnown'
  BY DEF Known, UndoKnown
<1>2. Sound(prof)' /\ Founded(bundle, prof)'
  BY DEF Sound, AtMostOne, Founded
<1> QED
  BY <1>1, <1>2 DEF Known, Pending

LEMMA LaneKeepsKnown ==
  ASSUME Types, RowsTyped, AsksKnown, FrozenKnown, Known, Prepare \/ LaneStep, ~amiss'
  PROVE  Known'
<1>1. ask' = ask /\ tested' = tested /\ (Undoing' <=> Undoing)
  BY LaneTypes DEF Undoing
<1>2. /\ lane.step \in {"select", "unselect", "assign", "pointer", "commit", "undo", "restore"}
           => Activating
      /\ Activating => /\ BeforeKnown /\ lane.p \in Profiles /\ lane.frozen \in Row
                       /\ lane.frozen.status = "ready" /\ lane.old \in Runtimes
                       /\ lane.old.chat \in RuntimeChats
                       /\ lane.step # "commit" => bundle = lane.before.bundle
  BY DEF Activating, Known, LaneKnown, FrozenKnown, Runtimes
<1>3. CASE /\ UNCHANGED <<prof, runtime, bundle>>
           /\ ~Activating /\ ~Activating'
  <2>1. UndoKnown'
    BY <1>1, <1>3 DEF Known, UndoKnown, Serves
  <2>2. LaneKnown'
    BY <1>3 DEF LaneKnown, Activating
  <2> QED
    BY <1>1, <1>3, <2>1, <2>2 DEF Known, Sound, AtMostOne, Founded, Serves, Pending
<1>4. CASE Prepare
  <2>1. ~Activating /\ ~Activating' /\ UNCHANGED <<prof, runtime, bundle>>
    BY <1>4, Prepared DEF Prepare, Activating
  <2> QED
    BY <1>3, <2>1
<1>5. CASE Refused \/ Forget \/ PublishHealth \/ PublishWrite
  <2>1. UNCHANGED <<prof, runtime, bundle>> /\ ~Activating
    BY <1>5 DEF Refused, Forget, PublishHealth, PublishWrite, Activating
  <2>2. lane'.step \in {"idle", "writing"}
    <3>1. CASE PublishHealth
      <4>1. PICK l \in Lanes : l = lane
        BY DEF Types
      <4>2. PICK b \in BOOLEAN : lane' = [l EXCEPT !.step = "writing", !.ready = b]
        BY <3>1, <4>1 DEF PublishHealth, Healthy
      <4> QED
        BY <4>2 DEF Lanes
    <3> QED
      BY <1>5, <3>1, Records DEF Refused, Forget, PublishWrite
  <2> QED
    BY <1>3, <2>1, <2>2 DEF Activating
<1>6. CASE BeginSelect
  <2>1. /\ ~Pending /\ UNCHANGED <<prof, runtime, bundle>>
        /\ prof[lane.p] = lane.frozen /\ ~Undoing /\ ~Activating
    BY <1>6 DEF BeginSelect, Pending, Activating
  <2>2. Sound(prof) /\ Serves(prof, runtime.chat) /\ Founded(bundle, prof)
        /\ (bundle.active # 0 => runtime.chat # Nothing)
    BY <2>1 DEF Known
  <2>3. /\ lane'.step = "select"
        /\ lane'.p = lane.p /\ lane'.frozen = lane.frozen /\ lane'.selected = lane.frozen
        /\ lane'.old = runtime /\ lane'.previous = [q \in ActiveRow |-> prof[q].status]
        /\ lane'.before \in Befores
        /\ lane'.before.rows = prof /\ lane'.before.bundle = bundle
    BY <1>6, Begun
  <2>4. BeforeKnown'
    <3>1. Sound(lane.before.rows)'
      BY <1>1, <2>2, <2>3 DEF Sound, AtMostOne
    <3>2. Serves(lane.before.rows, lane.old.chat)'
      BY <2>2, <2>3 DEF Serves
    <3>3. Founded(lane.before.bundle, lane.before.rows)'
      BY <2>2, <2>3 DEF Founded
    <3> QED
      BY <2>1, <2>2, <2>3, <3>1, <3>2, <3>3 DEF BeforeKnown, ActiveRow, Types
  <2>5. LaneKnown' /\ Activating'
    BY <2>1, <2>3, <2>4 DEF LaneKnown, Activating
  <2>6. UndoKnown'
    BY <1>1, <2>1 DEF UndoKnown, Undoing
  <2> QED
    BY <1>1, <2>1, <2>2, <2>5, <2>6 DEF Known, Sound, AtMostOne, Founded, Pending
<1>7. CASE Select
  <2>1. /\ Activating /\ prof = lane.before.rows /\ runtime = lane.old
        /\ prof' = Selected(prof, lane.p) /\ bundle' = bundle
        /\ runtime' = Switched(Chat(lane.p, lane.frozen))
    BY <1>2, <1>7 DEF Select, Known, LaneKnown
  <2>2. Reached(runtime'.chat)
    BY <1>2, <2>1, SwitchedRuntime, ChatIsChat DEF Reached, Types
  <2>3. Sound(prof') /\ ActiveIn(prof') # {}
    BY <1>2, <2>1, SelectedServes
  <2>4. /\ lane'.step = "assign"
        /\ lane'.p = lane.p /\ lane'.frozen = lane.frozen /\ lane'.old = lane.old
        /\ lane'.selected = lane.selected /\ lane'.previous = lane.previous
        /\ lane'.before = lane.before
    <3>1. lane' = [lane EXCEPT !.step = "assign"] /\ lane \in Lanes /\ "assign" \in LaneSteps
      BY <1>7 DEF Select, Types, LaneSteps
    <3> QED
      BY <3>1, LaneTo
  <2>5. BeforeKnown'
    BY <1>1, <1>2, <2>1, <2>4, BeforeStays
  <2>6. LaneKnown' /\ Activating'
    <3>1. (prof = Selected(lane.before.rows, lane.p))' /\ Reached(runtime.chat)'
      BY <2>1, <2>2, <2>4 DEF Selected, Reached, Chat
    <3>2. bundle' = lane'.before.bundle
      BY <1>2, <1>7, <2>1, <2>4 DEF Select
    <3> QED
      BY <2>4, <2>5, <3>1, <3>2 DEF LaneKnown, Activating
  <2>7. Founded(bundle', prof')
    BY <2>1, <2>3 DEF Known, Founded
  <2> QED
    BY <1>1, <2>1, <2>3, <2>6, <2>7, LaneGoesOn
<1>8. CASE SelectFails
  <2>1. /\ Activating /\ prof = lane.before.rows /\ runtime = lane.old
        /\ prof' = prof /\ bundle' = bundle
        /\ runtime' = Switched(Chat(lane.p, lane.frozen))
    BY <1>2, <1>8 DEF SelectFails, Known, LaneKnown
  <2>2. runtime'.object = lane.old.object /\ Reached(runtime'.chat)
    BY <1>2, <2>1, SwitchedRuntime, ChatIsChat DEF Reached, Types
  <2>3. /\ lane'.step = "unselect"
        /\ lane'.p = lane.p /\ lane'.frozen = lane.frozen /\ lane'.old = lane.old
        /\ lane'.selected = lane.selected /\ lane'.previous = lane.previous
        /\ lane'.before = lane.before
    BY <1>8, LaneTo DEF SelectFails, Types, LaneSteps
  <2>4. BeforeKnown'
    BY <1>1, <1>2, <2>1, <2>3, BeforeStays
  <2>5. LaneKnown' /\ Activating'
    BY <1>2, <1>8, <2>1, <2>2, <2>3, <2>4
       DEF SelectFails, LaneKnown, Activating, Reached, Chat
  <2> QED
    BY <1>1, <2>1, <2>5, LaneGoesOn DEF Known
<1>9. CASE Unselect \/ RestoreRuntime
  <2>1. /\ Activating /\ prof = lane.before.rows /\ bundle = lane.before.bundle
        /\ prof' = prof /\ bundle' = bundle
    BY <1>2, <1>9 DEF Unselect, RestoreRuntime, Known, LaneKnown
  <2>2. runtime'.chat = lane.old.chat
    <3>1. CASE RestoreRuntime
      BY <3>1 DEF RestoreRuntime
    <3>2. CASE Unselect
      <4>1. runtime.object = lane.old.object /\ Reached(runtime.chat)
        BY <3>2 DEF Unselect, Known, LaneKnown
      <4>2. runtime.chat = Nothing => lane.old.chat = Nothing
        BY <1>2, <2>1, <4>1, ChatIsChat DEF Reached
      <4> QED
        BY <1>2, <2>1, <3>2, <4>1, <4>2, BackToOld DEF Unselect, Types
    <3> QED
      BY <1>9, <3>1, <3>2
  <2>3. ~Activating'
    BY <1>9, LaneMoves DEF Unselect, RestoreRuntime, Activating, LaneStep, BeginSelect, Select,
       SelectFails, Assign, MovePointer, PublicationFails, CommitPublicationFails, UndoRows
  <2> QED
    BY <1>1, <1>2, <2>1, <2>2, <2>3, LaneLets DEF BeforeKnown
<1>10. CASE Assign \/ MovePointer \/ PublicationFails \/ CommitPublicationFails
  <2>1. /\ Activating /\ prof = Selected(lane.before.rows, lane.p) /\ prof' = prof
        /\ Reached(runtime.chat)
        /\ ~Assign => runtime' = runtime
        /\ MovePointer \/ CommitPublicationFails => runtime.chat = Chat(lane.p, lane.frozen)
    BY <1>2, <1>10
       DEF Assign, MovePointer, PublicationFails, CommitPublicationFails, Known, LaneKnown
  <2>2. ActiveIn(prof) # {} /\ Sound(prof)
    BY <1>2, <2>1, SelectedServes
  <2>3. /\ Reached(runtime'.chat)
        /\ Assign \/ MovePointer => runtime'.chat = Chat(lane.p, lane.frozen)
    BY <2>1 DEF Assign, MovePointer, Reached
  <2>4. /\ lane'.p = lane.p /\ lane'.frozen = lane.frozen /\ lane'.old = lane.old
        /\ lane'.selected = lane.selected /\ lane'.previous = lane.previous
        /\ lane'.before = lane.before
        /\ \/ Assign /\ lane'.step = "pointer"
           \/ MovePointer /\ lane'.step = "commit"
           \/ (PublicationFails \/ CommitPublicationFails) /\ lane'.step = "undo"
    <3>1. "pointer" \in LaneSteps /\ "commit" \in LaneSteps /\ "undo" \in LaneSteps
      BY DEF LaneSteps
    <3> QED
      BY <1>10, <3>1, LaneTo
         DEF Assign, MovePointer, PublicationFails, CommitPublicationFails, Types
  <2>5. BeforeKnown'
    BY <1>1, <1>2, <2>1, <2>4, BeforeStays
  <2>6. /\ lane'.step = "commit" => bundle'.active # 0 /\ bundle'.previous = bundle.active
        /\ lane'.step # "commit" => bundle' = lane.before.bundle
    <3>1. CASE MovePointer
      <4>1. bundle'.active = bundle.newest + 1 /\ bundle'.previous = bundle.active
        BY <3>1 DEF MovePointer, Types, BundleStates
      <4>2. bundle.newest \in Nat
        BY ChatBoundsAssumption DEF Types, BundleStates
      <4>3. lane'.step = "commit"
        BY <3>1, LaneTo DEF MovePointer, Types, LaneSteps
      <4> QED
        BY <4>1, <4>2, <4>3
    <3>2. CASE Assign \/ PublicationFails
      <4>1. bundle' = lane.before.bundle
        BY <1>2, <2>1, <3>2 DEF Assign, PublicationFails
      <4>2. lane'.step # "commit"
        BY <3>2, LaneTo DEF Assign, PublicationFails, Types, LaneSteps
      <4> QED
        BY <4>1, <4>2
    <3>3. CASE CommitPublicationFails
      <4>1. lane'.step = "undo"
        BY <3>3, LaneTo DEF CommitPublicationFails, Types, LaneSteps
      <4> QED
        BY <3>3, <4>1 DEF CommitPublicationFails
    <3> QED
      BY <1>10, <3>1, <3>2, <3>3
  <2>7. LaneKnown' /\ Activating'
    <3>1. (prof = Selected(lane.before.rows, lane.p))'
      BY <2>1, <2>4 DEF Selected
    <3>2. Reached(runtime.chat)'
      BY <2>3, <2>4 DEF Reached, Chat
    <3>3. lane'.step \in {"pointer", "commit"} => (runtime.chat = Chat(lane.p, lane.frozen))'
      BY <2>3, <2>4 DEF Chat
    <3> QED
      BY <2>4, <2>5, <2>6, <3>1, <3>2, <3>3 DEF LaneKnown, Activating
  <2>8. Founded(bundle', prof')
    <3>1. CASE lane'.step = "commit"
      BY <2>1, <2>2, <2>6, <3>1 DEF Founded
    <3>2. CASE lane'.step # "commit"
      BY <1>2, <2>1, <2>2, <2>6, <3>2 DEF BeforeKnown, Founded
    <3> QED
      BY <3>1, <3>2
  <2>9. Sound(prof')
    BY <2>1, <2>2
  <2> QED
    BY <1>1, <2>1, <2>7, <2>8, <2>9, LaneGoesOn
<1>11. CASE CommitPublication
  <2>1. /\ Activating /\ prof = Selected(lane.before.rows, lane.p)
        /\ runtime.chat = Chat(lane.p, lane.frozen)
        /\ UNCHANGED <<prof, runtime, bundle>>
    BY <1>2, <1>11 DEF CommitPublication, Known, LaneKnown
  <2>2. Serves(prof, runtime.chat) /\ runtime.chat # Nothing
    BY <1>2, <2>1, SelectedServes DEF Reached
  <2>3. ~Activating'
    BY <1>11 DEF CommitPublication, NoLane, Activating
  <2> QED
    BY <1>1, <2>1, <2>2, <2>3, LaneLets DEF Known
<1>12. CASE UndoRows
  <2>1. /\ Activating /\ prof = Selected(lane.before.rows, lane.p) /\ Reached(runtime.chat)
        /\ UNCHANGED <<runtime, bundle>> /\ bundle = lane.before.bundle
    BY <1>2, <1>12 DEF UndoRows, Known, LaneKnown
  <2>2. CASE prof' = Unselected(prof) /\ lane' = [lane EXCEPT !.step = "restore"]
    <3>1. prof' = lane.before.rows
      BY <1>2, <2>1, <2>2, UnselectedIsBefore
    <3>2. /\ lane'.step = "restore"
          /\ lane'.p = lane.p /\ lane'.frozen = lane.frozen /\ lane'.old = lane.old
          /\ lane'.selected = lane.selected /\ lane'.previous = lane.previous
          /\ lane'.before = lane.before
      BY <2>2, LaneTo DEF Types, LaneSteps
    <3>3. BeforeKnown'
      BY <1>1, <1>2, <2>1, <3>2, BeforeStays
    <3>4. LaneKnown' /\ Activating'
      BY <2>1, <3>1, <3>2, <3>3 DEF LaneKnown, Activating
    <3> QED
      BY <1>1, <1>2, <2>1, <3>1, <3>4, LaneGoesOn DEF BeforeKnown
  <2>3. CASE prof' = prof /\ lane' = [NoLane EXCEPT !.step = "failed", !.stuck = TRUE]
    <3>1. Serves(prof, runtime.chat)
      BY <1>2, <2>1, SelectedServes
    <3>2. bundle.active # 0 => runtime.chat # Nothing
      BY <1>2, <2>1, SelectedServes DEF Reached, BeforeKnown
    <3>3. ~Activating'
      BY <2>3 DEF NoLane, Activating
    <3> QED
      BY <1>1, <2>1, <2>3, <3>1, <3>2, <3>3, LaneLets DEF Known
  <2> QED
    BY <1>12, <2>2, <2>3 DEF UndoRows
<1> QED
  BY <1>4, <1>5, <1>6, <1>7, <1>8, <1>9, <1>10, <1>11, <1>12 DEF LaneStep

-----------------------------------------------------------------------------
(***************************************************************************)
(* The poll, a restart and the start.                                      *)
(***************************************************************************)
\* What is known does not depend on the poll and on the shared object.
LEMMA UnchangedKnown ==
  ASSUME Known, UNCHANGED <<prof, runtime, bundle, ask, lane, tested>>
  PROVE  Known'
<1>1. (Activating' <=> Activating) /\ (Undoing' <=> Undoing)
  BY DEF Activating, Undoing
<1>2. Sound(prof)' /\ Founded(bundle, prof)'
  BY DEF Known, Sound, AtMostOne, Founded
<1>3. UndoKnown'
  BY <1>1 DEF Known, UndoKnown, Serves
<1>4. LaneKnown'
  <2>1. BeforeKnown => BeforeKnown'
    BY BeforeStays
  <2> QED
    BY <1>1, <2>1 DEF Known, LaneKnown, Selected, Reached, Chat
<1> QED
  BY <1>1, <1>2, <1>3, <1>4 DEF Known, Pending, Serves

LEMMA PollKeeps ==
  ASSUME ChatInv, PollStep
  PROVE  ChatInv'
<1>1. UNCHANGED <<prof, runtime, bundle, ask, lane, tested, amiss>>
  BY DEF PollStep, PollHealth, PollRead, PollWrite
<1>2. PICK l \in Polls : l = poll
  BY DEF ChatInv, Types
<1>3. /\ poll' \in Polls /\ shared' \in Shareds
      /\ poll'.step = "read" => poll'.read \in Shareds
  <2>1. CASE PollHealth
    <3>1. PICK b \in BOOLEAN : poll' = [step |-> "polled", ready |-> b, read |-> Nothing]
      BY <2>1 DEF PollHealth, Healthy
    <3> QED
      BY <2>1, <3>1 DEF PollHealth, Polls, ChatInv, Types
  <2>2. CASE PollRead
    <3>1. PICK x \in Shareds : x = shared
      BY DEF ChatInv, Types
    <3>2. poll' = [l EXCEPT !.step = "read", !.read = x]
      BY <1>2, <2>2, <3>1 DEF PollRead
    <3> QED
      BY <2>2, <3>1, <3>2 DEF PollRead, Polls
  <2>3. CASE PollWrite
    <3>1. PICK x \in Shareds : x = poll.read
      BY <2>3 DEF PollWrite, ChatInv, FrozenKnown
    <3>2. shared' = [x EXCEPT !.ready = l.ready]
      BY <1>2, <2>3, <3>1 DEF PollWrite
    <3> QED
      BY <2>3, <3>2 DEF PollWrite, Polls, Shareds
  <2> QED
    BY <2>1, <2>2, <2>3 DEF PollStep
<1>4. Types' /\ RowsTyped' /\ AsksKnown' /\ FrozenKnown'
  BY <1>1, <1>3 DEF ChatInv, Types, RowsTyped, AsksKnown, FrozenKnown, Activating, AtMostOne
<1>5. Known => Known'
  BY <1>1, UnchangedKnown
<1> QED
  BY <1>1, <1>4, <1>5 DEF ChatInv

LEMMA StutterKeeps ==
  ASSUME ChatInv, UNCHANGED chatVars
  PROVE  ChatInv'
<1>1. Types' /\ RowsTyped' /\ AsksKnown' /\ FrozenKnown'
  BY DEF chatVars, ChatInv, Types, RowsTyped, AsksKnown, FrozenKnown, Activating, AtMostOne
<1>2. Known => Known'
  BY UnchangedKnown DEF chatVars
<1> QED
  BY <1>1, <1>2 DEF ChatInv, chatVars

\* Nobody is switching anything, and no request has read a row.
LEMMA AtRest ==
  ASSUME \A c \in Askers : ask[c] = NoAsk, lane = NoLane
  PROVE  AsksKnown /\ UndoKnown /\ LaneKnown /\ ~Pending
BY Records DEF AsksKnown, AskKnown, UndoKnown, LaneKnown, Pending, Activating, Undoing

LEMMA RestartKeeps ==
  ASSUME ChatInv, RestartChat
  PROVE  ChatInv'
<1>1. /\ UNCHANGED <<prof, bundle, tested, amiss>>
      /\ ask' = [c \in Askers |-> NoAsk] /\ lane' = NoLane
      /\ poll' = [step |-> "idle", ready |-> FALSE, read |-> Nothing]
  BY DEF RestartChat
<1>2. PICK x \in {RowChat} \cup (IF bundle.active = 0 THEN {Nothing} ELSE {}) :
        runtime' = [object |-> 0, chat |-> x]
  BY DEF RestartChat
<1>3. /\ x \in RuntimeChats /\ Serves(prof, x)
      /\ bundle.active # 0 /\ ActiveIn(prof) # {} => x # Nothing
  BY <1>2, RowChatServes DEF ChatInv, RuntimeChats, Serves
<1>4. runtime' \in Runtimes /\ runtime'.chat = x
  BY <1>2, <1>3 DEF Runtimes
<1>5. shared' \in Shareds
  BY DEF RestartChat, ChatInv, Types, BundleStates, Shareds
<1>6. Types' /\ RowsTyped' /\ FrozenKnown'
  BY <1>1, <1>4, <1>5, Records
     DEF ChatInv, Types, RowsTyped, FrozenKnown, Activating, AtMostOne, Polls
<1>7. AsksKnown' /\ UndoKnown' /\ LaneKnown' /\ ~Pending'
  BY <1>1, Records
     DEF AsksKnown, AskKnown, UndoKnown, LaneKnown, Pending, Activating, Undoing
<1>8. Known => Known'
  <2>1. SUFFICES ASSUME Known PROVE Known'
    OBVIOUS
  <2>2. Sound(prof)' /\ Founded(bundle, prof)'
    BY <1>1, <2>1 DEF Known, Sound, AtMostOne, Founded
  <2>3. bundle'.active # 0 => runtime'.chat # Nothing
    BY <1>1, <1>3, <1>4, <2>1 DEF Known, Founded
  <2>4. Serves(prof, runtime.chat)'
    BY <1>1, <1>3, <1>4 DEF Serves
  <2> QED
    BY <1>7, <2>2, <2>3, <2>4 DEF Known
<1> QED
  BY <1>1, <1>6, <1>7, <1>8 DEF ChatInv

LEMMA InitChatInv == ChatInit => ChatInv
<1> SUFFICES ASSUME ChatInit PROVE ChatInv
  OBVIOUS
<1>1. PICK p \in Profiles, m \in HealthyModels, other \in Models, published \in BOOLEAN :
        /\ prof = [q \in Profiles |->
             IF q = p THEN [model |-> m, status |-> "ready", active |-> published]
             ELSE [model |-> other, status |-> IF other = m THEN "ready" ELSE "probe",
                   active |-> FALSE]]
        /\ runtime = [object |-> 0,
                      chat |-> IF published THEN [p |-> p, model |-> m] ELSE Nothing]
        /\ bundle = [active |-> IF published THEN 1 ELSE 0, previous |-> 0,
                     newest |-> IF published THEN 1 ELSE 0, pinned |-> FALSE]
        /\ shared = [index |-> IF published THEN 1 ELSE 0, ready |-> FALSE]
        /\ tested = {m}
  BY DEF ChatInit
<1>2. m \in Models
  BY HealthyAssumption
<1>3. \A q \in Profiles :
        /\ prof[q] \in Row
        /\ prof[q].active <=> q = p /\ published
        /\ q = p => prof[q].model = m
        /\ prof[q].status = "ready" => prof[q].model = m
  BY <1>1, <1>2 DEF Row, Statuses
<1>4. prof \in ChatRows
  BY <1>1, <1>3 DEF ChatRows
<1>5. ActiveIn(prof) = IF published THEN {p} ELSE {}
  BY <1>3, Records DEF ActiveIn
<1>6. Sound(prof) /\ RowsTyped
  BY <1>1, <1>3, <1>4, <1>5 DEF Sound, RowsTyped, AtMostOne
<1>7. Serves(prof, runtime.chat) /\ (published => runtime.chat # Nothing)
  <2>1. CASE ~published
    BY <1>1, <2>1 DEF Serves
  <2>2. CASE published
    <3>1. runtime.chat = Chat(p, prof[p]) /\ prof[p] \in Row
      BY <1>1, <1>3, <2>2 DEF Chat
    <3>2. runtime.chat # Nothing
      BY <3>1, ChatIsChat
    <3> QED
      BY <1>5, <2>2, <3>1, <3>2 DEF Serves
  <2> QED
    BY <2>1, <2>2
<1>8. AsksKnown /\ UndoKnown /\ LaneKnown
  BY AtRest DEF ChatInit
<1>9. Founded(bundle, prof) /\ (bundle.active # 0 => published)
  BY <1>1, <1>5 DEF Founded
<1>10. Types /\ FrozenKnown
  <2>1. runtime \in Runtimes
    BY <1>1, <1>2 DEF Runtimes, RuntimeChats
  <2>2. bundle \in BundleStates /\ shared \in Shareds
    BY <1>1, ChatBoundsAssumption DEF BundleStates, Shareds
  <2>3. poll \in Polls /\ poll.step = "idle"
    BY DEF ChatInit, Polls
  <2> QED
    BY <1>1, <1>2, <2>1, <2>2, <2>3, Records DEF ChatInit, Types, FrozenKnown, Activating
<1> QED
  BY <1>6, <1>7, <1>8, <1>9, <1>10 DEF ChatInv, Known

LEMMA NextChatInv == ChatInv /\ [ChatNext]_chatVars => ChatInv'
<1> SUFFICES ASSUME ChatInv, ChatNext \/ UNCHANGED chatVars PROVE ChatInv'
  OBVIOUS
<1>1. ASSUME NEW c \in Askers, OwnerStep(c) PROVE ChatInv'
  <2>1. amiss => amiss'
    BY <1>1 DEF OwnerStep, AskChat, UpdateProfile, DeleteProfile, ProbeProfile, ActivateProfile,
         CommitFails, Undo, PinPrevious, PinPublished, Landed
  <2> QED
    BY <1>1, <2>1, OwnerTypes, OwnerRows, OwnerKnown DEF ChatInv
<1>2. CASE Prepare \/ LaneStep
  <2>1. amiss => amiss'
    BY <1>2 DEF Prepare, LaneStep, BeginSelect, Select, SelectFails, Unselect, Refused, Assign,
         MovePointer, PublicationFails, CommitPublication, CommitPublicationFails, UndoRows,
         RestoreRuntime, Forget, PublishHealth, PublishWrite
  <2> QED
    BY <1>2, <2>1, LaneTypes, LaneRows, LaneKeepsKnown DEF ChatInv
<1> QED
  BY <1>1, <1>2, PollKeeps, RestartKeeps, StutterKeeps DEF ChatNext

LEMMA Invariance == ChatSpec => []ChatInv
BY InitChatInv, NextChatInv, PTL DEF ChatSpec

-----------------------------------------------------------------------------
(***************************************************************************)
(* What visitors are answered by, and what a failed publication leaves.    *)
(***************************************************************************)
LEMMA InvServes == ChatInv => ChatServed
<1> SUFFICES ASSUME ChatInv PROVE ChatServed
  OBVIOUS
<1>1. ChatTypeOK
  <2>1. Cardinality(ActiveRow) <= 1
    BY ActiveCount DEF ChatInv, RowsTyped, ActiveRow
  <2> QED
    BY <2>1 DEF ChatInv, Types, RowsTyped, ChatRows, Shareds, BundleStates, Runtimes, ChatTypeOK
<1>2. ASSUME ~Pending, ~amiss, runtime.chat # Nothing
      PROVE  /\ \E p \in Profiles : ActiveRow = {p} /\ runtime.chat = Chat(p, prof[p])
             /\ runtime.chat.model \in tested
  <2>1. PICK p \in Profiles : ActiveRow = {p} /\ runtime.chat = Chat(p, prof[p])
    BY <1>2 DEF ChatInv, Known, Serves, ActiveRow
  <2>2. prof[p] \in Row /\ prof[p] # Nothing /\ prof[p].active
    BY <2>1 DEF ActiveRow, ActiveIn, ChatInv, RowsTyped, ChatRows
  <2>3. runtime.chat.model = prof[p].model
    BY <2>1, <2>2, ChatIsChat
  <2>4. prof[p].model \in tested
    BY <1>2, <2>2 DEF ChatInv, Known, Sound
  <2> QED
    BY <2>1, <2>3, <2>4
<1>3. ASSUME ~Pending, ~amiss PROVE bundle.active # 0 => runtime.chat # Nothing
  BY <1>3 DEF ChatInv, Known, Pending
<1> QED
  BY <1>1, <1>2, <1>3 DEF ChatServed

LEMMA StepRestores == ChatInv /\ [ChatNext]_chatVars => [PublicationRestored]_chatVars
<1> SUFFICES ASSUME ChatInv, ChatNext, lane.step # "failed", lane'.step = "failed", ~amiss
             PROVE  PublicationRestored
  BY DEF PublicationRestored
<1>1. lane' # lane /\ lane' # NoLane
  BY Records
<1>2. LaneStep
  BY <1>1, OwnerTypes, Prepared
     DEF ChatInv, ChatNext, PollStep, PollHealth, PollRead, PollWrite, RestartChat
<1>3. Unselect \/ RestoreRuntime \/ (UndoRows /\ prof' = prof /\ lane'.stuck)
  BY <1>2, Begun, LaneMoves DEF ChatInv
<1>4. BeforeKnown /\ bundle' = bundle /\ bundle = lane.before.bundle /\ lane.old \in Runtimes
  BY <1>3 DEF Unselect, RestoreRuntime, UndoRows, ChatInv, Known, LaneKnown, Activating,
     FrozenKnown
<1>5. CASE RestoreRuntime
  <2>1. prof = lane.before.rows /\ prof' = prof /\ runtime' = lane.old
    BY <1>5 DEF RestoreRuntime, ChatInv, Known, LaneKnown
  <2> QED
    BY <1>4, <2>1 DEF PublicationRestored
<1>6. CASE Unselect
  <2>1. /\ prof = lane.before.rows /\ prof' = prof
        /\ runtime.object = lane.old.object /\ Reached(runtime.chat)
        /\ runtime' = Switched(lane.old.chat)
        /\ lane.p \in Profiles /\ lane.frozen \in Row
    BY <1>6 DEF Unselect, ChatInv, Known, LaneKnown, FrozenKnown, Activating
  <2>2. runtime.chat = Nothing => lane.old.chat = Nothing
    BY <2>1, ChatIsChat DEF Reached
  <2>3. runtime' = lane.old
    BY <1>4, <2>1, <2>2, BackToOld DEF ChatInv, Types
  <2> QED
    BY <1>4, <2>1, <2>3 DEF PublicationRestored
<1>7. CASE UndoRows /\ prof' = prof /\ lane'.stuck
  <2>1. /\ prof = Selected(lane.before.rows, lane.p) /\ Reached(runtime.chat)
        /\ runtime' = runtime
    BY <1>7 DEF UndoRows, ChatInv, Known, LaneKnown
  <2> QED
    BY <1>4, <1>7, <2>1 DEF PublicationRestored, Reached
<1> QED
  BY <1>3, <1>5, <1>6, <1>7

\* Whatever is published is answered, by the model of the one active row, which
\* has answered a probe: after commits that failed once the runtime was switched,
\* after publications that failed and were rolled back, in full or not, and after
\* restarts.
THEOREM AnswersAreServed == ChatSpec => []ChatServed
BY Invariance, InvServes, PTL

\* A publication that fails leaves the bundle, the profiles and the provider in
\* use as it found them; if the rows cannot be put back, rows and provider stay
\* switched together.
THEOREM FailureRestores == ChatSpec => FailedPublicationRestores
BY Invariance, StepRestores, PTL DEF ChatSpec, FailedPublicationRestores
=============================================================================
