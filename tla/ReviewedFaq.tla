----------------------------- MODULE ReviewedFaq -----------------------------
(***************************************************************************)
(* The reviewed questions (ReviewedFaq, admin/faq.py): rows of faq_entries *)
(* that the owner has generated, reworded and approved one by one, and     *)
(* that visitors are shown while their bundle is active.                   *)
(*                                                                         *)
(* Every request runs in a thread of its own (faq_operation, api/admin.py) *)
(* and reads, asks the provider and writes in several steps; a write names *)
(* the revision its owner has seen.  Rows do not depend on one another but *)
(* for the copies of a derived language, so one question is modelled, in   *)
(* the language it is written in and in one that is derived from it.  The  *)
(* languages a bundle supports are the same for all bundles here.          *)
(***************************************************************************)
EXTENDS Naturals, FiniteSets

CONSTANTS
  Owners,       \* requests of the owner that may be under way at a time
  Bundles,      \* validated bundles
  Texts,        \* answers the provider may give
  MaxRevision,  \* how often a row is written
  None

ASSUME MaxRevisionAssumption == MaxRevision \in Nat \ {0}

Entries == {"written", "derived"}
Variants == {"none", "more"}
Answers == [text : Texts, of : Bundles, in : Entries]
Rows == [bundle : Bundles, answer : Answers \cup {None}, variants : Variants,
         review : {"pending", "approved", "rejected"}, error : BOOLEAN, rev : 1..MaxRevision]

\* A missing row is not a row.
ASSUME NoneAssumption == None \notin Bundles /\ None \notin Rows

VARIABLES
  active,    \* the bundle manager's active bundle
  row,       \* the row of each language, or None
  call,      \* each request: its step and what it has read
  approved   \* history: what the owner saw when last approving each row

faqVars == <<active, row, call, approved>>

\* What a request carries: the revision and the bundle its owner has seen, the
\* bundle it has leased, the original it copies, and (history) the row shown.
NoCall == [step |-> "idle", kind |-> "none", entry |-> "written", rev |-> 0, of |-> None,
           bundle |-> None, copy |-> None, shown |-> None]

-----------------------------------------------------------------------------
(***************************************************************************)
(* The rows.                                                               *)
(***************************************************************************)
\* Mutant: an answer is shown until the owner rejects it.
ShownUnrejected(e, b) ==
  /\ row[e] # None /\ row[e].bundle = b
  /\ row[e].review # "rejected" /\ ~row[e].error /\ row[e].answer # None

\* public_payload_for_bundle: what a visitor of bundle b is shown, if anything.
ShownIn(e, b) ==
  /\ row[e] # None /\ row[e].bundle = b
  /\ row[e].review = "approved" /\ ~row[e].error /\ row[e].answer # None

Entry(e, r) == [entry |-> e, bundle |-> r.bundle, answer |-> r.answer, variants |-> r.variants]
Payload(b) == [e \in Entries |-> IF ShownIn(e, b) THEN Entry(e, row[e]) ELSE None]

Fresh(b) == [bundle |-> b, answer |-> None, variants |-> "none", review |-> "pending",
             error |-> FALSE, rev |-> 1]

\* _converted_values: a row in the derived language, with nothing decided.
Converted(r) ==
  [r EXCEPT !.answer = IF @ = None THEN None ELSE [@ EXCEPT !.in = "derived"],
            !.review = "pending"]

\* Mutant: the revision is not compared.
CurrentUnchecked(c, rev) == row[call[c].entry] # None

\* _update: the write of a request, unless the row has changed since.
Current(c, rev) == row[call[c].entry] # None /\ row[call[c].entry].rev = rev

Write(c, r) ==
  /\ row[call[c].entry].rev < MaxRevision
  /\ row' = [row EXCEPT ![call[c].entry] = [r EXCEPT !.rev = @ + 1]]

Mine(c) == row[call[c].entry]
At(c, kinds, step) == call[c].kind \in kinds /\ call[c].step = step
Goto(c, step) == call' = [call EXCEPT ![c].step = step]
End(c) == call' = [call EXCEPT ![c] = NoCall]
Unwritten == UNCHANGED <<active, row, approved>>

\* A write that finds another revision ends in FAQ_CONFLICT.
Conflict(c, rev) == ~Current(c, rev) /\ End(c) /\ Unwritten

-----------------------------------------------------------------------------
(***************************************************************************)
(* Requests.  The revision a request names is the one its owner has seen.  *)
(***************************************************************************)
Ask(c) ==
  /\ call[c] = NoCall
  /\ \E kind \in {"check", "regenerate", "variants", "approve", "reject"}, e \in Entries :
       /\ kind # "check" => row[e] # None
       /\ call' = [call EXCEPT ![c] =
            [NoCall EXCEPT !.step = "asked", !.kind = kind, !.entry = e,
                           !.rev = IF kind = "check" THEN 0 ELSE row[e].rev,
                           !.of = IF kind = "variants" THEN row[e].bundle ELSE None,
                           !.shown = IF kind = "approve" THEN Entry(e, row[e]) ELSE None]]
  /\ Unwritten

\* acquire_snapshot: the request works with the bundle that is active now.
Lease(c) ==
  /\ At(c, {"check", "variants"}, "asked") \/ At(c, {"regenerate"}, "answering")
  /\ call' = [call EXCEPT ![c].step = "leased", ![c].bundle = active]
  /\ Unwritten

\* initialize_queue: missing rows are added, a derived one as a copy.
Initialize(c) ==
  /\ At(c, {"check"}, "leased")
  /\ LET b == call[c].bundle
         written == IF row["written"] = None THEN Fresh(b) ELSE row["written"]
         derived == IF /\ call[c].entry = "derived" /\ row["derived"] = None
                       /\ written.bundle = b
                    THEN [Converted(written) EXCEPT !.rev = 1] ELSE row["derived"]
     IN row' = [e \in Entries |-> IF e = "written" THEN written ELSE derived]
  /\ End(c)
  /\ UNCHANGED <<active, approved>>

\* regenerate: the revision is compared once before anything is done.
Read(c) ==
  /\ At(c, {"regenerate"}, "asked")
  /\ IF Mine(c).rev # call[c].rev THEN End(c)
     ELSE Goto(c, IF call[c].entry = "derived" THEN "original" ELSE "withdraw")
  /\ Unwritten

\* A derived row takes the answer of the written one, if that is up to date.
ReadOriginal(c) ==
  /\ At(c, {"regenerate"}, "original")
  /\ LET original == row["written"] IN
     IF original # None /\ original.bundle = active /\ original.answer # None /\ ~original.error
     THEN call' = [call EXCEPT ![c].step = "copy",
                               ![c].copy = [bundle |-> original.bundle,
                                            answer |-> Converted(original).answer]]
     ELSE End(c)
  /\ Unwritten

\* The owner's wording of the question stays.
Copy(c) ==
  /\ At(c, {"regenerate"}, "copy")
  /\ \/ /\ Current(c, call[c].rev)
        /\ Write(c, [Mine(c) EXCEPT !.answer = call[c].copy.answer, !.bundle = call[c].copy.bundle,
                                    !.review = "pending", !.error = FALSE])
        /\ End(c)
        /\ UNCHANGED <<active, approved>>
     \/ Conflict(c, call[c].rev)

\* The old answer is withdrawn before the provider is asked.
Withdraw(c) ==
  /\ At(c, {"regenerate"}, "withdraw")
  /\ \/ /\ Current(c, call[c].rev)
        /\ Write(c, [Mine(c) EXCEPT !.answer = None, !.review = "pending", !.error = FALSE])
        /\ Goto(c, "answering")
        /\ UNCHANGED <<active, approved>>
     \/ Conflict(c, call[c].rev)

\* Mutant: the answer is filed under the bundle that is active when it arrives.
DeliverToActive(c) ==
  /\ At(c, {"regenerate"}, "leased")
  /\ \/ /\ Current(c, call[c].rev + 1)
        /\ \E t \in Texts :
             Write(c, [Mine(c) EXCEPT !.answer = [text |-> t, of |-> call[c].bundle, in |-> "written"],
                                      !.bundle = active])
        /\ End(c)
        /\ UNCHANGED <<active, approved>>
     \/ Conflict(c, call[c].rev + 1)

\* answer_for_review returns: the answer belongs to the bundle it was drawn from.
Deliver(c) ==
  /\ At(c, {"regenerate"}, "leased")
  /\ \/ /\ Current(c, call[c].rev + 1)
        /\ \E t \in Texts :
             Write(c, [Mine(c) EXCEPT !.answer = [text |-> t, of |-> call[c].bundle, in |-> "written"],
                                      !.bundle = call[c].bundle, !.review = "pending",
                                      !.error = FALSE])
        /\ End(c)
        /\ UNCHANGED <<active, approved>>
     \/ Conflict(c, call[c].rev + 1)

\* It raises: the row says so.
GenerationFails(c) ==
  /\ At(c, {"regenerate"}, "answering") \/ At(c, {"regenerate"}, "leased")
  /\ \/ /\ Current(c, call[c].rev + 1)
        /\ Write(c, [Mine(c) EXCEPT !.error = TRUE, !.review = "pending"])
        /\ End(c)
        /\ UNCHANGED <<active, approved>>
     \/ Conflict(c, call[c].rev + 1)

\* replace_variants: one transaction, for the bundle the owner has seen.
ReplaceVariants(c) ==
  /\ At(c, {"variants"}, "leased")
  /\ \/ /\ Current(c, call[c].rev)
        /\ Mine(c).bundle = call[c].of /\ call[c].of = call[c].bundle
        /\ \E v \in Variants : Write(c, [Mine(c) EXCEPT !.variants = v, !.review = "pending"])
        /\ UNCHANGED <<active, approved>>
     \/ /\ ~ (/\ Current(c, call[c].rev)
              /\ Mine(c).bundle = call[c].of /\ call[c].of = call[c].bundle)
        /\ Unwritten
  /\ End(c)

\* review: what the row holds is checked first, and then written.
Review(c) ==
  /\ At(c, {"approve", "reject"}, "asked")
  /\ IF \/ Mine(c).bundle # active
        \/ call[c].kind = "approve" /\ (Mine(c).answer = None \/ Mine(c).error)
     THEN End(c) ELSE Goto(c, "checked")
  /\ Unwritten

Decide(c) ==
  /\ At(c, {"approve", "reject"}, "checked")
  /\ \/ /\ Current(c, call[c].rev)
        /\ Write(c, [Mine(c) EXCEPT !.review = IF call[c].kind = "approve" THEN "approved"
                                               ELSE "rejected"])
        /\ approved' = IF call[c].kind = "approve"
                       THEN [approved EXCEPT ![call[c].entry] = call[c].shown] ELSE approved
        /\ End(c)
        /\ UNCHANGED active
     \/ Conflict(c, call[c].rev)

Request(c) ==
  \/ Ask(c) \/ Lease(c) \/ Initialize(c) \/ Read(c) \/ ReadOriginal(c) \/ Copy(c)
  \/ Withdraw(c) \/ Deliver(c) \/ GenerationFails(c) \/ ReplaceVariants(c)
  \/ Review(c) \/ Decide(c)

\* BundleManager activates a bundle, a new one or an earlier one.
Activate ==
  /\ \E b \in Bundles \ {active} : active' = b
  /\ UNCHANGED <<row, call, approved>>

\* The process stops and starts again: rows stay, requests are gone.
Restart ==
  /\ \E c \in Owners : call[c] # NoCall
  /\ call' = [c \in Owners |-> NoCall]
  /\ Unwritten

\* The rows are of an earlier run of the program: missing, waiting, or approved.
FaqInit ==
  /\ active \in Bundles
  /\ \E b \in Bundles, t \in Texts :
       LET answered(e) == [Fresh(b) EXCEPT !.answer = [text |-> t, of |-> b, in |-> e]]
           kept(e) == [answered(e) EXCEPT !.review = "approved"]
       IN \/ /\ row = [e \in Entries |-> None]
             /\ approved = [e \in Entries |-> None]
          \/ /\ row = [e \in Entries |-> kept(e)]
             /\ approved = [e \in Entries |-> Entry(e, kept(e))]
          \/ /\ row = [e \in Entries |-> answered(e)]
             /\ approved = [e \in Entries |-> None]
  /\ call = [c \in Owners |-> NoCall]

FaqNext == (\E c \in Owners : Request(c)) \/ Activate \/ Restart

FaqSpec == FaqInit /\ [][FaqNext]_faqVars

-----------------------------------------------------------------------------
(***************************************************************************)
(* Properties.                                                             *)
(***************************************************************************)
Seen == [entry : Entries, bundle : Bundles, answer : Answers, variants : Variants]

FaqTypeOK ==
  /\ active \in Bundles
  /\ row \in [Entries -> Rows \cup {None}]
  /\ approved \in [Entries -> Seen \cup {None}]
  /\ \A c \in Owners :
       /\ call[c].bundle \in Bundles \cup {None}
       /\ call[c].step # "idle" => call[c].kind = "check" \/ call[c].rev \in 1..MaxRevision

\* Visitors of the active bundle are shown what the owner has looked at and
\* approved, word for word, drawn from this bundle and in the language of the
\* page, whatever was regenerated, reworded or activated meanwhile.
ShownWasReviewed ==
  \A e \in Entries :
    ShownIn(e, active) =>
      /\ approved[e] = Entry(e, row[e])
      /\ row[e].answer.of = active /\ row[e].answer.in = e
=============================================================================
