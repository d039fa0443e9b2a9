---------------------------- MODULE PagesSharing ----------------------------
(***************************************************************************)
(* The public pages (sharing/pages.py, sharing/export.py): the owner       *)
(* exports the approved questions and the appearance of the active bundle  *)
(* as a site, puts it on GitHub Pages, lets the program verify what is     *)
(* served there, and takes a README that points to it.                     *)
(*                                                                         *)
(* Everything is read piece by piece from parts that go on changing: the   *)
(* bundle manager, the rows of ReviewedFaq, the appearance and the         *)
(* gateway's settings.  Each of the owner's windows sends either requests  *)
(* about questions or requests about the pages.  A page address stands for *)
(* its origin; the upload and GitHub Pages are outside the program.        *)
(***************************************************************************)
EXTENDS ReviewedFaq

CONSTANTS
  Urls,       \* addresses of the pages
  MaxChanges, \* how often the appearance or a setting changes
  MaxUploads  \* how often a site is put on GitHub Pages

ASSUME NoUrlAssumption == None \notin Urls
ASSUME SharingBoundsAssumption == MaxChanges \in Nat \ {0} /\ MaxUploads \in Nat

Chats == {"none", "live"}     \* the gateway's origin for live chat
Sites == [url : Urls, chat : Chats, bundle : Bundles, look : 0..MaxChanges,
          faq : [Entries -> Seen \cup {None}]]

VARIABLES
  desk,      \* what each window is used for
  look,      \* revision of the appearance that is applied
  gateway,   \* the gateway's settings: live chat, and the pages it admits
  pages,     \* the row of pages_sharing_state
  job,       \* the request of each window about the pages
  exported,  \* the last site exported, with the look when its questions were read
  readme,    \* the page and site of the last README handed out
  served,    \* what GitHub Pages serves at each address
  changes,   \* how often something was changed
  uploads    \* history: every <<address, site>> that was ever served

pagesVars == <<desk, look, gateway, pages, job, exported, readme, served, changes, uploads>>
siteVars == <<faqVars, pagesVars>>

NoJob == [step |-> "idle", kind |-> "none", row |-> None, chat |-> "none", bundle |-> None,
          look |-> 0, faq |-> [e \in Entries |-> None], at |-> 0, good |-> FALSE, round |-> 0]

-----------------------------------------------------------------------------
(***************************************************************************)
(* Settings.                                                               *)
(***************************************************************************)
\* _current_origins: no origins without an address, or with one not admitted.
Origins == pages.url # None /\ gateway.pages \in {None, pages.url}

\* The origins are those the request began with.
SameOrigins(c) ==
  Origins /\ pages.url = job[c].row.url /\ gateway.chat = job[c].chat

\* state: what the owner is told of the pages is what the request began with.
SameState(c) == pages = job[c].row /\ gateway.chat = job[c].chat

\* A bound: while one window works on questions, the other one only exports,
\* and the bundle or the appearance changes once.
AllPages == \A c \in Owners : desk[c] = "pages"
Change == changes < (IF AllPages THEN MaxChanges ELSE 1) /\ changes' = changes + 1

\* configure_pages: another address has not been verified.
ConfigurePages(u) ==
  /\ Change
  /\ gateway.pages \in {None, u}
  /\ u # pages.url
  /\ pages' = [url |-> u, verified |-> None]
  /\ UNCHANGED <<faqVars, desk, look, gateway, job, exported, readme, served, uploads>>

\* Visitor gateway settings; a change of appearance (SceneAppearance).
ConfigureGateway ==
  /\ \E chat \in Chats, u \in Urls \cup {None} :
       /\ chat = "none" <=> u = None
       /\ gateway' = [chat |-> chat, pages |-> u]
  /\ gateway' # gateway /\ Change
  /\ UNCHANGED <<faqVars, desk, look, pages, job, exported, readme, served, uploads>>

ApplyAppearance ==
  /\ Change /\ look' = look + 1
  /\ UNCHANGED <<faqVars, desk, gateway, pages, job, exported, readme, served, uploads>>

\* The owner puts the exported site on GitHub Pages.
Upload ==
  /\ exported # None /\ Cardinality(uploads) < MaxUploads
  /\ LET site == exported.site IN
       /\ served[site.url] # site
       /\ served' = [served EXCEPT ![site.url] = site]
       /\ uploads' = uploads \cup {<<site.url, site>>}
  /\ UNCHANGED <<faqVars, desk, look, gateway, pages, job, exported, readme, changes>>

-----------------------------------------------------------------------------
(***************************************************************************)
(* build_site_files, which every request about the pages goes through.     *)
(***************************************************************************)
Site(c) == [url |-> job[c].row.url, chat |-> job[c].chat, bundle |-> job[c].bundle,
            look |-> job[c].look, faq |-> job[c].faq]

OnPages(c, step) == desk[c] = "pages" /\ job[c].step = step
Only(c, j) == job' = [job EXCEPT ![c] = j]
Elsewhere == UNCHANGED <<faqVars, desk, look, gateway, served, changes, uploads>>
NothingKept == Elsewhere /\ UNCHANGED <<pages, exported, readme>>

\* A request that cannot go on ends; a verification is first taken back.
GiveUp(c) == Only(c, IF job[c].kind = "verify" THEN [NoJob EXCEPT !.step = "failed", !.kind = "verify"]
                     ELSE NoJob)

Kinds == IF AllPages THEN {"export", "verify", "readme"} ELSE {"export"}

\* The row and the origins are read; a README needs a verified page.
BeginJob(c) ==
  /\ OnPages(c, "idle")
  /\ Origins
  /\ \E kind \in Kinds :
       /\ kind = "readme" => pages.verified # None
       /\ Only(c, [NoJob EXCEPT !.step = "capture", !.kind = kind, !.row = pages,
                                !.chat = gateway.chat, !.round = 1])
  /\ NothingKept

\* The bundle is leased and its appearance read.
Capture(c) ==
  /\ OnPages(c, "capture")
  /\ IF SameOrigins(c)
     THEN Only(c, [job[c] EXCEPT !.step = "questions", !.bundle = active, !.look = look])
     ELSE GiveUp(c)
  /\ NothingKept

\* _add_public_documents: all languages in one read transaction.
ReadQuestions(c) ==
  /\ OnPages(c, "questions")
  /\ IF active = job[c].bundle
     THEN Only(c, [job[c] EXCEPT !.step = "recheck", !.faq = Payload(active), !.at = look])
     ELSE GiveUp(c)
  /\ NothingKept

\* What is done with a site that has been built.
Built(c) ==
  CASE job[c].kind = "export" ->
         /\ exported' = [site |-> Site(c), at |-> job[c].at]
         /\ Only(c, NoJob) /\ UNCHANGED <<pages, readme>>
    [] job[c].kind = "verify" ->
         /\ Only(c, [job[c] EXCEPT !.step = "entrance"]) /\ UNCHANGED <<pages, exported, readme>>
    [] job[c].kind = "readme" /\ job[c].round = 1 ->
         /\ IF Site(c) = job[c].row.verified THEN Only(c, [job[c] EXCEPT !.step = "card"])
            ELSE GiveUp(c)
         /\ UNCHANGED <<pages, exported, readme>>
    [] OTHER ->
         /\ Only(c, NoJob) /\ UNCHANGED <<pages, exported>>
         /\ readme' = IF Site(c) = job[c].row.verified /\ SameState(c)
                      THEN [url |-> pages.url, site |-> Site(c)] ELSE readme

\* Mutant: the appearance is not read again.
RecheckNoLook(c) ==
  /\ OnPages(c, "recheck")
  /\ IF active = job[c].bundle /\ SameOrigins(c)
     THEN Built(c) ELSE GiveUp(c) /\ UNCHANGED <<pages, exported, readme>>
  /\ Elsewhere

\* Bundle, origins and appearance are compared with those the site was made of.
Recheck(c) ==
  /\ OnPages(c, "recheck")
  /\ IF active = job[c].bundle /\ SameOrigins(c) /\ look = job[c].look
     THEN Built(c) ELSE GiveUp(c) /\ UNCHANGED <<pages, exported, readme>>
  /\ Elsewhere

-----------------------------------------------------------------------------
(***************************************************************************)
(* verify and readme: the pages are fetched, one file after the other.     *)
(***************************************************************************)
Index(site) == [url |-> site.url, chat |-> site.chat, bundle |-> site.bundle, look |-> site.look]

FetchEntrance(c) ==
  /\ OnPages(c, "entrance")
  /\ LET site == served[job[c].row.url]
         good == site # None /\ Index(site) = Index(Site(c))
     IN Only(c, [job[c] EXCEPT !.step = "manifest", !.good = good])
  /\ NothingKept

\* Mutant: a page that answers will do.
FetchAnyManifest(c) ==
  /\ OnPages(c, "manifest")
  /\ IF served[job[c].row.url] # None /\ SameOrigins(c)
     THEN Only(c, [job[c] EXCEPT !.step = "record"]) ELSE GiveUp(c)
  /\ NothingKept

\* The manifest names the contents of every file.
FetchManifest(c) ==
  /\ OnPages(c, "manifest")
  /\ IF job[c].good /\ served[job[c].row.url] = Site(c) /\ SameOrigins(c)
     THEN Only(c, [job[c] EXCEPT !.step = "record"]) ELSE GiveUp(c)
  /\ NothingKept

\* Mutant: written for whatever address is configured now.
RecordForAny(c) ==
  /\ OnPages(c, "record")
  /\ pages' = [pages EXCEPT !.verified = Site(c)]
  /\ Only(c, NoJob)
  /\ Elsewhere /\ UNCHANGED <<exported, readme>>

\* The verification is written if the address is still the configured one.
Record(c) ==
  /\ OnPages(c, "record")
  /\ pages' = IF pages.url = job[c].row.url THEN [pages EXCEPT !.verified = Site(c)] ELSE pages
  /\ Only(c, NoJob)
  /\ Elsewhere /\ UNCHANGED <<exported, readme>>

\* _clear_verification, whichever address is configured now.
ClearVerification(c) ==
  /\ OnPages(c, "failed")
  /\ pages' = [pages EXCEPT !.verified = None]
  /\ Only(c, NoJob)
  /\ Elsewhere /\ UNCHANGED <<exported, readme>>

\* readme: the picture on the page is that of the site, and nothing has
\* changed here; the site is then built a second time.
FetchCard(c) ==
  /\ OnPages(c, "card")
  /\ LET site == served[job[c].row.url] IN
     IF /\ site # None /\ site.bundle = job[c].bundle /\ SameState(c)
     THEN Only(c, [job[c] EXCEPT !.step = "capture", !.round = 2]) ELSE GiveUp(c)
  /\ NothingKept

PagesRequest(c) ==
  \/ BeginJob(c) \/ Capture(c) \/ ReadQuestions(c) \/ Recheck(c)
  \/ FetchEntrance(c) \/ FetchManifest(c) \/ Record(c) \/ ClearVerification(c) \/ FetchCard(c)

\* The process stops: the requests of all windows are gone.
RestartAll ==
  /\ \E c \in Owners : call[c] # NoCall \/ job[c] # NoJob
  /\ call' = [c \in Owners |-> NoCall] /\ job' = [c \in Owners |-> NoJob]
  /\ Unwritten
  /\ UNCHANGED <<desk, look, gateway, pages, exported, readme, served, changes, uploads>>

\* Another bundle is activated; a bound: as one of the changes.
PagesUsed == \E c \in Owners : desk[c] = "pages"
ActivateElsewhere ==
  /\ Activate
  /\ IF PagesUsed THEN Change ELSE UNCHANGED changes
  /\ UNCHANGED <<desk, look, gateway, pages, job, exported, readme, served, uploads>>

\* The pages are only of interest once questions are approved.
Init ==
  /\ FaqInit
  /\ desk \in [Owners -> {"questions", "pages"}]
  /\ PagesUsed => \A e \in Entries : approved[e] # None
  /\ look = 0 /\ gateway = [chat |-> "none", pages |-> None]
  /\ (\E u \in Urls : pages = [url |-> u, verified |-> None])
  /\ job = [c \in Owners |-> NoJob]
  /\ exported = None /\ readme = None
  /\ served = [u \in Urls |-> None] /\ uploads = {} /\ changes = 0


Next ==
  \/ \E c \in Owners : desk[c] = "questions" /\ Request(c) /\ UNCHANGED pagesVars
  \/ ActivateElsewhere
  \/ \E c \in Owners : PagesRequest(c)
  \/ AllPages /\ \E u \in Urls : ConfigurePages(u)
  \/ AllPages /\ ConfigureGateway
  \/ PagesUsed /\ ApplyAppearance
  \/ AllPages /\ Upload
  \/ RestartAll

Spec == Init /\ [][Next]_siteVars

-----------------------------------------------------------------------------
(***************************************************************************)
(* Properties.                                                             *)
(***************************************************************************)
TypeOK ==
  /\ FaqTypeOK
  /\ look \in 0..MaxChanges /\ pages \in [url : Urls \cup {None}, verified : Sites \cup {None}]
  /\ exported # None => exported.site \in Sites
  /\ readme # None => readme.site \in Sites
  /\ \A u \in Urls : served[u] \in Sites \cup {None}

\* A site that leaves the program is of one moment: its pictures and colours
\* are those that were applied when its questions were read, and every answer
\* in it was drawn from its bundle and is in the language of its page.
SiteIsOfOneMoment ==
  /\ TypeOK
  /\ exported # None =>
    LET site == exported.site IN
      /\ site.look = exported.at
      /\ \A e \in Entries : site.faq[e] # None =>
           /\ site.faq[e].bundle = site.bundle /\ site.faq[e].answer.of = site.bundle
           /\ site.faq[e].answer.in = e

\* A page that is shown as verified is the configured one and has really
\* served this site, and so has the page of a README; it does not matter
\* what was configured, uploaded or verified at the same time.
VerifiedWasServed ==
  /\ pages.verified # None => /\ pages.verified.url = pages.url
                              /\ <<pages.url, pages.verified>> \in uploads
  /\ readme # None => <<readme.url, readme.site>> \in uploads
=============================================================================
