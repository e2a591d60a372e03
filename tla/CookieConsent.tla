---------------------------- MODULE CookieConsent ----------------------------
(***************************************************************************)
(* The consent to cookies (CookieConsentService, CookieBannerComponent):   *)
(* several tabs share the memos of the consent, the entries that need it   *)
(* and one service worker, and each keeps in memory what its user last     *)
(* accepted and which third-party code it has let in.  The registration of *)
(* the service worker and its removal are asynchronous, and the removal    *)
(* first lists what is there, which the page that asks must live to see.   *)
(* A panel on the cookie policy and the banner edit the same choice.       *)
(* Technical entries, which need no consent, are left out.                 *)
(***************************************************************************)
EXTENDS Naturals, FiniteSets

CONSTANTS
  Browsers,    \* the tabs
  Tracking,    \* the categories Global Privacy Control refuses: analytics, profiling
  MaxChoices   \* bound: what the users do

VARIABLES
  gpc,         \* gpcSignaled
  webApp,      \* SiteConfig.isWebApp
  needed,      \* the categories some entry of the site belongs to
  memo,        \* the cookies that remember the consent
  entry,       \* the categories with an entry stored in the browser
  late,        \* history: those written by a tab that had not heard of a refusal
  foreign,     \* history: those a third party has written to
  sw,          \* a service worker is registered
  stray,       \* history: why a refusal may have left it there, see Strays
  jobs,        \* the asynchronous calls about it, with the tab that made them
  tabView,     \* each tab, see ViewState
  choices      \* counts what MaxChoices bounds

cookieVars == <<gpc, webApp, needed, memo, entry, late, foreign, sw, stray, jobs, tabView, choices>>

Tech == "technicalOptional"
Categories == {Tech} \union Tracking
JobKinds == {"whenStable", "lookup", "register", "enumerate", "unregister"}
\* It was registered after the consent was withdrawn, or the page that was about to
\* remove it went before it knew of it.
Strays == {"none", "registered", "closed"}

\* open, what is accepted in memory, responded, the switches of the banner, the
\* panel with its switches, whether the user has touched them, justSaved, and the
\* categories whose third-party code runs in the page
ViewState ==
  [open : BOOLEAN, accepted : SUBSET Categories, responded : BOOLEAN, banner : SUBSET Categories,
   panel : BOOLEAN, pending : SUBSET Categories, touched : BOOLEAN, justSaved : BOOLEAN,
   loaded : SUBSET Categories]
ClosedTab == [open |-> FALSE, accepted |-> {}, responded |-> FALSE, banner |-> {},
           panel |-> FALSE, pending |-> {}, touched |-> FALSE, justSaved |-> FALSE, loaded |-> {}]

CookieInit ==
  /\ gpc \in BOOLEAN /\ webApp \in BOOLEAN
  /\ needed \in SUBSET Categories \ {{}} /\ (webApp => Tech \in needed)
  /\ memo = [c \in Categories |-> "none"] /\ entry = {} /\ late = {} /\ foreign = {}
  /\ sw = FALSE /\ stray = "none" /\ jobs = {}
  /\ tabView = [t \in Browsers |-> ClosedTab] /\ choices = 0

Choice == choices < MaxChoices /\ choices' = choices + 1

\* isCategoryAccepted, for the categories that need consent
Accepted(t, c) == c \in tabView[t].accepted

\* A slip in which a refusal leaves the entries of the browser.
KeepRevoked(accepted) == UNCHANGED <<entry, late, foreign>>
\* clearRevokedCookies: what the site wrote goes; of what a third party wrote under a
\* Domain of its own, what remove() happens to reach.
ClearRevoked(accepted) ==
  \E kept \in SUBSET (foreign \ accepted) :
    /\ entry' = (entry \intersect accepted) \union kept
    /\ late' = late \intersect accepted
    /\ foreign' = (foreign \intersect accepted) \union kept

\* The calls that go on without the page that made them: those the browser has.
Outlive(t) == {j \in jobs : j.tab # t \/ j.kind \in {"register", "unregister"}}

\* The service worker follows the choice: a refusal lists the registrations to remove
\* them, at the start of the page (fresh) too; an acceptance looks whether it is there;
\* a start with the consent given registers it when the page is stable
\* (provideServiceWorker).
Align(t, accepted, fresh) ==
  LET on == webApp /\ Tech \in accepted IN
  /\ jobs' = (IF fresh THEN Outlive(t) ELSE jobs) \union
       {[tab |-> t, kind |-> IF ~on THEN "enumerate" ELSE IF fresh THEN "whenStable" ELSE "lookup"]}
  /\ stray' = IF on THEN stray ELSE "none"

\* applyGpcOptOut: the signal refuses what the user has not answered.
Answered ==
  [c \in Categories |-> IF gpc /\ c \in needed \intersect Tracking /\ memo[c] = "none" THEN "no" ELSE memo[c]]

\* A page starts in a tab, or is reloaded in it.
Boot(t) ==
  /\ Choice
  /\ memo' = Answered
  /\ LET accepted == {c \in needed : Answered[c] = "yes"} IN
       /\ tabView' = [tabView EXCEPT ![t] = [ClosedTab EXCEPT !.open = TRUE, !.accepted = accepted, !.banner = accepted,
                                         !.responded = \A c \in needed : Answered[c] # "none"]]
       /\ ClearRevoked(accepted)
       /\ Align(t, accepted, TRUE)
  /\ UNCHANGED <<gpc, webApp, needed, sw>>

CloseTab(t) ==
  /\ Choice /\ tabView[t].open
  /\ tabView' = [tabView EXCEPT ![t] = ClosedTab]
  /\ jobs' = Outlive(t)
  /\ stray' = IF [tab |-> t, kind |-> "enumerate"] \in jobs THEN "closed" ELSE stray
  /\ UNCHANGED <<gpc, webApp, needed, memo, entry, late, foreign, sw>>

\* The effect of the panel: after an answer its switches are what is accepted.
PanelFollows(v) == [v EXCEPT !.pending = v.accepted, !.touched = FALSE]

\* saveSelected, then persistConsent: the memos, the service worker, the entries
SaveConsent(t, selected, fromPanel) ==
  /\ Choice
  /\ LET accepted == selected \intersect needed
         v == tabView[t]
     IN
       /\ tabView' = [tabView EXCEPT ![t] = PanelFollows([v EXCEPT !.accepted = accepted, !.responded = TRUE,
                     !.banner = IF fromPanel THEN v.banner ELSE accepted,
                     !.pending = IF fromPanel THEN accepted ELSE v.pending,
                     !.justSaved = fromPanel \/ v.justSaved])]
       /\ memo' = [c \in Categories |-> IF c \notin needed THEN "none" ELSE IF c \in accepted THEN "yes" ELSE "no"]
       /\ Align(t, accepted, FALSE)
       /\ ClearRevoked(accepted)
  /\ UNCHANGED <<gpc, webApp, needed, sw>>

\* Accept all, reject all (the X of the banner too) or the switches as they are; the
\* banner is there until an answer, the panel while its page is.
Respond(t) ==
  \/ /\ tabView[t].open /\ ~tabView[t].responded
     /\ \E selected \in {needed, {}, tabView[t].banner} : SaveConsent(t, selected, FALSE)
  \/ /\ tabView[t].panel
     /\ \E selected \in {needed, {}, tabView[t].pending} : SaveConsent(t, selected, TRUE)

\* setPending, in the banner or in the panel
Switch(t) ==
  /\ Choice
  /\ \E c \in needed :
       \/ /\ tabView[t].open /\ ~tabView[t].responded
          /\ tabView' = [tabView EXCEPT ![t].banner = (@ \union {c}) \ (@ \intersect {c})]
       \/ /\ tabView[t].panel
          /\ tabView' = [tabView EXCEPT ![t].pending = (@ \union {c}) \ (@ \intersect {c}), ![t].touched = TRUE,
                                  ![t].justSaved = FALSE]
  /\ UNCHANGED <<gpc, webApp, needed, memo, entry, late, foreign, sw, stray, jobs>>

Reopen(t) ==
  /\ Choice /\ tabView[t].open /\ tabView[t].responded /\ ~tabView[t].panel
  /\ tabView' = [tabView EXCEPT ![t].responded = FALSE, ![t].banner = tabView[t].accepted]
  /\ UNCHANGED <<gpc, webApp, needed, memo, entry, late, foreign, sw, stray, jobs>>

\* The page with the panel comes, or goes.
Visit(t) ==
  /\ Choice /\ tabView[t].open
  /\ tabView' = [tabView EXCEPT ![t].panel = ~@, ![t].pending = IF tabView[t].panel THEN {} ELSE tabView[t].accepted,
                          ![t].touched = FALSE, ![t].justSaved = FALSE]
  /\ UNCHANGED <<gpc, webApp, needed, memo, entry, late, foreign, sw, stray, jobs>>

\* set(), by a feature of the page, which may let third-party code in
Write(t, c) ==
  /\ Choice /\ tabView[t].open /\ Accepted(t, c)
  /\ entry' = entry \union {c}
  /\ late' = IF memo[c] = "no" THEN late \union {c} ELSE late
  /\ tabView' = [tabView EXCEPT ![t].loaded = @ \union {c}]
  /\ UNCHANGED <<gpc, webApp, needed, memo, foreign, sw, stray, jobs>>

\* That code writes on its own, after a refusal too, until the page goes.
SdkWrites(t, c) ==
  /\ Choice /\ tabView[t].open /\ c \in tabView[t].loaded
  /\ entry' = entry \union {c} /\ foreign' = foreign \union {c}
  /\ UNCHANGED <<gpc, webApp, needed, memo, late, sw, stray, jobs, tabView>>

\* The memos last 180 days, and the user may delete one before.
Forget(c) ==
  /\ Choice /\ memo[c] # "none"
  /\ memo' = [memo EXCEPT ![c] = "none"]
  /\ UNCHANGED <<gpc, webApp, needed, entry, late, foreign, sw, stray, jobs, tabView>>

\* What follows a call that ends: a list with a registration is followed by its
\* removal, a look that finds none and a stable page by a registration.
Follows(j) ==
  IF j.kind = "enumerate" /\ sw THEN {[j EXCEPT !.kind = "unregister"]}
  ELSE IF j.kind = "whenStable" \/ (j.kind = "lookup" /\ ~sw) THEN {[j EXCEPT !.kind = "register"]}
  ELSE {}

\* The calls about the service worker end, in any order.
JobEnds(j) ==
  /\ jobs' = (jobs \ {j}) \union Follows(j)
  /\ sw' = CASE j.kind = "register" -> TRUE [] j.kind = "unregister" -> FALSE [] OTHER -> sw
  /\ stray' = CASE j.kind = "register" -> (IF memo[Tech] = "yes" THEN "none" ELSE "registered")
              [] j.kind = "unregister" -> "none"
              [] OTHER -> stray
  /\ UNCHANGED <<gpc, webApp, needed, memo, entry, late, foreign, tabView, choices>>

CookieNext ==
  \/ \E t \in Browsers :
       \/ Boot(t) \/ CloseTab(t) \/ Respond(t) \/ Switch(t) \/ Reopen(t) \/ Visit(t)
       \/ \E c \in Categories : Write(t, c) \/ SdkWrites(t, c)
  \/ \E c \in Categories : Forget(c)
  \/ \E j \in jobs : JobEnds(j)

CookieSpec == CookieInit /\ [][CookieNext]_cookieVars

-----------------------------------------------------------------------------
(* Properties *)

CookieTypeOK ==
  /\ gpc \in BOOLEAN /\ webApp \in BOOLEAN /\ sw \in BOOLEAN /\ stray \in Strays
  /\ needed \subseteq Categories /\ late \union foreign \subseteq entry /\ entry \subseteq needed
  /\ memo \in [Categories -> {"none", "yes", "no"}]
  /\ jobs \subseteq [tab : Browsers, kind : JobKinds]
  /\ tabView \in [Browsers -> ViewState]
  /\ \A t \in Browsers : tabView[t].accepted \union tabView[t].loaded \subseteq needed /\ (~tabView[t].open => tabView[t] = ClosedTab)

\* After a refusal no entry of the category is left, also when the refusal came from
\* the signal of the browser over entries an expired consent had left behind: but for
\* what a tab that has not heard of the refusal writes, until the next start, and for
\* what a third party has written, which the site cannot surely remove (remove()).
EntriesNeedConsent ==
  \A c \in entry : memo[c] = "no" => c \in late \union foreign

\* A service worker that is there against a refusal, with no call to remove it under
\* way, is one whose registration ended after the refusal, or one that the page closed
\* too early to remove.
SwNeedsConsent ==
  sw /\ memo[Tech] = "no" /\ (\A j \in jobs : j.kind \notin {"enumerate", "unregister"}) => stray # "none"

\* The panel says what is saved: until its user touches a switch, and whenever it
\* says so, its switches are the consent of the tab, wherever that was given.
PanelShowsSaved ==
  \A t \in Browsers : tabView[t].panel /\ (tabView[t].justSaved \/ ~tabView[t].touched) => tabView[t].pending = tabView[t].accepted

\* A refusal holds in the storage, for the service worker and in what the panel shows,
\* in every tab, but for the exceptions named above (cookie-consent.service.ts).
ConsentSafe == CookieTypeOK /\ EntriesNeedConsent /\ SwNeedsConsent /\ PanelShowsSaved

\* "allinea lo stato del SW al flag isWebApp e al consenso TechnicalOptional": with
\* every call ended, no service worker is registered against a refusal.
SwFollowsConsent ==
  sw /\ jobs = {} => memo[Tech] # "no"
=============================================================================
