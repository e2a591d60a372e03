----------------------------- MODULE PagePopups -----------------------------
(***************************************************************************)
(* What one browser page puts over itself, and who waits for it.           *)
(* SweetAlert2 shows one popup at a time: a new one dismisses the one that *)
(* is open, whoever waits for its answer, and every call of                *)
(* NotificationService waits first for the library.  Bootstrap modals are  *)
(* stacked and ask before they close.  The popups are asked for by the     *)
(* modals, by the guard of unsaved changes (LeaveGuardService), by the     *)
(* check of the version (VersionCheckService), by work with a spinner and  *)
(* by plain messages.                                                      *)
(***************************************************************************)
EXTENDS Naturals, Sequences, SequencesExt, FilteredSequences

CONSTANTS
  Modals,     \* the modals the page may open
  Guarded,    \* those of them with a canClose, which asks the user
  NumEditors, \* the editors registered with the leave guard, asked in this order
  MaxNavs,    \* bound: navigations
  MaxPolls,   \* bound: polls of the version under way
  MaxMoves,   \* bound: things the user and the application start
  Overrides   \* what onVersionUpdateAvailable may do: none, throws, rejects, holds

ASSUME PopupAssumption ==
  /\ {NumEditors, MaxNavs, MaxPolls, MaxMoves} \subseteq Nat
  /\ Overrides \subseteq {"none", "throws", "rejects", "holds"}

VARIABLES
  swal,       \* the chunk of SweetAlert2: absent, here or failed
  calls,      \* the calls of NotificationService that wait for it, in order
  popup,      \* the popup on the page
  boot,       \* the chunk of Bootstrap's Modal is here
  modal,      \* each modal, see ModalState
  hosts,      \* openModalHosts
  nav,        \* the leave guard of each navigation, see NavState
  last,       \* the last navigation: the router drops the answer of the others
  dirty,      \* the editors with changes to save
  typed,      \* history: the navigation during or after which each editor was last typed in
  consent,    \* history: the editors that let each navigation go on
  version,    \* VersionCheckService, see VersionState
  postponer,  \* history: who ended the last update dialog that was not accepted
  working,    \* calls of promise() under way
  started     \* counts what MaxMoves bounds

popupVars == <<swal, calls, popup, boot, modal, hosts, nav, last, dirty, typed, consent, version,
               postponer, working, started>>

Navs == 1..MaxNavs
Editors == 1..NumEditors
Owners == [role : {"page", "version"}, of : {0}] \union [role : {"modal"}, of : Modals]
            \union [role : {"nav"}, of : Navs]
Page == [role |-> "page", of |-> 0]
Updater == [role |-> "version", of |-> 0]
Closing(m) == [role |-> "modal", of |-> m]
Leaving(n) == [role |-> "nav", of |-> n]

\* A popup, or a call that opens it; "none" is no popup, or a call that closes.
Fire(kind, owner) == [kind |-> kind, owner |-> owner]
Close == Fire("none", Page)
Kinds == {"none", "message", "toast", "loading", "question"}
Body == "body"
NoPopup == [kind |-> "none", owner |-> Page, host |-> Body]

ModalState ==
  [phase : {"new", "waiting", "opening", "shown", "closing", "gone"},
   allowed : BOOLEAN, checking : BOOLEAN, hideAsked : BOOLEAN]
NavState == [phase : {"none", "asking", "saving", "passed", "refused", "ended"}, at : 0..NumEditors]
VersionState ==
  [shown : BOOLEAN, sub : BOOLEAN, inFlight : 0..MaxPolls, source : {"sw", "poll"},
   step : {"idle", "asking", "rejecting", "held", "activating", "reloading", "kept", "stuck", "reloaded"}]

PopupInit ==
  /\ swal = "absent" /\ calls = <<>> /\ popup = NoPopup
  /\ boot = FALSE /\ hosts = <<>>
  /\ modal = [m \in Modals |-> [phase |-> "new", allowed |-> FALSE, checking |-> FALSE, hideAsked |-> FALSE]]
  /\ nav = [n \in Navs |-> [phase |-> "none", at |-> 0]] /\ last = 0
  /\ dirty = {} /\ typed = [i \in Editors |-> 0] /\ consent = [n \in Navs |-> {}]
  /\ postponer = "nobody"
  /\ version = [shown |-> FALSE, sub |-> TRUE, inFlight |-> 0, source |-> "poll", step |-> "idle"]
  /\ working = 0 /\ started = 0

\* The calls run in microtasks once the library is here or has failed: nothing
\* else happens before they have all run, nor after the page is reloaded.
Quiet == (calls = <<>> \/ swal = "absent") /\ version.step # "reloaded"
Move == Quiet /\ started < MaxMoves /\ started' = started + 1
Blocking == popup.kind \notin {"none", "toast"}
Say(cs) == calls' = calls \o cs

-----------------------------------------------------------------------------
(* NotificationService: the one popup *)

Top == IF hosts = <<>> THEN Body ELSE Last(hosts)

Postponed(v) == [v EXCEPT !.shown = FALSE, !.sub = FALSE, !.step = "idle"]

\* The popup of an owner closes unaccepted: the promise of its question says no.
Refused(o) ==
  /\ modal' = IF o.role = "modal" THEN [modal EXCEPT ![o.of].checking = FALSE] ELSE modal
  /\ nav' = IF o.role = "nav" THEN [nav EXCEPT ![o.of].phase = "refused"] ELSE nav
  /\ version' = IF o.role = "version" THEN Postponed(version) ELSE version

ImportEnds ==
  /\ calls # <<>> /\ swal = "absent"
  /\ swal' \in {"here", "failed"}
  /\ UNCHANGED <<calls, popup, boot, modal, hosts, nav, last, dirty, typed, consent, version, postponer, working, started>>

\* The next call that waited: it dismisses the popup that is open, and opens its
\* own in the modal on top.
RunCall ==
  /\ calls # <<>> /\ swal = "here"
  /\ calls' = Tail(calls)
  /\ Refused(popup.owner)
  /\ postponer' = IF popup.owner = Updater THEN "another popup" ELSE postponer
  /\ popup' = [kind |-> Head(calls).kind, owner |-> Head(calls).owner,
               host |-> IF Head(calls) = Close THEN Body ELSE Top]
  /\ UNCHANGED <<swal, boot, hosts, last, dirty, typed, consent, working, started>>

\* Without the library the promise of the call is rejected: canClose and the guard
\* fail, and the update dialog that could not open is never taken back.
CallRejected ==
  /\ calls # <<>> /\ swal = "failed"
  /\ calls' = Tail(calls)
  /\ LET o == Head(calls).owner IN
       /\ modal' = IF o.role = "modal" THEN [modal EXCEPT ![o.of].checking = FALSE] ELSE modal
       /\ nav' = IF o.role = "nav" THEN [nav EXCEPT ![o.of].phase = "refused"] ELSE nav
       /\ version' = IF o = Updater THEN [version EXCEPT !.step = "stuck"] ELSE version
  /\ UNCHANGED <<swal, popup, boot, hosts, last, dirty, typed, consent, postponer, working, started>>

\* Escape, a click outside, the button that cancels, OK on a message, or the timer
\* of a toast.
Dismiss ==
  /\ Quiet /\ popup.kind # "none"
  /\ Refused(popup.owner)
  /\ postponer' = IF popup.owner = Updater THEN "the user" ELSE postponer
  /\ popup' = NoPopup
  /\ UNCHANGED <<swal, calls, boot, hosts, last, dirty, typed, consent, working, started>>

\* success, error, alert, validationErrors, toast
Message(kind) ==
  /\ Move
  /\ Say(<<Fire(kind, Page)>>)
  /\ UNCHANGED <<swal, popup, boot, modal, hosts, nav, last, dirty, typed, consent, version, postponer, working>>

\* promise(): the spinner, then it closes and a toast may follow; a failed request
\* has shown its own error before.
WorkBegins ==
  /\ Move
  /\ working' = working + 1
  /\ Say(<<Fire("loading", Page)>>)
  /\ UNCHANGED <<swal, popup, boot, modal, hosts, nav, last, dirty, typed, consent, version, postponer>>

Outcomes == {<<Close>>, <<Close, Fire("toast", Page)>>, <<Fire("message", Page), Close, Fire("toast", Page)>>,
             <<Fire("message", Page), Close>>}

WorkEnds ==
  /\ Quiet /\ working > 0
  /\ working' = working - 1
  /\ \E cs \in Outcomes : Say(cs)
  /\ UNCHANGED <<swal, popup, boot, modal, hosts, nav, last, dirty, typed, consent, version, postponer, started>>

-----------------------------------------------------------------------------
(* NotificationService.modal *)

\* A slip in which a modal that is opening is told to close at once: Bootstrap
\* does not listen.
HiddenAtOnce(md) ==
  CASE md.phase = "waiting" -> [md EXCEPT !.phase = "gone"]
    [] md.phase = "shown" -> [md EXCEPT !.phase = "closing"]
    [] OTHER -> md
\* hide(): a modal without its library goes at once, one that is opening later.
Hidden(md) ==
  CASE md.phase = "waiting" -> [md EXCEPT !.phase = "gone"]
    [] md.phase = "shown" -> [md EXCEPT !.phase = "closing"]
    [] md.phase = "opening" -> [md EXCEPT !.hideAsked = TRUE]
    [] OTHER -> md
Allowed(md) == Hidden([md EXCEPT !.allowed = TRUE])

\* A slip of the teardown: the popup inside the modal goes with it.
TornWithPopup(md) ==
  /\ modal' = md
  /\ hosts' = Among(hosts, {m \in Modals : md[m].phase # "gone"})
  /\ popup' = IF popup.host \in Modals /\ md[popup.host].phase = "gone" THEN NoPopup ELSE popup

\* What the modals become, with the teardown of those that go: a popup inside one
\* of them moves to the body.
Become(md) ==
  /\ modal' = md
  /\ hosts' = Among(hosts, {m \in Modals : md[m].phase # "gone"})
  /\ popup' = IF popup.host \in Modals /\ md[popup.host].phase = "gone" THEN [popup EXCEPT !.host = Body] ELSE popup

OpenModal(m) ==
  /\ Move /\ modal[m].phase = "new"
  /\ hosts' = Append(hosts, m)
  /\ modal' = [modal EXCEPT ![m].phase = IF boot THEN "opening" ELSE "waiting"]
  /\ UNCHANGED <<swal, calls, popup, boot, nav, last, dirty, typed, consent, version, postponer, working>>

BootArrives ==
  /\ Quiet /\ ~boot /\ \E m \in Modals : modal[m].phase # "new"
  /\ boot' = TRUE
  /\ modal' = [m \in Modals |-> IF modal[m].phase = "waiting" THEN [modal[m] EXCEPT !.phase = "opening"] ELSE modal[m]]
  /\ UNCHANGED <<swal, calls, popup, hosts, nav, last, dirty, typed, consent, version, postponer, working, started>>

ModalShown(m) ==
  /\ Quiet /\ modal[m].phase = "opening"
  /\ modal' = [modal EXCEPT ![m].phase = IF modal[m].hideAsked THEN "closing" ELSE "shown"]
  /\ UNCHANGED <<swal, calls, popup, boot, hosts, nav, last, dirty, typed, consent, version, postponer, working, started>>

ModalHidden(m) ==
  /\ Quiet /\ modal[m].phase = "closing"
  /\ Become([modal EXCEPT ![m].phase = "gone"])
  /\ UNCHANGED <<swal, calls, boot, nav, last, dirty, typed, consent, version, postponer, working, started>>

\* close(), from the content, from Escape or from a click outside
CloseModal(m) ==
  /\ Quiet /\ modal[m].phase \notin {"new", "gone"}
  /\ ~modal[m].allowed /\ ~modal[m].checking
  /\ IF m \in Guarded
     THEN /\ modal' = [modal EXCEPT ![m].checking = TRUE]
          /\ Say(<<Fire("question", Closing(m))>>)
          /\ UNCHANGED <<popup, hosts>>
     ELSE /\ Become([modal EXCEPT ![m] = Allowed(@)])
          /\ UNCHANGED calls
  /\ UNCHANGED <<swal, boot, nav, last, dirty, typed, consent, version, postponer, working, started>>

\* canClose answers yes, whatever has become of the modal in the meantime
CloseAccepted(m) ==
  /\ Quiet /\ popup.owner = Closing(m)
  /\ LET md == [modal EXCEPT ![m] = Allowed([@ EXCEPT !.checking = FALSE])] IN
       /\ modal' = md
       /\ hosts' = Among(hosts, {k \in Modals : md[k].phase # "gone"})
  /\ popup' = NoPopup
  /\ UNCHANGED <<swal, calls, boot, nav, last, dirty, typed, consent, version, postponer, working, started>>

-----------------------------------------------------------------------------
(* LeaveGuardService *)

\* A slip in which one consent is enough for all the editors.
GoOnOnce(n, i, d) ==
  IF d = {} \/ i > 1
  THEN nav' = [nav EXCEPT ![n] = [phase |-> "passed", at |-> 0]] /\ UNCHANGED calls
  ELSE /\ nav' = [nav EXCEPT ![n] = [phase |-> "asking", at |-> CHOOSE k \in d : \A j \in d : k <= j]]
       /\ Say(<<Fire("question", Leaving(n))>>)
\* canLeave() from editor i on: the first with changes asks the user, and with none
\* left the page may go.
GoOn(n, i, d) ==
  LET ahead == {k \in d : k >= i} IN
  IF ahead = {}
  THEN nav' = [nav EXCEPT ![n] = [phase |-> "passed", at |-> 0]] /\ UNCHANGED calls
  ELSE /\ nav' = [nav EXCEPT ![n] = [phase |-> "asking", at |-> CHOOSE k \in ahead : \A j \in ahead : k <= j]]
       /\ Say(<<Fire("question", Leaving(n))>>)

\* The user writes wherever no popup is in the way.
Type(i) ==
  /\ Move /\ ~Blocking
  /\ dirty' = dirty \union {i} /\ typed' = [typed EXCEPT ![i] = last]
  /\ UNCHANGED <<swal, calls, popup, boot, modal, hosts, nav, last, consent, version, postponer, working>>

Navigate ==
  /\ Move /\ last < MaxNavs
  /\ last' = last + 1
  /\ GoOn(last + 1, 1, dirty)
  /\ UNCHANGED <<swal, popup, boot, modal, hosts, dirty, typed, consent, version, postponer, working>>

\* The user drops the changes of the editor that asks, or has it save them.
DropFiles(n) ==
  /\ Quiet /\ popup.owner = Leaving(n)
  /\ popup' = NoPopup
  /\ consent' = [consent EXCEPT ![n] = @ \union {nav[n].at}]
  /\ GoOn(n, nav[n].at + 1, dirty)
  /\ UNCHANGED <<swal, boot, modal, hosts, last, dirty, typed, version, postponer, working, started>>

Save(n) ==
  /\ Quiet /\ popup.owner = Leaving(n)
  /\ popup' = NoPopup
  /\ nav' = [nav EXCEPT ![n].phase = "saving"]
  /\ UNCHANGED <<swal, calls, boot, modal, hosts, last, dirty, typed, consent, version, postponer, working, started>>

Saved(n) ==
  /\ Quiet /\ nav[n].phase = "saving"
  /\ dirty' = dirty \ {nav[n].at}
  /\ consent' = [consent EXCEPT ![n] = @ \union {nav[n].at}]
  /\ GoOn(n, nav[n].at + 1, dirty')
  /\ UNCHANGED <<swal, popup, boot, modal, hosts, last, typed, version, postponer, working, started>>

SaveFails(n) ==
  /\ Quiet /\ nav[n].phase = "saving"
  /\ nav' = [nav EXCEPT ![n].phase = "refused"]
  /\ UNCHANGED <<swal, calls, popup, boot, modal, hosts, last, dirty, typed, consent, version, postponer, working, started>>

\* NavigationEnd: the editors of the page are gone and the modals go unasked.
NavigationEnd(n) ==
  /\ Quiet /\ n = last /\ nav[n].phase = "passed"
  /\ nav' = [nav EXCEPT ![n].phase = "ended"]
  /\ dirty' = {}
  /\ Become([m \in Modals |-> IF modal[m].phase \in {"new", "gone"} THEN modal[m] ELSE Allowed(modal[m])])
  /\ UNCHANGED <<swal, calls, boot, last, typed, consent, version, postponer, working, started>>

-----------------------------------------------------------------------------
(* VersionCheckService *)

\* showUpdateDialog: the override of the site takes over, unless it throws, now or
\* later.
ShowUpdate(v, source) ==
  IF v.shown THEN version' = v /\ UNCHANGED calls
  ELSE \E o \in Overrides :
         /\ version' = [v EXCEPT !.shown = TRUE, !.source = source,
                                 !.step = CASE o = "holds" -> "held" [] o = "rejects" -> "rejecting" [] OTHER -> "asking"]
         /\ Say(IF o \in {"none", "throws"} THEN <<Fire("question", Updater)>> ELSE <<>>)

Poll ==
  /\ Move /\ version.inFlight < MaxPolls /\ ~version.shown
  /\ version' = [version EXCEPT !.inFlight = @ + 1]
  /\ UNCHANGED <<swal, calls, popup, boot, modal, hosts, nav, last, dirty, typed, consent, postponer, working>>

PollAnswers ==
  /\ Quiet /\ version.inFlight > 0
  /\ LET v == [version EXCEPT !.inFlight = @ - 1] IN
       \/ ShowUpdate(v, "poll")               \* a newer version is served
       \/ version' = v /\ UNCHANGED calls   \* the version it has, or no answer
  /\ UNCHANGED <<swal, popup, boot, modal, hosts, nav, last, dirty, typed, consent, postponer, working, started>>

SwReady ==
  /\ Move /\ version.sub
  /\ ShowUpdate(version, "sw")
  /\ UNCHANGED <<swal, popup, boot, modal, hosts, nav, last, dirty, typed, consent, postponer, working>>

OverrideRejects ==
  /\ Quiet /\ version.step = "rejecting"
  /\ version' = [version EXCEPT !.step = "asking"]
  /\ Say(<<Fire("question", Updater)>>)
  /\ UNCHANGED <<swal, popup, boot, modal, hosts, nav, last, dirty, typed, consent, postponer, working, started>>

\* apply(): the service worker is activated first if it brought the version
Apply == version' = [version EXCEPT !.step = IF version.source = "sw" THEN "activating" ELSE "reloading"]

UpdateAccepted ==
  /\ Quiet /\ popup.owner = Updater
  /\ popup' = NoPopup /\ Apply
  /\ UNCHANGED <<swal, calls, boot, modal, hosts, nav, last, dirty, typed, consent, postponer, working, started>>

ApplyHeld ==
  /\ Quiet /\ version.step = "held" /\ Apply
  /\ UNCHANGED <<swal, calls, popup, boot, modal, hosts, nav, last, dirty, typed, consent, postponer, working, started>>

\* activateUpdate() has ended, well or not
Activated ==
  /\ Quiet /\ version.step = "activating"
  /\ version' = [version EXCEPT !.step = "reloading"]
  /\ UNCHANGED <<swal, calls, popup, boot, modal, hosts, nav, last, dirty, typed, consent, postponer, working, started>>

\* The page reloads, unless beforeunload finds changes and the user stays: the
\* dialog has been accepted and nothing offers the update again.
Reload ==
  /\ Quiet /\ version.step = "reloading"
  /\ \/ version' = [version EXCEPT !.step = "reloaded"]
     \/ dirty # {} /\ version' = [version EXCEPT !.step = "kept"]
  /\ UNCHANGED <<swal, calls, popup, boot, modal, hosts, nav, last, dirty, typed, consent, postponer, working, started>>

-----------------------------------------------------------------------------
PopupNext ==
  \/ ImportEnds \/ RunCall \/ CallRejected \/ Dismiss
  \/ \E kind \in {"message", "toast"} : Message(kind)
  \/ WorkBegins \/ WorkEnds
  \/ BootArrives
  \/ \E m \in Modals : OpenModal(m) \/ ModalShown(m) \/ ModalHidden(m) \/ CloseModal(m) \/ CloseAccepted(m)
  \/ \E i \in Editors : Type(i)
  \/ Navigate
  \/ \E n \in Navs : DropFiles(n) \/ Save(n) \/ Saved(n) \/ SaveFails(n) \/ NavigationEnd(n)
  \/ Poll \/ PollAnswers \/ SwReady \/ OverrideRejects
  \/ UpdateAccepted \/ ApplyHeld \/ Activated \/ Reload

\* The calls run once their library has come or failed, and the transitions of
\* Bootstrap end.
PopupFair ==
  /\ WF_popupVars(ImportEnds) /\ WF_popupVars(RunCall) /\ WF_popupVars(CallRejected)
  /\ \A m \in Modals : SF_popupVars(ModalShown(m)) /\ SF_popupVars(ModalHidden(m))

PopupSpec == PopupInit /\ [][PopupNext]_popupVars /\ PopupFair

-----------------------------------------------------------------------------
(* Properties *)

\* The state is well formed, and the popup is in the body or in a modal that is
\* still on the page.
Dialogs ==
  /\ swal \in {"absent", "here", "failed"}
  /\ calls \in Seq([kind : Kinds, owner : Owners])
  /\ popup \in [kind : Kinds, owner : Owners, host : Modals \union {Body}]
Stacked ==
  /\ boot \in BOOLEAN /\ modal \in [Modals -> ModalState]
  /\ hosts \in Seq(Modals) /\ IsInjective(hosts)
  /\ \A m \in Modals : modal[m].phase \notin {"new", "gone"} <=> m \in ToSet(hosts)
  /\ popup.host # Body => popup.host \in ToSet(hosts)
PopupTypeOK ==
  /\ Dialogs /\ Stacked
  /\ nav \in [Navs -> NavState] /\ last \in 0..MaxNavs /\ dirty \subseteq Editors /\ version \in VersionState

\* Nobody is left without an answer: whoever waits for the user has its question on
\* the page or among the calls, once; a popup of another replaces it, a modal that
\* closes or a page that changes around it does not lose it.
Asked(o) ==
  LET waiting == {j \in DOMAIN calls : calls[j].owner = o}
  IN IF popup.owner = o THEN waiting = {} ELSE \E j \in DOMAIN calls : waiting = {j}
AskersAreAsked ==
  /\ \A m \in Modals : modal[m].checking => Asked(Closing(m))
  /\ \A n \in Navs : nav[n].phase = "asking" => Asked(Leaving(n))
  /\ version.step = "asking" => Asked(Updater)

\* A spinner does not outlive the work it stands for: with no work under way and
\* every call done, none is on the page, in whatever order works, errors and
\* questions have come and gone.
NoSpinnerLeft ==
  working = 0 /\ calls = <<>> => popup.kind # "loading"

\* The page is not left over changes older than the navigation unless their editor
\* has agreed to this very navigation.
EditsAreAsked ==
  [][\A n \in Navs : nav[n].phase = "passed" /\ nav'[n].phase = "ended" =>
       \A i \in dirty : typed[i] < n => i \in consent[n]]_popupVars

\* updateShown never stays behind with nothing to come of it, unless the library of
\* the dialog failed or the user accepted and then kept the page for its changes.
UpdateNotStuck ==
  version.shown <=> version.step # "idle"

\* A modal that may close does, even when it was told to while it was opening or
\* while its library was not there,
\* unless the whole page is reloaded.
ModalsLeave ==
  \A m \in Modals : modal[m].allowed ~> modal[m].phase = "gone" \/ version.step = "reloaded"

\* With one popup for the whole page, no question, no spinner and no offer of an update
\* is lost under another (notification.service.ts, version-check.service.ts).
PopupsSafe == PopupTypeOK /\ AskersAreAsked /\ NoSpinnerLeft /\ UpdateNotStuck

\* Who does not ask has no question anywhere.
Unasked(o) == popup.owner # o /\ \A j \in DOMAIN calls : calls[j].owner # o
OnlyAskersAsk ==
  /\ \A m \in Modals : ~modal[m].checking => Unasked(Closing(m))
  /\ \A n \in Navs : nav[n].phase # "asking" => Unasked(Leaving(n))
  /\ version.step # "asking" => Unasked(Updater)

\* The last call to run shows no spinner once the work is over, and without the
\* library there is no popup.
SpinnersClose ==
  /\ working = 0 /\ calls # <<>> => Last(calls).kind # "loading"
  /\ swal # "here" => popup = NoPopup

\* A navigation has behind it the editors before the one that asks, all of them
\* once it has passed.
Behind(n, i) == nav[n].phase = "passed" \/ (nav[n].phase \in {"asking", "saving"} /\ i < nav[n].at)
ConsentGiven ==
  /\ typed \in [Editors -> 0..MaxNavs] /\ consent \in [Navs -> SUBSET Editors]
  /\ \A n \in Navs : nav[n].phase # "none" => n <= last
  /\ \A n \in Navs : nav[n].phase \in {"asking", "saving"} => nav[n].at \in Editors
  /\ \A n \in Navs, i \in dirty : Behind(n, i) /\ typed[i] < n => i \in consent[n]

Asks == AskersAreAsked /\ OnlyAskersAsk
Spins == NoSpinnerLeft /\ SpinnersClose /\ working \in Nat
Leaves == nav \in [Navs -> NavState] /\ last \in 0..MaxNavs /\ dirty \subseteq Editors /\ ConsentGiven
Updates == version \in VersionState /\ UpdateNotStuck
PopupIInv == Dialogs /\ Stacked /\ Asks /\ Spins /\ Leaves /\ Updates /\ started \in 0..MaxMoves

\* What the check assumes when a dialog is not accepted ("L'utente ha posticipato"):
\* that it is the user who did.
PostponedByTheUser == postponer # "another popup"
=============================================================================
