---------------------------- MODULE PagesProofs ----------------------------
(***************************************************************************)
(* The safety of the parts of a page that have no state in common: the     *)
(* consent to cookies, the upload form, the localized page and, on the     *)
(* server, the redirects and the stream the nonce is written in.  For any  *)
(* number of tabs, files, languages, hosts and bytes.                      *)
(***************************************************************************)
EXTENDS CookieConsent, UploadForm, LocalizedPage, ServerRequests, NonceStream, SequenceTheorems,
        WellFoundedInduction, TLAPS

-----------------------------------------------------------------------------
(* CookieConsent: ConsentSafe is inductive.                                *)

LEMMA ConsentInit == CookieInit => ConsentSafe
<1> SUFFICES ASSUME CookieInit PROVE ConsentSafe
  OBVIOUS
<1>1. ClosedTab \in ViewState
  BY DEF ClosedTab, ViewState
<1>2. CookieTypeOK
  BY <1>1 DEF CookieInit, CookieTypeOK, ClosedTab, Strays
<1>3. PanelShowsSaved
  BY DEF CookieInit, PanelShowsSaved, ClosedTab
<1> QED
  BY <1>2, <1>3 DEF CookieInit, ConsentSafe, EntriesNeedConsent, SwNeedsConsent

LEMMA AlignFollows ==
  ASSUME NEW t \in Browsers, NEW accepted, NEW fresh \in BOOLEAN, Align(t, accepted, fresh)
  PROVE  \E j \in [tab : Browsers, kind : JobKinds] :
           /\ jobs' = (IF fresh THEN Outlive(t) ELSE jobs) \union {j}
           /\ Tech \notin accepted => j.kind = "enumerate"
<1> DEFINE k == IF ~(webApp /\ Tech \in accepted) THEN "enumerate" ELSE IF fresh THEN "whenStable" ELSE "lookup"
           j == [tab |-> t, kind |-> k]
<1>1. k \in JobKinds /\ (Tech \notin accepted => k = "enumerate")
  BY DEF JobKinds
<1>2. jobs' = (IF fresh THEN Outlive(t) ELSE jobs) \union {j}
  BY DEF Align
<1> HIDE DEF k
<1>3. j \in [tab : Browsers, kind : JobKinds] /\ j.kind = k
  BY <1>1
<1> QED
  BY <1>1, <1>2, <1>3

(* A page that starts or saves gives its tab a state of its own: what is   *)
(* accepted is needed, and the panel, if it is there, shows it.            *)
LEMMA BootKeeps == ASSUME ConsentSafe, NEW t \in Browsers, Boot(t) PROVE ConsentSafe'
<1> DEFINE accepted == {c \in needed : Answered[c] = "yes"}
           all == \A c \in needed : Answered[c] # "none"
           v == [ClosedTab EXCEPT !.open = TRUE, !.accepted = accepted, !.banner = accepted, !.responded = all]
<1>1. /\ memo' = Answered /\ tabView' = [tabView EXCEPT ![t] = v]
      /\ ClearRevoked(accepted) /\ Align(t, accepted, TRUE) /\ UNCHANGED <<gpc, webApp, needed, sw>>
  BY DEF Boot
<1>2. /\ Answered \in [Categories -> {"none", "yes", "no"}] /\ accepted \subseteq needed /\ needed \subseteq Categories
      /\ \A c \in accepted : Answered[c] = "yes"
  BY DEF ConsentSafe, CookieTypeOK, Answered
<1>3. all \in BOOLEAN
  OBVIOUS
<1> HIDE DEF all, accepted
<1>4. v \in ViewState /\ v.open /\ ~v.panel /\ v.accepted = accepted /\ v.loaded = {}
  BY <1>2, <1>3 DEF ViewState, ClosedTab
<1>5. PICK kept \in SUBSET (foreign \ accepted) :
        /\ entry' = (entry \intersect accepted) \union kept /\ late' = late \intersect accepted
        /\ foreign' = (foreign \intersect accepted) \union kept
  BY <1>1 DEF ClearRevoked
<1> HIDE DEF v
<1>10. PICK j \in [tab : Browsers, kind : JobKinds] : jobs' = Outlive(t) \union {j} /\ (Tech \notin accepted => j.kind = "enumerate")
  BY <1>1, AlignFollows
<1>11. stray' \in Strays
  BY <1>1 DEF ConsentSafe, CookieTypeOK, Align, Strays
<1>6. CookieTypeOK'
  <2>1. jobs' \subseteq [tab : Browsers, kind : JobKinds]
    BY <1>10 DEF ConsentSafe, CookieTypeOK, Outlive
  <2>2. tabView' \in [Browsers -> ViewState]
    BY <1>1, <1>4 DEF ConsentSafe, CookieTypeOK
  <2>3. \A u \in Browsers : tabView'[u].accepted \union tabView'[u].loaded \subseteq needed /\ (~tabView'[u].open => tabView'[u] = ClosedTab)
    BY <1>1, <1>2, <1>4 DEF ConsentSafe, CookieTypeOK
  <2> QED
    BY <1>1, <1>2, <1>5, <1>11, <2>1, <2>2, <2>3 DEF ConsentSafe, CookieTypeOK
<1>7. EntriesNeedConsent'
  BY <1>1, <1>2, <1>5 DEF ConsentSafe, CookieTypeOK, EntriesNeedConsent
<1>8. SwNeedsConsent'
  <2>1. memo'[Tech] = "no" => Tech \notin accepted
    BY <1>1, <1>2
  <2> QED
    BY <1>10, <2>1 DEF SwNeedsConsent
<1>9. PanelShowsSaved'
  BY <1>1, <1>4 DEF ConsentSafe, CookieTypeOK, PanelShowsSaved
<1> QED
  BY <1>6, <1>7, <1>8, <1>9 DEF ConsentSafe

LEMMA SaveConsentKeeps ==
  ASSUME ConsentSafe, NEW t \in Browsers, tabView[t].open \/ tabView[t].panel,
         NEW selected \in SUBSET Categories, NEW fromPanel \in BOOLEAN, SaveConsent(t, selected, fromPanel)
  PROVE  ConsentSafe'
<1> DEFINE accepted == selected \intersect needed
           v == PanelFollows([tabView[t] EXCEPT !.accepted = accepted, !.responded = TRUE,
                     !.banner = IF fromPanel THEN tabView[t].banner ELSE accepted,
                     !.pending = IF fromPanel THEN accepted ELSE tabView[t].pending,
                     !.justSaved = fromPanel \/ tabView[t].justSaved])
<1>1. /\ tabView' = [tabView EXCEPT ![t] = v]
      /\ memo' = [c \in Categories |-> IF c \notin needed THEN "none" ELSE IF c \in accepted THEN "yes" ELSE "no"]
      /\ ClearRevoked(accepted) /\ Align(t, accepted, FALSE) /\ UNCHANGED <<gpc, webApp, needed, sw>>
  <2>1. tabView' = [tabView EXCEPT ![t] = v]
    BY DEF SaveConsent
  <2>2. memo' = [c \in Categories |-> IF c \notin needed THEN "none" ELSE IF c \in accepted THEN "yes" ELSE "no"]
    BY DEF SaveConsent
  <2>3. ClearRevoked(accepted) /\ Align(t, accepted, FALSE) /\ UNCHANGED <<gpc, webApp, needed, sw>>
    BY DEF SaveConsent
  <2> QED
    BY <2>1, <2>2, <2>3
<1>11. tabView[t] \in ViewState /\ tabView \in [Browsers -> ViewState] /\ needed \subseteq Categories
  BY DEF ConsentSafe, CookieTypeOK
<1>2. tabView[t].open
  BY DEF ConsentSafe, CookieTypeOK, ClosedTab
<1>3. v \in ViewState /\ v.open /\ v.accepted = accepted /\ v.pending = accepted /\ v.loaded = tabView[t].loaded
  BY <1>2, <1>11 DEF ViewState, PanelFollows
<1>4. PICK kept \in SUBSET (foreign \ accepted) :
        /\ entry' = (entry \intersect accepted) \union kept /\ late' = late \intersect accepted
        /\ foreign' = (foreign \intersect accepted) \union kept
  BY <1>1 DEF ClearRevoked
<1>10. PICK j \in [tab : Browsers, kind : JobKinds] : jobs' = jobs \union {j} /\ (Tech \notin accepted => j.kind = "enumerate")
  BY <1>1, AlignFollows
<1>5. accepted \subseteq needed /\ memo' \in [Categories -> {"none", "yes", "no"}] /\ \A c \in accepted : memo'[c] = "yes"
  BY <1>1, <1>11
<1>12. stray' \in Strays
  BY <1>1 DEF ConsentSafe, CookieTypeOK, Align, Strays
<1> HIDE DEF v, accepted
<1>6. CookieTypeOK'
  <2>1. jobs' \subseteq [tab : Browsers, kind : JobKinds]
    BY <1>10 DEF ConsentSafe, CookieTypeOK
  <2>2. tabView' \in [Browsers -> ViewState]
    BY <1>1, <1>3, <1>11
  <2>3. \A u \in Browsers : tabView'[u].accepted \union tabView'[u].loaded \subseteq needed /\ (~tabView'[u].open => tabView'[u] = ClosedTab)
    BY <1>1, <1>3, <1>5 DEF ConsentSafe, CookieTypeOK
  <2> QED
    BY <1>1, <1>4, <1>5, <1>12, <2>1, <2>2, <2>3 DEF ConsentSafe, CookieTypeOK
<1>7. EntriesNeedConsent'
  BY <1>4, <1>5 DEF EntriesNeedConsent
<1>8. SwNeedsConsent'
  <2>1. memo'[Tech] = "no" => Tech \notin accepted
    BY <1>5
  <2> QED
    BY <1>10, <2>1 DEF SwNeedsConsent
<1>9. PanelShowsSaved'
  BY <1>1, <1>3 DEF ConsentSafe, PanelShowsSaved
<1> QED
  BY <1>6, <1>7, <1>8, <1>9 DEF ConsentSafe

(* What only edits the switches of a tab, or closes it, leaves the consent *)
(* as it is.                                                               *)
LEMMA ViewKeeps ==
  ASSUME ConsentSafe, NEW t \in Browsers, NEW v \in ViewState, tabView' = [tabView EXCEPT ![t] = v],
         v.accepted \union v.loaded \subseteq needed, v.open \/ v = ClosedTab,
         v.panel /\ (v.justSaved \/ ~v.touched) => v.pending = v.accepted,
         jobs' \subseteq jobs,
         stray' = "closed" \/ (stray' = stray /\ \A j \in jobs : j.kind \in {"enumerate", "unregister"} => j \in jobs'),
         UNCHANGED <<gpc, webApp, needed, memo, entry, late, foreign, sw>>
  PROVE  ConsentSafe'
<1>1. CookieTypeOK'
  <2>1. tabView' \in [Browsers -> ViewState]
    BY DEF ConsentSafe, CookieTypeOK
  <2>2. \A u \in Browsers : tabView'[u].accepted \subseteq needed /\ (~tabView'[u].open => tabView'[u] = ClosedTab)
    BY DEF ConsentSafe, CookieTypeOK
  <2>3. stray' \in Strays
    BY DEF ConsentSafe, CookieTypeOK, Strays
  <2> QED
    BY <2>1, <2>2, <2>3 DEF ConsentSafe, CookieTypeOK
<1>2. EntriesNeedConsent' /\ SwNeedsConsent'
  BY DEF ConsentSafe, EntriesNeedConsent, SwNeedsConsent
<1>3. PanelShowsSaved'
  BY DEF ConsentSafe, CookieTypeOK, PanelShowsSaved
<1> QED
  BY <1>1, <1>2, <1>3 DEF ConsentSafe

LEMMA SwitchKeeps == ASSUME ConsentSafe, NEW t \in Browsers, Switch(t) PROVE ConsentSafe'
<1> DEFINE w == tabView[t]
<1>1. w \in ViewState /\ tabView \in [Browsers -> ViewState] /\ needed \subseteq Categories
  BY DEF ConsentSafe, CookieTypeOK
<1>2. w.accepted \union w.loaded \subseteq needed /\ (~w.open => w = ClosedTab) /\ (w.panel /\ (w.justSaved \/ ~w.touched) => w.pending = w.accepted)
  BY DEF ConsentSafe, CookieTypeOK, PanelShowsSaved
<1>3. UNCHANGED <<gpc, webApp, needed, memo, entry, late, foreign, sw, stray, jobs>>
  BY DEF Switch
<1>4. PICK c \in needed :
        \/ /\ w.open /\ ~w.responded
           /\ tabView' = [tabView EXCEPT ![t].banner = (@ \union {c}) \ (@ \intersect {c})]
        \/ /\ w.panel
           /\ tabView' = [tabView EXCEPT ![t].pending = (@ \union {c}) \ (@ \intersect {c}), ![t].touched = TRUE,
                                         ![t].justSaved = FALSE]
  BY DEF Switch
<1>5. CASE /\ w.open /\ ~w.responded
           /\ tabView' = [tabView EXCEPT ![t].banner = (@ \union {c}) \ (@ \intersect {c})]
  <2> DEFINE v == [w EXCEPT !.banner = (w.banner \union {c}) \ (w.banner \intersect {c})]
  <2>1. v \in ViewState /\ v.accepted = w.accepted /\ v.loaded = w.loaded /\ v.open /\ v.panel = w.panel /\ v.justSaved = w.justSaved
        /\ v.touched = w.touched /\ v.pending = w.pending
    BY <1>1, <1>4, <1>5 DEF ViewState
  <2>2. tabView' = [tabView EXCEPT ![t] = v]
    BY <1>1, <1>5
  <2> HIDE DEF v, w
  <2> QED
    BY <1>2, <1>3, <2>1, <2>2, ViewKeeps
<1>6. CASE /\ w.panel
           /\ tabView' = [tabView EXCEPT ![t].pending = (@ \union {c}) \ (@ \intersect {c}), ![t].touched = TRUE,
                                         ![t].justSaved = FALSE]
  <2> DEFINE v == [w EXCEPT !.pending = (w.pending \union {c}) \ (w.pending \intersect {c}), !.touched = TRUE, !.justSaved = FALSE]
  <2>0. w.open
    BY <1>2, <1>6 DEF ClosedTab
  <2>1. v \in ViewState /\ v.accepted = w.accepted /\ v.loaded = w.loaded /\ v.open /\ ~v.justSaved /\ v.touched
    BY <1>1, <1>4, <2>0 DEF ViewState
  <2>2. tabView' = [tabView EXCEPT ![t] = v]
    BY <1>1, <1>6
  <2> HIDE DEF v, w
  <2> QED
    BY <1>2, <1>3, <2>1, <2>2, ViewKeeps
<1> QED
  BY <1>4, <1>5, <1>6

LEMMA PageKeeps ==
  ASSUME ConsentSafe, NEW t \in Browsers, CloseTab(t) \/ Reopen(t) \/ Visit(t) PROVE ConsentSafe'
<1> DEFINE w == tabView[t]
<1>1. w \in ViewState /\ tabView \in [Browsers -> ViewState] /\ needed \subseteq Categories
  BY DEF ConsentSafe, CookieTypeOK
<1>2. w.accepted \union w.loaded \subseteq needed /\ (~w.open => w = ClosedTab) /\ (w.panel /\ (w.justSaved \/ ~w.touched) => w.pending = w.accepted)
  BY DEF ConsentSafe, CookieTypeOK, PanelShowsSaved
<1>3. UNCHANGED <<gpc, webApp, needed, memo, entry, late, foreign, sw>>
  BY DEF CloseTab, Reopen, Visit
<1>4. CASE CloseTab(t)
  <2>1. ClosedTab \in ViewState /\ ClosedTab.accepted = {} /\ ClosedTab.loaded = {} /\ ~ClosedTab.panel
    BY DEF ClosedTab, ViewState
  <2>2. tabView' = [tabView EXCEPT ![t] = ClosedTab] /\ jobs' = Outlive(t)
    BY <1>4 DEF CloseTab
  <2>3. jobs' \subseteq jobs /\ (stray' = "closed" \/ stray' = stray)
    BY <1>4, <2>2 DEF CloseTab, Outlive
  <2>4. ASSUME stray' # "closed", NEW j \in jobs, j.kind \in {"enumerate", "unregister"} PROVE j \in jobs'
    <3>1. [tab |-> t, kind |-> "enumerate"] \notin jobs
      BY <1>4, <2>4 DEF CloseTab
    <3>2. j = [tab |-> j.tab, kind |-> j.kind]
      BY DEF ConsentSafe, CookieTypeOK
    <3> QED
      BY <2>2, <2>4, <3>1, <3>2 DEF Outlive
  <2>5. ClosedTab.accepted \union ClosedTab.loaded \subseteq needed
    BY <2>1
  <2>6. \/ stray' = "closed"
        \/ stray' = stray /\ \A j \in jobs : j.kind \in {"enumerate", "unregister"} => j \in jobs'
    BY <2>3, <2>4
  <2> QED
    BY <1>3, <2>1, <2>2, <2>3, <2>5, <2>6, ViewKeeps
<1>5. CASE Reopen(t)
  <2> DEFINE v == [w EXCEPT !.responded = FALSE, !.banner = w.accepted]
  <2>1. v \in ViewState /\ v.accepted = w.accepted /\ v.loaded = w.loaded /\ v.open /\ ~v.panel
    BY <1>1, <1>2, <1>5 DEF ViewState, Reopen
  <2>2. tabView' = [tabView EXCEPT ![t] = v] /\ jobs' = jobs /\ stray' = stray
    BY <1>1, <1>5 DEF Reopen
  <2> HIDE DEF v, w
  <2> QED
    BY <1>2, <1>3, <2>1, <2>2, ViewKeeps
<1>6. CASE Visit(t)
  <2> DEFINE p == IF w.panel THEN {} ELSE w.accepted
             v == [w EXCEPT !.panel = ~w.panel, !.pending = p, !.touched = FALSE, !.justSaved = FALSE]
  <2>0. p \subseteq Categories /\ (~w.panel => p = w.accepted)
    BY <1>1, <1>2
  <2>2. tabView' = [tabView EXCEPT ![t] = v] /\ jobs' = jobs /\ stray' = stray /\ w.open
    BY <1>1, <1>6 DEF Visit
  <2> HIDE DEF p
  <2>1. v \in ViewState /\ v.accepted = w.accepted /\ v.loaded = w.loaded /\ v.open /\ (v.panel => v.pending = w.accepted)
    BY <1>1, <1>2, <2>0, <2>2 DEF ViewState
  <2> HIDE DEF v, w
  <2> QED
    BY <1>2, <1>3, <2>1, <2>2, ViewKeeps
<1> QED
  BY <1>4, <1>5, <1>6

LEMMA RespondKeeps == ASSUME ConsentSafe, NEW t \in Browsers, Respond(t) PROVE ConsentSafe'
<1>1. tabView[t] \in ViewState /\ needed \subseteq Categories
  BY DEF ConsentSafe, CookieTypeOK
<1>2. tabView[t].banner \subseteq Categories /\ tabView[t].pending \subseteq Categories
  BY <1>1 DEF ViewState
<1>3. CASE tabView[t].open /\ \E selected \in {needed, {}, tabView[t].banner} : SaveConsent(t, selected, FALSE)
  <2>1. PICK selected \in {needed, {}, tabView[t].banner} : SaveConsent(t, selected, FALSE)
    BY <1>3
  <2> QED
    BY <1>1, <1>2, <1>3, <2>1, SaveConsentKeeps
<1>4. CASE tabView[t].panel /\ \E selected \in {needed, {}, tabView[t].pending} : SaveConsent(t, selected, TRUE)
  <2>1. PICK selected \in {needed, {}, tabView[t].pending} : SaveConsent(t, selected, TRUE)
    BY <1>4
  <2> QED
    BY <1>1, <1>2, <1>4, <2>1, SaveConsentKeeps
<1> QED
  BY <1>3, <1>4 DEF Respond

LEMMA WriteKeeps == ASSUME ConsentSafe, NEW t \in Browsers, NEW c \in Categories, Write(t, c) PROVE ConsentSafe'
<1> DEFINE w == tabView[t]
           v == [w EXCEPT !.loaded = w.loaded \union {c}]
<1>1. /\ entry' = entry \union {c} /\ late' = (IF memo[c] = "no" THEN late \union {c} ELSE late)
      /\ UNCHANGED <<gpc, webApp, needed, memo, foreign, sw, stray, jobs>> /\ c \in w.accepted /\ w.open
  BY DEF Write, Accepted
<1>2. /\ w \in ViewState /\ tabView \in [Browsers -> ViewState]
      /\ w.accepted \union w.loaded \subseteq needed /\ (w.panel /\ (w.justSaved \/ ~w.touched) => w.pending = w.accepted)
  BY DEF ConsentSafe, CookieTypeOK, PanelShowsSaved
<1>3. c \in needed /\ tabView' = [tabView EXCEPT ![t] = v]
  BY <1>1, <1>2 DEF Write
<1>4. v \in ViewState /\ v.accepted = w.accepted /\ v.loaded = w.loaded \union {c} /\ v.open
      /\ v.panel = w.panel /\ v.justSaved = w.justSaved /\ v.touched = w.touched /\ v.pending = w.pending
  BY <1>1, <1>2 DEF ViewState
<1> HIDE DEF v, w
<1>5. CookieTypeOK'
  <2>1. tabView' \in [Browsers -> ViewState]
    BY <1>2, <1>3, <1>4
  <2>2. \A u \in Browsers : tabView'[u].accepted \union tabView'[u].loaded \subseteq needed /\ (~tabView'[u].open => tabView'[u] = ClosedTab)
    BY <1>2, <1>3, <1>4 DEF ConsentSafe, CookieTypeOK
  <2> QED
    BY <1>1, <1>3, <2>1, <2>2 DEF ConsentSafe, CookieTypeOK
<1>6. EntriesNeedConsent' /\ SwNeedsConsent'
  BY <1>1 DEF ConsentSafe, EntriesNeedConsent, SwNeedsConsent
<1>7. PanelShowsSaved'
  BY <1>2, <1>3, <1>4 DEF ConsentSafe, PanelShowsSaved
<1> QED
  BY <1>5, <1>6, <1>7 DEF ConsentSafe

LEMMA StorageKeeps ==
  ASSUME ConsentSafe, NEW c \in Categories, (\E t \in Browsers : SdkWrites(t, c)) \/ Forget(c)
  PROVE  ConsentSafe'
<1>1. CASE \E t \in Browsers : SdkWrites(t, c)
  <2>1. PICK t \in Browsers : SdkWrites(t, c)
    BY <1>1
  <2>2. /\ entry' = entry \union {c} /\ foreign' = foreign \union {c}
        /\ UNCHANGED <<gpc, webApp, needed, memo, late, sw, stray, jobs, tabView>> /\ c \in tabView[t].loaded
    BY <2>1 DEF SdkWrites
  <2>3. c \in needed
    BY <2>2 DEF ConsentSafe, CookieTypeOK
  <2>4. CookieTypeOK'
    BY <2>2, <2>3 DEF ConsentSafe, CookieTypeOK
  <2>5. EntriesNeedConsent' /\ SwNeedsConsent' /\ PanelShowsSaved'
    BY <2>2 DEF ConsentSafe, EntriesNeedConsent, SwNeedsConsent, PanelShowsSaved
  <2> QED
    BY <2>4, <2>5 DEF ConsentSafe
<1>2. CASE Forget(c)
  <2>1. memo' = [memo EXCEPT ![c] = "none"] /\ UNCHANGED <<gpc, webApp, needed, entry, late, foreign, sw, stray, jobs, tabView>>
    BY <1>2 DEF Forget
  <2>2. memo \in [Categories -> {"none", "yes", "no"}]
    BY DEF ConsentSafe, CookieTypeOK
  <2>3. CookieTypeOK'
    BY <2>1, <2>2 DEF ConsentSafe, CookieTypeOK
  <2>4. \A d \in Categories : memo'[d] = "no" => memo[d] = "no"
    BY <2>1, <2>2
  <2>5. entry \subseteq Categories /\ Tech \in Categories
    BY DEF ConsentSafe, CookieTypeOK, Categories
  <2>6. EntriesNeedConsent' /\ SwNeedsConsent' /\ PanelShowsSaved'
    BY <2>1, <2>4, <2>5 DEF ConsentSafe, EntriesNeedConsent, SwNeedsConsent, PanelShowsSaved
  <2> QED
    BY <2>3, <2>6 DEF ConsentSafe
<1> QED
  BY <1>1, <1>2

(* The calls about the service worker: a list that finds it is followed by *)
(* its removal, so that a refusal is never without a call under way unless *)
(* the service worker is gone.                                             *)
LEMMA JobKeeps == ASSUME ConsentSafe, NEW j \in jobs, JobEnds(j) PROVE ConsentSafe'
<1>1. UNCHANGED <<gpc, webApp, needed, memo, entry, late, foreign, tabView>> /\ jobs' = (jobs \ {j}) \union Follows(j)
  BY DEF JobEnds
<1>2. j \in [tab : Browsers, kind : JobKinds] /\ jobs \subseteq [tab : Browsers, kind : JobKinds]
      /\ sw \in BOOLEAN /\ stray \in Strays
  BY DEF ConsentSafe, CookieTypeOK
<1> DEFINE n(k) == [j EXCEPT !.kind = k]
<1>3. n("register") \in [tab : Browsers, kind : JobKinds] /\ n("unregister") \in [tab : Browsers, kind : JobKinds]
      /\ n("unregister").kind = "unregister"
  BY <1>2 DEF JobKinds
<1>4. jobs' \subseteq [tab : Browsers, kind : JobKinds]
  BY <1>1, <1>2, <1>3 DEF Follows
<1>5. sw' \in BOOLEAN /\ stray' \in Strays
  BY <1>2 DEF JobEnds, Strays
<1>6. CookieTypeOK'
  BY <1>1, <1>4, <1>5 DEF ConsentSafe, CookieTypeOK
<1>7. SwNeedsConsent'
  <2>1. CASE j.kind = "unregister"
    BY <2>1 DEF JobEnds, SwNeedsConsent
  <2>2. CASE j.kind = "register"
    BY <1>1, <2>2 DEF JobEnds, SwNeedsConsent
  <2>3. CASE j.kind = "enumerate"
    <3>1. sw' = sw /\ stray' = stray
      BY <2>3 DEF JobEnds
    <3>2. sw => n("unregister") \in jobs'
      BY <1>1, <2>3 DEF Follows
    <3> QED
      BY <1>3, <3>1, <3>2 DEF SwNeedsConsent
  <2>4. CASE j.kind \notin {"unregister", "register", "enumerate"}
    <3>1. sw' = sw /\ stray' = stray /\ jobs \ {j} \subseteq jobs'
      BY <1>1, <2>4 DEF JobEnds
    <3>2. \A i \in jobs : i.kind \in {"enumerate", "unregister"} => i \in jobs'
      BY <2>4, <3>1
    <3> QED
      BY <1>1, <3>1, <3>2 DEF ConsentSafe, SwNeedsConsent
  <2> QED
    BY <2>1, <2>2, <2>3, <2>4
<1>8. EntriesNeedConsent' /\ PanelShowsSaved'
  BY <1>1 DEF ConsentSafe, EntriesNeedConsent, PanelShowsSaved
<1> QED
  BY <1>6, <1>7, <1>8 DEF ConsentSafe

(* A refusal holds in the storage, for the service worker and in what the  *)
(* panel shows, in every tab, but for what a page that has not heard of it *)
(* or a third party writes, and for the service worker registered late or  *)
(* left by a closed page (cookie-consent.service.ts).                      *)
THEOREM ConsentIsSafe == CookieSpec => []ConsentSafe
<1>1. ConsentSafe /\ [CookieNext]_cookieVars => ConsentSafe'
  <2> SUFFICES ASSUME ConsentSafe, [CookieNext]_cookieVars PROVE ConsentSafe'
    OBVIOUS
  <2>1. CASE UNCHANGED cookieVars
    BY <2>1 DEF cookieVars, ConsentSafe, CookieTypeOK, EntriesNeedConsent, SwNeedsConsent, PanelShowsSaved
  <2>2. ASSUME NEW t \in Browsers,
               Boot(t) \/ CloseTab(t) \/ Respond(t) \/ Switch(t) \/ Reopen(t) \/ Visit(t)
        PROVE  ConsentSafe'
    BY <2>2, BootKeeps, PageKeeps, RespondKeeps, SwitchKeeps
  <2>3. ASSUME NEW t \in Browsers, NEW c \in Categories, Write(t, c) \/ SdkWrites(t, c) PROVE ConsentSafe'
    BY <2>3, WriteKeeps, StorageKeeps
  <2>4. ASSUME NEW c \in Categories, Forget(c) PROVE ConsentSafe'
    BY <2>4, StorageKeeps
  <2>5. ASSUME NEW j \in jobs, JobEnds(j) PROVE ConsentSafe'
    BY <2>5, JobKeeps
  <2> QED
    BY <2>1, <2>2, <2>3, <2>4, <2>5 DEF CookieNext
<1> QED
  BY <1>1, ConsentInit, PTL DEF CookieSpec

-----------------------------------------------------------------------------
(* ServerRequests: what a redirect leads to is in its final form.          *)

(* A redirect is the answer to a reader of an allowed host, where host or  *)
(* slash are not the final ones; 421 is the answer for the other hosts.    *)
LEMMA Handled ==
  ASSUME NEW e, NEW r, r.at \in Targets
  PROVE  /\ RequestHandled(e, r).status = 301 =>
              /\ r.host \in AllowedHosts(e) /\ (Mismatched(e, r) \/ Slashed(r))
              /\ RequestHandled(e, r) = Normalized(e, r)
         /\ RequestHandled(e, r).status = 421 => r.host \notin AllowedHosts(e)
<1>1. FileReply(e, r).status \in {200, 404}
  BY DEF FileReply, Reply
<1>2. ASSUME r.at \notin Files, r.at \notin Engine, r.at # "api", r.at # "health" PROVE PageReply(e, r).status \in {200, 404, 500, 503}
  BY <1>2 DEF PageReply, Reply, PageStatus, Targets, Pages, Unpaged
<1>4. Normalized(e, r).status = 301
  BY DEF Normalized, Redirect
<1>5. CASE r.at = "health"
  <2>1. RequestHandled(e, r).status \in {200, 404}
    BY <1>5 DEF RequestHandled, Reply
  <2> QED
    BY <2>1
<1>6. CASE r.at # "health" /\ r.host \notin AllowedHosts(e)
  <2>1. RequestHandled(e, r).status = 421
    BY <1>6 DEF RequestHandled, Reply
  <2> QED
    BY <1>6, <2>1
<1>7. CASE r.at # "health" /\ r.host \in AllowedHosts(e) /\ (Mismatched(e, r) \/ Slashed(r))
  <2>1. RequestHandled(e, r) = Normalized(e, r)
    BY <1>7 DEF RequestHandled
  <2> QED
    BY <1>4, <1>7, <2>1
<1>8. CASE r.at # "health" /\ r.host \in AllowedHosts(e) /\ ~(Mismatched(e, r) \/ Slashed(r))
  <2>1. CASE r.at = "api" \/ (r.at \in Engine /\ (r.get \/ r.at = "internal"))
    <3>1. RequestHandled(e, r) = Reply(200, FALSE)
      BY <1>8, <2>1 DEF RequestHandled
    <3> QED
      BY <3>1 DEF Reply
  <2>2. CASE ~(r.at = "api" \/ (r.at \in Engine /\ (r.get \/ r.at = "internal")))
    <3>1. RequestHandled(e, r) = IF r.at \in Files THEN FileReply(e, r)
                                 ELSE IF r.at \in Engine THEN Reply(404, e.noindex) ELSE PageReply(e, r)
      BY <1>8, <2>2 DEF RequestHandled
    <3>2. RequestHandled(e, r).status \in {200, 404, 500, 503}
      BY <1>1, <1>2, <1>8, <2>2, <3>1 DEF Reply
    <3> QED
      BY <3>2
  <2> QED
    BY <2>1, <2>2
<1> QED
  BY <1>5, <1>6, <1>7, <1>8

LEMMA RequestsKeep == ASSUME RequestIInv, [RequestNext]_requestVars PROVE RequestIInv'
<1>0. /\ env \in Environments /\ hops \in {0, 1}
      /\ (request = NoRequest => hops = 0 /\ answer = Unanswered)
      /\ (request # NoRequest => request.at \in Targets)
      /\ (answer = Unanswered \/ answer = RequestHandled(env, request))
      /\ (hops = 1 => /\ request.get /\ ~request.slash
                      /\ IF CanonicalHost(env) # NoHost THEN request.host = CanonicalHost(env)
                         ELSE request.host \in AllowedHosts(env))
  BY DEF RequestIInv
<1>1. CASE UNCHANGED requestVars
  BY <1>1 DEF requestVars, RequestIInv
<1>2. ASSUME NEW r \in HttpRequests, VisitHost(r) PROVE RequestIInv'
  <2>1. r.at \in Targets /\ r = [host |-> r.host, at |-> r.at, slash |-> r.slash, get |-> r.get]
    BY DEF HttpRequests
  <2>2. request' = r /\ hops' = 0 /\ answer' = Unanswered /\ env' = env
    BY <1>2 DEF VisitHost
  <2> QED
    BY <1>0, <2>1, <2>2 DEF RequestIInv
<1>3. CASE Serve
  <2>1. request # NoRequest /\ answer' = RequestHandled(env, request) /\ UNCHANGED <<env, request, hops>>
    BY <1>3 DEF Serve
  <2> QED
    BY <1>0, <2>1 DEF RequestIInv
<1>4. CASE Follow
  <2>1. answer.status = 301 /\ request' = [request EXCEPT !.host = answer.to, !.slash = FALSE]
        /\ hops' = hops + 1 /\ answer' = Unanswered /\ env' = env
    BY <1>4 DEF Follow
  <2>2. answer # Unanswered
    BY <2>1 DEF Unanswered, Reply
  <2>3. request # NoRequest /\ request.at \in Targets /\ answer = RequestHandled(env, request)
    BY <1>0, <2>2
  <2>4. request.host \in AllowedHosts(env) /\ (Mismatched(env, request) \/ Slashed(request)) /\ answer = Normalized(env, request)
    BY <2>1, <2>3, Handled
  <2>5. request.get /\ answer.to = IF CanonicalHost(env) # NoHost THEN CanonicalHost(env) ELSE request.host
    BY <2>4 DEF Mismatched, Slashed, Normalized, Redirect
  <2>6. hops = 0
    BY <1>0, <2>4 DEF Mismatched, Slashed
  <2>7. request = [host |-> request.host, at |-> request.at, slash |-> request.slash, get |-> request.get]
    BY <2>3 DEF RequestIInv
  <2>8. request' = [host |-> answer.to, at |-> request.at, slash |-> FALSE, get |-> request.get]
    BY <2>1, <2>7
  <2>9. request'.at = request.at /\ request'.host = answer.to /\ request'.slash = FALSE /\ request'.get = request.get
        /\ request' = [host |-> request'.host, at |-> request'.at, slash |-> request'.slash, get |-> request'.get]
    BY <2>8
  <2>10. request' # NoRequest
    <3>1. NoRequest.at \notin Targets
      BY DEF NoRequest, NoHost, Targets, Pages, Unpaged, Engine, Files
    <3> QED
      BY <2>3, <2>9, <3>1
  <2>11. hops' = 1
    BY <2>1, <2>6
  <2> QED
    BY <1>0, <2>1, <2>3, <2>4, <2>5, <2>9, <2>10, <2>11 DEF RequestIInv, CanonicalHost, AllowedHosts, ListedHosts
<1>5. CASE RequestArrives
  <2>1. request' = NoRequest /\ answer' = Unanswered /\ hops' = 0 /\ env' = env
    BY <1>5 DEF RequestArrives
  <2> QED
    BY <1>0, <2>1 DEF RequestIInv
<1> QED
  BY <1>1, <1>2, <1>3, <1>4, <1>5 DEF RequestNext

(* One redirect is enough, and where the host of the addresses is one the  *)
(* installation allows, what it leads to is served (server.ts).            *)
THEOREM RedirectsAreFinal == RequestSpec => []RedirectsAreServed
<1>1. RequestInit => RequestIInv
  BY DEF RequestInit, RequestIInv
<1>2. RequestIInv /\ [RequestNext]_requestVars => RequestIInv'
  BY RequestsKeep
<1>3. RequestIInv => RedirectsAreServed
  <2> SUFFICES ASSUME RequestIInv PROVE RedirectsAreServed
    OBVIOUS
  <2>1. hops <= 1
    BY DEF RequestIInv
  <2>2. ASSUME env.baseUrl # NoHost \/ env.allowed = {} \/ CanonicalHost(env) \in env.allowed, hops = 1
        PROVE  answer.status \notin {301, 421}
    <3>1. CASE answer = Unanswered
      BY <3>1 DEF Unanswered, Reply
    <3>2. CASE answer # Unanswered
      <4>1. request # NoRequest /\ request.at \in Targets /\ answer = RequestHandled(env, request)
        BY <3>2, <2>2 DEF RequestIInv
      <4>2. ~Mismatched(env, request) /\ ~Slashed(request)
        BY <2>2 DEF RequestIInv, Mismatched, Slashed
      <4>3. request.host \in AllowedHosts(env)
        <5>1. CASE CanonicalHost(env) = NoHost
          BY <2>2, <5>1 DEF RequestIInv
        <5>2. CASE CanonicalHost(env) # NoHost
          <6>1. request.host = CanonicalHost(env)
            BY <2>2, <5>2 DEF RequestIInv
          <6> QED
            BY <2>2, <5>2, <6>1 DEF CanonicalHost, AllowedHosts, ListedHosts
        <5> QED
          BY <5>1, <5>2
      <4> QED
        BY <4>1, <4>2, <4>3, Handled
    <3> QED
      BY <3>1, <3>2
  <2> QED
    BY <2>1, <2>2 DEF RedirectsAreServed
<1> QED
  BY <1>1, <1>2, <1>3, PTL DEF RequestSpec

-----------------------------------------------------------------------------
(* UploadForm: what is listed was sent, and what is sent was checked.      *)

LEMMA AcceptableStays == ASSUME UNCHANGED inputs PROVE Acceptable' = Acceptable /\ multiple' = multiple
BY DEF inputs, Acceptable, ExtensionAllowed, TooLarge

LEMMA SelectionFits ==
  ASSUME UploadTypeOK, NEW files \in Picks, SetFilesIfAllowed(files)
  PROVE  selectedFiles' \in Seq(Acceptable) /\ (~multiple => Len(selectedFiles') <= 1)
<1> DEFINE picked == Picked(files)
           given == IF \A i \in DOMAIN picked : ExtensionAllowed(picked[i]) THEN picked ELSE <<>>
<1>1. files \in Seq(Chosen)
  BY UploadAssumption
<1>2. picked \in Seq(Chosen) /\ (~multiple => Len(picked) <= 1)
  <2>1. CASE multiple \/ files = <<>>
    BY <1>1, <2>1 DEF Picked, UploadTypeOK
  <2>2. CASE ~(multiple \/ files = <<>>)
    <3>1. 1 \in DOMAIN files
      BY <1>1, <2>2, EmptySeq
    <3>2. files[1] \in Chosen
      BY <1>1, <3>1
    <3> QED
      BY <2>2, <3>2 DEF Picked
  <2> QED
    BY <2>1, <2>2
<1>3. SetFiles(given)
  BY DEF SetFilesIfAllowed
<1> HIDE DEF picked
<1>4. given \in Seq(Chosen) /\ (~multiple => Len(given) <= 1) /\ \A i \in DOMAIN given : ExtensionAllowed(given[i])
  BY <1>2
<1> HIDE DEF given
<1>5. CASE \E i \in DOMAIN given : TooLarge(given[i])
  <2>1. selectedFiles' = <<>>
    BY <1>3, <1>5 DEF SetFiles
  <2> QED
    BY <2>1
<1>6. CASE ~\E i \in DOMAIN given : TooLarge(given[i])
  <2>1. selectedFiles' = given
    BY <1>3, <1>6 DEF SetFiles
  <2>2. \A i \in 1..Len(given) : given[i] \in Acceptable
    BY <1>4, <1>6 DEF Acceptable
  <2>3. given \in Seq(Acceptable)
    BY <1>4, <2>2, IsASeq
  <2> QED
    BY <1>4, <2>1, <2>3
<1> QED
  BY <1>5, <1>6

(* What only changes the selection, or what is rendered.                   *)
LEMMA FormKeeps ==
  ASSUME UploadIInv, UNCHANGED <<inputs, uploads, store, uploadedItems>>,
         selectedFiles' \in Seq(Acceptable), ~multiple => Len(selectedFiles') <= 1
  PROVE  UploadIInv'
<1>1. Acceptable' = Acceptable /\ multiple' = multiple
  BY AcceptableStays
<1> QED
  BY <1>1 DEF UploadIInv, UploadTypeOK, OneAtATime, SlugsAreTheirs, SlugsDiffer, ItemsCome

LEMMA SubmitKeeps == ASSUME UploadIInv, Submit PROVE UploadIInv'
<1> DEFINE n == Len(uploads)
           job == [files |-> selectedFiles, sent |-> <<>>, state |-> "running"]
           Calls == [files : Seq(Acceptable), sent : Seq(Nat), state : {"running", "done"}]
<1>0. /\ uploads \in Seq(Calls) /\ selectedFiles \in Seq(Acceptable) /\ n \in Nat /\ DOMAIN uploads = 1..n
      /\ UNCHANGED <<inputs, selectedFiles, store, uploadedItems>> /\ Acceptable' = Acceptable /\ multiple' = multiple
  BY AcceptableStays DEF UploadIInv, UploadTypeOK, Submit
<1>1. CASE selectedFiles = <<>>
  BY <1>0, <1>1, FormKeeps DEF Submit, UploadIInv, OneAtATime
<1>2. CASE selectedFiles # <<>>
  <2>1. uploads' = Append(uploads, job)
    BY <1>2 DEF Submit
  <2>2. job \in Calls /\ job.files = selectedFiles /\ job.sent = <<>> /\ DOMAIN job.sent = {} /\ Len(job.sent) = 0
    BY <1>0
  <2>3. Len(selectedFiles) \in Nat /\ Len(selectedFiles) # 0
    BY <1>0, <1>2, EmptySeq
  <2> HIDE DEF job, Calls
  <2>4. /\ DOMAIN uploads' = 1..(n + 1) /\ uploads' \in Seq(Calls)
        /\ \A j \in 1..n : uploads'[j] = uploads[j]
        /\ uploads'[n + 1] = job
    BY <1>0, <2>1, <2>2
  <2>5. DOMAIN uploads \subseteq DOMAIN uploads'
    BY <1>0, <2>4
  <2>6. UploadTypeOK'
    BY <1>0, <2>4 DEF UploadIInv, UploadTypeOK, Calls
  <2>7. OneAtATime'
    <3>1. ASSUME ~multiple, NEW j \in 1..(n + 1) PROVE Len(uploads'[j].files) = 1
      <4>1. CASE j = n + 1
        <5>1. Len(selectedFiles) <= 1
          BY <3>1 DEF UploadIInv, OneAtATime
        <5>2. uploads'[j].files = selectedFiles
          BY <2>2, <2>4, <4>1
        <5> QED
          BY <2>3, <5>1, <5>2
      <4>2. CASE j \in 1..n
        BY <1>0, <2>4, <3>1, <4>2 DEF UploadIInv, OneAtATime
      <4> QED
        BY <1>0, <4>1, <4>2
    <3> QED
      BY <1>0, <2>4, <3>1 DEF UploadIInv, OneAtATime
  <2>8. SlugsAreTheirs'
    <3>1. ASSUME NEW j \in 1..(n + 1)
          PROVE  /\ Len(uploads'[j].sent) <= Len(uploads'[j].files)
                 /\ \A i \in DOMAIN uploads'[j].sent :
                      uploads'[j].sent[i] \in DOMAIN store /\ store[uploads'[j].sent[i]] = uploads'[j].files[i]
      <4>1. CASE j = n + 1
        BY <2>2, <2>3, <2>4, <4>1
      <4>2. CASE j \in 1..n
        BY <1>0, <2>4, <4>2 DEF UploadIInv, SlugsAreTheirs
      <4> QED
        BY <1>0, <4>1, <4>2
    <3> QED
      BY <1>0, <2>4, <3>1 DEF SlugsAreTheirs
  <2>9. SlugsDiffer'
    <3>1. ASSUME NEW j \in 1..(n + 1), NEW k \in 1..(n + 1), NEW i \in DOMAIN uploads'[j].sent, NEW l \in DOMAIN uploads'[k].sent,
                 uploads'[j].sent[i] = uploads'[k].sent[l]
          PROVE  j = k /\ i = l
      <4>1. j # n + 1 /\ k # n + 1
        BY <2>2, <2>4
      <4>2. j \in 1..n /\ k \in 1..n
        BY <1>0, <4>1
      <4> QED
        BY <1>0, <2>4, <3>1, <4>2 DEF UploadIInv, SlugsDiffer
    <3> QED
      BY <2>4, <3>1 DEF SlugsDiffer
  <2>10. ItemsCome'
    <3>1. ASSUME NEW i \in DOMAIN uploadedItems
          PROVE  \E j \in DOMAIN uploads' : \E l \in DOMAIN uploads'[j].sent :
                   /\ uploads'[j].state = "done" /\ uploads'[j].sent[l] = uploadedItems[i].slug
                   /\ uploadedItems[i].name = uploads'[j].files[l].name
      <4>1. PICK j \in DOMAIN uploads : \E l \in DOMAIN uploads[j].sent :
                   /\ uploads[j].state = "done" /\ uploads[j].sent[l] = uploadedItems[i].slug
                   /\ uploadedItems[i].name = uploads[j].files[l].name
        BY DEF UploadIInv, ItemsCome
      <4>2. uploads'[j] = uploads[j] /\ j \in DOMAIN uploads'
        BY <1>0, <2>4, <2>5
      <4> QED
        BY <4>1, <4>2
    <3> QED
      BY <1>0, <3>1 DEF UploadIInv, ItemsCome
  <2> QED
    BY <2>6, <2>7, <2>8, <2>9, <2>10 DEF UploadIInv
<1> QED
  BY <1>1, <1>2

LEMMA FileSentKeeps == ASSUME UploadIInv, NEW j \in DOMAIN uploads, FileSent(j) PROVE UploadIInv'
<1> DEFINE n == Len(store)
           m == Len(uploads[j].sent)
           f == uploads[j].files[m + 1]
           Calls == [files : Seq(Acceptable), sent : Seq(Nat), state : {"running", "done"}]
           job == [uploads[j] EXCEPT !.sent = Append(uploads[j].sent, n + 1)]
<1>0. /\ uploads \in Seq(Calls) /\ store \in Seq(Acceptable) /\ uploads[j] \in Calls
      /\ UNCHANGED <<inputs, selectedFiles, uploadedItems>> /\ Acceptable' = Acceptable /\ multiple' = multiple
  <2>1. uploads \in Seq(Calls) /\ store \in Seq(Acceptable)
    BY DEF UploadIInv, UploadTypeOK
  <2>2. UNCHANGED <<inputs, selectedFiles, uploadedItems>>
    BY DEF FileSent
  <2> HIDE DEF Calls
  <2>3. uploads[j] \in Calls
    BY <2>1
  <2> QED
    BY <2>1, <2>2, <2>3, AcceptableStays
<1>1. /\ uploads[j].state = "running" /\ m < Len(uploads[j].files)
      /\ store' = Append(store, f) /\ uploads' = [uploads EXCEPT ![j] = job]
  BY DEF FileSent
<1>2. n \in Nat /\ m \in Nat /\ DOMAIN store = 1..n /\ uploads[j].sent \in Seq(Nat) /\ DOMAIN uploads[j].sent = 1..m
      /\ uploads[j].files \in Seq(Acceptable) /\ Len(uploads[j].files) \in Nat
  BY <1>0
<1>3. f \in Acceptable
  BY <1>1, <1>2
<1>4. store' \in Seq(Acceptable) /\ DOMAIN store' = 1..(n + 1) /\ (\A i \in 1..n : store'[i] = store[i]) /\ store'[n + 1] = f
  BY <1>0, <1>1, <1>2, <1>3
<1>5. /\ job \in Calls /\ job.files = uploads[j].files /\ job.state = "running"
      /\ DOMAIN job.sent = 1..(m + 1) /\ Len(job.sent) = m + 1 /\ (\A i \in 1..m : job.sent[i] = uploads[j].sent[i]) /\ job.sent[m + 1] = n + 1
  <2> DEFINE slugs == Append(uploads[j].sent, n + 1)
  <2>1. slugs \in Seq(Nat) /\ DOMAIN slugs = 1..(m + 1) /\ Len(slugs) = m + 1 /\ (\A i \in 1..m : slugs[i] = uploads[j].sent[i]) /\ slugs[m + 1] = n + 1
    BY <1>2
  <2>2. job = [uploads[j] EXCEPT !.sent = slugs]
    OBVIOUS
  <2> HIDE DEF slugs
  <2>3. [uploads[j] EXCEPT !.sent = slugs] = [files |-> uploads[j].files, sent |-> slugs, state |-> "running"]
    <3>1. uploads[j] \in [files : Seq(Acceptable), sent : Seq(Nat), state : {"running", "done"}]
      BY <1>0
    <3>2. uploads[j].state = "running"
      BY <1>1
    <3> QED
      BY <3>1, <3>2
  <2>4. job = [files |-> uploads[j].files, sent |-> slugs, state |-> "running"]
    BY <2>2, <2>3
  <2> QED
    BY <1>2, <2>1, <2>4
<1> HIDE DEF job
<1>6. /\ uploads' \in Seq(Calls) /\ DOMAIN uploads' = DOMAIN uploads /\ uploads'[j] = job
      /\ \A k \in DOMAIN uploads : k # j => uploads'[k] = uploads[k]
  BY <1>0, <1>1, <1>5
<1> HIDE DEF f
<1>7. UploadTypeOK'
  BY <1>0, <1>4, <1>6 DEF UploadIInv, UploadTypeOK
<1> HIDE DEF Calls, n, m
<1>8. OneAtATime'
  BY <1>0, <1>5, <1>6 DEF UploadIInv, OneAtATime
<1>9. SlugsAreTheirs'
  <2>1. ASSUME NEW k \in DOMAIN uploads
        PROVE  /\ Len(uploads'[k].sent) <= Len(uploads'[k].files)
               /\ \A i \in DOMAIN uploads'[k].sent :
                    uploads'[k].sent[i] \in DOMAIN store' /\ store'[uploads'[k].sent[i]] = uploads'[k].files[i]
    <3>1. \A i \in DOMAIN uploads[k].sent : uploads[k].sent[i] \in 1..n /\ store[uploads[k].sent[i]] = uploads[k].files[i]
      BY <1>2 DEF UploadIInv, SlugsAreTheirs
    <3>2. \A i \in DOMAIN uploads[k].sent : uploads[k].sent[i] \in 1..(n + 1) /\ store'[uploads[k].sent[i]] = uploads[k].files[i]
      BY <1>2, <1>4, <3>1
    <3>3. CASE k # j
      BY <1>4, <1>6, <3>2, <3>3 DEF UploadIInv, SlugsAreTheirs
    <3>4. CASE k = j
      <4>1. ASSUME NEW i \in 1..(m + 1) PROVE job.sent[i] \in 1..(n + 1) /\ store'[job.sent[i]] = job.files[i]
        <5>1. CASE i = m + 1
          BY <1>2, <1>4, <1>5, <5>1 DEF f
        <5>2. CASE i \in 1..m
          BY <1>2, <1>5, <3>2, <3>4, <5>2
        <5> QED
          BY <1>2, <5>1, <5>2
      <4>2. m + 1 <= Len(uploads[j].files)
        BY <1>1, <1>2
      <4> QED
        BY <1>4, <1>5, <1>6, <3>4, <4>1, <4>2
    <3> QED
      BY <3>3, <3>4
  <2> QED
    BY <1>6, <2>1 DEF SlugsAreTheirs
<1>10. SlugsDiffer'
  <2>1. \A k \in DOMAIN uploads : \A l \in DOMAIN uploads[k].sent : uploads[k].sent[l] \in 1..n
    BY <1>2 DEF UploadIInv, SlugsAreTheirs
  <2>2. \A k, h \in DOMAIN uploads : \A i \in DOMAIN uploads[k].sent, l \in DOMAIN uploads[h].sent :
          uploads[k].sent[i] = uploads[h].sent[l] => k = h /\ i = l
    BY DEF UploadIInv, SlugsDiffer
  <2>3. ASSUME NEW k \in DOMAIN uploads, NEW i \in DOMAIN uploads'[k].sent
        PROVE  \/ k = j /\ i = m + 1 /\ uploads'[k].sent[i] = n + 1
               \/ i \in DOMAIN uploads[k].sent /\ uploads'[k].sent[i] = uploads[k].sent[i]
    <3>1. CASE k = j
      <4>1. i \in 1..(m + 1)
        BY <1>5, <1>6, <3>1
      <4>2. i = m + 1 \/ i \in 1..m
        BY <1>2, <4>1
      <4> QED
        BY <1>2, <1>5, <1>6, <3>1, <4>2
    <3>2. CASE k # j
      BY <1>6, <3>2
    <3> QED
      BY <3>1, <3>2
  <2>4. n + 1 \notin 1..n
    BY <1>2
  <2>5. ASSUME NEW k \in DOMAIN uploads, NEW h \in DOMAIN uploads, NEW i \in DOMAIN uploads'[k].sent, NEW l \in DOMAIN uploads'[h].sent,
               uploads'[k].sent[i] = uploads'[h].sent[l]
        PROVE  k = h /\ i = l
    <3>1. \/ k = j /\ i = m + 1 /\ uploads'[k].sent[i] = n + 1
          \/ i \in DOMAIN uploads[k].sent /\ uploads'[k].sent[i] = uploads[k].sent[i]
      BY <2>3
    <3>2. \/ h = j /\ l = m + 1 /\ uploads'[h].sent[l] = n + 1
          \/ l \in DOMAIN uploads[h].sent /\ uploads'[h].sent[l] = uploads[h].sent[l]
      BY <2>3
    <3> QED
      BY <2>1, <2>2, <2>4, <2>5, <3>1, <3>2
  <2> QED
    BY <1>6, <2>5 DEF SlugsDiffer
<1>11. ItemsCome'
  <2>1. ASSUME NEW i \in DOMAIN uploadedItems
        PROVE  \E k \in DOMAIN uploads' : \E l \in DOMAIN uploads'[k].sent :
                 /\ uploads'[k].state = "done" /\ uploads'[k].sent[l] = uploadedItems[i].slug
                 /\ uploadedItems[i].name = uploads'[k].files[l].name
    <3>1. PICK k \in DOMAIN uploads : \E l \in DOMAIN uploads[k].sent :
                 /\ uploads[k].state = "done" /\ uploads[k].sent[l] = uploadedItems[i].slug
                 /\ uploadedItems[i].name = uploads[k].files[l].name
      BY DEF UploadIInv, ItemsCome
    <3>2. uploads'[k] = uploads[k] /\ k \in DOMAIN uploads'
      BY <1>1, <1>6, <3>1
    <3> QED
      BY <3>1, <3>2
  <2> QED
    BY <1>0, <2>1 DEF UploadIInv, ItemsCome
<1> QED
  BY <1>7, <1>8, <1>9, <1>10, <1>11 DEF UploadIInv

LEMMA UploadEndsKeeps == ASSUME UploadIInv, NEW j \in DOMAIN uploads, NEW ok \in BOOLEAN, UploadEnds(j, ok) PROVE UploadIInv'
<1> DEFINE Calls == [files : Seq(Acceptable), sent : Seq(Nat), state : {"running", "done"}]
           Items == [name : {f.name : f \in Chosen}, slug : Nat]
           job == [uploads[j] EXCEPT !.state = "done"]
           new == IF ok THEN Listed(uploads[j]) ELSE <<>>
           n == Len(uploadedItems)
           m == Len(uploads[j].sent)
<1>1. /\ uploads[j].state = "running" /\ uploadedItems' = uploadedItems \o new /\ uploads' = [uploads EXCEPT ![j] = job]
      /\ UNCHANGED <<inputs, selectedFiles, store>>
  BY DEF UploadEnds
<1>2. uploads \in Seq(Calls) /\ uploadedItems \in Seq(Items)
  BY DEF UploadIInv, UploadTypeOK
<1>3. Acceptable' = Acceptable /\ multiple' = multiple
  BY <1>1, AcceptableStays
<1>4. uploads[j] \in [files : Seq(Acceptable), sent : Seq(Nat), state : {"running", "done"}]
  <2> HIDE DEF Calls
  <2>1. uploads[j] \in Calls
    BY <1>2
  <2> QED
    BY <2>1 DEF Calls
<1>5. job \in Calls /\ job.files = uploads[j].files /\ job.sent = uploads[j].sent /\ job.state = "done"
  BY <1>4
<1>6. m \in Nat /\ uploads[j].sent \in Seq(Nat) /\ DOMAIN uploads[j].sent = 1..m /\ n \in Nat /\ DOMAIN uploadedItems = 1..n
  BY <1>2, <1>4
<1> HIDE DEF job, Calls
<1>7. /\ uploads' \in Seq(Calls) /\ DOMAIN uploads' = DOMAIN uploads /\ uploads'[j] = job
      /\ \A k \in DOMAIN uploads : k # j => uploads'[k] = uploads[k]
  BY <1>1, <1>2, <1>5
<1>8. \A k \in DOMAIN uploads :
        /\ uploads'[k].files = uploads[k].files /\ uploads'[k].sent = uploads[k].sent
        /\ uploads[k].state = "done" => uploads'[k].state = "done"
  BY <1>5, <1>7
<1>9. ASSUME NEW i \in 1..m
      PROVE  /\ uploads[j].files[i] \in Chosen /\ uploads[j].sent[i] \in Nat
  <2>1. m <= Len(uploads[j].files) /\ Len(uploads[j].files) \in Nat /\ uploads[j].files \in Seq(Acceptable)
    BY <1>4 DEF UploadIInv, SlugsAreTheirs
  <2>2. uploads[j].files[i] \in Acceptable
    BY <1>6, <2>1
  <2> QED
    BY <1>6, <2>2 DEF Acceptable
<1>10. /\ new \in Seq(Items) /\ Len(new) \in {0, m}
       /\ \A i \in 1..Len(new) : i \in 1..m /\ new[i].name = uploads[j].files[i].name /\ new[i].slug = uploads[j].sent[i]
  <2>1. CASE ~ok
    <3>1. new = <<>>
      BY <2>1
    <3> HIDE DEF new
    <3> QED
      BY <3>1
  <2>2. CASE ok
    <3>1. new = [i \in 1..m |-> [name |-> uploads[j].files[i].name, slug |-> uploads[j].sent[i]]]
      BY <2>2 DEF Listed
    <3>2. \A i \in 1..m : [name |-> uploads[j].files[i].name, slug |-> uploads[j].sent[i]] \in Items
      BY <1>9
    <3> HIDE DEF new, Items
    <3>3. new \in [1..m -> Items]
      BY <3>1, <3>2
    <3>4. new \in Seq(Items) /\ Len(new) = m
      BY <1>6, <3>3
    <3> QED
      BY <3>1, <3>4
  <2> QED
    BY <2>1, <2>2
<1> HIDE DEF new, Items
<1>11. /\ uploadedItems' \in Seq(Items) /\ DOMAIN uploadedItems' = 1..(n + Len(new)) /\ Len(new) \in Nat
       /\ \A i \in 1..n : uploadedItems'[i] = uploadedItems[i]
       /\ \A i \in (n + 1)..(n + Len(new)) : uploadedItems'[i] = new[i - n]
  <2>1. Len(uploadedItems \o new) = n + Len(new) /\ \A i \in 1..(n + Len(new)) :
          (uploadedItems \o new)[i] = IF i <= n THEN uploadedItems[i] ELSE new[i - n]
    BY <1>2, <1>10, ConcatProperties
  <2>2. uploadedItems \o new \in Seq(Items) /\ Len(new) \in Nat
    BY <1>2, <1>10, ConcatProperties
  <2> QED
    BY <1>1, <1>6, <2>1, <2>2
<1>12. UploadTypeOK'
  BY <1>1, <1>3, <1>7, <1>11 DEF UploadIInv, UploadTypeOK, Calls, Items
<1>13. OneAtATime' /\ SlugsAreTheirs' /\ SlugsDiffer'
  BY <1>1, <1>3, <1>7, <1>8 DEF UploadIInv, OneAtATime, SlugsAreTheirs, SlugsDiffer
<1> HIDE DEF n, m
<1>14. ItemsCome'
  <2>1. ASSUME NEW i \in 1..(n + Len(new))
        PROVE  \/ i \in 1..n /\ uploadedItems'[i] = uploadedItems[i]
               \/ /\ i - n \in 1..m /\ i - n \in Nat /\ uploadedItems'[i].slug = uploads[j].sent[i - n]
                  /\ uploadedItems'[i].name = uploads[j].files[i - n].name
    BY <1>6, <1>10, <1>11
  <2>2. ASSUME NEW i \in 1..n
        PROVE  \E k \in DOMAIN uploads : \E l \in DOMAIN uploads[k].sent :
                 /\ uploads[k].state = "done" /\ k # j /\ uploads[k].sent[l] = uploadedItems[i].slug
                 /\ uploadedItems[i].name = uploads[k].files[l].name
    BY <1>1, <1>6 DEF UploadIInv, ItemsCome
  <2>3. ASSUME NEW i \in 1..(n + Len(new))
        PROVE  \E k \in DOMAIN uploads' : \E l \in DOMAIN uploads'[k].sent :
                 /\ uploads'[k].state = "done" /\ uploads'[k].sent[l] = uploadedItems'[i].slug
                 /\ uploadedItems'[i].name = uploads'[k].files[l].name
    <3>1. CASE i \in 1..n /\ uploadedItems'[i] = uploadedItems[i]
      BY <1>7, <1>8, <2>2, <3>1
    <3>2. CASE /\ i - n \in 1..m /\ uploadedItems'[i].slug = uploads[j].sent[i - n]
               /\ uploadedItems'[i].name = uploads[j].files[i - n].name
      BY <1>5, <1>6, <1>7, <3>2
    <3> QED
      BY <2>1, <3>1, <3>2
  <2>4. \A k \in DOMAIN uploads : \A l \in DOMAIN uploads[k].sent, h \in 1..m :
          uploads[k].sent[l] = uploads[j].sent[h] => k = j /\ l = h
    BY <1>6 DEF UploadIInv, SlugsDiffer
  <2>5. ASSUME NEW i \in 1..n, NEW h \in 1..m PROVE uploadedItems[i].slug # uploads[j].sent[h]
    BY <2>2, <2>4
  <2>6. ASSUME NEW i \in 1..(n + Len(new)), NEW k \in 1..(n + Len(new)), uploadedItems'[i].slug = uploadedItems'[k].slug
        PROVE  i = k
    <3>1. CASE i \in 1..n /\ uploadedItems'[i] = uploadedItems[i] /\ k \in 1..n /\ uploadedItems'[k] = uploadedItems[k]
      BY <1>6, <2>6, <3>1 DEF UploadIInv, ItemsCome
    <3>2. CASE /\ i - n \in 1..m /\ uploadedItems'[i].slug = uploads[j].sent[i - n]
               /\ k - n \in 1..m /\ uploadedItems'[k].slug = uploads[j].sent[k - n]
      <4>1. i - n = k - n
        BY <1>6, <2>4, <2>6, <3>2
      <4> QED
        BY <1>6, <1>11, <4>1
    <3> QED
      BY <2>1, <2>5, <2>6, <3>1, <3>2
  <2> QED
    BY <1>11, <2>3, <2>6 DEF ItemsCome
<1> QED
  BY <1>12, <1>13, <1>14 DEF UploadIInv

(* What reaches the backend was checked, and the page lists each blob once *)
(* and under its own name, also when the answers of two selections         *)
(* alternate (upload-form.component.ts, che-faccio.component.ts).          *)
THEOREM UploadsAreSafe == UploadSpec => []UploadsSafe
<1>1. UploadInit => UploadIInv
  <2> SUFFICES ASSUME UploadInit PROVE UploadIInv
    OBVIOUS
  <2>1. DOMAIN uploads = {} /\ DOMAIN uploadedItems = {} /\ Len(selectedFiles) = 0
    BY DEF UploadInit
  <2>2. UploadTypeOK
    BY DEF UploadInit, UploadTypeOK
  <2> QED
    BY <2>1, <2>2 DEF UploadIInv, OneAtATime, SlugsAreTheirs, SlugsDiffer, ItemsCome
<1>2. UploadIInv /\ [UploadNext]_uploadVars => UploadIInv'
  <2> SUFFICES ASSUME UploadIInv, [UploadNext]_uploadVars PROVE UploadIInv'
    OBVIOUS
  <2>0. UploadTypeOK /\ selectedFiles \in Seq(Acceptable) /\ (~multiple => Len(selectedFiles) <= 1)
    BY DEF UploadIInv, UploadTypeOK, OneAtATime
  <2>1. CASE UNCHANGED uploadVars
    BY <2>0, <2>1, FormKeeps DEF uploadVars, inputs
  <2>2. ASSUME NEW files \in Picks, FileSelected(files) \/ Drop(files) PROVE UploadIInv'
    <3>1. UNCHANGED <<inputs, uploads, store, uploadedItems>>
      BY <2>2 DEF FileSelected, Drop, page
    <3>2. SetFilesIfAllowed(files) \/ UNCHANGED selectedFiles
      BY <2>2 DEF FileSelected, Drop
    <3>3. selectedFiles' \in Seq(Acceptable) /\ (~multiple => Len(selectedFiles') <= 1)
      BY <2>0, <3>2, SelectionFits
    <3> QED
      BY <3>1, <3>3, FormKeeps
  <2>3. CASE DragOver \/ DragLeave \/ Render
    BY <2>0, <2>3, FormKeeps DEF DragOver, DragLeave, Render, page
  <2>4. CASE Submit
    BY <2>4, SubmitKeeps
  <2>5. ASSUME NEW j \in DOMAIN uploads, FileSent(j) PROVE UploadIInv'
    BY <2>5, FileSentKeeps
  <2>6. ASSUME NEW j \in DOMAIN uploads, NEW ok \in BOOLEAN, UploadEnds(j, ok) PROVE UploadIInv'
    BY <2>6, UploadEndsKeeps
  <2> QED
    BY <2>1, <2>2, <2>3, <2>4, <2>5, <2>6 DEF UploadNext
<1>3. UploadIInv => UploadsSafe
  <2> SUFFICES ASSUME UploadIInv PROVE UploadsSafe
    OBVIOUS
  <2>1. SentWasChecked
    <3>1. ASSUME NEW i \in DOMAIN store PROVE store[i] \in Acceptable
      BY DEF UploadIInv, UploadTypeOK
    <3> QED
      BY <3>1 DEF UploadIInv, OneAtATime, SentWasChecked, Acceptable
  <2>2. ListedUnderItsName
    BY DEF UploadIInv, SlugsAreTheirs, ItemsCome, ListedUnderItsName
  <2> QED
    BY <2>1, <2>2 DEF UploadsSafe
<1> QED
  BY <1>1, <1>2, <1>3, PTL DEF UploadSpec

-----------------------------------------------------------------------------
(* LocalizedPage: language, shell and head follow what was asked last.     *)

Loads == [in : Langs, fallback : BOOLEAN, last : BOOLEAN, awaited : BOOLEAN]

LEMMA LanguageAsked ==
  ASSUME PageIInv, NEW l \in Langs, l # lang, NEW awaited \in BOOLEAN, SetLanguage(l, awaited), lang' = lang
  PROVE  asked' \in Langs /\ asked' # lang /\ loads' \subseteq Loads /\ LastLoadIsAsked'
<1> DEFINE old == {[x EXCEPT !.last = FALSE] : x \in loads}
           new == [in |-> l, fallback |-> FALSE, last |-> TRUE, awaited |-> awaited]
<1>1. asked' = l /\ loads' = old \union {new}
  BY DEF SetLanguage, Load
<1>2. loads \subseteq Loads
  BY DEF PageIInv, PageTypeOK, Loads
<1>3. \A y \in old : y \in Loads /\ ~y.last
  BY <1>2 DEF Loads
<1>4. new \in Loads /\ new.last /\ new.in = l
  BY DEF Loads
<1> HIDE DEF old, new
<1>5. LastLoadIsAsked'
  <2>1. \A x \in loads' : x.last => x.in = asked'
    BY <1>1, <1>3, <1>4
  <2>2. \E x \in loads' : x.last
    BY <1>1, <1>4
  <2> QED
    BY <2>1, <2>2 DEF LastLoadIsAsked
<1> QED
  BY <1>1, <1>3, <1>4, <1>5

(* Where the key of the shell stays, and what it is resolved for too.      *)
LEMMA ShellStays ==
  ASSUME ShellFollows, Key' = Key, UNCHANGED <<shell, runs>>, "shell" \in effects => "shell" \in effects',
         (asked' = asked /\ lang' = lang) \/ asked' # lang'
  PROVE  ShellFollows'
BY DEF ShellFollows

(* Where it changes, the effect that resolves it is to come.               *)
LEMMA ShellIsToCome ==
  ASSUME ShellFollows, Key' # Key, Ticked, UNCHANGED <<shell, runs>>, "shell" \in effects'
  PROVE  ShellFollows'
<1>1. Key = shell.key
  BY DEF ShellFollows, Ticked
<1> QED
  BY <1>1 DEF ShellFollows

LEMMA AgedIsHead == ASSUME PageTypeOK PROVE Aged \in Heads
BY DEF PageTypeOK, Heads, Aged

LEMMA PageInitially == PageInit => PageIInv
<1> SUFFICES ASSUME PageInit PROVE PageIInv
  OBVIOUS
<1> USE LocalizedPageAssumption
<1>0. PICK u \in Url :
        /\ IF u.page # "error" /\ u.in # DefaultLang
             THEN trip = [to |-> u, step |-> "catalog"] /\ asked = u.in /\ loads = {Load(u.in, TRUE)}
             ELSE trip = [to |-> u, step |-> "content"] /\ asked = DefaultLang /\ loads = {}
        /\ \E l \in {DefaultLang, "none"} \union (IF u.page = "error" THEN {} ELSE {u.in}), known \in BOOLEAN :
             shell = [key |-> [in |-> DefaultLang, login |-> FALSE, identity |-> FALSE],
                      part |-> [p \in Parts |-> [in |-> l, login |-> FALSE, identity |-> known /\ l # "none"]]]
        /\ head \in {Sent(u), Static}
  BY DEF PageInit
<1> DEFINE first == {DefaultLang, "none"} \union (IF u.page = "error" THEN {} ELSE {u.in})
<1>7. PICK l \in first, known \in BOOLEAN :
        shell = [key |-> [in |-> DefaultLang, login |-> FALSE, identity |-> FALSE],
                 part |-> [p \in Parts |-> [in |-> l, login |-> FALSE, identity |-> known /\ l # "none"]]]
  BY <1>0
<1>1. /\ shown = Blank /\ lang = DefaultLang /\ signedIn \in BOOLEAN /\ identity = "loading"
      /\ runs = {} /\ effects = {"shell"}
  BY DEF PageInit
<1>2. u.in \in Langs /\ Blank \in Url \union {Blank} /\ l \in Langs \union {"none"}
  BY DEF Url
<1>3. trip \in [to : Url \union {Blank}, step : PageSteps \union {"none"}] /\ asked \in Langs
      /\ loads \subseteq Loads /\ LastLoadIsAsked
  <2>1. CASE u.page # "error" /\ u.in # DefaultLang
    <3>1. trip = [to |-> u, step |-> "catalog"] /\ asked = u.in
          /\ loads = {[in |-> u.in, fallback |-> FALSE, last |-> TRUE, awaited |-> TRUE]}
      BY <1>0, <2>1 DEF Load
    <3> QED
      BY <1>2, <3>1 DEF LastLoadIsAsked, PageSteps, Loads
  <2>2. CASE ~(u.page # "error" /\ u.in # DefaultLang)
    <3>1. trip = [to |-> u, step |-> "content"] /\ asked = DefaultLang /\ loads = {}
      BY <1>0, <2>2
    <3>2. LastLoadIsAsked
      BY <1>1, <3>1 DEF LastLoadIsAsked
    <3> QED
      BY <1>2, <3>1, <3>2 DEF PageSteps
  <2> QED
    BY <2>1, <2>2
<1>4. PageTypeOK
  <2>1. trip.to \in Url \union {Blank} /\ trip.step \in PageSteps \union {"none"}
    BY <1>3
  <2>2. effects \subseteq Effects /\ head \in Heads /\ runs = {}
    BY <1>0, <1>1 DEF Effects, Heads, Sent, Static
  <2> QED
    BY <1>1, <1>2, <1>3, <2>1, <2>2 DEF PageTypeOK, Loads
<1>5. ShellFollows
  <2> DEFINE f == [in |-> l, login |-> FALSE, identity |-> known /\ l # "none"]
  <2>1. shell.key = [in |-> DefaultLang, login |-> FALSE, identity |-> FALSE] /\ \A p \in Parts : shell.part[p] = f
    BY <1>7
  <2>2. f \in ShellKeys /\ [in |-> DefaultLang, login |-> FALSE, identity |-> FALSE] \in ShellKeys
    BY <1>2 DEF ShellKeys
  <2>3. shell \in [key : ShellKeys, part : [Parts -> ShellKeys]]
    BY <1>7, <2>2
  <2>4. ResolvedFor(f, shell.key) \/ asked # lang
    <3>1. CASE l = "none"
      <4>1. f = NoShell
        BY <3>1 DEF NoShell
      <4> QED
        BY <4>1 DEF ResolvedFor
    <3>2. CASE l = DefaultLang
      BY <2>1, <3>2 DEF ResolvedFor
    <3>3. CASE l # "none" /\ l # DefaultLang
      BY <1>0, <1>1, <3>3
    <3> QED
      BY <3>1, <3>2, <3>3
  <2> HIDE DEF f
  <2> QED
    BY <1>1, <2>1, <2>3, <2>4 DEF ShellFollows
<1>6. HeadFollows
  <2>1. shown.page = "blank"
    BY <1>1 DEF Blank, At
  <2> QED
    BY <1>1, <2>1 DEF HeadFollows
<1> QED
  BY <1>1, <1>3, <1>4, <1>5, <1>6 DEF PageIInv

(* The answer of a catalogue: the language it is for becomes the one of    *)
(* the page only where nothing was asked after it.                         *)
LEMMA LoadEndsKeeps ==
  ASSUME PageIInv, NEW load \in loads, NEW ok \in BOOLEAN, LoadEnds(load, ok)
  PROVE  PageIInv'
<1> DEFINE retry == ~ok /\ ~load.fallback /\ load.in # DefaultLang
           again == [load EXCEPT !.fallback = TRUE]
           taken == ~retry /\ load.last
           next == IF ~retry /\ load.awaited THEN [trip EXCEPT !.step = "content"] ELSE trip
<1>1. /\ Ticked /\ loads' = (loads \ {load}) \union (IF retry THEN {again} ELSE {})
      /\ trip' = next /\ lang' = (IF taken THEN load.in ELSE lang)
      /\ identity' = (IF lang' # lang THEN "loading" ELSE identity)
      /\ head' = (IF lang' # lang THEN Aged ELSE head)
      /\ effects' = effects \union (IF lang' # lang THEN Watchers ELSE IF taken THEN {"head"} ELSE {})
      /\ UNCHANGED <<shown, asked, signedIn, shell, runs>>
  BY DEF LoadEnds, Taken, Returns
<1>2. load \in Loads /\ loads \subseteq Loads /\ trip \in [to : Url \union {Blank}, step : PageSteps \union {"none"}]
      /\ head \in Heads /\ Aged \in Heads
  BY AgedIsHead DEF PageIInv, PageTypeOK, Loads
<1>3. again \in Loads /\ again.in = load.in /\ again.last = load.last
  BY <1>2 DEF Loads
<1>4. next \in [to : Url \union {Blank}, step : PageSteps \union {"none"}]
  BY <1>2 DEF PageSteps
<1>5. load.in \in Langs /\ load.last \in BOOLEAN /\ lang' \in Langs
  BY <1>1, <1>2 DEF Loads, PageIInv, PageTypeOK
<1>6. Watchers \subseteq Effects /\ "shell" \in Watchers /\ "head" \in Watchers
  BY DEF Watchers, Effects
<1> HIDE DEF again, next
<1>7. PageTypeOK'
  <2>1. loads' \subseteq Loads
    BY <1>1, <1>2, <1>3
  <2>2. trip'.to \in Url \union {Blank} /\ trip'.step \in PageSteps \union {"none"}
    BY <1>1, <1>4
  <2>3. effects' \subseteq Effects
    BY <1>1, <1>6 DEF PageIInv, PageTypeOK, Effects
  <2>4. identity' \in {"loading", "present", "absent"} /\ head' \in Heads
    BY <1>1, <1>2 DEF PageIInv, PageTypeOK
  <2> QED
    BY <1>1, <1>5, <2>1, <2>2, <2>3, <2>4 DEF PageIInv, PageTypeOK, Loads
<1>8. LastLoadIsAsked'
  <2>1. \A x \in loads : x.last => x.in = asked
    BY DEF PageIInv, LastLoadIsAsked
  <2>2. \A x \in loads' : x.last => x.in = asked
    BY <1>1, <1>3, <2>1
  <2>3. ASSUME \A x \in loads' : ~x.last PROVE lang' = asked
    <3>1. CASE load.last
      <4>1. ~retry
        BY <1>1, <1>3, <2>3, <3>1
      <4> QED
        BY <1>1, <2>1, <3>1, <4>1
    <3>2. CASE ~load.last
      <4>1. \A x \in loads : ~x.last
        BY <1>1, <2>3, <3>2
      <4>2. lang = asked
        BY <4>1 DEF PageIInv, LastLoadIsAsked
      <4> QED
        BY <1>1, <3>2, <4>2
    <3> QED
      BY <1>5, <3>1, <3>2
  <2> QED
    BY <1>1, <2>2, <2>3 DEF LastLoadIsAsked
<1> HIDE DEF retry, taken
<1>9. ShellFollows'
  <2>1. CASE lang' # lang
    <3>1. Key' # Key
      BY <2>1 DEF Key
    <3>2. "shell" \in effects'
      BY <1>1, <1>6, <2>1
    <3> QED
      BY <1>1, <3>1, <3>2, ShellIsToCome DEF PageIInv
  <2>2. CASE lang' = lang
    <3>1. Key' = Key
      BY <1>1, <2>2 DEF Key
    <3>2. "shell" \in effects => "shell" \in effects'
      BY <1>1
    <3> QED
      BY <1>1, <2>2, <3>1, <3>2, ShellStays DEF PageIInv
  <2> QED
    BY <2>1, <2>2
<1>10. HeadFollows'
  <2>1. CASE lang' # lang \/ taken
    BY <1>1, <1>6, <2>1 DEF HeadFollows
  <2>2. CASE lang' = lang /\ ~taken
    BY <1>1, <2>2 DEF PageIInv, HeadFollows, Written
  <2> QED
    BY <2>1, <2>2
<1> QED
  BY <1>1, <1>4, <1>7, <1>8, <1>9, <1>10 DEF PageIInv

(* A navigation is another one under way; the page it leads to is shown    *)
(* with a head to be written.                                              *)
LEMMA TripKeeps ==
  ASSUME PageIInv, (\E u \in Url : Go(u)) \/ Guards \/ Activate \/ ContentRefused \/ LanguageEffect
  PROVE  PageIInv'
<1> DEFINE Trips == [to : Url \union {Blank}, step : PageSteps \union {"none"}]
<1>0. /\ PageTypeOK /\ trip \in Trips /\ signedIn \in BOOLEAN /\ LastLoadIsAsked /\ ShellFollows /\ HeadFollows
  BY DEF PageIInv
<1>1. loads \subseteq Loads /\ shown \in Url \union {Blank} /\ lang \in Langs /\ asked \in Langs
  BY <1>0 DEF PageTypeOK, Loads
<1>2. Url \union {Blank} = Url \union {[page |-> "blank", in |-> DefaultLang]} /\ \A u \in Url \union {Blank} : u.in \in Langs
  BY LocalizedPageAssumption DEF Url, Blank, At
<1>3. NoTrip \in Trips /\ At("error", DefaultLang) \in Url
  BY LocalizedPageAssumption DEF NoTrip, At, Url
<1>4. UNCHANGED <<lang, signedIn, identity, shell, runs>> /\ Key' = Key
  BY DEF Go, Guards, Activate, ContentRefused, LanguageEffect, Key
<1>5. ASSUME trip' \in Trips, loads' \subseteq Loads, asked' \in Langs, shown' \in Url \union {Blank},
             head' \in Heads, effects' \subseteq Effects
      PROVE  PageTypeOK' /\ trip' \in Trips
  <2>1. trip'.to \in Url \union {Blank} /\ trip'.step \in PageSteps \union {"none"}
    BY <1>5
  <2> QED
    BY <1>0, <1>1, <1>4, <1>5, <2>1 DEF PageTypeOK, Loads
<1>6. head \in Heads /\ Aged \in Heads /\ effects \subseteq Effects
  BY <1>0, AgedIsHead DEF PageTypeOK
<1>12. ASSUME UNCHANGED <<shown, head>>, effects \ {"language"} \subseteq effects' PROVE HeadFollows'
  BY <1>0, <1>4, <1>12 DEF HeadFollows, Written
<1> HIDE DEF Trips
<1>7. ASSUME NEW u \in Url, Go(u) PROVE PageIInv'
  <2> DEFINE old == {[x EXCEPT !.awaited = FALSE] : x \in loads}
  <2>1. /\ trip' = (IF u = shown THEN NoTrip ELSE [to |-> u, step |-> "guards"]) /\ loads' = old
        /\ UNCHANGED <<shown, asked, head, effects>>
    BY <1>7 DEF Go
  <2>2. \A y \in old : y \in Loads /\ \E x \in loads : y.in = x.in /\ y.last = x.last
    BY <1>1 DEF Loads
  <2>3. \A x \in loads : \E y \in old : y.in = x.in /\ y.last = x.last
    <3>1. ASSUME NEW x \in loads PROVE \E y \in old : y.in = x.in /\ y.last = x.last
      <4>1. [x EXCEPT !.awaited = FALSE].in = x.in /\ [x EXCEPT !.awaited = FALSE].last = x.last
        BY <1>1 DEF Loads
      <4> QED
        BY <4>1
    <3> QED
      BY <3>1
  <2> HIDE DEF old
  <2>4. trip' \in Trips
    BY <1>3, <2>1 DEF Trips, PageSteps
  <2>5. PageTypeOK' /\ trip' \in Trips
    BY <1>1, <1>5, <1>6, <2>1, <2>2, <2>4
  <2>6. LastLoadIsAsked'
    BY <1>0, <1>4, <2>1, <2>2, <2>3 DEF LastLoadIsAsked
  <2>7. ShellFollows'
    BY <1>0, <1>4, <2>1, ShellStays
  <2>8. HeadFollows'
    BY <1>12, <2>1
  <2> QED
    BY <1>0, <1>4, <2>5, <2>6, <2>7, <2>8 DEF PageIInv, Trips
<1>8. CASE Guards
  <2>1. trip.step = "guards" /\ UNCHANGED <<shown, head, effects>>
    BY <1>8 DEF Guards
  <2>2. \/ /\ trip.to.in # lang /\ SetLanguage(trip.to.in, TRUE) /\ trip' = [trip EXCEPT !.step = "catalog"]
        \/ UNCHANGED <<asked, loads>> /\ trip' = [trip EXCEPT !.step = "content"]
    BY <1>8 DEF Guards
  <2>3. trip.to.in \in Langs /\ trip' \in Trips
    BY <1>0, <1>2, <2>2 DEF Trips, PageSteps
  <2>4. /\ asked' \in Langs /\ loads' \subseteq Loads /\ LastLoadIsAsked'
        /\ ((asked' = asked /\ lang' = lang) \/ asked' # lang')
    <3>1. CASE trip.to.in # lang /\ SetLanguage(trip.to.in, TRUE)
      BY <1>4, <2>3, <3>1, LanguageAsked
    <3>2. CASE UNCHANGED <<asked, loads>>
      BY <1>0, <1>1, <1>4, <3>2 DEF LastLoadIsAsked
    <3> QED
      BY <2>2, <3>1, <3>2
  <2>5. PageTypeOK' /\ trip' \in Trips
    BY <1>1, <1>5, <1>6, <2>1, <2>3, <2>4
  <2>6. ShellFollows'
    BY <1>0, <1>4, <2>1, <2>4, ShellStays
  <2>7. HeadFollows'
    BY <1>12, <2>1
  <2> QED
    BY <1>0, <1>4, <2>4, <2>5, <2>6, <2>7 DEF PageIInv, Trips
<1>9. CASE Activate
  <2>1. /\ shown' = trip.to /\ trip' = NoTrip /\ head' \in {head, Aged} /\ effects' = effects \union {"language", "head"}
        /\ UNCHANGED <<asked, loads>>
    BY <1>9 DEF Activate
  <2>2. shown' \in Url \union {Blank} /\ effects' \subseteq Effects
    BY <1>0, <1>6, <2>1 DEF Trips, Effects
  <2>3. PageTypeOK' /\ trip' \in Trips
    BY <1>1, <1>3, <1>5, <1>6, <2>1, <2>2
  <2>4. LastLoadIsAsked'
    BY <1>0, <1>4, <2>1 DEF LastLoadIsAsked
  <2>5. ShellFollows'
    BY <1>0, <1>4, <2>1, ShellStays
  <2>6. HeadFollows'
    BY <2>1 DEF HeadFollows
  <2> QED
    BY <1>0, <1>4, <2>3, <2>4, <2>5, <2>6 DEF PageIInv, Trips
<1>10. CASE ContentRefused
  <2>1. /\ trip' = [to |-> At("error", DefaultLang), step |-> "guards"]
        /\ UNCHANGED <<shown, asked, loads, head, effects>>
    BY <1>10 DEF ContentRefused
  <2>2. trip' \in Trips
    BY <1>3, <2>1 DEF Trips, PageSteps
  <2>3. PageTypeOK' /\ trip' \in Trips
    BY <1>1, <1>5, <1>6, <2>1, <2>2
  <2>4. LastLoadIsAsked' /\ HeadFollows'
    BY <1>0, <1>4, <1>12, <2>1 DEF LastLoadIsAsked
  <2>5. ShellFollows'
    BY <1>0, <1>4, <2>1, ShellStays
  <2> QED
    BY <1>0, <1>4, <2>3, <2>4, <2>5 DEF PageIInv, Trips
<1>11. CASE LanguageEffect
  <2>1. effects' = effects \ {"language"} /\ UNCHANGED <<shown, trip, head>>
    BY <1>11 DEF LanguageEffect
  <2>2. (shown.in # lang /\ SetLanguage(shown.in, FALSE)) \/ UNCHANGED <<asked, loads>>
    BY <1>11 DEF LanguageEffect
  <2>3. /\ asked' \in Langs /\ loads' \subseteq Loads /\ LastLoadIsAsked'
        /\ ((asked' = asked /\ lang' = lang) \/ asked' # lang')
    <3>1. CASE shown.in # lang /\ SetLanguage(shown.in, FALSE)
      BY <1>1, <1>2, <1>4, <3>1, LanguageAsked
    <3>2. CASE UNCHANGED <<asked, loads>>
      BY <1>0, <1>1, <1>4, <3>2 DEF LastLoadIsAsked
    <3> QED
      BY <2>2, <3>1, <3>2
  <2>4. PageTypeOK' /\ trip' \in Trips
    BY <1>0, <1>1, <1>5, <1>6, <2>1, <2>3
  <2>5. ShellFollows'
    BY <1>0, <1>4, <2>1, <2>3, ShellStays
  <2>6. HeadFollows'
    BY <1>12, <2>1
  <2> QED
    BY <1>0, <1>4, <2>3, <2>4, <2>5, <2>6 DEF PageIInv, Trips
<1> QED
  BY <1>7, <1>8, <1>9, <1>10, <1>11

(* The shell: a new key asks for every part again, and only the answers to *)
(* the last round are taken.                                               *)
LEMMA ShellKeeps ==
  ASSUME PageIInv, ShellEffect \/ (\E r \in runs, ok \in BOOLEAN : PartEnds(r, ok))
  PROVE  PageIInv'
<1>0. /\ PageTypeOK /\ ShellFollows /\ LastLoadIsAsked /\ HeadFollows /\ signedIn \in BOOLEAN
      /\ trip \in [to : Url \union {Blank}, step : PageSteps \union {"none"}]
  BY DEF PageIInv
<1>1. UNCHANGED <<shown, trip, lang, asked, loads, head, signedIn, identity>> /\ Key' = Key
  BY DEF ShellEffect, PartEnds, Key
<1>2. /\ shell \in [key : ShellKeys, part : [Parts -> ShellKeys]]
      /\ runs \subseteq [part : Parts, for : ShellKeys, last : BOOLEAN]
      /\ \A r \in runs : r.last => r.for = shell.key
      /\ "shell" \notin effects => Key = shell.key
      /\ Key = shell.key =>
           \A p \in Parts :
             ResolvedFor(shell.part[p], shell.key) \/ (\E r \in runs : r.last /\ r.part = p) \/ asked # lang
  BY <1>0 DEF ShellFollows
<1>3. Key \in ShellKeys /\ NoShell \in ShellKeys
  BY <1>0 DEF Key, ShellKeys, NoShell, PageTypeOK
<1>4. LastLoadIsAsked'
  BY <1>0, <1>1 DEF LastLoadIsAsked
<1>5. ASSUME runs' \subseteq [part : Parts, for : ShellKeys, last : BOOLEAN], effects' \subseteq effects PROVE PageTypeOK'
  BY <1>0, <1>1, <1>5 DEF PageTypeOK
<1>6. ASSUME effects' = effects \ {"shell"} \/ effects' = effects PROVE HeadFollows'
  BY <1>0, <1>1, <1>6 DEF HeadFollows, Written
<1>7. CASE ShellEffect /\ Key = shell.key
  <2>1. effects' = effects \ {"shell"} /\ UNCHANGED <<shell, runs>>
    BY <1>7 DEF ShellEffect
  <2>2. ShellFollows'
    BY <1>1, <1>2, <1>7, <2>1 DEF ShellFollows
  <2> QED
    BY <1>0, <1>1, <1>2, <1>4, <1>5, <1>6, <2>1, <2>2 DEF PageIInv
<1>8. CASE ShellEffect /\ Key # shell.key
  <2> DEFINE old == {[r EXCEPT !.last = FALSE] : r \in runs}
             new == {[part |-> p, for |-> Key, last |-> TRUE] : p \in Parts}
  <2>1. effects' = effects \ {"shell"} /\ shell' = [shell EXCEPT !.key = Key] /\ runs' = old \union new
    BY <1>8 DEF ShellEffect, Resolve
  <2>2. \A r \in old : r \in [part : Parts, for : ShellKeys, last : BOOLEAN] /\ ~r.last
    BY <1>2
  <2>3. /\ \A r \in new : r \in [part : Parts, for : ShellKeys, last : BOOLEAN] /\ r.for = Key
        /\ \A p \in Parts : \E r \in new : r.last /\ r.part = p
    <3>1. ASSUME NEW p \in Parts PROVE [part |-> p, for |-> Key, last |-> TRUE] \in new
      OBVIOUS
    <3>2. \A r \in new : r \in [part : Parts, for : ShellKeys, last : BOOLEAN] /\ r.for = Key
      <4> TAKE r \in new
      <4>1. PICK p \in Parts : r = [part |-> p, for |-> Key, last |-> TRUE]
        OBVIOUS
      <4> QED
        BY <1>3, <4>1
    <3> HIDE DEF new
    <3>3. ASSUME NEW p \in Parts PROVE \E r \in new : r.last /\ r.part = p
      <4> DEFINE r == [part |-> p, for |-> Key, last |-> TRUE]
      <4>1. r \in new /\ r.last /\ r.part = p
        BY <3>1
      <4> QED
        BY <4>1
    <3> QED
      BY <3>2, <3>3
  <2> HIDE DEF old, new
  <2>4. shell' \in [key : ShellKeys, part : [Parts -> ShellKeys]] /\ shell'.key = Key
    BY <1>2, <1>3, <2>1
  <2>5. runs' \subseteq [part : Parts, for : ShellKeys, last : BOOLEAN]
    BY <2>1, <2>2, <2>3
  <2>6. ShellFollows'
    BY <1>1, <2>1, <2>2, <2>3, <2>4, <2>5 DEF ShellFollows
  <2> QED
    BY <1>0, <1>1, <1>4, <1>5, <1>6, <2>1, <2>5, <2>6 DEF PageIInv
<1>9. ASSUME NEW r \in runs, NEW ok \in BOOLEAN, PartEnds(r, ok) PROVE PageIInv'
  <2> DEFINE f == IF ok THEN r.for ELSE NoShell
  <2>1. /\ runs' = runs \ {r} /\ effects' = effects
        /\ shell' = (IF r.last THEN [shell EXCEPT !.part[r.part] = f] ELSE shell)
    BY <1>9 DEF PartEnds, LastRound
  <2>2. r.part \in Parts /\ r.for \in ShellKeys /\ r.last \in BOOLEAN
    BY <1>2
  <2>3. f \in ShellKeys /\ (r.last => ResolvedFor(f, shell.key))
    BY <1>2, <1>3, <2>2 DEF ResolvedFor
  <2> HIDE DEF f
  <2>4. /\ shell' \in [key : ShellKeys, part : [Parts -> ShellKeys]] /\ shell'.key = shell.key
        /\ \A p \in Parts : shell'.part[p] = IF r.last /\ p = r.part THEN f ELSE shell.part[p]
    <3>1. CASE r.last
      <4>1. shell' = [shell EXCEPT !.part = [shell.part EXCEPT ![r.part] = f]]
        BY <2>1, <3>1
      <4>2. shell.part \in [Parts -> ShellKeys] /\ shell.key \in ShellKeys
        BY <1>2
      <4>3. [shell.part EXCEPT ![r.part] = f] \in [Parts -> ShellKeys]
        BY <2>3, <4>2
      <4> QED
        BY <1>2, <2>2, <3>1, <4>1, <4>2, <4>3
    <3>2. CASE ~r.last
      BY <1>2, <2>1, <3>2
    <3> QED
      BY <2>2, <3>1, <3>2
  <2>5. ASSUME Key = shell.key, NEW p \in Parts
        PROVE  ResolvedFor(shell'.part[p], shell.key) \/ (\E q \in runs' : q.last /\ q.part = p) \/ asked # lang
    <3>1. CASE r.last /\ p = r.part
      BY <2>3, <2>4, <3>1
    <3>2. CASE ~(r.last /\ p = r.part)
      <4>1. shell'.part[p] = shell.part[p]
        BY <2>4, <3>2
      <4>2. \A q \in runs : q.last /\ q.part = p => q \in runs'
        BY <2>1, <3>2
      <4> QED
        BY <1>2, <2>5, <4>1, <4>2
    <3> QED
      BY <3>1, <3>2
  <2>6. ShellFollows'
    BY <1>1, <1>2, <2>1, <2>4, <2>5 DEF ShellFollows
  <2> QED
    BY <1>0, <1>1, <1>2, <1>4, <1>5, <1>6, <2>1, <2>6 DEF PageIInv
<1> QED
  BY <1>7, <1>8, <1>9

LEMMA HeadKeeps ==
  ASSUME PageIInv, HeadEffect \/ (\E found \in {"present", "absent"} : IdentityEnds(found)) \/ Sign
  PROVE  PageIInv'
<1>0. /\ PageTypeOK /\ ShellFollows /\ LastLoadIsAsked /\ HeadFollows /\ signedIn \in BOOLEAN
      /\ trip \in [to : Url \union {Blank}, step : PageSteps \union {"none"}]
  BY DEF PageIInv
<1>1. UNCHANGED <<shown, trip, lang, asked, loads, shell, runs>>
  BY DEF HeadEffect, IdentityEnds, Sign
<1>2. LastLoadIsAsked'
  BY <1>0, <1>1 DEF LastLoadIsAsked
<1>3. CASE HeadEffect
  <2>1. /\ effects' = effects \ {"head"} /\ UNCHANGED <<signedIn, identity>>
        /\ head' = IF shown.page \in Places THEN PageMeta ELSE head
    BY <1>3 DEF HeadEffect
  <2>6. head' \in Heads /\ (shown.page \in Places => head' = PageMeta)
    BY <1>0, <2>1 DEF PageTypeOK, Heads, PageMeta
  <2>7. Written \subseteq Tags /\ "image" \in Tags \ Written /\ Written' = Written
    BY <1>1, <2>1 DEF Written, Tags
  <2>2. PageTypeOK'
    BY <1>0, <1>1, <2>1, <2>6 DEF PageTypeOK
  <2>3. HeadFollows'
    <3>1. CASE shown.page \in Places
      BY <1>1, <2>6, <2>7, <3>1 DEF HeadFollows, PageMeta
    <3>2. CASE shown.page \notin Places
      BY <1>1, <3>2 DEF HeadFollows
    <3> QED
      BY <3>1, <3>2
  <2>4. Key' = Key
    BY <1>1, <2>1 DEF Key
  <2>5. ShellFollows'
    BY <1>0, <1>1, <2>1, <2>4, ShellStays
  <2> QED
    BY <1>0, <1>1, <1>2, <2>1, <2>2, <2>3, <2>5 DEF PageIInv
<1>4. CASE (\E found \in {"present", "absent"} : IdentityEnds(found)) \/ Sign
  <2>1. /\ Ticked /\ head' = Aged /\ effects' = effects \union {"shell", "head"}
        /\ identity' \in {"loading", "present", "absent"} /\ signedIn' \in BOOLEAN
    BY <1>0, <1>4 DEF IdentityEnds, Sign
  <2>2. PageTypeOK'
    BY <1>0, <1>1, <2>1, AgedIsHead DEF PageTypeOK, Effects
  <2>3. HeadFollows'
    BY <2>1 DEF HeadFollows
  <2>4. ShellFollows'
    <3>1. CASE Key' = Key
      BY <1>0, <1>1, <2>1, <3>1, ShellStays
    <3>2. CASE Key' # Key
      BY <1>0, <1>1, <2>1, <3>2, ShellIsToCome
    <3> QED
      BY <3>1, <3>2
  <2> QED
    BY <1>0, <1>1, <1>2, <2>1, <2>2, <2>3, <2>4 DEF PageIInv
<1> QED
  BY <1>3, <1>4

(* Once all answers have come, in any order, language, frame and head of   *)
(* the page are those of the last thing asked for (translate.service.ts,   *)
(* shell-nav.service.ts, page-meta.service.ts).                            *)
THEOREM PagesAreSafe == PageSpec => []PageSafe
<1>1. PageIInv /\ [PageNext]_pageVars => PageIInv'
  <2> SUFFICES ASSUME PageIInv, [PageNext]_pageVars PROVE PageIInv'
    OBVIOUS
  <2>1. CASE UNCHANGED pageVars
    BY <2>1 DEF pageVars, PageIInv, PageTypeOK, LastLoadIsAsked, ShellFollows, HeadFollows, Written, Key
  <2>2. ASSUME NEW load \in loads, NEW ok \in BOOLEAN, LoadEnds(load, ok) PROVE PageIInv'
    BY <2>2, LoadEndsKeeps
  <2>3. CASE LanguageEffect \/ Guards \/ Activate \/ ContentRefused \/ \E u \in Url : Go(u)
    BY <2>3, TripKeeps
  <2>4. CASE ShellEffect \/ \E r \in runs, ok \in BOOLEAN : PartEnds(r, ok)
    BY <2>4, ShellKeeps
  <2>5. CASE HeadEffect \/ Sign \/ \E found \in {"present", "absent"} : IdentityEnds(found)
    BY <2>5, HeadKeeps
  <2> QED
    BY <2>1, <2>2, <2>3, <2>4, <2>5 DEF PageNext
<1>2. PageIInv => PageSafe
  <2> SUFFICES ASSUME PageIInv PROVE PageSafe
    OBVIOUS
  <2>1. LastAskedWins
    BY DEF PageIInv, LastLoadIsAsked, LastAskedWins
  <2>2. ASSUME Rest, NEW p \in Parts
        PROVE  \/ shell.part[p] = NoShell
               \/ /\ shell.part[p].in = lang /\ shell.part[p].login = signedIn
                  /\ identity = "present" => shell.part[p].identity
    <3>1. effects = {} /\ runs = {} /\ lang = asked
      BY <2>1, <2>2 DEF Rest, LastAskedWins
    <3>2. Key = shell.key
      BY <3>1 DEF PageIInv, ShellFollows
    <3>3. ResolvedFor(shell.part[p], Key)
      BY <3>1, <3>2 DEF PageIInv, ShellFollows
    <3> QED
      BY <3>3 DEF ResolvedFor, Key
  <2>3. ShellIsCurrent
    BY <2>2 DEF ShellIsCurrent
  <2>4. HeadIsOfThePage
    BY DEF PageIInv, HeadFollows, Written, HeadIsOfThePage, Rest
  <2> QED
    BY <2>1, <2>3, <2>4 DEF PageIInv, PageSafe
<1> QED
  BY <1>1, <1>2, PageInitially, PTL DEF PageSpec

-----------------------------------------------------------------------------
(* NonceStream: however the page is cut, the nonce is after the first tag. *)

Wire == Bytes \union {Nonce}

LEMMA NeedleLength == Needle \in Seq(Bytes) /\ Len(Needle) \in Nat \ {0}
BY NeedleAssumption, EmptySeq

LEMMA StartsPointwise ==
  ASSUME NEW s \in Seq(Bytes), NEW i \in Nat \ {0}
  PROVE  StartsAt(s, i) <=> /\ i + Len(Needle) - 1 <= Len(s)
                            /\ \A k \in 1..Len(Needle) : s[i + k - 1] = Needle[k]
<1> DEFINE N == Len(Needle)
           t == SubSeq(s, i, i + N - 1)
<1>1. N \in Nat \ {0} /\ Needle \in Seq(Bytes) /\ Len(s) \in Nat
  BY NeedleLength
<1>2. CASE i + N - 1 <= Len(s)
  <2>1. \A k \in i..(i + N - 1) : s[k] \in Bytes
    BY <1>1, <1>2
  <2>2. t \in Seq(Bytes) /\ Len(t) = N /\ \A k \in 1..N : t[k] = s[i + k - 1]
    BY <1>1, <2>1, SubSeqProperties
  <2> HIDE DEF t
  <2>3. (\A k \in 1..N : t[k] = Needle[k]) => t = Needle
    BY <1>1, <2>2, SeqEqual
  <2>4. StartsAt(s, i) <=> t = Needle
    BY <1>2 DEF StartsAt, t
  <2> QED
    BY <1>2, <2>2, <2>3, <2>4
<1>3. CASE ~(i + N - 1 <= Len(s))
  BY <1>3 DEF StartsAt
<1> QED
  BY <1>2, <1>3

LEMMA StartsInJoin ==
  ASSUME NEW s \in Seq(Bytes), NEW t \in Seq(Bytes), NEW i \in Nat \ {0}
  PROVE  /\ i + Len(Needle) - 1 <= Len(s) => (StartsAt(s \o t, i) <=> StartsAt(s, i))
         /\ i > Len(s) => (StartsAt(s \o t, i) <=> StartsAt(t, i - Len(s)))
<1> DEFINE N == Len(Needle)
           u == s \o t
<1>1. N \in Nat \ {0} /\ Len(s) \in Nat /\ Len(t) \in Nat
  BY NeedleLength
<1>2. /\ u \in Seq(Bytes) /\ Len(u) = Len(s) + Len(t)
      /\ \A k \in 1..(Len(s) + Len(t)) : u[k] = IF k <= Len(s) THEN s[k] ELSE t[k - Len(s)]
  BY ConcatProperties
<1> HIDE DEF u
<1>3. StartsAt(u, i) <=> i + N - 1 <= Len(u) /\ \A k \in 1..N : u[i + k - 1] = Needle[k]
  BY <1>2, StartsPointwise
<1>4. StartsAt(s, i) <=> i + N - 1 <= Len(s) /\ \A k \in 1..N : s[i + k - 1] = Needle[k]
  BY StartsPointwise
<1> HIDE DEF N
<1>5. ASSUME i + N - 1 <= Len(s) PROVE StartsAt(u, i) <=> StartsAt(s, i)
  <2>1. ASSUME NEW k \in 1..N PROVE u[i + k - 1] = s[i + k - 1]
    <3>1. i + k - 1 \in 1..(Len(s) + Len(t)) /\ i + k - 1 <= Len(s)
      BY <1>1, <1>5 DEF N
    <3> QED
      BY <1>2, <3>1
  <2>2. i + N - 1 <= Len(u)
    BY <1>1, <1>2, <1>5 DEF N
  <2> QED
    BY <1>3, <1>4, <1>5, <2>1, <2>2
<1>6. ASSUME i > Len(s) PROVE StartsAt(u, i) <=> StartsAt(t, i - Len(s))
  <2> DEFINE h == i - Len(s)
  <2>1. h \in Nat \ {0}
    BY <1>1, <1>6
  <2>2. StartsAt(t, h) <=> h + N - 1 <= Len(t) /\ \A k \in 1..N : t[h + k - 1] = Needle[k]
    BY <2>1, StartsPointwise DEF N
  <2>3. i + N - 1 <= Len(u) <=> h + N - 1 <= Len(t)
    BY <1>1, <1>2
  <2>4. ASSUME i + N - 1 <= Len(u), NEW k \in 1..N PROVE u[i + k - 1] = t[h + k - 1]
    <3>1. i + k - 1 \in 1..(Len(s) + Len(t)) /\ ~(i + k - 1 <= Len(s)) /\ (i + k - 1) - Len(s) = h + k - 1
      BY <1>1, <1>2, <1>6, <2>4
    <3> QED
      BY <1>2, <3>1
  <2> QED
    BY <1>3, <2>2, <2>3, <2>4
<1> QED
  BY <1>5, <1>6 DEF u, N

(* Where the tag starts, IndexOf is its first place.                       *)
LEMMA IndexIsFirst ==
  ASSUME NEW s \in Seq(Bytes)
  PROVE  /\ (\A i \in 1..Len(s) : ~StartsAt(s, i)) <=> IndexOf(s) = 0
         /\ IndexOf(s) # 0 =>
              /\ IndexOf(s) \in 1..Len(s) /\ StartsAt(s, IndexOf(s))
              /\ \A j \in 1..Len(s) : StartsAt(s, j) => IndexOf(s) <= j
<1> DEFINE found == {i \in 1..Len(s) : StartsAt(s, i)}
<1>1. IndexOf(s) = IF found = {} THEN 0 ELSE CHOOSE i \in found : \A j \in found : i <= j
  BY DEF IndexOf
<1>2. found \subseteq Nat /\ 0 \notin found
  OBVIOUS
<1>3. ASSUME found # {} PROVE \E i \in found : \A j \in found : i <= j
  <2>1. PICK i \in found : \A j \in found : ~(<<j, i>> \in OpToRel(<, Nat))
    BY <1>2, <1>3, WFMin, NatLessThanWellFounded
  <2>2. \A j \in found : ~(j < i)
    BY <1>2, <2>1 DEF OpToRel
  <2> QED
    BY <1>2, <2>2
<1> QED
  BY <1>1, <1>2, <1>3

LEMMA IndexIs ==
  ASSUME NEW s \in Seq(Bytes), NEW i \in 1..Len(s), StartsAt(s, i), \A j \in 1..Len(s) : StartsAt(s, j) => i <= j
  PROVE  IndexOf(s) = i
<1>1. IndexOf(s) # 0
  BY IndexIsFirst
<1>2. IndexOf(s) \in 1..Len(s) /\ IndexOf(s) <= i /\ i <= IndexOf(s)
  BY <1>1, IndexIsFirst
<1> QED
  BY <1>2

LEMMA JoinAt ==
  ASSUME NEW s \in Seq(Wire), NEW t \in Seq(Wire), NEW m \in Nat, NEW n \in Nat, Len(s) = m, Len(t) = n
  PROVE  /\ s \o t \in Seq(Wire) /\ Len(s \o t) = m + n
         /\ \A k \in 1..(m + n) : (s \o t)[k] = IF k <= m THEN s[k] ELSE t[k - m]
BY ConcatProperties

LEMMA NonceWritten ==
  ASSUME NEW s \in Seq(Bytes), NEW i \in 1..Len(s), i + Len(Needle) - 1 <= Len(s)
  PROVE  /\ WithNonce(s, i) \in Seq(Wire) /\ Len(WithNonce(s, i)) = Len(s) + 1
         /\ \A k \in 1..(Len(s) + 1) :
              WithNonce(s, i)[k] = IF k <= i + Len(Needle) - 1 THEN s[k]
                                   ELSE IF k = i + Len(Needle) THEN Nonce ELSE s[k - 1]
<1> DEFINE c == i + Len(Needle) - 1
           m == Len(s)
           a == SubSeq(s, 1, c)
           b == SubSeq(s, c + 1, m)
<1>1. c \in 1..m /\ m \in Nat /\ i + Len(Needle) = c + 1
  BY NeedleLength
<1>2. WithNonce(s, i) = (a \o <<Nonce>>) \o b
  BY <1>1 DEF WithNonce
<1> HIDE DEF c
<1>3. \A k \in 1..m : s[k] \in Wire
  BY DEF Wire
<1>4. a \in Seq(Wire) /\ Len(a) = c /\ \A k \in 1..c : a[k] = s[k]
  <2>1. \A k \in 1..c : s[k] \in Wire
    BY <1>1, <1>3
  <2>2. /\ a \in Seq(Wire) /\ Len(a) = (IF 1 <= c THEN c - 1 + 1 ELSE 0)
        /\ \A k \in 1..(c - 1 + 1) : a[k] = s[1 + k - 1]
    BY <1>1, <2>1, SubSeqProperties
  <2> HIDE DEF a
  <2> QED
    BY <1>1, <2>2
<1>5. b \in Seq(Wire) /\ Len(b) = m - c /\ \A k \in 1..(m - c) : b[k] = s[c + k]
  <2>1. \A k \in (c + 1)..m : s[k] \in Wire
    BY <1>1, <1>3
  <2>2. /\ b \in Seq(Wire) /\ Len(b) = (IF c + 1 <= m THEN m - (c + 1) + 1 ELSE 0)
        /\ \A k \in 1..(m - (c + 1) + 1) : b[k] = s[(c + 1) + k - 1]
    BY <1>1, <2>1, SubSeqProperties
  <2> HIDE DEF b
  <2> QED
    BY <1>1, <2>2
<1> HIDE DEF a, b, m
<1> DEFINE one == <<Nonce>>
<1>6. one \in Seq(Wire) /\ Len(one) = 1 /\ one[1] = Nonce
  BY DEF Wire
<1> HIDE DEF one
<1> DEFINE d == a \o one
<1>7. d \in Seq(Wire) /\ Len(d) = c + 1 /\ \A k \in 1..(c + 1) : d[k] = IF k <= c THEN s[k] ELSE Nonce
  <2>1. d \in Seq(Wire) /\ Len(d) = c + 1 /\ \A k \in 1..(c + 1) : d[k] = IF k <= c THEN a[k] ELSE one[k - c]
    <3>1. a \in Seq(Wire) /\ Len(a) = c /\ one \in Seq(Wire) /\ Len(one) = 1 /\ c \in Nat /\ 1 \in Nat
      BY <1>1, <1>4, <1>6 DEF m
    <3>2. a \o one \in Seq(Wire) /\ Len(a \o one) = c + 1
          /\ \A k \in 1..(c + 1) : (a \o one)[k] = IF k <= c THEN a[k] ELSE one[k - c]
      <4>1. a \o one \in Seq(Wire) /\ Len(a \o one) = Len(a) + Len(one)
            /\ \A k \in 1..(Len(a) + Len(one)) : (a \o one)[k] = IF k <= Len(a) THEN a[k] ELSE one[k - Len(a)]
        <5>1. a \in Seq(Wire) /\ one \in Seq(Wire)
          BY <3>1
        <5> QED
          BY <5>1, ConcatProperties
      <4> QED
        BY <3>1, <4>1
    <3> QED
      BY <3>2
  <2> HIDE DEF d
  <2>2. ASSUME NEW k \in 1..(c + 1) PROVE d[k] = IF k <= c THEN s[k] ELSE Nonce
    <3>1. CASE k <= c
      BY <1>1, <1>4, <2>1, <3>1
    <3>2. CASE ~(k <= c)
      <4>1. k - c = 1
        BY <1>1, <3>2
      <4> QED
        BY <1>6, <2>1, <3>2, <4>1
    <3> QED
      BY <3>1, <3>2
  <2> QED
    BY <2>1, <2>2
<1>8. WithNonce(s, i) = d \o b
  BY <1>2 DEF one
<1> HIDE DEF d
<1>9. /\ d \o b \in Seq(Wire) /\ Len(d \o b) = m + 1
      /\ \A k \in 1..(m + 1) : (d \o b)[k] = IF k <= c + 1 THEN d[k] ELSE b[k - (c + 1)]
  <2>1. (c + 1) + (m - c) = m + 1
    BY <1>1 DEF m
  <2>2. /\ d \o b \in Seq(Wire) /\ Len(d \o b) = (c + 1) + (m - c)
        /\ \A k \in 1..((c + 1) + (m - c)) : (d \o b)[k] = IF k <= c + 1 THEN d[k] ELSE b[k - (c + 1)]
    <3> DEFINE r == m - c
    <3>1. r \in Nat /\ c + 1 \in Nat
      BY <1>1 DEF m
    <3>2. d \in Seq(Wire) /\ Len(d) = c + 1 /\ b \in Seq(Wire) /\ Len(b) = r
      BY <1>5, <1>7
    <3> HIDE DEF r
    <3>3. /\ d \o b \in Seq(Wire) /\ Len(d \o b) = (c + 1) + r
          /\ \A k \in 1..((c + 1) + r) : (d \o b)[k] = IF k <= c + 1 THEN d[k] ELSE b[k - (c + 1)]
      <4>1. d \o b \in Seq(Wire) /\ Len(d \o b) = Len(d) + Len(b)
            /\ \A k \in 1..(Len(d) + Len(b)) : (d \o b)[k] = IF k <= Len(d) THEN d[k] ELSE b[k - Len(d)]
        BY <3>2, ConcatProperties
      <4> QED
        BY <3>2, <4>1
    <3> QED
      BY <3>3 DEF r
  <2> QED
    BY <2>1, <2>2
<1>10. ASSUME NEW k \in 1..(m + 1)
       PROVE  (d \o b)[k] = IF k <= c THEN s[k] ELSE IF k = c + 1 THEN Nonce ELSE s[k - 1]
  <2>1. CASE k <= c + 1
    <3>1. k \in 1..(c + 1)
      BY <1>1, <2>1
    <3>2. k <= c \/ (~(k <= c) /\ k = c + 1)
      BY <1>1, <2>1
    <3> QED
      BY <1>7, <1>9, <2>1, <3>1, <3>2
  <2>2. CASE ~(k <= c + 1)
    <3>1. k - (c + 1) \in 1..(m - c) /\ c + (k - (c + 1)) = k - 1 /\ ~(k <= c) /\ k # c + 1
      BY <1>1, <2>2 DEF m
    <3> QED
      BY <1>5, <1>9, <2>2, <3>1
  <2> QED
    BY <2>1, <2>2
<1>11. m = Len(s) /\ c = i + Len(Needle) - 1 /\ c + 1 = i + Len(Needle)
  BY <1>1 DEF m, c
<1> QED
  BY <1>8, <1>9, <1>10, <1>11

LEMMA NonceInJoin ==
  ASSUME NEW s \in Seq(Bytes), NEW t \in Seq(Bytes)
  PROVE  /\ \A i \in 1..Len(s) : i + Len(Needle) - 1 <= Len(s) => WithNonce(s \o t, i) = WithNonce(s, i) \o t
         /\ \A i \in 1..Len(t) : i + Len(Needle) - 1 <= Len(t) => WithNonce(s \o t, Len(s) + i) = s \o WithNonce(t, i)
<1> DEFINE u == s \o t
           m == Len(s)
           n == Len(t)
           N == Len(Needle)
<1>1. m \in Nat /\ n \in Nat /\ N \in Nat \ {0} /\ s \in Seq(Wire) /\ t \in Seq(Wire)
  BY NeedleLength DEF Wire
<1>2. u \in Seq(Bytes) /\ Len(u) = m + n /\ \A k \in 1..(m + n) : u[k] = IF k <= m THEN s[k] ELSE t[k - m]
  BY ConcatProperties
<1> HIDE DEF u
<1>3. ASSUME NEW i \in 1..m, i + N - 1 <= m PROVE WithNonce(u, i) = WithNonce(s, i) \o t
  <2> DEFINE w == WithNonce(s, i)
             x == WithNonce(u, i)
  <2>1. i \in 1..Len(u) /\ i + N - 1 <= Len(u)
    BY <1>1, <1>2, <1>3
  <2>2. w \in Seq(Wire) /\ Len(w) = m + 1 /\ \A k \in 1..(m + 1) : w[k] = IF k <= i + N - 1 THEN s[k] ELSE IF k = i + N THEN Nonce ELSE s[k - 1]
    BY <1>3, NonceWritten
  <2>3. x \in Seq(Wire) /\ Len(x) = m + n + 1 /\ \A k \in 1..(m + n + 1) : x[k] = IF k <= i + N - 1 THEN u[k] ELSE IF k = i + N THEN Nonce ELSE u[k - 1]
    BY <1>2, <2>1, NonceWritten
  <2> HIDE DEF w, x, m, n, N
  <2>4. w \o t \in Seq(Wire) /\ Len(w \o t) = (m + 1) + n /\ \A k \in 1..((m + 1) + n) : (w \o t)[k] = IF k <= m + 1 THEN w[k] ELSE t[k - (m + 1)]
    <3>1. Len(t) = n /\ m + 1 \in Nat
      BY <1>1 DEF n
    <3>2. w \in Seq(Wire) /\ Len(w) = m + 1 /\ t \in Seq(Wire) /\ n \in Nat
      BY <1>1, <2>2
    <3> QED
      BY <3>1, <3>2, JoinAt
  <2>5. ASSUME NEW k \in 1..(m + n + 1) PROVE x[k] = (w \o t)[k]
    <3>0. k \in 1..((m + 1) + n)
      BY <1>1
    <3>1. CASE k <= i + N - 1
      <4>1. k \in 1..(m + n) /\ k <= m /\ k \in 1..(m + 1) /\ k <= m + 1
        BY <1>1, <1>3, <3>1
      <4> QED
        BY <1>2, <2>2, <2>3, <2>4, <3>0, <3>1, <4>1
    <3>2. CASE k = i + N
      <4>1. ~(k <= i + N - 1) /\ k \in 1..(m + 1) /\ k <= m + 1
        BY <1>1, <1>3, <3>2
      <4> QED
        BY <2>2, <2>3, <2>4, <3>0, <3>2, <4>1
    <3>3. CASE k > i + N /\ k <= m + 1
      <4>1. ~(k <= i + N - 1) /\ k # i + N /\ k \in 1..(m + 1) /\ k - 1 \in 1..(m + n) /\ k - 1 <= m
        BY <1>1, <1>3, <3>3
      <4> QED
        BY <1>2, <2>2, <2>3, <2>4, <3>0, <3>3, <4>1
    <3>4. CASE k > m + 1
      <4>1. ~(k <= i + N - 1) /\ k # i + N /\ ~(k <= m + 1) /\ k - 1 \in 1..(m + n) /\ ~(k - 1 <= m) /\ (k - 1) - m = k - (m + 1)
        BY <1>1, <1>3, <3>4
      <4> QED
        BY <1>2, <2>3, <2>4, <3>0, <4>1
    <3>5. k <= i + N - 1 \/ k = i + N \/ (k > i + N /\ k <= m + 1) \/ k > m + 1
      BY <1>1
    <3> QED
      BY <3>1, <3>2, <3>3, <3>4, <3>5
  <2>6. (m + 1) + n = m + n + 1
    BY <1>1
  <2>7. x = w \o t
    BY <2>3, <2>4, <2>5, <2>6, SeqEqual
  <2> QED
    BY <2>7 DEF x, w
<1>4. ASSUME NEW i \in 1..n, i + N - 1 <= n PROVE WithNonce(u, m + i) = s \o WithNonce(t, i)
  <2> DEFINE w == WithNonce(t, i)
             h == m + i
             x == WithNonce(u, h)
  <2>1. h \in 1..Len(u) /\ h + N - 1 <= Len(u)
    BY <1>1, <1>2, <1>4
  <2>2. w \in Seq(Wire) /\ Len(w) = n + 1 /\ \A k \in 1..(n + 1) : w[k] = IF k <= i + N - 1 THEN t[k] ELSE IF k = i + N THEN Nonce ELSE t[k - 1]
    BY <1>4, NonceWritten
  <2>3. x \in Seq(Wire) /\ Len(x) = m + n + 1 /\ \A k \in 1..(m + n + 1) : x[k] = IF k <= h + N - 1 THEN u[k] ELSE IF k = h + N THEN Nonce ELSE u[k - 1]
    BY <1>2, <2>1, NonceWritten
  <2> HIDE DEF w, x, m, n, N
  <2>4. s \o w \in Seq(Wire) /\ Len(s \o w) = m + (n + 1) /\ \A k \in 1..(m + (n + 1)) : (s \o w)[k] = IF k <= m THEN s[k] ELSE w[k - m]
    <3>1. Len(s) = m /\ n + 1 \in Nat
      BY <1>1 DEF m
    <3>2. w \in Seq(Wire) /\ Len(w) = n + 1 /\ s \in Seq(Wire) /\ m \in Nat
      BY <1>1, <2>2
    <3> QED
      BY <3>1, <3>2, JoinAt
  <2>5. ASSUME NEW k \in 1..(m + n + 1) PROVE x[k] = (s \o w)[k]
    <3>0. k \in 1..(m + (n + 1))
      BY <1>1
    <3>1. CASE k <= m
      <4>1. k \in 1..(m + n) /\ k <= h + N - 1
        BY <1>1, <1>4, <3>1
      <4> QED
        BY <1>2, <2>3, <2>4, <3>0, <3>1, <4>1
    <3>2. CASE k > m /\ k <= h + N - 1
      <4>1. k \in 1..(m + n) /\ ~(k <= m) /\ k - m \in 1..(n + 1) /\ k - m <= i + N - 1
        BY <1>1, <1>4, <3>2
      <4> QED
        BY <1>2, <2>2, <2>3, <2>4, <3>0, <3>2, <4>1
    <3>3. CASE k = h + N
      <4>1. ~(k <= h + N - 1) /\ ~(k <= m) /\ k - m \in 1..(n + 1) /\ ~(k - m <= i + N - 1) /\ k - m = i + N
        BY <1>1, <1>4, <3>3
      <4> QED
        BY <2>2, <2>3, <2>4, <3>0, <3>3, <4>1
    <3>4. CASE k > h + N
      <4>1. /\ ~(k <= h + N - 1) /\ k # h + N /\ ~(k <= m) /\ k - 1 \in 1..(m + n) /\ ~(k - 1 <= m)
            /\ k - m \in 1..(n + 1) /\ ~(k - m <= i + N - 1) /\ k - m # i + N /\ (k - 1) - m = (k - m) - 1
        BY <1>1, <1>4, <3>4
      <4> QED
        BY <1>2, <2>2, <2>3, <2>4, <3>0, <4>1
    <3>5. k <= m \/ (k > m /\ k <= h + N - 1) \/ k = h + N \/ k > h + N
      BY <1>1, <1>4
    <3> QED
      BY <3>1, <3>2, <3>3, <3>4, <3>5
  <2>6. m + (n + 1) = m + n + 1
    BY <1>1
  <2>7. x = s \o w
    BY <2>3, <2>4, <2>5, <2>6, SeqEqual
  <2> QED
    BY <2>7 DEF x, w, h
<1> QED
  BY <1>3, <1>4 DEF u, m, n, N

(* The first tag stays the first when more bytes come.                     *)
LEMMA TagStays ==
  ASSUME NEW s \in Seq(Bytes), NEW t \in Seq(Bytes), IndexOf(s) # 0
  PROVE  /\ IndexOf(s \o t) = IndexOf(s)
         /\ IndexOf(s) \in 1..Len(s) /\ IndexOf(s) + Len(Needle) - 1 <= Len(s)
<1> DEFINE i == IndexOf(s)
           u == s \o t
<1>1. Len(Needle) \in Nat \ {0} /\ Len(s) \in Nat /\ Len(t) \in Nat /\ u \in Seq(Bytes) /\ Len(u) = Len(s) + Len(t)
  BY NeedleLength, ConcatProperties
<1>2. i \in 1..Len(s) /\ StartsAt(s, i) /\ \A j \in 1..Len(s) : StartsAt(s, j) => i <= j
  BY IndexIsFirst
<1>3. i + Len(Needle) - 1 <= Len(s)
  BY <1>2 DEF StartsAt
<1>4. \A j \in Nat \ {0} : j + Len(Needle) - 1 <= Len(s) => (StartsAt(u, j) <=> StartsAt(s, j))
  BY StartsInJoin
<1> HIDE DEF i, u
<1>5. StartsAt(u, i) /\ i \in 1..Len(u)
  BY <1>1, <1>2, <1>3, <1>4
<1>6. ASSUME NEW j \in 1..Len(u), StartsAt(u, j) PROVE i <= j
  <2>1. CASE j < i
    <3>1. j \in Nat \ {0} /\ j \in 1..Len(s) /\ j + Len(Needle) - 1 <= Len(s)
      BY <1>1, <1>2, <1>3, <2>1
    <3>2. StartsAt(s, j)
      BY <1>4, <1>6, <3>1
    <3> QED
      BY <1>2, <3>1, <3>2
  <2>2. CASE ~(j < i)
    BY <1>1, <1>2, <2>2
  <2> QED
    BY <2>1, <2>2
<1>7. IndexOf(u) = i
  BY <1>1, <1>5, <1>6, IndexIs
<1> QED
  BY <1>2, <1>3, <1>7 DEF i, u

(* Where no tag starts before the bytes looked at, it starts in them.      *)
LEMMA TagIsInRest ==
  ASSUME NEW s \in Seq(Bytes), NEW t \in Seq(Bytes), \A j \in 1..Len(s) : ~StartsAt(s \o t, j)
  PROVE  IndexOf(s \o t) = IF IndexOf(t) = 0 THEN 0 ELSE Len(s) + IndexOf(t)
<1> DEFINE i == IndexOf(t)
           u == s \o t
           m == Len(s)
<1>1. m \in Nat /\ Len(t) \in Nat /\ u \in Seq(Bytes) /\ Len(u) = m + Len(t)
  BY ConcatProperties
<1>2. \A j \in Nat \ {0} : j > m => (StartsAt(u, j) <=> StartsAt(t, j - m))
  BY StartsInJoin
<1>3. \A j \in 1..m : ~StartsAt(u, j)
  OBVIOUS
<1> HIDE DEF u, m
<1>4. ASSUME NEW j \in 1..Len(u), StartsAt(u, j) PROVE j > m /\ j - m \in 1..Len(t) /\ StartsAt(t, j - m)
  <2>1. j > m
    BY <1>1, <1>3, <1>4
  <2>2. j \in Nat \ {0} /\ j - m \in 1..Len(t)
    BY <1>1, <2>1
  <2> QED
    BY <1>2, <1>4, <2>1, <2>2
<1>5. CASE i = 0
  <2>1. \A j \in 1..Len(t) : ~StartsAt(t, j)
    BY <1>5, IndexIsFirst
  <2>2. \A j \in 1..Len(u) : ~StartsAt(u, j)
    BY <1>4, <2>1
  <2> QED
    BY <1>1, <1>5, <2>2, IndexIsFirst DEF u
<1>6. CASE i # 0
  <2>1. i \in 1..Len(t) /\ StartsAt(t, i) /\ \A j \in 1..Len(t) : StartsAt(t, j) => i <= j
    BY <1>6, IndexIsFirst
  <2> HIDE DEF i
  <2>2. m + i \in 1..Len(u) /\ m + i \in Nat \ {0} /\ m + i > m /\ (m + i) - m = i
    BY <1>1, <2>1
  <2>3. StartsAt(u, m + i)
    BY <1>2, <2>1, <2>2
  <2>4. ASSUME NEW j \in 1..Len(u), StartsAt(u, j) PROVE m + i <= j
    <3>1. j - m \in 1..Len(t) /\ StartsAt(t, j - m)
      BY <1>4, <2>4
    <3>2. i <= j - m
      BY <2>1, <3>1
    <3> QED
      BY <1>1, <2>1, <3>2
  <2>5. IndexOf(u) = m + i
    BY <1>1, <2>2, <2>3, <2>4, IndexIs
  <2> QED
    BY <1>6, <2>5 DEF u, m, i
<1> QED
  BY <1>5, <1>6

LEMMA CutInTwo ==
  ASSUME NEW s \in Seq(Bytes), NEW r \in 0..Len(s)
  PROVE  /\ SubSeq(s, 1, r) \in Seq(Bytes) /\ Len(SubSeq(s, 1, r)) = r
         /\ SubSeq(s, r + 1, Len(s)) \in Seq(Bytes) /\ Len(SubSeq(s, r + 1, Len(s))) = Len(s) - r
         /\ SubSeq(s, 1, r) \o SubSeq(s, r + 1, Len(s)) = s
<1> DEFINE m == Len(s)
           a == SubSeq(s, 1, r)
           b == SubSeq(s, r + 1, m)
<1>1. m \in Nat /\ r \in 0..m /\ \A k \in 1..m : s[k] \in Bytes
  OBVIOUS
<1> HIDE DEF m
<1>2. a \in Seq(Bytes) /\ Len(a) = r /\ \A k \in 1..r : a[k] = s[k]
  <2>1. \A k \in 1..r : s[k] \in Bytes
    BY <1>1
  <2>2. /\ a \in Seq(Bytes) /\ Len(a) = (IF 1 <= r THEN r - 1 + 1 ELSE 0)
        /\ \A k \in 1..(r - 1 + 1) : a[k] = s[1 + k - 1]
    BY <1>1, <2>1, SubSeqProperties
  <2> HIDE DEF a
  <2> QED
    BY <1>1, <2>2
<1>3. b \in Seq(Bytes) /\ Len(b) = m - r /\ \A k \in 1..(m - r) : b[k] = s[r + k]
  <2>1. \A k \in (r + 1)..m : s[k] \in Bytes
    BY <1>1
  <2>2. /\ b \in Seq(Bytes) /\ Len(b) = (IF r + 1 <= m THEN m - (r + 1) + 1 ELSE 0)
        /\ \A k \in 1..(m - (r + 1) + 1) : b[k] = s[(r + 1) + k - 1]
    BY <1>1, <2>1, SubSeqProperties
  <2> HIDE DEF b
  <2>3. Len(b) = m - r
    BY <1>1, <2>2
  <2>4. ASSUME NEW k \in 1..(m - r) PROVE b[k] = s[r + k]
    <3>1. k \in 1..(m - (r + 1) + 1) /\ (r + 1) + k - 1 = r + k
      BY <1>1
    <3> QED
      BY <2>2, <3>1
  <2> QED
    BY <2>2, <2>3, <2>4
<1> HIDE DEF a, b
<1>4. /\ a \o b \in Seq(Bytes) /\ Len(a \o b) = Len(a) + Len(b)
      /\ \A k \in 1..(Len(a) + Len(b)) : (a \o b)[k] = IF k <= Len(a) THEN a[k] ELSE b[k - Len(a)]
  BY <1>2, <1>3, ConcatProperties
<1>5. Len(a) + Len(b) = m
  BY <1>1, <1>2, <1>3
<1>6. ASSUME NEW k \in 1..m PROVE (a \o b)[k] = s[k]
  <2>1. CASE k <= r
    BY <1>1, <1>2, <1>4, <1>5, <2>1
  <2>2. CASE ~(k <= r)
    <3>1. k - r \in 1..(m - r) /\ r + (k - r) = k
      BY <1>1, <2>2
    <3> QED
      BY <1>2, <1>3, <1>4, <1>5, <2>2, <3>1
  <2> QED
    BY <2>1, <2>2
<1>7. a \o b = s
  BY <1>4, <1>5, <1>6, SeqEqual DEF m
<1> QED
  BY <1>2, <1>3, <1>7 DEF a, b, m

LEMMA ChunkKeeps == ASSUME StreamIInv, NEW chunk \in Seq(Bytes), Chunk(chunk) PROVE StreamIInv'
<1> DEFINE N == Len(Needle)
           buf == carry \o chunk
           keep == Kept(buf)
           all == passed \o chunk
<1>1. /\ passed \in Seq(Bytes) /\ carry \in Seq(Bytes) /\ sent \in Seq(Wire) /\ injected \in BOOLEAN
      /\ ~ended => IF injected THEN IndexOf(passed) # 0 /\ sent = WithNonce(passed, IndexOf(passed))
                   ELSE IndexOf(passed) = 0 /\ sent \o carry = passed
      /\ ~ended /\ ~injected => sent \in Seq(Bytes) /\ Len(carry) < N /\ (Len(carry) = N - 1 \/ sent = <<>>)
  BY DEF StreamIInv, PageFlows, Wire
<1>2. ~ended /\ ended' = ended /\ passed' = all
  BY DEF Chunk
<1>3. N \in Nat \ {0} /\ buf \in Seq(Bytes) /\ all \in Seq(Bytes) /\ Len(carry) \in Nat /\ Len(chunk) \in Nat
      /\ Len(buf) = Len(carry) + Len(chunk) /\ chunk \in Seq(Wire)
  BY <1>1, NeedleLength, ConcatProperties DEF Wire
<1>4. CASE injected
  <2>1. sent' = sent \o chunk /\ UNCHANGED <<injected, carry>>
    BY <1>4 DEF Chunk
  <2>2. IndexOf(passed) # 0 /\ sent = WithNonce(passed, IndexOf(passed))
    BY <1>1, <1>2, <1>4
  <2>3. IndexOf(all) = IndexOf(passed) /\ IndexOf(passed) \in 1..Len(passed) /\ IndexOf(passed) + N - 1 <= Len(passed)
    BY <1>1, <2>2, TagStays
  <2>4. WithNonce(all, IndexOf(passed)) = sent \o chunk
    BY <1>1, <2>2, <2>3, NonceInJoin
  <2>5. sent' \in Seq(Wire)
    BY <1>1, <1>3, <2>1, ConcatProperties
  <2> HIDE DEF N, buf, all
  <2>6. PageFlows'
    BY <1>2, <1>4, <2>1, <2>2, <2>3, <2>4 DEF PageFlows
  <2> QED
    BY <1>1, <1>2, <1>3, <1>4, <2>1, <2>5, <2>6 DEF StreamIInv, Wire
<1>5. CASE ~injected
  <2>1. /\ IndexOf(passed) = 0 /\ sent \o carry = passed /\ sent \in Seq(Bytes) /\ Len(carry) < N
        /\ Len(carry) = N - 1 \/ sent = <<>>
    BY <1>1, <1>2, <1>5
  <2>2. all = sent \o buf
    <3>1. (sent \o carry) \o chunk = sent \o (carry \o chunk)
      <4>1. sent \in Seq(Bytes) /\ carry \in Seq(Bytes) /\ chunk \in Seq(Bytes)
        BY <1>1, <2>1
      <4> QED
        BY <4>1, ConcatAssociative
    <3> QED
      BY <2>1, <3>1
  <2>3. ASSUME NEW j \in 1..Len(sent) PROVE ~StartsAt(all, j)
    <3>1. sent # <<>> /\ Len(sent) \in Nat
      BY <2>1, EmptySeq
    <3>2. Len(passed) = Len(sent) + Len(carry)
      BY <1>1, <2>1, ConcatProperties
    <3>3. j \in Nat \ {0} /\ j \in 1..Len(passed) /\ j + N - 1 <= Len(passed)
      BY <1>3, <2>1, <3>1, <3>2
    <3>4. StartsAt(all, j) <=> StartsAt(passed, j)
      BY <1>1, <3>3, StartsInJoin
    <3>5. ~StartsAt(passed, j)
      BY <1>1, <2>1, <3>3, IndexIsFirst
    <3> QED
      BY <3>4, <3>5
  <2>4. IndexOf(all) = IF IndexOf(buf) = 0 THEN 0 ELSE Len(sent) + IndexOf(buf)
    <3> HIDE DEF all, buf
    <3>1. \A j \in 1..Len(sent) : ~StartsAt(sent \o buf, j)
      BY <2>2, <2>3
    <3>2. sent \in Seq(Bytes) /\ buf \in Seq(Bytes)
      BY <1>3, <2>1
    <3> QED
      BY <2>2, <3>1, <3>2, TagIsInRest
  <2>5. CASE IndexOf(buf) # 0
    <3>1. injected' = TRUE /\ sent' = sent \o WithNonce(buf, IndexOf(buf)) /\ carry' = carry
      BY <1>5, <2>5 DEF Chunk
    <3>2. IndexOf(buf) \in 1..Len(buf) /\ IndexOf(buf) + N - 1 <= Len(buf)
      BY <1>3, <2>5, IndexIsFirst DEF StartsAt
    <3>3. WithNonce(all, Len(sent) + IndexOf(buf)) = sent \o WithNonce(buf, IndexOf(buf))
      <4> HIDE DEF all, buf
      <4>1. WithNonce(sent \o buf, Len(sent) + IndexOf(buf)) = sent \o WithNonce(buf, IndexOf(buf))
        <5>1. sent \in Seq(Bytes) /\ buf \in Seq(Bytes)
          BY <1>3, <2>1
        <5>2. IndexOf(buf) \in 1..Len(buf) /\ IndexOf(buf) + Len(Needle) - 1 <= Len(buf)
          BY <3>2
        <5> QED
          BY <5>1, <5>2, NonceInJoin
      <4> QED
        BY <2>2, <4>1
    <3>4. sent' \in Seq(Wire)
      <4>1. WithNonce(buf, IndexOf(buf)) \in Seq(Wire)
        BY <1>3, <3>2, NonceWritten
      <4> QED
        BY <1>1, <3>1, <4>1, ConcatProperties
    <3>5. IndexOf(all) # 0 /\ IndexOf(all) = Len(sent) + IndexOf(buf)
      BY <2>1, <2>4, <2>5, <3>2
    <3> HIDE DEF N, buf, all
    <3>6. PageFlows'
      BY <1>2, <3>1, <3>3, <3>5 DEF PageFlows
    <3> QED
      BY <1>1, <1>2, <1>3, <3>1, <3>4, <3>6 DEF StreamIInv, Wire
  <2>6. CASE IndexOf(buf) = 0
    <3> DEFINE m == Len(buf)
               r == m - keep
               a == SubSeq(buf, 1, r)
               b == SubSeq(buf, r + 1, m)
    <3>1. injected' = injected /\ carry' = b /\ sent' = sent \o a
      BY <1>5, <2>6 DEF Chunk
    <3>2. m \in Nat /\ keep \in 0..m /\ keep < N /\ (keep = N - 1 \/ keep = m)
      BY <1>3 DEF Kept
    <3>3. a \o b = buf /\ a \in Seq(Bytes) /\ Len(a) = m - keep /\ b \in Seq(Bytes) /\ Len(b) = keep
      <4>1. r \in 0..m /\ m - r = keep
        <5> HIDE DEF m, keep, buf
        <5> QED
          BY <3>2
      <4> HIDE DEF r, keep
      <4>2. a \o b = buf /\ a \in Seq(Bytes) /\ Len(a) = r /\ b \in Seq(Bytes) /\ Len(b) = m - r
        BY <1>3, <4>1, CutInTwo
      <4> HIDE DEF a, b, m, buf
      <4> QED
        BY <4>1, <4>2 DEF r
    <3>4. Len(carry) + Len(chunk) = m
      BY <1>3
    <3> HIDE DEF a, b, m, keep
    <3>5. sent' \in Seq(Bytes) /\ sent' \in Seq(Wire)
      BY <1>1, <2>1, <3>1, <3>3, ConcatProperties DEF Wire
    <3>6. sent' \o carry' = all
      <4>1. (sent \o a) \o b = sent \o (a \o b)
        <5>1. sent \in Seq(Bytes) /\ a \in Seq(Bytes) /\ b \in Seq(Bytes)
          BY <2>1, <3>3
        <5> QED
          BY <5>1, ConcatAssociative
      <4> HIDE DEF buf, all
      <4> QED
        BY <2>2, <3>1, <3>3, <4>1
    <3>7. keep = N - 1 \/ sent' = <<>>
      <4>1. CASE keep # N - 1
        <5>1. keep = m /\ sent = <<>>
          BY <1>3, <2>1, <3>2, <3>4, <4>1
        <5>2. Len(a) = 0
          BY <3>2, <3>3, <5>1
        <5>3. a = <<>>
          BY <3>3, <5>2, EmptySeq
        <5> QED
          BY <3>1, <5>1, <5>3, ConcatEmptySeq
      <4> QED
        BY <4>1
    <3>8. IndexOf(all) = 0
      BY <2>4, <2>6
    <3> HIDE DEF N, buf, all
    <3>9. PageFlows'
      BY <1>2, <1>5, <3>1, <3>6, <3>8 DEF PageFlows
    <3> QED
      BY <1>1, <1>2, <1>3, <1>5, <3>1, <3>2, <3>3, <3>5, <3>7, <3>9 DEF StreamIInv, Wire, N
  <2> QED
    BY <2>5, <2>6
<1> QED
  BY <1>1, <1>4, <1>5

(* Cut anywhere, the page flows on whole, with the nonce after the first   *)
(* tag, also one that two chunks share (server/csp.ts).                    *)
THEOREM PagesFlow == StreamSpec => []PageFlows
<1>1. StreamInit => StreamIInv
  <2> SUFFICES ASSUME StreamInit PROVE StreamIInv
    OBVIOUS
  <2>1. passed = <<>> /\ carry = <<>> /\ sent = <<>> /\ injected = FALSE /\ ended = FALSE
    BY DEF StreamInit
  <2>2. <<>> \in Seq(Bytes) /\ <<>> \in Seq(Bytes \cup {Nonce}) /\ Len(<<>>) = 0 /\ <<>> \o <<>> = <<>>
    BY EmptySeq, ConcatEmptySeq
  <2>3. IndexOf(passed) = 0
    <3>1. passed \in Seq(Bytes) /\ Len(passed) = 0
      BY <2>1, <2>2
    <3>2. \A i \in 1..Len(passed) : ~StartsAt(passed, i)
      BY <3>1
    <3> QED
      BY <3>1, <3>2, IndexIsFirst
  <2>4. PageFlows
    BY <2>1, <2>2, <2>3 DEF PageFlows
  <2>5. passed \in Seq(Bytes) /\ carry \in Seq(Bytes) /\ sent \in Seq(Bytes) /\ sent \in Seq(Bytes \cup {Nonce})
    BY <2>1, <2>2
  <2>6. Len(carry) < Len(Needle)
    <3>1. Len(carry) = 0
      BY <2>1, <2>2
    <3> QED
      BY <3>1, NeedleLength
  <2> QED
    BY <2>1, <2>4, <2>5, <2>6 DEF StreamIInv
<1>2. StreamIInv /\ [StreamNext]_streamVars => StreamIInv'
  <2> SUFFICES ASSUME StreamIInv, [StreamNext]_streamVars PROVE StreamIInv'
    OBVIOUS
  <2>1. CASE UNCHANGED streamVars
    BY <2>1 DEF streamVars, StreamIInv, PageFlows
  <2>2. ASSUME NEW chunk \in BoundedSeq(Bytes, MaxPage), Chunk(chunk) PROVE StreamIInv'
    <3>1. PICK m \in 0..MaxPage : chunk \in [1..m -> Bytes]
      BY DEF BoundedSeq, SeqOf
    <3>2. chunk \in Seq(Bytes)
      BY <3>1
    <3> QED
      BY <2>2, <3>2, ChunkKeeps
  <2>3. CASE Flush
    <3>1. ended' = TRUE /\ UNCHANGED <<passed, injected, carry>> /\ sent' = sent \o carry
      BY <2>3 DEF Flush
    <3>2. carry \in Seq(Bytes \cup {Nonce}) /\ sent \in Seq(Bytes \cup {Nonce})
      BY DEF StreamIInv
    <3>3. sent' \in Seq(Bytes \cup {Nonce})
      BY <3>1, <3>2, ConcatProperties
    <3> QED
      BY <3>1, <3>3 DEF StreamIInv, PageFlows
  <2> QED
    BY <2>1, <2>2, <2>3 DEF StreamNext
<1>3. StreamIInv => PageFlows
  BY DEF StreamIInv
<1> QED
  BY <1>1, <1>2, <1>3, PTL DEF StreamSpec
=============================================================================
