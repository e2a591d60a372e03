--------------------------- MODULE BrowserProofs ----------------------------
(***************************************************************************)
(* The safety of what one browser does without the servers: the login      *)
(* sessions of its tabs, the popups of a page and the menus of its         *)
(* navigation bar.  For any number of tabs, logins, modals, editors,       *)
(* navigations and menus, and any delays.                                  *)
(***************************************************************************)
EXTENDS SessionTabs, PagePopups, NavMenus, SequenceFacts

-----------------------------------------------------------------------------
(* SessionTabs.                                                            *)

LEMMA SessionNumbers ==
  /\ MaxLogins \in Nat /\ MaxActs \in Nat /\ MaxTime \in Nat \ {0} /\ Life \in Nat /\ WarnBefore \in Nat
  /\ MinLead \in Nat \ {0} /\ Slack \in Nat /\ MaxDelay \in Nat \ {0}
  /\ Times = 0..(MaxTime + Life + MaxDelay) /\ Unset = 0 /\ Unset \in Times
BY SessionAssumption DEF Times, Unset

LEMMA SessionInit == Init => SessionIInv
<1> SUFFICES ASSUME Init PROVE SessionIInv
  OBVIOUS
<1>1. exp \in Seq(Times \ {Unset}) /\ Len(exp) = 0
  BY DEF Init
<1>2. \A t \in Tabs : tab[t] \in TabState /\ Sound(tab[t])
  <2> SUFFICES ASSUME NEW t \in Tabs PROVE tab[t] \in TabState /\ Sound(tab[t])
    OBVIOUS
  <2>1. tab[t] = Fresh("login", "reserved")
    BY DEF Init
  <2>2. tab[t] \in TabState
    BY <2>1, SessionNumbers DEF Fresh, TabState, Pages
  <2>3. tab[t].token = 0 /\ tab[t].login = 0 /\ tab[t].req = 0 /\ tab[t].timer = 0
    BY <2>1, SessionNumbers DEF Fresh
  <2> QED
    BY <1>1, <2>2, <2>3, SessionNumbers DEF Sound
<1>3. TypeOK
  BY <1>1, <1>2, SessionNumbers DEF Init, TypeOK, Ends, Notices, Nothing, Silent
<1>4. EndsAreNew
  BY SessionNumbers DEF Init, EndsAreNew, Fresh
<1> QED
  BY <1>3, <1>4 DEF SessionIInv

(* Most steps change one tab, and perhaps how its session ended.           *)
LEMMA TabChanges ==
  ASSUME SessionIInv, NEW t \in Tabs, NEW s,
         tab' = [tab EXCEPT ![t] = s], Sound(s), exp' = exp, now' = now, revoked' = revoked,
         ended' \in [Tabs -> Ends], \A u \in Tabs \ {t} : ended'[u] = ended[u],
         s.token = Unset /\ s.last # Unset => ended'[t].at = now,
         storage' \in 0..Len(exp), refused' \subseteq 1..Len(exp),
         toast' \in [Tabs -> Notices], moves' \in 0..MaxActs
  PROVE  SessionIInv'
<1>1. tab' \in [Tabs -> TabState] /\ \A u \in Tabs : tab'[u] = IF u = t THEN s ELSE tab[u]
  BY DEF SessionIInv, TypeOK, Sound
<1>2. \A u \in Tabs : Sound(tab'[u])
  BY <1>1 DEF SessionIInv, TypeOK
<1>3. \A u \in Tabs : Sound(tab[u])'
  BY <1>2 DEF Sound
<1>4. TypeOK'
  BY <1>1, <1>3 DEF SessionIInv, TypeOK
<1>5. EndsAreNew'
  BY <1>1 DEF SessionIInv, EndsAreNew
<1> QED
  BY <1>4, <1>5 DEF SessionIInv

LEMMA Expiries ==
  ASSUME TypeOK
  PROVE  /\ Len(exp) \in Nat /\ DOMAIN exp = 1..Len(exp)
         /\ \A k \in 1..Len(exp) :
              exp[k] \in Nat \ {0} /\ exp[k] \in Times /\ Scheduled(exp[k]) \in 1..exp[k] /\ Scheduled(exp[k]) \in Times
<1>1. Len(exp) \in Nat /\ DOMAIN exp = 1..Len(exp) /\ \A k \in 1..Len(exp) : exp[k] \in Times \ {Unset}
  BY LenProperties, ElementOfSeq DEF TypeOK
<1>2. now \in Nat \ {0}
  BY SessionNumbers DEF TypeOK
<1> QED
  BY <1>1, <1>2, SessionNumbers DEF Scheduled, Earlier

LEMMA EmptiedIsSound == ASSUME TypeOK, NEW s, Sound(s) PROVE Sound(Emptied(s)) /\ Emptied(s).token = Unset /\ Emptied(s).last = s.last
<1>1. Emptied(s) \in TabState
  BY SessionNumbers DEF Sound, Emptied, TabState
<1>2. /\ Emptied(s).token = Unset /\ Emptied(s).timer = Unset
      /\ Emptied(s).login = s.login /\ Emptied(s).req = s.req /\ Emptied(s).last = s.last
  BY DEF Sound, Emptied, TabState
<1> QED
  BY <1>1, <1>2, Expiries, SessionNumbers DEF Sound

LEMMA HoldingIsSound ==
  ASSUME TypeOK, NEW s, Sound(s), NEW k \in 1..Len(exp)
  PROVE  Sound(Holding(s, k)) /\ Holding(s, k).token = k
<1>1. k \in Tokens /\ Len(exp) \in Nat
  BY Expiries, SessionNumbers DEF TypeOK, Tokens
<1>2. Holding(s, k) \in TabState
  BY <1>1, Expiries DEF Sound, Holding, TabState
<1>3. /\ Holding(s, k).token = k /\ Holding(s, k).timer = Scheduled(exp[k])
      /\ Holding(s, k).login = s.login /\ Holding(s, k).req = s.req
  BY DEF Sound, Holding, TabState
<1> QED
  BY <1>1, <1>2, <1>3, Expiries, SessionNumbers DEF Sound

(* However a session ends, the end is dated.                               *)
LEMMA DiscardKeeps ==
  ASSUME SessionIInv, NEW t \in Tabs, NEW s, Sound(s), s.token = tab[t].token, s.last = tab[t].last,
         NEW own \in BOOLEAN, NEW cause \in {"expired", "logout", "refused"}, Discard(t, s, own, cause),
         UNCHANGED <<now, exp, revoked, toast, moves>>, refused' \subseteq 1..Len(exp)
  PROVE  SessionIInv'
<1>1. Sound(Emptied(s)) /\ Emptied(s).token = Unset /\ Emptied(s).last = s.last
  BY EmptiedIsSound DEF SessionIInv
<1>2. tab' = [tab EXCEPT ![t] = Emptied(s)] /\ storage' \in 0..Len(exp)
  BY Expiries, SessionNumbers DEF Discard, SessionIInv, TypeOK
<1>3. /\ ended' \in [Tabs -> Ends] /\ \A u \in Tabs \ {t} : ended'[u] = ended[u]
      /\ tab[t].last # Unset => ended'[t].at = now
  <2>1. CASE tab[t].token = Unset
    BY <2>1 DEF Discard, EndedBy, SessionIInv, TypeOK, EndsAreNew
  <2>2. CASE tab[t].token # Unset
    <3>1. ended' = [ended EXCEPT ![t] = [cause |-> cause, at |-> now]] /\ now \in 0..MaxTime
      BY <2>2, SessionNumbers DEF Discard, EndedBy, SessionIInv, TypeOK
    <3>2. [cause |-> cause, at |-> now] \in Ends
      BY <3>1 DEF Ends
    <3> QED
      BY <3>1, <3>2 DEF SessionIInv, TypeOK
  <2> QED
    BY <2>1, <2>2
<1>4. toast' \in [Tabs -> Notices] /\ moves' \in 0..MaxActs
  BY DEF SessionIInv, TypeOK
<1> HIDE DEF Discard
<1> QED
  BY <1>1, <1>2, <1>3, <1>4, TabChanges

LEMMA TimerFiresKeeps == ASSUME SessionIInv, NEW t \in Tabs, TimerFires(t) PROVE SessionIInv'
<1>1. /\ Sound(tab[t]) /\ UNCHANGED <<now, exp, revoked, refused, toast, moves>> /\ refused \subseteq 1..Len(exp)
      /\ tab[t].timer # Unset
  BY DEF TimerFires, SessionIInv, TypeOK
<1>2. CASE Discard(t, tab[t], TRUE, "expired")
  BY <1>1, <1>2, DiscardKeeps
<1>3. CASE tab' = [tab EXCEPT ![t].timer = Scheduled(ExpiresAt(tab[t]))] /\ UNCHANGED <<storage, ended>>
  <2> DEFINE s == [tab[t] EXCEPT !.timer = Scheduled(ExpiresAt(tab[t]))]
  <2>1. tab[t].token \in 1..Len(exp) /\ tab[t].token # Unset /\ tab[t] \in TabState
    BY <1>1, Expiries, SessionNumbers DEF Sound, SessionIInv
  <2>2. Scheduled(ExpiresAt(tab[t])) \in 1..exp[tab[t].token] /\ Scheduled(ExpiresAt(tab[t])) \in Times
    BY <2>1, Expiries DEF ExpiresAt, SessionIInv
  <2>3. s \in TabState /\ s.token = tab[t].token /\ s.timer = Scheduled(ExpiresAt(tab[t])) /\ s.login = tab[t].login
        /\ s.req = tab[t].req
    BY <2>1, <2>2 DEF TabState
  <2>4. Sound(s) /\ s.token # Unset
    BY <1>1, <2>1, <2>2, <2>3 DEF Sound
  <2>5. tab' = [tab EXCEPT ![t] = s]
    BY <1>3, <2>1 DEF SessionIInv, TypeOK
  <2> HIDE DEF s
  <2> QED
    BY <1>1, <1>3, <2>4, <2>5, TabChanges DEF SessionIInv, TypeOK
<1> QED
  BY <1>2, <1>3 DEF TimerFires

(* Steps that leave the token of the tab and its timer alone.              *)
LEMMA AsideKeeps ==
  ASSUME SessionIInv, NEW t \in Tabs, NEW s, tab' = [tab EXCEPT ![t] = s], s \in TabState,
         s.token = tab[t].token, s.timer = tab[t].timer, s.last \in {tab[t].last, Unset},
         s.login \in {tab[t].login, Unset}, s.req \in {tab[t].req, tab[t].token},
         UNCHANGED <<now, exp, revoked, storage, refused, ended>>,
         toast' \in [Tabs -> Notices], moves' \in 0..MaxActs
  PROVE  SessionIInv'
<1>1. Sound(tab[t]) /\ Len(exp) \in Nat
  BY Expiries DEF SessionIInv, TypeOK
<1>2. Sound(s)
  BY <1>1, SessionNumbers DEF Sound
<1>3. s.token = Unset /\ s.last # Unset => ended'[t].at = now
  BY DEF SessionIInv, EndsAreNew
<1>4. storage' \in 0..Len(exp) /\ refused' \subseteq 1..Len(exp) /\ ended' \in [Tabs -> Ends]
  BY DEF SessionIInv, TypeOK
<1> QED
  BY <1>2, <1>3, <1>4, TabChanges

(* What a navigation leaves alone: the session of the tab.                 *)
SessionOf(s) == <<s.token, s.timer, s.last, s.login, s.req, s.warn>>

LEMMA PageFields ==
  ASSUME NEW s \in TabState, NEW page \in Pages, NEW back \in Pages
  PROVE  /\ Left(s) \in TabState /\ SessionOf(Left(s)) = SessionOf(s)
         /\ [Left(s) EXCEPT !.page = page, !.back = back] \in TabState
         /\ SessionOf([Left(s) EXCEPT !.page = page, !.back = back]) = SessionOf(s)
<1>1. Left(s) \in TabState /\ SessionOf(Left(s)) = SessionOf(s)
  BY DEF Left, TabState, SessionOf
<1> QED
  BY <1>1 DEF TabState, SessionOf

LEMMA Guards ==
  ASSUME NEW page \in Pages, NEW s \in TabState
  PROVE  GuardedBy(s, page) \in TabState /\ SessionOf(GuardedBy(s, page)) = SessionOf(s)
<1>1. {"login", "reserved", "public"} \subseteq Pages
  BY DEF Pages
<1> QED
  BY <1>1, PageFields DEF GuardedBy

(* The pages of a tab move, its session does not.                          *)
LEMMA PagesStep ==
  ASSUME SessionIInv, NEW t \in Tabs,
         (\E page \in Pages : GoTo(t, page)) \/ Edit(t) \/ Stay(t) \/ ComeBack(t) \/ Expel(t)
  PROVE  /\ tab'[t] \in TabState /\ SessionOf(tab'[t]) = SessionOf(tab[t]) /\ tab' = [tab EXCEPT ![t] = tab'[t]]
         /\ moves' \in 0..MaxActs /\ UNCHANGED <<now, exp, revoked, storage, refused, ended, toast>>
<1>1. tab \in [Tabs -> TabState] /\ tab[t] \in TabState /\ moves \in 0..MaxActs /\ MaxActs \in Nat
  BY SessionNumbers DEF SessionIInv, TypeOK
<1>2. ASSUME NEW s, s \in TabState, SessionOf(s) = SessionOf(tab[t]), tab' = [tab EXCEPT ![t] = s]
      PROVE  tab'[t] \in TabState /\ SessionOf(tab'[t]) = SessionOf(tab[t]) /\ tab' = [tab EXCEPT ![t] = tab'[t]]
  BY <1>1, <1>2
<1>3. CASE \E page \in Pages : GoTo(t, page)
  <2>1. PICK page \in Pages : GoTo(t, page)
    BY <1>3
  <2> QED
    BY <1>1, <1>2, <2>1, Guards DEF GoTo, Act
<1>4. CASE Edit(t)
  <2>1. /\ [tab[t] EXCEPT !.dirty = ~ @] \in TabState
        /\ SessionOf([tab[t] EXCEPT !.dirty = ~ @]) = SessionOf(tab[t])
    BY <1>1 DEF TabState, SessionOf
  <2> QED
    BY <1>1, <1>2, <1>4, <2>1 DEF Edit, Act
<1>5. CASE Stay(t)
  <2>1. /\ [tab[t] EXCEPT !.nav = "none", !.stay = "refused"] \in TabState
        /\ SessionOf([tab[t] EXCEPT !.nav = "none", !.stay = "refused"]) = SessionOf(tab[t])
    BY <1>1 DEF TabState, SessionOf
  <2> QED
    BY <1>1, <1>2, <1>5, <2>1 DEF Stay
<1>6. CASE ComeBack(t)
  <2>1. tab[t].page \in Pages
    BY <1>1 DEF TabState
  <2> QED
    BY <1>1, <1>2, <1>6, <2>1, Guards, PageFields DEF ComeBack
<1>7. CASE Expel(t)
  <2>1. {"login", "reserved"} \subseteq Pages
    BY DEF Pages
  <2> QED
    BY <1>1, <1>2, <1>7, <2>1, PageFields DEF Expel
<1> QED
  BY <1>3, <1>4, <1>5, <1>6, <1>7

LEMMA PagesMove ==
  ASSUME SessionIInv, NEW t \in Tabs,
         (\E page \in Pages : GoTo(t, page)) \/ Edit(t) \/ Stay(t) \/ ComeBack(t) \/ Expel(t)
  PROVE  SessionIInv'
<1>1. toast \in [Tabs -> Notices]
  BY DEF SessionIInv, TypeOK
<1>2. PICK s : s = tab'[t]
  OBVIOUS
<1>3. /\ s \in TabState /\ tab' = [tab EXCEPT ![t] = s] /\ moves' \in 0..MaxActs
      /\ s.token = tab[t].token /\ s.timer = tab[t].timer /\ s.last = tab[t].last
      /\ s.login = tab[t].login /\ s.req = tab[t].req
      /\ UNCHANGED <<now, exp, revoked, storage, refused, ended, toast>>
  BY <1>2, PagesStep DEF SessionOf
<1> QED
  BY <1>1, <1>3, AsideKeeps

LEMMA AskingKeeps ==
  ASSUME SessionIInv, NEW t \in Tabs, LoginFails(t) \/ AskLogout(t) \/ CancelLogout(t) \/ Send(t) \/ Warn(t)
  PROVE  SessionIInv'
<1>1. tab[t] \in TabState /\ toast \in [Tabs -> Notices] /\ moves \in 0..MaxActs /\ MaxActs \in Nat /\ t \in DOMAIN tab
  BY SessionNumbers DEF SessionIInv, TypeOK
<1>2. CASE LoginFails(t)
  <2> DEFINE s == [tab[t] EXCEPT !.login = Unset]
  <2>1. /\ s \in TabState /\ s.token = tab[t].token /\ s.timer = tab[t].timer
        /\ s.last = tab[t].last /\ s.login = Unset /\ s.req = tab[t].req
    BY <1>1 DEF TabState
  <2>2. tab' = [tab EXCEPT ![t] = s]
    BY <1>1, <1>2 DEF LoginFails
  <2> HIDE DEF s
  <2> QED
    BY <1>1, <1>2, <2>1, <2>2, AsideKeeps DEF LoginFails
<1>3. CASE AskLogout(t)
  <2> DEFINE s == [tab[t] EXCEPT !.asking = TRUE]
  <2>1. /\ s \in TabState /\ s.token = tab[t].token /\ s.timer = tab[t].timer
        /\ s.last = tab[t].last /\ s.login = tab[t].login /\ s.req = tab[t].req
    BY <1>1 DEF TabState
  <2>2. tab' = [tab EXCEPT ![t] = s] /\ moves' \in 0..MaxActs
    BY <1>1, <1>3 DEF AskLogout, Act
  <2> HIDE DEF s
  <2> QED
    BY <1>1, <1>3, <2>1, <2>2, AsideKeeps DEF AskLogout
<1>4. CASE CancelLogout(t)
  <2> DEFINE s == [tab[t] EXCEPT !.asking = FALSE]
  <2>1. /\ s \in TabState /\ s.token = tab[t].token /\ s.timer = tab[t].timer
        /\ s.last = tab[t].last /\ s.login = tab[t].login /\ s.req = tab[t].req
    BY <1>1 DEF TabState
  <2>2. tab' = [tab EXCEPT ![t] = s]
    BY <1>1, <1>4 DEF CancelLogout
  <2> HIDE DEF s
  <2> QED
    BY <1>1, <1>4, <2>1, <2>2, AsideKeeps DEF CancelLogout
<1>5. CASE Send(t)
  <2> DEFINE s == [tab[t] EXCEPT !.req = tab[t].token]
  <2>1. /\ s \in TabState /\ s.token = tab[t].token /\ s.timer = tab[t].timer
        /\ s.last = tab[t].last /\ s.login = tab[t].login /\ s.req = tab[t].token
    BY <1>1 DEF TabState
  <2>2. tab' = [tab EXCEPT ![t] = s] /\ moves' \in 0..MaxActs
    BY <1>1, <1>5 DEF Send, Act
  <2> HIDE DEF s
  <2> QED
    BY <1>1, <1>5, <2>1, <2>2, AsideKeeps DEF Send
<1>6. CASE Warn(t)
  <2> DEFINE s == [tab[t] EXCEPT !.warn = Unset]
  <2>1. /\ s \in TabState /\ s.token = tab[t].token /\ s.timer = tab[t].timer
        /\ s.last = tab[t].last /\ s.login = tab[t].login /\ s.req = tab[t].req
    BY <1>1, SessionNumbers DEF TabState
  <2>2. tab' = [tab EXCEPT ![t] = s]
    BY <1>1, <1>6 DEF Warn
  <2>3. [kind |-> "expiring", expiry |-> tab[t].last] \in Notices
    BY <1>1 DEF Notices, TabState
  <2>4. toast' \in [Tabs -> Notices]
    BY <1>1, <1>6, <2>3 DEF Warn
  <2> HIDE DEF s
  <2> QED
    BY <1>1, <1>6, <2>1, <2>2, <2>4, AsideKeeps DEF Warn
<1> QED
  BY <1>2, <1>3, <1>4, <1>5, <1>6

LEMMA LogoutKeeps == ASSUME SessionIInv, NEW t \in Tabs, ConfirmLogout(t) \/ Rejected(t) PROVE SessionIInv'
<1>1. tab[t] \in TabState /\ Sound(tab[t]) /\ refused \subseteq 1..Len(exp) /\ Len(exp) \in Nat
  BY Expiries DEF SessionIInv, TypeOK
<1>2. CASE ConfirmLogout(t)
  <2> DEFINE s == [tab[t] EXCEPT !.asking = FALSE, !.nav = "logout"]
  <2>1. /\ s \in TabState /\ s.token = tab[t].token /\ s.timer = tab[t].timer
        /\ s.last = tab[t].last /\ s.login = tab[t].login /\ s.req = tab[t].req
    BY <1>1 DEF TabState
  <2>2. Discard(t, s, FALSE, "logout") /\ UNCHANGED <<now, exp, revoked, refused, toast, moves>>
    BY <1>2 DEF ConfirmLogout
  <2> HIDE DEF s
  <2>3. Sound(s)
    BY <1>1, <2>1 DEF Sound
  <2> QED
    BY <1>1, <2>1, <2>2, <2>3, DiscardKeeps
<1>3. CASE Rejected(t)
  <2> DEFINE s == [tab[t] EXCEPT !.req = Unset]
  <2>1. /\ s \in TabState /\ s.token = tab[t].token /\ s.timer = tab[t].timer
        /\ s.last = tab[t].last /\ s.login = tab[t].login /\ s.req = Unset
    BY <1>1 DEF TabState
  <2>2. Discard(t, s, FALSE, "refused") /\ UNCHANGED <<now, exp, revoked, toast, moves>>
    BY <1>3 DEF Rejected
  <2> HIDE DEF s
  <2>3. Sound(s)
    BY <1>1, <2>1, SessionNumbers DEF Sound
  <2>4. refused' \subseteq 1..Len(exp)
    BY <1>1, <1>3, SessionNumbers DEF Rejected, Sound
  <2> QED
    BY <1>1, <2>1, <2>2, <2>3, <2>4, DiscardKeeps
<1> QED
  BY <1>2, <1>3

LEMMA BootKeeps == ASSUME SessionIInv, NEW t \in Tabs, Boot(t) PROVE SessionIInv'
<1> DEFINE f == Fresh(tab[t].page, tab[t].back)
           r == IF Live(storage) THEN Holding(f, storage) ELSE f
           s == IF f.page = "login" THEN r ELSE GuardedBy(r, f.page)
<1>1. /\ TypeOK /\ tab[t] \in TabState /\ toast \in [Tabs -> Notices] /\ ended \in [Tabs -> Ends]
      /\ moves \in 0..MaxActs /\ MaxActs \in Nat
  BY SessionNumbers DEF SessionIInv, TypeOK
<1>2. /\ f \in TabState /\ f.page \in Pages /\ f.token = 0 /\ f.timer = 0 /\ f.last = 0 /\ f.login = 0 /\ f.req = 0
  BY <1>1, SessionNumbers DEF Fresh, TabState
<1>3. /\ tab' = [tab EXCEPT ![t] = s] /\ UNCHANGED <<now, exp, revoked, refused>> /\ Act
      /\ storage' = IF Live(storage) THEN storage ELSE Unset
      /\ ended' = [ended EXCEPT ![t] = Nothing] /\ toast' = [toast EXCEPT ![t] = Silent]
  BY DEF Boot
<1> HIDE DEF f
<1>4. Sound(f)
  BY <1>1, <1>2, Expiries, SessionNumbers DEF Sound
<1>5. Sound(r) /\ r.last = 0 /\ r.page = f.page
  <2>1. CASE Live(storage)
    <3>1. storage \in 1..Len(exp)
      BY <1>1, <2>1, Expiries, SessionNumbers DEF Live, TypeOK
    <3>2. Sound(Holding(f, storage))
      BY <1>1, <1>4, <3>1, HoldingIsSound
    <3>3. Holding(f, storage).last = 0 /\ Holding(f, storage).page = f.page
      BY <1>2 DEF Holding, TabState
    <3> QED
      BY <2>1, <3>2, <3>3
  <2>2. CASE ~Live(storage)
    BY <1>2, <1>4, <2>2
  <2> QED
    BY <2>1, <2>2
<1> HIDE DEF r
<1>6. r \in TabState
  BY <1>5 DEF Sound
<1>7. Sound(s) /\ s.last = 0
  <2>1. s \in TabState /\ SessionOf(s) = SessionOf(r)
    BY <1>2, <1>5, <1>6, Guards
  <2>2. s.token = r.token /\ s.timer = r.timer /\ s.last = r.last /\ s.login = r.login /\ s.req = r.req
    BY <2>1 DEF SessionOf
  <2> HIDE DEF s
  <2> QED
    BY <1>5, <2>1, <2>2 DEF Sound
<1> HIDE DEF s
<1>8. /\ storage' \in 0..Len(exp) /\ refused' \subseteq 1..Len(exp) /\ moves' \in 0..MaxActs
      /\ ended' \in [Tabs -> Ends] /\ toast' \in [Tabs -> Notices] /\ \A u \in Tabs \ {t} : ended'[u] = ended[u]
  <2>1. Nothing \in Ends /\ Silent \in Notices
    BY SessionNumbers DEF Nothing, Silent, Ends, Notices
  <2> QED
    BY <1>1, <1>3, <2>1, Expiries, SessionNumbers DEF TypeOK, Act
<1> QED
  BY <1>3, <1>7, <1>8, SessionNumbers, TabChanges

(* The list of the tokens grows: what is known of the others stays.        *)
LEMMA SubmitLoginKeeps == ASSUME SessionIInv, NEW t \in Tabs, SubmitLogin(t) PROVE SessionIInv'
<1>1. /\ TypeOK /\ tab[t] \in TabState /\ now \in 1..MaxTime /\ Len(exp) \in Nat /\ Len(exp) < MaxLogins
  BY Expiries DEF SessionIInv, TypeOK, SubmitLogin
<1>2. now + Life \in Times \ {Unset}
  BY <1>1, SessionNumbers
<1>3. /\ exp' \in Seq(Times \ {Unset}) /\ Len(exp') = Len(exp) + 1
      /\ \A k \in 1..Len(exp) : exp'[k] = exp[k]
  BY <1>1, <1>2, Appended DEF SubmitLogin, TypeOK
<1> DEFINE n == Len(exp')
           s == [tab[t] EXCEPT !.login = n]
<1>a. n \in Tokens /\ n = Len(exp')
  BY <1>1, <1>3, SessionNumbers DEF Tokens
<1>4. /\ UNCHANGED <<now, revoked, storage, refused, ended, toast>> /\ moves' \in 0..MaxActs
      /\ tab' = [tab EXCEPT ![t] = s]
  BY <1>1, SessionNumbers DEF SubmitLogin, Act, TypeOK
<1> HIDE DEF n
<1>5. /\ s \in TabState /\ s.login = Len(exp') /\ s.token = tab[t].token /\ s.req = tab[t].req
      /\ s.timer = tab[t].timer /\ s.last = tab[t].last
  BY <1>1, <1>a DEF TabState
<1> HIDE DEF s
<1>6. \A u \in Tabs : /\ tab'[u] \in TabState /\ tab'[u].token = tab[u].token /\ tab'[u].timer = tab[u].timer
                      /\ tab'[u].last = tab[u].last /\ tab'[u].req = tab[u].req
                      /\ tab'[u].login \in {tab[u].login, Len(exp')}
  BY <1>1, <1>4, <1>5 DEF TypeOK
<1>7. ASSUME NEW u \in Tabs PROVE Sound(tab[u])'
  <2>1. Sound(tab[u])
    BY <1>1 DEF TypeOK
  <2>2. {tab'[u].token, tab'[u].login, tab'[u].req} \subseteq 0..Len(exp')
    BY <1>1, <1>3, <1>6, <2>1 DEF Sound
  <2>3. tab[u].token # Unset => tab[u].token \in 1..Len(exp)
    BY <1>1, <2>1, SessionNumbers DEF Sound
  <2> QED
    BY <1>3, <1>6, <2>1, <2>2, <2>3 DEF Sound
<1>8. tab' \in [Tabs -> TabState]
  BY <1>1, <1>4, <1>5 DEF TypeOK
<1>9. /\ storage' \in 0..Len(exp') /\ refused' \subseteq 1..Len(exp') /\ revoked' \in 0..Len(exp')
      /\ Len(exp') <= MaxLogins
  BY <1>1, <1>3, <1>4, SessionNumbers DEF TypeOK
<1>10. TypeOK'
  BY <1>1, <1>3, <1>4, <1>7, <1>8, <1>9 DEF TypeOK
<1>11. EndsAreNew'
  BY <1>4, <1>6 DEF SessionIInv, EndsAreNew
<1> QED
  BY <1>10, <1>11 DEF SessionIInv

LEMMA LoginAnswerKeeps == ASSUME SessionIInv, NEW t \in Tabs, LoginAnswer(t) PROVE SessionIInv'
<1> DEFINE k == tab[t].login
           r == [tab[t] EXCEPT !.login = Unset]
           s == IF Live(k) THEN Returned(r) ELSE r
<1>1. /\ TypeOK /\ Sound(tab[t]) /\ tab[t] \in TabState /\ toast \in [Tabs -> Notices] /\ ended \in [Tabs -> Ends]
      /\ now \in 0..MaxTime
  BY SessionNumbers DEF SessionIInv, TypeOK
<1>2. k # Unset /\ Store(t, s, k) /\ UNCHANGED <<now, exp, revoked, refused, toast, moves>>
  BY DEF LoginAnswer
<1>3. /\ r \in TabState /\ r.token = tab[t].token /\ r.timer = tab[t].timer /\ r.last = tab[t].last
      /\ r.login = Unset /\ r.req = tab[t].req
  BY <1>1, SessionNumbers DEF TabState
<1>4. k \in 1..Len(exp)
  BY <1>1, <1>2, Expiries, SessionNumbers DEF Sound
<1> HIDE DEF r, k
<1>5. /\ Returned(r) \in TabState /\ Returned(r).token = r.token /\ Returned(r).timer = r.timer /\ Returned(r).last = r.last
      /\ Returned(r).login = r.login /\ Returned(r).req = r.req
  BY <1>3 DEF Returned, TabState, Pages
<1>6. s.last = tab[t].last /\ Sound(s)
  BY <1>1, <1>3, <1>5, SessionNumbers DEF Sound
<1> HIDE DEF s
<1>7. refused' \subseteq 1..Len(exp) /\ toast' \in [Tabs -> Notices] /\ moves' \in 0..MaxActs
  BY <1>1, <1>2 DEF TypeOK
<1>8. CASE Live(k)
  <2>1. tab' = [tab EXCEPT ![t] = Holding(s, k)] /\ storage' = k /\ ended' = ended
    BY <1>2, <1>8 DEF Store
  <2>2. Sound(Holding(s, k)) /\ Holding(s, k).token # Unset
    BY <1>1, <1>2, <1>4, <1>6, HoldingIsSound
  <2>3. storage' \in 0..Len(exp) /\ ended' \in [Tabs -> Ends] /\ \A u \in Tabs \ {t} : ended'[u] = ended[u]
    BY <1>1, <1>4, <2>1, Expiries
  <2> QED
    BY <1>2, <1>7, <2>1, <2>2, <2>3, TabChanges
<1>9. CASE ~Live(k)
  <2>1. tab' = [tab EXCEPT ![t] = Emptied(s)] /\ storage' = Unset /\ EndedBy(t, "badLogin")
    BY <1>2, <1>9 DEF Store
  <2>2. Sound(Emptied(s)) /\ Emptied(s).last = tab[t].last
    BY <1>1, <1>6, EmptiedIsSound
  <2>3. /\ ended' \in [Tabs -> Ends] /\ \A u \in Tabs \ {t} : ended'[u] = ended[u]
        /\ tab[t].last # Unset => ended'[t].at = now
    <3>1. CASE tab[t].token = Unset
      BY <1>1, <2>1, <3>1 DEF EndedBy, SessionIInv, EndsAreNew
    <3>2. CASE tab[t].token # Unset
      <4>1. [cause |-> "badLogin", at |-> now] \in Ends
        BY <1>1 DEF Ends
      <4> QED
        BY <1>1, <2>1, <3>2, <4>1 DEF EndedBy
    <3> QED
      BY <3>1, <3>2
  <2>4. storage' \in 0..Len(exp)
    BY <1>1, <2>1, Expiries, SessionNumbers
  <2> QED
    BY <1>2, <1>7, <2>1, <2>2, <2>3, <2>4, TabChanges
<1> QED
  BY <1>8, <1>9

(* The notice of an end forgets the expiry and may start for the login.    *)
LEMMA NoticeEndTab ==
  ASSUME NEW t \in Tabs, tab[t] \in TabState, NoticeEnd(t)
  PROVE  \E s : /\ s \in TabState /\ tab' = [tab EXCEPT ![t] = s] /\ s.token = tab[t].token /\ s.timer = tab[t].timer
                /\ s.last = Unset /\ s.login = tab[t].login /\ s.req = tab[t].req
<1> DEFINE r == [tab[t] EXCEPT !.warn = Unset, !.last = Unset]
<1>1. PICK s \in IF TimeIsUp(t) THEN Redirected(r) ELSE {r} : tab' = [tab EXCEPT ![t] = s]
  BY DEF NoticeEnd
<1>2. /\ r \in TabState /\ r.token = tab[t].token /\ r.timer = tab[t].timer /\ r.last = Unset
      /\ r.login = tab[t].login /\ r.req = tab[t].req
  BY SessionNumbers DEF TabState
<1> HIDE DEF r
<1>3. s \in {r, [r EXCEPT !.nav = "none", !.stay = "crossed"], [r EXCEPT !.nav = "expelled"]}
  BY <1>1 DEF Redirected
<1>4. /\ s \in TabState /\ s.token = r.token /\ s.timer = r.timer /\ s.last = r.last
      /\ s.login = r.login /\ s.req = r.req
  BY <1>2, <1>3 DEF TabState
<1> QED
  BY <1>1, <1>2, <1>4

LEMMA NoticesKeep ==
  ASSUME SessionIInv, NEW t \in Tabs, NoticeEnd(t) \/ NoticeBegin(t)
  PROVE  SessionIInv'
<1>1. /\ TypeOK /\ Sound(tab[t]) /\ tab[t] \in TabState /\ toast \in [Tabs -> Notices] /\ ended \in [Tabs -> Ends]
      /\ now \in 1..MaxTime /\ storage \in 0..Len(exp) /\ refused \subseteq 1..Len(exp) /\ moves \in 0..MaxActs
  BY DEF SessionIInv, TypeOK
<1>2. CASE NoticeEnd(t)
  <2>1. PICK s : /\ s \in TabState /\ tab' = [tab EXCEPT ![t] = s] /\ s.token = tab[t].token /\ s.timer = tab[t].timer
                 /\ s.last = Unset /\ s.login = tab[t].login /\ s.req = tab[t].req
    BY <1>1, <1>2, NoticeEndTab
  <2>2. [kind |-> "expired", expiry |-> tab[t].last] \in Notices
    BY <1>1 DEF Notices, TabState
  <2>3. toast' \in [Tabs -> Notices] /\ UNCHANGED <<now, exp, revoked, storage, refused, ended, moves>>
    BY <1>1, <1>2, <2>2 DEF NoticeEnd
  <2> QED
    BY <1>1, <2>1, <2>3, AsideKeeps
<1>3. CASE NoticeBegin(t)
  <2> DEFINE e == ExpiresAt(tab[t])
             w == IF e >= now + WarnBefore + MinLead THEN Earlier(e - WarnBefore, now + MaxDelay) ELSE Unset
             s == [tab[t] EXCEPT !.last = e, !.stay = "no", !.warn = w]
  <2>1. /\ tab[t].token \in 1..Len(exp) /\ tab[t].token # Unset /\ e \in Times /\ e \in Nat
    BY <1>1, <1>3, Expiries, SessionNumbers DEF NoticeBegin, ExpiresAt, Sound
  <2>2. w \in Times
    BY <1>1, <2>1, SessionNumbers DEF Earlier
  <2>3. /\ tab' = [tab EXCEPT ![t] = s] /\ UNCHANGED <<now, exp, revoked, storage, refused, moves>>
        /\ ended' = [ended EXCEPT ![t] = Nothing] /\ toast' = [toast EXCEPT ![t] = Silent]
    BY <1>1, <1>3 DEF NoticeBegin, TypeOK
  <2> HIDE DEF w, e
  <2>4. /\ s \in TabState /\ s.token = tab[t].token /\ s.timer = tab[t].timer
        /\ s.login = tab[t].login /\ s.req = tab[t].req
    BY <1>1, <2>1, <2>2 DEF TabState
  <2> HIDE DEF s
  <2>5. Sound(s)
    BY <1>1, <2>4 DEF Sound
  <2>6. Nothing \in Ends /\ Silent \in Notices
    BY SessionNumbers DEF Nothing, Silent, Ends, Notices
  <2>7. /\ ended' \in [Tabs -> Ends] /\ toast' \in [Tabs -> Notices] /\ \A u \in Tabs \ {t} : ended'[u] = ended[u]
    BY <1>1, <2>3, <2>6
  <2> QED
    BY <1>1, <2>1, <2>3, <2>4, <2>5, <2>7, TabChanges
<1> QED
  BY <1>2, <1>3

LEMMA RevokeKeeps == ASSUME SessionIInv, Revoke PROVE SessionIInv'
<1>1. revoked' \in 0..Len(exp)
  BY Expiries DEF Revoke, SessionIInv, TypeOK
<1>2. \A t \in Tabs : Sound(tab[t])'
  BY DEF Revoke, SessionIInv, TypeOK, Sound
<1> QED
  BY <1>1, <1>2 DEF Revoke, SessionIInv, TypeOK, EndsAreNew

(* Time waits for the notices: no end is older than the instant.           *)
LEMMA TickPasses == ASSUME SessionIInv, Tick PROVE SessionIInv'
<1>1. /\ TypeOK /\ now' = now + 1 /\ now' \in 1..MaxTime
      /\ UNCHANGED <<exp, revoked, storage, tab, refused, ended, toast, moves>>
  BY SessionNumbers DEF Tick, SessionIInv, TypeOK
<1>2. \A t \in Tabs : Sound(tab[t])'
  BY <1>1 DEF TypeOK, Sound
<1>3. TypeOK'
  BY <1>1, <1>2 DEF TypeOK
<1>4. \A t \in Tabs : ~(tab[t].token = Unset /\ tab[t].last # Unset)
  BY DEF Tick, NoticePending, ExpiresAt
<1> QED
  BY <1>1, <1>3, <1>4 DEF SessionIInv, EndsAreNew

LEMMA SessionKeeps == SessionIInv /\ [Next]_vars => SessionIInv'
<1> SUFFICES ASSUME SessionIInv, [Next]_vars PROVE SessionIInv'
  OBVIOUS
<1>1. CASE Revoke
  BY <1>1, RevokeKeeps
<1>2. CASE Tick
  BY <1>2, TickPasses
<1>3. ASSUME NEW t \in Tabs, Step(t) PROVE SessionIInv'
  BY <1>3, TimerFiresKeeps, BootKeeps, PagesMove, SubmitLoginKeeps, LoginAnswerKeeps, AskingKeeps, LogoutKeeps,
     NoticesKeep DEF Step
<1>4. CASE UNCHANGED vars
  <2>1. \A t \in Tabs : Sound(tab[t])'
    BY <1>4 DEF vars, SessionIInv, TypeOK, Sound
  <2> QED
    BY <1>4, <2>1 DEF vars, SessionIInv, TypeOK, EndsAreNew
<1> QED
  BY <1>1, <1>2, <1>3, <1>4 DEF Next

LEMMA SessionInvariant == Spec => []SessionIInv
<1> QED
  BY SessionInit, SessionKeeps, PTL DEF Spec

(* A live session leaves the storage by a logout, a 401 or a late login,   *)
(* and a tab by these or a reload: the timer of a tab never takes a newer  *)
(* login (TokenService.discard, onlyIfOwn).                                *)
LEMMA LiveSessions ==
  ASSUME SessionIInv, [Next]_vars
  PROVE  /\ Live(storage) /\ storage' = Unset => \E t \in Tabs : ConfirmLogout(t) \/ Rejected(t) \/ LoginAnswer(t)
         /\ \A t \in Tabs : Live(tab[t].token) /\ tab'[t].token # tab[t].token =>
              ConfirmLogout(t) \/ Rejected(t) \/ LoginAnswer(t) \/ Boot(t)
<1>1. TypeOK /\ tab \in [Tabs -> TabState]
  BY DEF SessionIInv, TypeOK
<1>2. ASSUME NEW t \in Tabs, TimerFires(t)
      PROVE  /\ Live(storage) => storage' = storage
             /\ \A u \in Tabs : Live(tab[u].token) => tab'[u].token = tab[u].token
  <2>1. Sound(tab[t]) /\ tab[t].token # Unset
    BY <1>1, <1>2 DEF TimerFires, TypeOK, Sound
  <2>2. CASE ExpiresAt(tab[t]) <= now /\ Discard(t, tab[t], TRUE, "expired")
    <3>1. ~Live(tab[t].token)
      <4>1. tab[t].token \in 1..Len(exp)
        BY <1>1, <2>1, Expiries, SessionNumbers DEF Sound
      <4>2. exp[tab[t].token] \in Nat /\ now \in Nat
        BY <1>1, <4>1, Expiries, SessionNumbers DEF TypeOK
      <4> QED
        BY <2>1, <2>2, <4>2 DEF Live, ExpiresAt
    <3>2. /\ \A u \in Tabs \ {t} : tab'[u] = tab[u]
          /\ storage' = IF storage # tab[t].token THEN storage ELSE Unset
      BY <1>1, <2>2 DEF Discard
    <3> QED
      BY <3>1, <3>2
  <2>3. CASE tab' = [tab EXCEPT ![t].timer = Scheduled(ExpiresAt(tab[t]))] /\ UNCHANGED <<storage, ended>>
    BY <1>1, <2>3 DEF TabState
  <2> QED
    BY <1>2, <2>2, <2>3 DEF TimerFires
<1>3. ASSUME NEW t \in Tabs, Boot(t)
      PROVE  (Live(storage) => storage' = storage) /\ \A u \in Tabs \ {t} : tab'[u] = tab[u]
  BY <1>1, <1>3 DEF Boot
<1>4. ASSUME NEW t \in Tabs, (\E page \in Pages : GoTo(t, page)) \/ Edit(t) \/ Stay(t) \/ ComeBack(t) \/ Expel(t)
      PROVE  storage' = storage /\ \A u \in Tabs : tab'[u].token = tab[u].token
  <2>1. /\ tab' = [tab EXCEPT ![t] = tab'[t]] /\ tab'[t].token = tab[t].token /\ storage' = storage
    BY <1>4, PagesStep DEF SessionOf
  <2> QED
    BY <1>1, <2>1
<1>5. ASSUME NEW t \in Tabs, SubmitLogin(t) \/ LoginFails(t) \/ AskLogout(t) \/ CancelLogout(t) \/ Send(t) \/ Warn(t)
      PROVE  storage' = storage /\ \A u \in Tabs : tab'[u].token = tab[u].token
  <2>1. tab[t] \in TabState
    BY <1>1
  <2>2. SubmitLogin(t) => \A u \in Tabs : tab'[u].token = tab[u].token
    BY <1>1, <2>1 DEF SubmitLogin, TabState
  <2>3. LoginFails(t) => \A u \in Tabs : tab'[u].token = tab[u].token
    BY <1>1, <2>1 DEF LoginFails, TabState
  <2>4. AskLogout(t) \/ CancelLogout(t) => \A u \in Tabs : tab'[u].token = tab[u].token
    BY <1>1, <2>1 DEF AskLogout, CancelLogout, TabState
  <2>5. Send(t) => \A u \in Tabs : tab'[u].token = tab[u].token
    BY <1>1, <2>1 DEF Send, TabState
  <2>6. Warn(t) => \A u \in Tabs : tab'[u].token = tab[u].token
    BY <1>1, <2>1 DEF Warn, TabState
  <2> QED
    BY <1>5, <2>2, <2>3, <2>4, <2>5, <2>6 DEF SubmitLogin, LoginFails, AskLogout, CancelLogout, Send, Warn
<1>6. ASSUME NEW t \in Tabs, NoticeEnd(t) \/ NoticeBegin(t)
      PROVE  storage' = storage /\ \A u \in Tabs : tab'[u].token = tab[u].token
  <2>3. NoticeEnd(t) => \A u \in Tabs : tab'[u].token = tab[u].token
    BY <1>1, NoticeEndTab
  <2>4. NoticeBegin(t) => \A u \in Tabs : tab'[u].token = tab[u].token
    BY <1>1 DEF NoticeBegin, TabState
  <2> QED
    BY <1>6, <2>3, <2>4 DEF NoticeEnd, NoticeBegin
<1>7. ASSUME NEW t \in Tabs, ConfirmLogout(t) \/ Rejected(t) \/ LoginAnswer(t)
      PROVE  \A u \in Tabs \ {t} : tab'[u] = tab[u]
  BY <1>1, <1>7 DEF ConfirmLogout, Rejected, LoginAnswer, Discard, Store
<1>8. CASE \E t \in Tabs : Step(t)
  <2>1. PICK t \in Tabs : Step(t)
    BY <1>8
  <2>2. CASE TimerFires(t)
    BY <1>2, <2>2 DEF Live
  <2>3. CASE Boot(t)
    BY <1>3, <2>3 DEF Live
  <2>4. CASE ConfirmLogout(t) \/ Rejected(t) \/ LoginAnswer(t)
    BY <1>7, <2>4
  <2>5. CASE (\E page \in Pages : GoTo(t, page)) \/ Edit(t) \/ Stay(t) \/ ComeBack(t) \/ Expel(t) \/ SubmitLogin(t) \/ LoginFails(t) \/ AskLogout(t)
             \/ CancelLogout(t) \/ Send(t) \/ Warn(t) \/ NoticeEnd(t) \/ NoticeBegin(t)
    BY <1>4, <1>5, <1>6, <2>5 DEF Live
  <2> QED
    BY <2>1, <2>2, <2>3, <2>4, <2>5 DEF Step
<1>9. CASE Revoke \/ Tick \/ UNCHANGED vars
  BY <1>9 DEF Revoke, Tick, vars, Live
<1> QED
  BY <1>8, <1>9 DEF Next

(* What a notice says is so (SessionExpiryNoticeService).                  *)
LEMMA NoticesTellTheTruth ==
  ASSUME SessionIInv, [Next]_vars, NEW t \in Tabs, toast'[t] # toast[t], toast'[t].kind # "none"
  PROVE  \/ /\ toast'[t].kind = "expired" /\ tab[t].token = Unset
            /\ ended[t].at + Slack >= toast'[t].expiry
         \/ /\ toast'[t].kind = "expiring" /\ ExpiresAt(tab[t]) = toast'[t].expiry
<1>1. TypeOK /\ toast \in [Tabs -> Notices]
  BY DEF SessionIInv, TypeOK
<1>2. ASSUME NEW u \in Tabs, Boot(u) \/ NoticeBegin(u) PROVE FALSE
  <2>1. toast' = [toast EXCEPT ![u] = Silent]
    BY <1>2 DEF Boot, NoticeBegin
  <2> QED
    BY <1>1, <2>1 DEF Silent
<1>3. PICK u \in Tabs : NoticeEnd(u) \/ Warn(u)
  <2>1. ~UNCHANGED toast
    OBVIOUS
  <2> QED
    BY <1>2, <2>1 DEF Next, Step, vars, Revoke, Tick, TimerFires, GoTo, Edit, Stay, Expel, SubmitLogin, LoginAnswer, LoginFails, AskLogout,
       CancelLogout, ConfirmLogout, ComeBack, Send, Rejected
<1>4. CASE NoticeEnd(u)
  <2>1. /\ u = t /\ TimeIsUp(t) /\ NoticePending(t) /\ ExpiresAt(tab[t]) = Unset
        /\ toast'[t] = [kind |-> "expired", expiry |-> tab[t].last]
    BY <1>1, <1>4 DEF NoticeEnd
  <2>2. tab[t].token = Unset
    <3>1. Sound(tab[t])
      BY <1>1 DEF TypeOK
    <3>2. tab[t].token # Unset => tab[t].token \in 1..Len(exp)
      BY <1>1, <3>1, Expiries, SessionNumbers DEF Sound
    <3> QED
      BY <1>1, <2>1, <3>2, Expiries, SessionNumbers DEF ExpiresAt
  <2>3. ended[t].at = now
    BY <2>1, <2>2 DEF NoticePending, SessionIInv, EndsAreNew
  <2> QED
    BY <2>1, <2>2, <2>3 DEF TimeIsUp
<1>5. CASE Warn(u)
  BY <1>1, <1>5 DEF Warn, NoticePending
<1> QED
  BY <1>3, <1>4, <1>5

(* Sessions end for a cause and the notices say the true one, whatever the *)
(* tabs do to each other through the storage (token.service.ts,            *)
(* session-expiry-notice.service.ts).                                      *)
THEOREM SessionsAreSafe == Spec => SessionSafe
<1>1. SessionIInv /\ [Next]_vars =>
        [/\ Live(storage) /\ storage' = Unset => \E t \in Tabs : ConfirmLogout(t) \/ Rejected(t) \/ LoginAnswer(t)
         /\ \A t \in Tabs : Live(tab[t].token) /\ tab'[t].token # tab[t].token =>
              ConfirmLogout(t) \/ Rejected(t) \/ LoginAnswer(t) \/ Boot(t)]_vars
  BY LiveSessions
<1>2. SessionIInv /\ [Next]_vars =>
        [\A t \in Tabs : toast'[t] # toast[t] /\ toast'[t].kind # "none" =>
           \/ /\ toast'[t].kind = "expired" /\ tab[t].token = Unset
              /\ ended[t].at + Slack >= toast'[t].expiry
           \/ /\ toast'[t].kind = "expiring" /\ ExpiresAt(tab[t]) = toast'[t].expiry]_vars
  BY NoticesTellTheTruth
<1> QED
  BY <1>1, <1>2, SessionInvariant, PTL DEF Spec, SessionSafe, LiveSessionKept, NoticesAreTrue

-----------------------------------------------------------------------------
(* PagePopups: the calls, the popup and the spinner.                       *)

LEMMA PopupNumbers ==
  /\ NumEditors \in Nat /\ MaxNavs \in Nat /\ MaxPolls \in Nat /\ MaxMoves \in Nat
  /\ Page \in Owners /\ Updater \in Owners /\ Updater # Page
  /\ \A m \in Modals : Closing(m) \in Owners /\ Closing(m) # Page /\ Closing(m) # Updater
  /\ \A n \in Navs : Leaving(n) \in Owners /\ Leaving(n) # Page /\ Leaving(n) # Updater
  /\ \A m \in Modals, n \in Navs : Closing(m) # Leaving(n)
  /\ \A m, k \in Modals : Closing(m) = Closing(k) => m = k
  /\ \A n, k \in Navs : Leaving(n) = Leaving(k) => n = k
BY PopupAssumption DEF Page, Updater, Owners, Closing, Leaving

LEMMA Owned ==
  ASSUME NEW o \in Owners
  PROVE  o = Page \/ o = Updater \/ (\E m \in Modals : o = Closing(m)) \/ (\E n \in Navs : o = Leaving(n))
BY DEF Page, Updater, Owners, Closing, Leaving

LEMMA Fires ==
  /\ NoPopup \in [kind : Kinds, owner : Owners, host : Modals \union {Body}]
  /\ NoPopup.kind = "none" /\ NoPopup.owner = Page /\ NoPopup.host = Body
  /\ \A kind \in Kinds, o \in Owners :
       Fire(kind, o) \in [kind : Kinds, owner : Owners] /\ Fire(kind, o).kind = kind /\ Fire(kind, o).owner = o
  /\ Close = Fire("none", Page)
  /\ {"none", "message", "toast", "loading", "question"} \subseteq Kinds
BY PopupNumbers DEF NoPopup, Fire, Close, Kinds

(* What follows the calls that wait.                                       *)
LEMMA Says ==
  ASSUME NEW C, NEW s \in Seq(C), NEW cs \in Seq(C)
  PROVE  /\ s \o cs \in Seq(C)
         /\ cs = <<>> => s \o cs = s
         /\ cs # <<>> => s \o cs # <<>> /\ Last(s \o cs) = Last(cs)
         /\ Len(s) \in Nat /\ Len(cs) \in Nat /\ Len(s \o cs) = Len(s) + Len(cs)
         /\ \A i \in 1..Len(s) : (s \o cs)[i] = s[i]
         /\ \A i \in 1..Len(cs) : (s \o cs)[Len(s) + i] = cs[i]
<1>1. /\ s \o cs \in Seq(C) /\ Len(s) \in Nat /\ Len(cs) \in Nat /\ Len(s \o cs) = Len(s) + Len(cs)
      /\ \A i \in 1..Len(s) + Len(cs) : (s \o cs)[i] = IF i <= Len(s) THEN s[i] ELSE cs[i - Len(s)]
  BY ConcatProperties, LenProperties
<1>2. cs = <<>> => s \o cs = s
  BY ConcatEmptySeq
<1>3. cs # <<>> => Len(cs) > 0
  BY <1>1, EmptySeq
<1> DEFINE t == s \o cs
<1> HIDE DEF t
<1>4. \A i \in 1..Len(cs) : t[Len(s) + i] = cs[i]
  BY <1>1 DEF t
<1>5. \A i \in 1..Len(s) : t[i] = s[i]
  BY <1>1 DEF t
<1>6. cs # <<>> => t # <<>> /\ Last(t) = Last(cs)
  <2>1. t = <<>> => Len(t) = 0
    OBVIOUS
  <2>2. cs # <<>> => Len(cs) \in 1..Len(cs) /\ Len(t) = Len(s) + Len(cs)
    BY <1>1, <1>3 DEF t
  <2> QED
    BY <1>1, <1>3, <1>4, <2>1, <2>2 DEF Last
<1> QED
  BY <1>1, <1>2, <1>4, <1>5, <1>6 DEF t

LEMMA TalkKeeps ==
  ASSUME Dialogs, Spins, swal' = swal, working' \in Nat,
         NEW cs \in Seq([kind : Kinds, owner : Owners]), Say(cs),
         working' = 0 => IF cs = <<>> THEN working = 0 ELSE Last(cs).kind # "loading",
         popup' \in {popup, NoPopup, [popup EXCEPT !.host = Body]}
  PROVE  Dialogs' /\ Spins'
<1> DEFINE C == [kind : Kinds, owner : Owners]
<1>1. /\ calls \in Seq(C) /\ calls' = calls \o cs
      /\ popup \in [kind : Kinds, owner : Owners, host : Modals \union {Body}]
  BY DEF Dialogs, Say
<1> HIDE DEF C
<1>2. /\ calls' \in Seq(C) /\ (cs = <<>> => calls' = calls)
      /\ (cs # <<>> => calls' # <<>> /\ Last(calls') = Last(cs))
  BY <1>1, Says DEF C
<1>3. /\ popup' \in [kind : Kinds, owner : Owners, host : Modals \union {Body}]
      /\ popup'.kind \in {popup.kind, "none"} /\ (popup = NoPopup => popup' = NoPopup)
  BY <1>1, Fires DEF NoPopup
<1>4. Dialogs'
  BY <1>2, <1>3 DEF Dialogs, C
<1>5. Spins'
  BY <1>2, <1>3 DEF Spins, NoSpinnerLeft, SpinnersClose
<1> QED
  BY <1>4, <1>5

(* What a handler says, and what it does to the popup.                     *)
LEMMA SilentKeeps ==
  ASSUME Dialogs, Spins, UNCHANGED <<swal, calls, working>>,
         popup' \in {popup, NoPopup, [popup EXCEPT !.host = Body]}
  PROVE  Dialogs' /\ Spins'
<1> DEFINE C == [kind : Kinds, owner : Owners]
<1>1. calls \in Seq(C) /\ working \in Nat
  BY DEF Dialogs, Spins
<1> HIDE DEF C
<1>2. <<>> \in Seq(C) /\ calls = calls \o <<>>
  BY <1>1, ConcatEmptySeq
<1>3. Say(<<>>) /\ <<>> \in Seq([kind : Kinds, owner : Owners])
  BY <1>2 DEF Say, C
<1> QED
  BY <1>1, <1>3, TalkKeeps

(* One call, which is no spinner.                                          *)
LEMMA OneCallKeeps ==
  ASSUME Dialogs, Spins, UNCHANGED <<swal, working>>,
         NEW kind \in {"message", "toast", "question"}, NEW o \in Owners, Say(<<Fire(kind, o)>>),
         popup' \in {popup, NoPopup, [popup EXCEPT !.host = Body]}
  PROVE  Dialogs' /\ Spins'
<1> DEFINE c == Fire(kind, o)
<1>1. c \in [kind : Kinds, owner : Owners] /\ c.kind # "loading"
  BY Fires
<1> HIDE DEF c
<1>2. <<c>> \in Seq([kind : Kinds, owner : Owners]) /\ <<c>> # <<>> /\ Last(<<c>>) = c
  BY <1>1 DEF Last
<1>3. working' \in Nat
  BY DEF Spins
<1> QED
  BY <1>1, <1>2, <1>3, TalkKeeps DEF c

LEMMA BecomePopup ==
  ASSUME NEW md, Become(md)
  PROVE  popup' \in {popup, [popup EXCEPT !.host = Body]}
BY DEF Become

LEMMA DialogsKeep == ASSUME PopupIInv, [PopupNext]_popupVars PROVE Dialogs' /\ Spins'
<1>1. /\ Dialogs /\ Spins /\ calls \in Seq([kind : Kinds, owner : Owners]) /\ working \in Nat
      /\ popup \in [kind : Kinds, owner : Owners, host : Modals \union {Body}]
  BY DEF PopupIInv, Dialogs, Spins
<1>2. CASE ImportEnds
  BY <1>1, <1>2 DEF ImportEnds, Dialogs, Spins, NoSpinnerLeft, SpinnersClose
<1>3. CASE RunCall
  <2> DEFINE c == Head(calls)
             host == IF c = Close THEN Body ELSE Top
  <2>1. /\ calls # <<>> /\ swal = "here" /\ swal' = swal /\ calls' = Tail(calls) /\ working' = working
        /\ popup' = [kind |-> c.kind, owner |-> c.owner, host |-> host]
    BY <1>3 DEF RunCall
  <2>2. /\ c \in [kind : Kinds, owner : Owners] /\ c = calls[1] /\ calls' \in Seq([kind : Kinds, owner : Owners])
        /\ Len(calls) \in Nat /\ Len(calls') = Len(calls) - 1 /\ Len(calls) > 0 /\ Len(calls') \in Nat
        /\ \A i \in 1..Len(calls') : calls'[i] = calls[i + 1]
    <3> DEFINE C == [kind : Kinds, owner : Owners]
    <3>1. calls \in Seq(C) /\ calls # <<>> /\ calls' = Tail(calls)
      BY <1>1, <2>1
    <3> HIDE DEF C
    <3>2. /\ c \in C /\ c = calls[1] /\ calls' \in Seq(C)
          /\ Len(calls) \in Nat /\ Len(calls') = Len(calls) - 1 /\ 1 \in 1..Len(calls)
          /\ \A i \in 1..Len(calls') : calls'[i] = calls[i + 1]
      BY <3>1, Taken
    <3> QED
      BY <3>2 DEF C
  <2>3. host \in Modals \union {Body}
    <3>1. hosts \in Seq(Modals)
      BY DEF PopupIInv, Stacked
    <3>2. hosts # <<>> => Last(hosts) \in Modals
      <4>1. hosts # <<>> => Len(hosts) \in 1..Len(hosts)
        BY <3>1, EmptySeq, LenProperties
      <4> QED
        BY <3>1, <4>1, ElementOfSeq DEF Last
    <3> QED
      BY <3>2 DEF Top
  <2>4. calls' # <<>> => Last(calls') = Last(calls)
    <3>1. calls' # <<>> => Len(calls') \in 1..Len(calls')
      BY <2>2, EmptySeq
    <3> QED
      BY <2>2, <3>1 DEF Last
  <2>5. calls' = <<>> => Last(calls) = c
    <3>1. calls' = <<>> => Len(calls) = 1
      BY <2>2
    <3> QED
      BY <2>2, <3>1 DEF Last
  <2> HIDE DEF c, host
  <2>6. Dialogs'
    BY <1>1, <2>1, <2>2, <2>3 DEF Dialogs
  <2> QED
    BY <1>1, <2>1, <2>4, <2>5, <2>6 DEF Spins, NoSpinnerLeft, SpinnersClose
<1>4. CASE CallRejected
  <2>1. /\ calls # <<>> /\ swal = "failed" /\ calls' = Tail(calls) /\ UNCHANGED <<swal, popup, working>>
    BY <1>4 DEF CallRejected
  <2>2. /\ calls' \in Seq([kind : Kinds, owner : Owners])
        /\ Len(calls) \in Nat /\ Len(calls') = Len(calls) - 1 /\ Len(calls) > 0 /\ Len(calls') \in Nat
        /\ \A i \in 1..Len(calls') : calls'[i] = calls[i + 1]
    BY <1>1, <2>1, Taken, LenProperties
  <2>3. calls' # <<>> => Last(calls') = Last(calls)
    <3>1. calls' # <<>> => Len(calls') \in 1..Len(calls')
      BY <2>2, EmptySeq
    <3> QED
      BY <2>2, <3>1 DEF Last
  <2>4. popup.kind # "loading"
    BY <1>1, <2>1, Fires DEF Spins, SpinnersClose
  <2> QED
    BY <1>1, <2>1, <2>2, <2>3, <2>4 DEF Dialogs, Spins, NoSpinnerLeft, SpinnersClose
<1>5. CASE Dismiss
  BY <1>1, <1>5, SilentKeeps DEF Dismiss
<1>6. ASSUME NEW kind \in {"message", "toast"}, Message(kind) PROVE Dialogs' /\ Spins'
  BY <1>1, <1>6, OneCallKeeps, PopupNumbers DEF Message
<1>7. CASE WorkBegins
  <2> DEFINE c == Fire("loading", Page)
  <2>1. c \in [kind : Kinds, owner : Owners]
    BY Fires, PopupNumbers
  <2>2. Say(<<c>>) /\ working' = working + 1 /\ UNCHANGED <<swal, popup>>
    BY <1>7 DEF WorkBegins
  <2> HIDE DEF c
  <2>3. <<c>> \in Seq([kind : Kinds, owner : Owners])
    BY <2>1
  <2>4. working' \in Nat /\ working' # 0
    BY <1>1, <2>2
  <2> QED
    BY <1>1, <2>2, <2>3, <2>4, TalkKeeps
<1>8. CASE WorkEnds
  <2>1. PICK cs \in Outcomes : Say(cs)
    BY <1>8 DEF WorkEnds
  <2>2. working' \in Nat /\ UNCHANGED <<swal, popup>>
    BY <1>1, <1>8 DEF WorkEnds
  <2> DEFINE a == Close
             b == Fire("toast", Page)
             d == Fire("message", Page)
  <2>3. {a, b, d} \subseteq [kind : Kinds, owner : Owners] /\ a.kind # "loading" /\ b.kind # "loading"
    BY Fires, PopupNumbers
  <2>4. cs \in {<<a>>, <<a, b>>, <<d, a, b>>, <<d, a>>}
    BY <2>1 DEF Outcomes
  <2> HIDE DEF a, b, d
  <2>5. cs \in Seq([kind : Kinds, owner : Owners]) /\ cs # <<>> /\ Last(cs) \in {a, b}
    <3> DEFINE C == [kind : Kinds, owner : Owners]
    <3>1. a \in C /\ b \in C /\ d \in C
      BY <2>3
    <3> SUFFICES cs \in Seq(C) /\ cs # <<>> /\ Last(cs) \in {a, b}
      OBVIOUS
    <3> HIDE DEF C
    <3>2. CASE cs = <<a>>
      BY <3>1, <3>2 DEF Last
    <3>3. CASE cs = <<a, b>>
      BY <3>1, <3>3 DEF Last
    <3>4. CASE cs = <<d, a, b>>
      BY <3>1, <3>4 DEF Last
    <3>5. CASE cs = <<d, a>>
      BY <3>1, <3>5 DEF Last
    <3> QED
      BY <2>4, <3>2, <3>3, <3>4, <3>5
  <2> QED
    BY <1>1, <2>1, <2>2, <2>3, <2>5, TalkKeeps
<1>9. CASE BootArrives
  BY <1>1, <1>9, SilentKeeps DEF BootArrives
<1>10. ASSUME NEW m \in Modals, OpenModal(m) \/ ModalShown(m) \/ ModalHidden(m) \/ CloseAccepted(m) PROVE Dialogs' /\ Spins'
  BY <1>1, <1>10, SilentKeeps, BecomePopup DEF OpenModal, ModalShown, ModalHidden, CloseAccepted
<1>11. ASSUME NEW m \in Modals, CloseModal(m) PROVE Dialogs' /\ Spins'
  <2>1. CASE m \in Guarded
    <3>1. Say(<<Fire("question", Closing(m))>>) /\ UNCHANGED <<swal, popup, working>>
      BY <1>11, <2>1 DEF CloseModal
    <3> QED
      BY <1>1, <3>1, OneCallKeeps, PopupNumbers
  <2>2. CASE m \notin Guarded
    BY <1>1, <1>11, <2>2, SilentKeeps, BecomePopup DEF CloseModal
  <2> QED
    BY <2>1, <2>2
<1>12. ASSUME NEW i \in Editors, Type(i) PROVE Dialogs' /\ Spins'
  BY <1>1, <1>12, SilentKeeps DEF Type
<1>13. ASSUME NEW n \in Navs, NEW i, NEW d, GoOn(n, i, d), UNCHANGED <<swal, working>>, popup' \in {popup, NoPopup}
       PROVE  Dialogs' /\ Spins'
  <2>1. UNCHANGED calls \/ Say(<<Fire("question", Leaving(n))>>)
    BY <1>13 DEF GoOn
  <2> QED
    BY <1>1, <1>13, <2>1, OneCallKeeps, SilentKeeps, PopupNumbers
<1>14. CASE Navigate
  <2>1. last + 1 \in Navs
    BY <1>14, PopupNumbers DEF Navigate, PopupIInv, Leaves, Navs
  <2> QED
    BY <1>13, <1>14, <2>1 DEF Navigate
<1>15. ASSUME NEW n \in Navs, DropFiles(n) \/ Saved(n) PROVE Dialogs' /\ Spins'
  BY <1>13, <1>15 DEF DropFiles, Saved
<1>16. ASSUME NEW n \in Navs, Save(n) \/ SaveFails(n) \/ NavigationEnd(n) PROVE Dialogs' /\ Spins'
  BY <1>1, <1>16, SilentKeeps, BecomePopup DEF Save, SaveFails, NavigationEnd
<1>17. ASSUME NEW v, NEW source, ShowUpdate(v, source), UNCHANGED <<swal, popup, working>> PROVE Dialogs' /\ Spins'
  <2>1. UNCHANGED calls \/ Say(<<Fire("question", Updater)>>) \/ Say(<<>>)
    BY <1>17 DEF ShowUpdate
  <2>2. Say(<<>>) => UNCHANGED calls
    BY <1>1, ConcatEmptySeq DEF Say
  <2> QED
    BY <1>1, <1>17, <2>1, <2>2, OneCallKeeps, SilentKeeps, PopupNumbers
<1>18. CASE PollAnswers
  <2>1. UNCHANGED <<swal, popup, working>> /\ (UNCHANGED calls \/ ShowUpdate([version EXCEPT !.inFlight = @ - 1], "poll"))
    BY <1>18 DEF PollAnswers
  <2> QED
    BY <1>1, <1>17, <2>1, SilentKeeps
<1>19. CASE SwReady
  BY <1>17, <1>19 DEF SwReady
<1>20. CASE OverrideRejects
  BY <1>1, <1>20, OneCallKeeps, PopupNumbers DEF OverrideRejects
<1>21. CASE Poll \/ UpdateAccepted \/ ApplyHeld \/ Activated \/ Reload \/ UNCHANGED popupVars
  BY <1>1, <1>21, SilentKeeps DEF Poll, UpdateAccepted, ApplyHeld, Activated, Reload, popupVars
<1> QED
  BY <1>2, <1>3, <1>4, <1>5, <1>6, <1>7, <1>8, <1>9, <1>10, <1>11, <1>12, <1>14, <1>15, <1>16, <1>18, <1>19, <1>20,
     <1>21 DEF PopupNext

-----------------------------------------------------------------------------
(* PagePopups: the modals and their hosts.                                 *)

LEMMA Hides ==
  ASSUME NEW s \in ModalState
  PROVE  /\ Hidden(s) \in ModalState /\ Hidden(s).checking = s.checking
         /\ Hidden(s).phase = "new" <=> s.phase = "new"
         /\ s.phase = "gone" => Hidden(s).phase = "gone"
<1>1. CASE s.phase = "waiting"
  <2>1. Hidden(s) = [s EXCEPT !.phase = "gone"]
    BY <1>1 DEF Hidden
  <2> QED
    BY <1>1, <2>1 DEF ModalState
<1>2. CASE s.phase = "shown"
  <2>1. Hidden(s) = [s EXCEPT !.phase = "closing"]
    BY <1>2 DEF Hidden
  <2> QED
    BY <1>2, <2>1 DEF ModalState
<1>3. CASE s.phase = "opening"
  <2>1. Hidden(s) = [s EXCEPT !.hideAsked = TRUE]
    BY <1>3 DEF Hidden
  <2> QED
    BY <1>3, <2>1 DEF ModalState
<1>4. CASE s.phase \notin {"waiting", "shown", "opening"}
  <2>1. Hidden(s) = s
    BY <1>4 DEF Hidden
  <2> QED
    BY <1>4, <2>1
<1> QED
  BY <1>1, <1>2, <1>3, <1>4

LEMMA Allows ==
  ASSUME NEW s \in ModalState
  PROVE  /\ Allowed(s) \in ModalState /\ Allowed(s).checking = s.checking
         /\ Allowed(s).phase = "new" <=> s.phase = "new"
         /\ s.phase = "gone" => Allowed(s).phase = "gone"
<1> DEFINE r == [s EXCEPT !.allowed = TRUE]
<1>1. r \in ModalState /\ r.checking = s.checking /\ r.phase = s.phase /\ Allowed(s) = Hidden(r)
  BY DEF ModalState, Allowed
<1> HIDE DEF r
<1> QED
  BY <1>1, Hides

(* Those that go leave the stack, and the popup moves to the body.         *)
LEMMA TeardownKeeps ==
  ASSUME Stacked, boot' = boot, NEW md \in [Modals -> ModalState], modal' = md,
         \A m \in Modals : (md[m].phase = "new" <=> modal[m].phase = "new") /\ (modal[m].phase = "gone" => md[m].phase = "gone"),
         hosts' = Among(hosts, {m \in Modals : md[m].phase # "gone"}),
         popup'.host # Body => popup'.host = popup.host /\ (popup.host \in Modals => md[popup.host].phase # "gone")
  PROVE  Stacked'
<1> DEFINE S == {m \in Modals : md[m].phase # "gone"}
<1>1. hosts \in Seq(Modals) /\ IsInjective(hosts) /\ hosts' = Among(hosts, S)
  BY DEF Stacked
<1>2. hosts' \in Seq(Modals) /\ IsInjective(hosts') /\ ToSet(hosts') = ToSet(hosts) \intersect S
  <2> HIDE DEF S
  <2>1. /\ Among(hosts, S) \in Seq(Modals) /\ ToSet(Among(hosts, S)) = ToSet(hosts) \intersect S
        /\ IsInjective(hosts) => IsInjective(Among(hosts, S))
    BY <1>1, Filters, Zenon
  <2> QED
    BY <1>1, <2>1, Zenon
<1>3. \A m \in Modals : md[m].phase \notin {"new", "gone"} <=> m \in ToSet(hosts')
  BY <1>2 DEF Stacked
<1>4. ToSet(hosts) \subseteq Modals
  BY <1>1, LenProperties, ElementOfSeq DEF ToSet
<1>5. popup'.host # Body => popup'.host \in ToSet(hosts')
  BY <1>2, <1>4 DEF Stacked
<1> QED
  BY <1>2, <1>3, <1>5 DEF Stacked

LEMMA BecomeKeeps ==
  ASSUME Stacked, Dialogs, boot' = boot, NEW md \in [Modals -> ModalState], Become(md),
         \A m \in Modals : (md[m].phase = "new" <=> modal[m].phase = "new") /\ (modal[m].phase = "gone" => md[m].phase = "gone")
  PROVE  Stacked'
<1>1. popup' = IF popup.host \in Modals /\ md[popup.host].phase = "gone" THEN [popup EXCEPT !.host = Body] ELSE popup
  BY DEF Become
<1>2. popup \in [kind : Kinds, owner : Owners, host : Modals \union {Body}]
  BY DEF Dialogs
<1>3. popup'.host # Body => popup'.host = popup.host /\ (popup.host \in Modals => md[popup.host].phase # "gone")
  BY <1>1, <1>2
<1> QED
  BY <1>3, TeardownKeeps DEF Become

(* Steps by which no modal comes or goes.                                  *)
LEMMA StandingKeeps ==
  ASSUME Stacked, boot' \in BOOLEAN, hosts' = hosts, modal' \in [Modals -> ModalState],
         \A m \in Modals : modal'[m].phase \in {"new", "gone"} <=> modal[m].phase \in {"new", "gone"},
         popup'.host \in {popup.host, Body}
  PROVE  Stacked'
BY DEF Stacked

LEMMA RefusedModals ==
  ASSUME modal \in [Modals -> ModalState], NEW o, Refused(o)
  PROVE  /\ modal' \in [Modals -> ModalState]
         /\ \A m \in Modals : modal'[m].phase = modal[m].phase
BY DEF Refused, ModalState

LEMMA StackKeeps == ASSUME PopupIInv, [PopupNext]_popupVars PROVE Stacked'
<1>1. /\ Dialogs /\ Stacked /\ modal \in [Modals -> ModalState] /\ hosts \in Seq(Modals)
      /\ boot \in BOOLEAN /\ popup \in [kind : Kinds, owner : Owners, host : Modals \union {Body}]
  BY DEF PopupIInv, Dialogs, Stacked
<1>2. CASE RunCall
  <2>1. popup'.host = Body \/ popup'.host \in ToSet(hosts)
    <3>1. popup'.host \in {Body, Top}
      BY <1>2 DEF RunCall
    <3>2. hosts # <<>> => Last(hosts) \in ToSet(hosts)
      <4>1. hosts # <<>> => Len(hosts) \in 1..Len(hosts) /\ DOMAIN hosts = 1..Len(hosts)
        BY <1>1, EmptySeq, LenProperties
      <4> QED
        BY <4>1 DEF Last, ToSet
    <3> QED
      BY <3>1, <3>2 DEF Top
  <2>2. modal' \in [Modals -> ModalState] /\ \A m \in Modals : modal'[m].phase = modal[m].phase
    BY <1>1, <1>2, RefusedModals DEF RunCall
  <2> QED
    BY <1>1, <1>2, <2>1, <2>2 DEF RunCall, Stacked
<1>3. CASE CallRejected
  <2>1. modal' \in [Modals -> ModalState] /\ \A m \in Modals : modal'[m].phase = modal[m].phase
    BY <1>1, <1>3 DEF CallRejected, ModalState
  <2> QED
    BY <1>1, <1>3, <2>1, StandingKeeps DEF CallRejected
<1>4. CASE Dismiss
  <2>1. modal' \in [Modals -> ModalState] /\ \A m \in Modals : modal'[m].phase = modal[m].phase
    BY <1>1, <1>4, RefusedModals DEF Dismiss
  <2> QED
    BY <1>1, <1>4, <2>1, StandingKeeps, Fires DEF Dismiss
<1>5. ASSUME NEW m \in Modals, OpenModal(m) PROVE Stacked'
  <2>1. /\ modal[m].phase = "new" /\ hosts' = Append(hosts, m) /\ UNCHANGED <<boot, popup>>
        /\ modal' = [modal EXCEPT ![m].phase = IF boot THEN "opening" ELSE "waiting"]
    BY <1>5 DEF OpenModal
  <2>2. /\ modal' \in [Modals -> ModalState] /\ modal'[m].phase \notin {"new", "gone"}
        /\ \A k \in Modals \ {m} : modal'[k] = modal[k]
    BY <1>1, <2>1 DEF ModalState
  <2>3. m \notin ToSet(hosts)
    BY <1>1, <2>1 DEF Stacked
  <2>4. hosts' \in Seq(Modals) /\ IsInjective(hosts') /\ ToSet(hosts') = ToSet(hosts) \union {m}
    BY <1>1, <2>1, <2>3, Appended DEF Stacked
  <2>5. \A k \in Modals : modal'[k].phase \notin {"new", "gone"} <=> k \in ToSet(hosts')
    BY <1>1, <2>2, <2>4 DEF Stacked
  <2> QED
    BY <1>1, <2>1, <2>2, <2>4, <2>5 DEF Stacked
<1>6. CASE BootArrives
  <2>1. modal' \in [Modals -> ModalState]
    BY <1>1, <1>6 DEF BootArrives, ModalState
  <2>2. \A m \in Modals : modal'[m].phase \in {"new", "gone"} <=> modal[m].phase \in {"new", "gone"}
    BY <1>1, <1>6 DEF BootArrives, ModalState
  <2> QED
    BY <1>1, <1>6, <2>1, <2>2, StandingKeeps DEF BootArrives
<1>7. ASSUME NEW m \in Modals, ModalShown(m) PROVE Stacked'
  <2>1. modal' \in [Modals -> ModalState] /\ UNCHANGED <<boot, hosts, popup>>
    BY <1>1, <1>7 DEF ModalShown, ModalState
  <2>2. \A k \in Modals : modal'[k].phase \in {"new", "gone"} <=> modal[k].phase \in {"new", "gone"}
    BY <1>1, <1>7 DEF ModalShown, ModalState
  <2> QED
    BY <1>1, <2>1, <2>2, StandingKeeps
<1>8. ASSUME NEW m \in Modals, ModalHidden(m) PROVE Stacked'
  <2> DEFINE md == [modal EXCEPT ![m].phase = "gone"]
  <2>1. Become(md) /\ boot' = boot /\ modal[m].phase = "closing"
    BY <1>8 DEF ModalHidden
  <2>2. md \in [Modals -> ModalState] /\ md[m].phase = "gone" /\ \A k \in Modals \ {m} : md[k] = modal[k]
    BY <1>1 DEF ModalState
  <2> HIDE DEF md
  <2> QED
    BY <1>1, <2>1, <2>2, BecomeKeeps
<1>9. ASSUME NEW m \in Modals, CloseModal(m) PROVE Stacked'
  <2>1. CASE m \in Guarded
    <3>1. /\ modal' = [modal EXCEPT ![m].checking = TRUE] /\ UNCHANGED <<popup, hosts, boot>>
      BY <1>9, <2>1 DEF CloseModal
    <3>2. modal' \in [Modals -> ModalState] /\ \A k \in Modals : modal'[k].phase = modal[k].phase
      BY <1>1, <3>1 DEF ModalState
    <3> QED
      BY <1>1, <3>1, <3>2, StandingKeeps
  <2>2. CASE m \notin Guarded
    <3> DEFINE md == [modal EXCEPT ![m] = Allowed(modal[m])]
    <3>1. Become(md) /\ boot' = boot
      BY <1>9, <2>2 DEF CloseModal
    <3>2. /\ md \in [Modals -> ModalState] /\ \A k \in Modals \ {m} : md[k] = modal[k]
          /\ md[m].phase = "new" <=> modal[m].phase = "new"
          /\ modal[m].phase = "gone" => md[m].phase = "gone"
      BY <1>1, Allows
    <3> HIDE DEF md
    <3> QED
      BY <1>1, <3>1, <3>2, BecomeKeeps
  <2> QED
    BY <2>1, <2>2
<1>10. ASSUME NEW m \in Modals, CloseAccepted(m) PROVE Stacked'
  <2> DEFINE r == [modal[m] EXCEPT !.checking = FALSE]
             md == [modal EXCEPT ![m] = Allowed(r)]
  <2>1. /\ modal' = md /\ hosts' = Among(hosts, {k \in Modals : md[k].phase # "gone"})
        /\ popup' = NoPopup /\ boot' = boot
    BY <1>10 DEF CloseAccepted
  <2>2. r \in ModalState /\ r.phase = modal[m].phase
    BY <1>1 DEF ModalState
  <2> HIDE DEF r
  <2>3. /\ md \in [Modals -> ModalState] /\ \A k \in Modals \ {m} : md[k] = modal[k]
        /\ md[m].phase = "new" <=> modal[m].phase = "new"
        /\ modal[m].phase = "gone" => md[m].phase = "gone"
    BY <1>1, <2>2, Allows
  <2> HIDE DEF md
  <2> QED
    BY <1>1, <2>1, <2>3, Fires, TeardownKeeps
<1>11. ASSUME NEW n \in Navs, NavigationEnd(n) PROVE Stacked'
  <2> DEFINE md == [m \in Modals |-> IF modal[m].phase \in {"new", "gone"} THEN modal[m] ELSE Allowed(modal[m])]
  <2>1. Become(md) /\ boot' = boot
    BY <1>11 DEF NavigationEnd
  <2>2. /\ md \in [Modals -> ModalState]
        /\ \A k \in Modals : (md[k].phase = "new" <=> modal[k].phase = "new") /\ (modal[k].phase = "gone" => md[k].phase = "gone")
    BY <1>1, Allows
  <2> HIDE DEF md
  <2> QED
    BY <1>1, <2>1, <2>2, BecomeKeeps
<1>12. CASE UNCHANGED <<boot, modal, hosts>> /\ popup' \in {popup, NoPopup}
  BY <1>1, <1>12, Fires, StandingKeeps
<1>13. ASSUME NEW n \in Navs, DropFiles(n) \/ Save(n) \/ Saved(n) \/ SaveFails(n)
       PROVE  UNCHANGED <<boot, modal, hosts>> /\ popup' \in {popup, NoPopup}
  BY <1>13 DEF DropFiles, Save, Saved, SaveFails
<1>14. ImportEnds \/ WorkBegins \/ WorkEnds \/ Navigate \/ Poll \/ PollAnswers \/ SwReady \/ OverrideRejects \/ UpdateAccepted
         \/ ApplyHeld \/ Activated \/ Reload \/ UNCHANGED popupVars
       => UNCHANGED <<boot, modal, hosts>> /\ popup' \in {popup, NoPopup}
  BY DEF ImportEnds, WorkBegins, WorkEnds, Navigate, Poll, PollAnswers, SwReady, OverrideRejects, UpdateAccepted, ApplyHeld,
     Activated, Reload, popupVars
<1>15. (\E kind \in {"message", "toast"} : Message(kind)) \/ (\E i \in Editors : Type(i))
       => UNCHANGED <<boot, modal, hosts>> /\ popup' \in {popup, NoPopup}
  BY DEF Message, Type
<1> QED
  BY <1>2, <1>3, <1>4, <1>5, <1>6, <1>7, <1>8, <1>9, <1>10, <1>11, <1>12, <1>13, <1>14, <1>15 DEF PopupNext

-----------------------------------------------------------------------------
(* PagePopups: who asks is asked, owner by owner.                          *)

Call == [kind : Kinds, owner : Owners]
Asking(o) ==
  \/ \E m \in Modals : o = Closing(m) /\ modal[m].checking
  \/ \E n \in Navs : o = Leaving(n) /\ nav[n].phase = "asking"
  \/ o = Updater /\ version.step = "asking"
Heard(o) == IF Asking(o) THEN Asked(o) ELSE Unasked(o)

LEMMA AskersOne ==
  /\ \A m \in Modals : Asking(Closing(m)) <=> modal[m].checking
  /\ \A n \in Navs : Asking(Leaving(n)) <=> nav[n].phase = "asking"
  /\ Asking(Updater) <=> version.step = "asking"
BY PopupNumbers DEF Asking

LEMMA AskersNext ==
  /\ \A m \in Modals : Asking(Closing(m))' <=> modal'[m].checking
  /\ \A n \in Navs : Asking(Leaving(n))' <=> nav'[n].phase = "asking"
  /\ Asking(Updater)' <=> version'.step = "asking"
BY PopupNumbers DEF Asking

LEMMA AsksByOwner == Asks <=> \A o \in Owners \ {Page} : Heard(o)
<1>1. Asks => \A o \in Owners \ {Page} : Heard(o)
  <2> SUFFICES ASSUME Asks, NEW o \in Owners \ {Page} PROVE Heard(o)
    OBVIOUS
  <2>1. o = Updater \/ (\E m \in Modals : o = Closing(m)) \/ (\E n \in Navs : o = Leaving(n))
    BY Owned
  <2> QED
    BY <2>1, AskersOne DEF Asks, AskersAreAsked, OnlyAskersAsk, Heard
<1>2. (\A o \in Owners \ {Page} : Heard(o)) => Asks
  BY AskersOne, PopupNumbers DEF Asks, AskersAreAsked, OnlyAskersAsk, Heard
<1> QED
  BY <1>1, <1>2

LEMMA AsksNextByOwner == ASSUME \A o \in Owners \ {Page} : Heard(o)' PROVE Asks'
BY AskersNext, PopupNumbers DEF Asks, AskersAreAsked, OnlyAskersAsk, Heard

(* Calls of others do not change what an owner has asked.                  *)
LEMMA Overheard ==
  ASSUME NEW o, calls \in Seq(Call), NEW cs \in Seq(Call), Say(cs), \A j \in DOMAIN cs : cs[j].owner # o,
         popup'.owner = o <=> popup.owner = o
  PROVE  (Asked(o) => Asked(o)') /\ (Unasked(o) => Unasked(o)')
<1>1. /\ Len(calls) \in Nat /\ Len(cs) \in Nat /\ Len(calls') = Len(calls) + Len(cs) /\ calls' \in Seq(Call)
      /\ \A i \in 1..Len(calls) : calls'[i] = calls[i]
      /\ \A i \in 1..Len(cs) : calls'[Len(calls) + i] = cs[i]
  BY Says DEF Say
<1>2. DOMAIN calls = 1..Len(calls) /\ DOMAIN cs = 1..Len(cs) /\ DOMAIN calls' = 1..Len(calls')
  BY <1>1, LenProperties
<1>3. \A j \in DOMAIN calls' : calls'[j].owner = o => j \in DOMAIN calls
  <2> SUFFICES ASSUME NEW j \in DOMAIN calls', j \notin DOMAIN calls PROVE calls'[j].owner # o
    OBVIOUS
  <2>1. j - Len(calls) \in 1..Len(cs) /\ Len(calls) + (j - Len(calls)) = j
    BY <1>1, <1>2
  <2> QED
    BY <1>1, <1>2, <2>1
<1>4. \A j \in DOMAIN calls : j \in DOMAIN calls' /\ calls'[j] = calls[j]
  BY <1>1, <1>2
<1>5. {j \in DOMAIN calls' : calls'[j].owner = o} = {j \in DOMAIN calls : calls[j].owner = o}
  BY <1>3, <1>4
<1> QED
  BY <1>3, <1>4, <1>5 DEF Asked, Unasked

(* An owner without a question among the calls adds one.                   *)
LEMMA AsksNow ==
  ASSUME NEW o, calls \in Seq(Call), \A j \in DOMAIN calls : calls[j].owner # o,
         NEW c \in Call, c.owner = o, Say(<<c>>), popup'.owner # o
  PROVE  Asked(o)'
<1>1. <<c>> \in Seq(Call) /\ Len(<<c>>) = 1
  OBVIOUS
<1>2. /\ Len(calls) \in Nat /\ Len(calls') = Len(calls) + 1 /\ calls' \in Seq(Call)
      /\ \A i \in 1..Len(calls) : calls'[i] = calls[i]
      /\ calls'[Len(calls) + 1] = c
  <2>1. /\ Len(calls) \in Nat /\ Len(calls \o <<c>>) = Len(calls) + 1 /\ calls \o <<c>> \in Seq(Call)
        /\ \A i \in 1..Len(calls) : (calls \o <<c>>)[i] = calls[i]
        /\ \A i \in 1..1 : (calls \o <<c>>)[Len(calls) + i] = <<c>>[i]
    BY <1>1, Says
  <2> QED
    BY <2>1 DEF Say
<1>3. DOMAIN calls = 1..Len(calls) /\ DOMAIN calls' = 1..Len(calls')
  BY <1>2, LenProperties
<1> DEFINE k == Len(calls) + 1
<1>4. \A j \in DOMAIN calls' : calls'[j].owner = o => j = k
  BY <1>2, <1>3
<1>5. k \in DOMAIN calls' /\ calls'[k].owner = o
  BY <1>2, <1>3
<1> HIDE DEF k
<1>6. {j \in DOMAIN calls' : calls'[j].owner = o} = {k}
  BY <1>4, <1>5
<1> QED
  BY <1>5, <1>6 DEF Asked

(* The first call leaves the queue.                                        *)
LEMMA FirstCall ==
  ASSUME NEW o, calls \in Seq(Call), calls # <<>>, calls' = Tail(calls)
  PROVE  /\ Asked(o) /\ Head(calls).owner = o => popup.owner # o /\ \A j \in DOMAIN calls' : calls'[j].owner # o
         /\ (\A j \in DOMAIN calls : calls[j].owner # o) => \A j \in DOMAIN calls' : calls'[j].owner # o
         /\ Unasked(o) => Head(calls).owner # o
         /\ Asked(o) /\ Head(calls).owner # o /\ (popup'.owner = o <=> popup.owner = o) => Asked(o)'
<1>1. /\ Len(calls) \in Nat /\ Len(calls') = Len(calls) - 1 /\ calls' \in Seq(Call)
      /\ Head(calls) = calls[1] /\ 1 \in 1..Len(calls)
      /\ \A i \in 1..Len(calls') : i + 1 \in 1..Len(calls) /\ calls'[i] = calls[i + 1]
  BY Taken
<1>2. DOMAIN calls = 1..Len(calls) /\ DOMAIN calls' = 1..Len(calls')
  BY <1>1, LenProperties
<1>3. \A j \in DOMAIN calls : j = 1 \/ (j - 1 \in DOMAIN calls' /\ calls'[j - 1] = calls[j])
  BY <1>1, <1>2
<1>4. \A j \in DOMAIN calls' : j + 1 \in DOMAIN calls /\ j + 1 # 1 /\ calls'[j] = calls[j + 1]
  BY <1>1, <1>2
<1> DEFINE w == {j \in DOMAIN calls : calls[j].owner = o}
           v == {j \in DOMAIN calls' : calls'[j].owner = o}
<1>5. ASSUME Asked(o), Head(calls).owner = o PROVE popup.owner # o /\ \A j \in DOMAIN calls' : calls'[j].owner # o
  <2>1. 1 \in w
    BY <1>1, <1>2, <1>5
  <2>2. popup.owner # o /\ w = {1}
    BY <1>5, <2>1 DEF Asked
  <2> QED
    BY <1>4, <2>2
<1>6. ASSUME Asked(o), Head(calls).owner # o, popup'.owner = o <=> popup.owner = o PROVE Asked(o)'
  <2>1. CASE popup.owner = o
    <3>1. w = {}
      BY <1>6, <2>1 DEF Asked
    <3>2. v = {}
      BY <1>4, <3>1
    <3> QED
      BY <1>6, <2>1, <3>2 DEF Asked
  <2>2. CASE popup.owner # o
    <3>1. PICK k \in DOMAIN calls : w = {k}
      BY <1>6, <2>2 DEF Asked
    <3>2. k # 1 /\ calls[k].owner = o
      BY <1>1, <1>6, <3>1
    <3>3. k - 1 \in DOMAIN calls' /\ calls'[k - 1].owner = o
      BY <1>3, <3>1, <3>2
    <3>4. \A j \in DOMAIN calls' : calls'[j].owner = o => j = k - 1
      BY <1>1, <1>2, <1>4, <3>1
    <3>5. v = {k - 1}
      BY <3>3, <3>4
    <3> QED
      BY <1>6, <2>2, <3>3, <3>5 DEF Asked
  <2> QED
    BY <2>1, <2>2
<1> QED
  BY <1>1, <1>2, <1>4, <1>5, <1>6 DEF Unasked

(* A step in which at most one owner asks or is answered.                  *)
LEMMA TurnKeeps ==
  ASSUME Asks, calls \in Seq(Call), NEW x \in Owners,
         \A m \in Modals : Closing(m) # x => modal'[m].checking = modal[m].checking,
         \A n \in Navs : Leaving(n) # x => (nav'[n].phase = "asking" <=> nav[n].phase = "asking"),
         x # Updater => (version'.step = "asking" <=> version.step = "asking"),
         \A o \in Owners \ {Page, x} : popup'.owner = o <=> popup.owner = o,
         NEW cs \in Seq(Call), Say(cs), \A j \in DOMAIN cs : cs[j].owner \in {Page, x},
         x # Page => Heard(x)'
  PROVE  Asks'
<1> SUFFICES ASSUME NEW o \in Owners \ {Page} PROVE Heard(o)'
  BY AsksNextByOwner
<1>1. CASE o = x
  BY <1>1
<1>2. CASE o # x
  <2>1. Asking(o)' <=> Asking(o)
    <3>1. o = Updater \/ (\E m \in Modals : o = Closing(m)) \/ (\E n \in Navs : o = Leaving(n))
      BY Owned
    <3> QED
      BY <1>2, <3>1, AskersOne, AskersNext
  <2>2. (Asked(o) => Asked(o)') /\ (Unasked(o) => Unasked(o)')
    BY <1>2, Overheard
  <2> QED
    BY <2>1, <2>2, AsksByOwner DEF Heard
<1> QED
  BY <1>1, <1>2

(* The others are left alone: what they ask and whose popup it is.         *)
Spared(x) ==
  /\ \A m \in Modals : Closing(m) # x => modal'[m].checking = modal[m].checking
  /\ \A n \in Navs : Leaving(n) # x => (nav'[n].phase = "asking" <=> nav[n].phase = "asking")
  /\ x # Updater => (version'.step = "asking" <=> version.step = "asking")
  /\ \A o \in Owners \ {Page, x} : popup'.owner = o <=> popup.owner = o

LEMMA SoleQuestion ==
  ASSUME Asks, NEW x \in Owners \ {Page}
  PROVE  /\ popup.owner = x => Asking(x) /\ \A j \in DOMAIN calls : calls[j].owner # x
         /\ ~Asking(x) => Unasked(x)
<1>1. Heard(x)
  BY AsksByOwner
<1>2. CASE Asking(x)
  <2>1. popup.owner = x => {j \in DOMAIN calls : calls[j].owner = x} = {}
    BY <1>1, <1>2 DEF Heard, Asked
  <2> QED
    BY <1>2, <2>1
<1>3. CASE ~Asking(x)
  BY <1>1, <1>3 DEF Heard, Unasked
<1> QED
  BY <1>2, <1>3

LEMMA SilentTurn ==
  ASSUME Asks, calls \in Seq(Call), UNCHANGED calls, NEW x \in Owners, Spared(x), x # Page => Heard(x)'
  PROVE  Asks'
<1> DEFINE none == <<>>
<1>1. none \in Seq(Call) /\ Say(none) /\ \A j \in DOMAIN none : none[j].owner \in {Page, x}
  BY ConcatEmptySeq DEF Say
<1> HIDE DEF none
<1> QED
  BY <1>1, TurnKeeps DEF Spared

(* Nobody but the page itself speaks.                                      *)
LEMMA PageTurn ==
  ASSUME Asks, calls \in Seq(Call), Spared(Page), NEW cs \in Seq(Call), Say(cs), \A j \in DOMAIN cs : cs[j].owner = Page
  PROVE  Asks'
BY TurnKeeps, PopupNumbers DEF Spared

LEMMA QuestionTurn ==
  ASSUME Asks, calls \in Seq(Call), NEW x \in Owners \ {Page}, Spared(x), Say(<<Fire("question", x)>>), Asking(x)',
         \A j \in DOMAIN calls : calls[j].owner # x, popup'.owner # x
  PROVE  Asks'
<1> DEFINE c == Fire("question", x)
<1>1. c \in Call /\ c.owner = x /\ Say(<<c>>)
  BY Fires DEF Call
<1> HIDE DEF c
<1>2. <<c>> \in Seq(Call) /\ \A j \in DOMAIN <<c>> : <<c>>[j].owner \in {Page, x}
  BY <1>1
<1>3. Asked(x)'
  BY <1>1, AsksNow
<1>4. Heard(x)'
  BY <1>3 DEF Heard
<1> QED
  BY <1>1, <1>2, <1>4, TurnKeeps DEF Spared

LEMMA AnswerTurn ==
  ASSUME Asks, calls \in Seq(Call), UNCHANGED calls, NEW x \in Owners \ {Page}, Spared(x), popup.owner = x,
         popup'.owner # x, ~Asking(x)'
  PROVE  Asks'
<1>1. \A j \in DOMAIN calls : calls[j].owner # x
  BY SoleQuestion
<1>2. Unasked(x)'
  BY <1>1 DEF Unasked
<1>3. Heard(x)'
  BY <1>2 DEF Heard
<1> QED
  BY <1>3, SilentTurn

(* The question of an owner is refused.                                    *)
LEMMA Refusal ==
  ASSUME modal \in [Modals -> ModalState], nav \in [Navs -> NavState], version \in VersionState,
         NEW o \in Owners, Refused(o)
  PROVE  /\ \A m \in Modals : Closing(m) # o => modal'[m].checking = modal[m].checking
         /\ \A n \in Navs : Leaving(n) # o => (nav'[n].phase = "asking" <=> nav[n].phase = "asking")
         /\ o # Updater => (version'.step = "asking" <=> version.step = "asking")
         /\ ~Asking(o)'
<1>1. CASE o = Page
  <2>1. modal' = modal /\ nav' = nav /\ version' = version
    BY <1>1 DEF Refused, Page
  <2> QED
    BY <1>1, <2>1, PopupNumbers DEF Asking
<1>2. CASE o = Updater
  <2>1. modal' = modal /\ nav' = nav /\ version' = Postponed(version)
    BY <1>2 DEF Refused, Updater
  <2>2. version'.step = "idle"
    BY <2>1 DEF Postponed, VersionState
  <2> QED
    BY <1>2, <2>1, <2>2, AskersNext
<1>3. ASSUME NEW m \in Modals, o = Closing(m)
      PROVE  /\ modal'[m].checking = FALSE /\ \A k \in Modals \ {m} : modal'[k] = modal[k]
             /\ nav' = nav /\ version' = version
  <2>1. modal' = [modal EXCEPT ![m].checking = FALSE] /\ nav' = nav /\ version' = version
    BY <1>3 DEF Refused, Closing
  <2> QED
    BY <2>1 DEF ModalState
<1>4. ASSUME NEW n \in Navs, o = Leaving(n)
      PROVE  /\ nav'[n].phase = "refused" /\ \A k \in Navs \ {n} : nav'[k] = nav[k]
             /\ modal' = modal /\ version' = version
  <2>1. nav' = [nav EXCEPT ![n].phase = "refused"] /\ modal' = modal /\ version' = version
    BY <1>4 DEF Refused, Leaving
  <2> QED
    BY <2>1 DEF NavState
<1> QED
  BY <1>1, <1>2, <1>3, <1>4, Owned, PopupNumbers, AskersNext

LEMMA RunTurn == ASSUME PopupIInv, RunCall PROVE Asks'
<1>0. PICK old, new : old = popup.owner /\ new = Head(calls).owner
  OBVIOUS
<1>1. /\ Asks /\ calls \in Seq(Call) /\ calls # <<>> /\ calls' = Tail(calls) /\ old \in Owners /\ Refused(old)
      /\ popup'.owner = new
  BY <1>0 DEF PopupIInv, Dialogs, Call, RunCall
<1>2. /\ \A m \in Modals : Closing(m) # old => modal'[m].checking = modal[m].checking
      /\ \A n \in Navs : Leaving(n) # old => (nav'[n].phase = "asking" <=> nav[n].phase = "asking")
      /\ old # Updater => (version'.step = "asking" <=> version.step = "asking")
      /\ ~Asking(old)'
  BY <1>0, <1>1, Refusal DEF PopupIInv, Stacked, Leaves, Updates
<1> SUFFICES ASSUME NEW o \in Owners \ {Page} PROVE Heard(o)'
  BY AsksNextByOwner
<1>3. CASE o = old
  <2>1. \A j \in DOMAIN calls : calls[j].owner # o
    BY <1>0, <1>1, <1>3, SoleQuestion
  <2>2. Head(calls).owner # o
    <3>1. 1 \in DOMAIN calls /\ Head(calls) = calls[1]
      BY <1>0, <1>1, Taken, LenProperties
    <3> QED
      BY <2>1, <3>1
  <2>3. \A j \in DOMAIN calls' : calls'[j].owner # o
    BY <1>0, <1>1, <2>1, FirstCall
  <2>4. Unasked(o)'
    BY <1>0, <1>1, <2>2, <2>3 DEF Unasked
  <2> QED
    BY <1>2, <1>3, <2>4 DEF Heard
<1>4. CASE o # old
  <2>1. Asking(o)' <=> Asking(o)
    <3>1. o = Updater \/ (\E m \in Modals : o = Closing(m)) \/ (\E n \in Navs : o = Leaving(n))
      BY Owned
    <3> QED
      BY <1>2, <1>4, <3>1, AskersOne, AskersNext
  <2>2. Heard(o)
    BY <1>0, <1>1, AsksByOwner
  <2>3. CASE o = new
    <3>1. Asked(o) /\ Asking(o)
      BY <1>0, <1>1, <2>2, <2>3, FirstCall DEF Heard
    <3>2. \A j \in DOMAIN calls' : calls'[j].owner # o
      BY <1>0, <1>1, <2>3, <3>1, FirstCall
    <3>3. Asked(o)'
      BY <1>0, <1>1, <2>3, <3>2 DEF Asked
    <3> QED
      BY <2>1, <3>1, <3>3 DEF Heard
  <2>4. CASE o # new
    <3>1. (Asked(o) => Asked(o)') /\ (Unasked(o) => \A j \in DOMAIN calls' : calls'[j].owner # o)
      BY <1>0, <1>1, <1>4, <2>4, FirstCall DEF Unasked
    <3>2. Unasked(o) => Unasked(o)'
      BY <1>0, <1>1, <2>4, <3>1 DEF Unasked
    <3> QED
      BY <2>1, <2>2, <3>1, <3>2 DEF Heard
  <2> QED
    BY <2>3, <2>4
<1> QED
  BY <1>3, <1>4

LEMMA RejectionTurn == ASSUME PopupIInv, CallRejected PROVE Asks'
<1>0. PICK x : x = Head(calls).owner
  OBVIOUS
<1>1. /\ Asks /\ calls \in Seq(Call) /\ calls # <<>> /\ calls' = Tail(calls) /\ popup' = popup
      /\ modal \in [Modals -> ModalState] /\ nav \in [Navs -> NavState] /\ version \in VersionState
  BY DEF PopupIInv, Dialogs, Stacked, Leaves, Updates, Call, CallRejected
<1>2. /\ modal' = IF x.role = "modal" THEN [modal EXCEPT ![x.of].checking = FALSE] ELSE modal
      /\ nav' = IF x.role = "nav" THEN [nav EXCEPT ![x.of].phase = "refused"] ELSE nav
      /\ version' = IF x = Updater THEN [version EXCEPT !.step = "stuck"] ELSE version
  BY <1>0 DEF CallRejected
<1>3. x \in Owners
  <2>1. Head(calls) \in Call
    BY <1>1, Taken
  <2> QED
    BY <1>0, <2>1 DEF Call
<1>4. /\ \A m \in Modals : modal'[m].checking = IF x = Closing(m) THEN FALSE ELSE modal[m].checking
      /\ \A n \in Navs : nav'[n].phase = IF x = Leaving(n) THEN "refused" ELSE nav[n].phase
      /\ version'.step = IF x = Updater THEN "stuck" ELSE version.step
  <2>1. ASSUME NEW m \in Modals PROVE modal'[m].checking = IF x = Closing(m) THEN FALSE ELSE modal[m].checking
    <3>1. CASE x = Closing(m)
      <4>1. modal' = [modal EXCEPT ![m].checking = FALSE]
        BY <1>2, <3>1 DEF Closing
      <4> QED
        BY <1>1, <3>1, <4>1 DEF ModalState
    <3>2. CASE x # Closing(m) /\ x.role = "modal"
      <4>1. x.of \in Modals /\ x = Closing(x.of)
        BY <1>3, <3>2 DEF Owners, Closing
      <4>2. x.of # m
        BY <3>2, <4>1
      <4>3. modal' = [modal EXCEPT ![x.of].checking = FALSE]
        BY <1>2, <3>2
      <4> QED
        BY <1>1, <3>2, <4>1, <4>2, <4>3
    <3>3. CASE x # Closing(m) /\ x.role # "modal"
      BY <1>2, <3>3
    <3> QED
      BY <3>1, <3>2, <3>3
  <2>2. ASSUME NEW n \in Navs PROVE nav'[n].phase = IF x = Leaving(n) THEN "refused" ELSE nav[n].phase
    BY <1>1, <1>2, <1>3 DEF NavState, Owners, Leaving
  <2>3. version'.step = IF x = Updater THEN "stuck" ELSE version.step
    BY <1>1, <1>2 DEF VersionState
  <2> QED
    BY <2>1, <2>2, <2>3
<1> SUFFICES ASSUME NEW o \in Owners \ {Page} PROVE Heard(o)'
  BY AsksNextByOwner
<1>5. Heard(o) /\ (o = Updater \/ (\E m \in Modals : o = Closing(m)) \/ (\E n \in Navs : o = Leaving(n)))
  BY <1>1, AsksByOwner, Owned
<1>6. CASE o = x
  <2>1. Asked(o)
    BY <1>0, <1>1, <1>5, <1>6, FirstCall DEF Heard
  <2>2. popup'.owner # o /\ \A j \in DOMAIN calls' : calls'[j].owner # o
    BY <1>0, <1>1, <1>6, <2>1, FirstCall
  <2>3. ~Asking(o)'
    BY <1>4, <1>5, <1>6, AskersNext
  <2> QED
    BY <2>2, <2>3 DEF Heard, Unasked
<1>7. CASE o # x
  <2>1. Asking(o)' <=> Asking(o)
    BY <1>4, <1>5, <1>7, AskersOne, AskersNext
  <2>2. (Asked(o) => Asked(o)') /\ (Unasked(o) => Unasked(o)')
    BY <1>0, <1>1, <1>7, FirstCall DEF Unasked
  <2> QED
    BY <1>5, <2>1, <2>2 DEF Heard
<1> QED
  BY <1>6, <1>7

(* A navigation goes on: it passes, or its next editor asks.               *)
LEMMA GoOnTurn ==
  ASSUME Asks, calls \in Seq(Call), nav \in [Navs -> NavState], NEW n \in Navs, NEW i, NEW d, GoOn(n, i, d),
         UNCHANGED <<modal, version>>, popup'.owner # Leaving(n),
         popup'.owner = popup.owner \/ (popup'.owner = Page /\ popup.owner = Leaving(n)),
         \A j \in DOMAIN calls : calls[j].owner # Leaving(n)
  PROVE  Asks'
<1>1. /\ \A k \in Navs \ {n} : nav'[k] = nav[k]
      /\ \/ nav'[n].phase = "passed" /\ UNCHANGED calls
         \/ nav'[n].phase = "asking" /\ Say(<<Fire("question", Leaving(n))>>)
  BY DEF GoOn
<1>2. Spared(Leaving(n)) /\ Leaving(n) \in Owners \ {Page}
  BY <1>1, PopupNumbers DEF Spared
<1>3. CASE nav'[n].phase = "passed" /\ UNCHANGED calls
  <2>1. Unasked(Leaving(n))' /\ ~Asking(Leaving(n))'
    BY <1>3, AskersNext DEF Unasked
  <2>2. Heard(Leaving(n))'
    BY <2>1 DEF Heard
  <2> QED
    BY <1>2, <1>3, <2>2, SilentTurn
<1>4. CASE nav'[n].phase = "asking" /\ Say(<<Fire("question", Leaving(n))>>)
  BY <1>2, <1>4, QuestionTurn, AskersNext
<1> QED
  BY <1>1, <1>3, <1>4

(* Who has closed or gone on was not asked for anything else.              *)
LEMMA AloneWith ==
  ASSUME Asks
  PROVE  /\ \A n \in Navs : nav[n].phase # "asking" \/ popup.owner = Leaving(n) =>
              \A j \in DOMAIN calls : calls[j].owner # Leaving(n)
         /\ \A n \in Navs : nav[n].phase # "asking" => popup.owner # Leaving(n)
         /\ \A m \in Modals : ~modal[m].checking \/ popup.owner = Closing(m) =>
              \A j \in DOMAIN calls : calls[j].owner # Closing(m)
         /\ \A m \in Modals : ~modal[m].checking => popup.owner # Closing(m)
         /\ version.step # "asking" => popup.owner # Updater /\ \A j \in DOMAIN calls : calls[j].owner # Updater
<1>1. \A o \in Owners \ {Page} : /\ popup.owner = o => Asking(o) /\ \A j \in DOMAIN calls : calls[j].owner # o
                                 /\ ~Asking(o) => popup.owner # o /\ \A j \in DOMAIN calls : calls[j].owner # o
  BY SoleQuestion DEF Unasked
<1> QED
  BY <1>1, PopupNumbers, AskersOne

LEMMA ModalTurn ==
  ASSUME PopupIInv, NEW m \in Modals, OpenModal(m) \/ ModalShown(m) \/ ModalHidden(m) \/ CloseModal(m) \/ CloseAccepted(m)
  PROVE  Asks'
<1>1. /\ Asks /\ calls \in Seq(Call) /\ modal \in [Modals -> ModalState] /\ Page \in Owners
      /\ popup \in [kind : Kinds, owner : Owners, host : Modals \union {Body}]
      /\ Closing(m) \in Owners \ {Page}
  BY PopupNumbers DEF PopupIInv, Dialogs, Stacked, Call
<1>2. ASSUME UNCHANGED <<calls, nav, version>>, popup'.owner = popup.owner, \A k \in Modals : modal'[k].checking = modal[k].checking
      PROVE  Asks'
  <2>1. Spared(Page)
    BY <1>2 DEF Spared
  <2> QED
    BY <1>1, <1>2, <2>1, SilentTurn
<1>3. CASE OpenModal(m)
  BY <1>1, <1>2, <1>3 DEF OpenModal, ModalState
<1>4. CASE ModalShown(m)
  BY <1>1, <1>2, <1>4 DEF ModalShown, ModalState
<1>5. ASSUME NEW md, Become(md) PROVE popup'.owner = popup.owner
  BY <1>1, <1>5, BecomePopup
<1>6. CASE ModalHidden(m)
  <2> DEFINE md == [modal EXCEPT ![m].phase = "gone"]
  <2>1. Become(md) /\ UNCHANGED <<calls, nav, version>>
    BY <1>6 DEF ModalHidden
  <2>2. \A k \in Modals : md[k].checking = modal[k].checking
    BY <1>1 DEF ModalState
  <2>3. modal' = md
    BY <2>1 DEF Become
  <2> HIDE DEF md
  <2> QED
    BY <1>2, <1>5, <2>1, <2>2, <2>3
<1>7. CASE CloseModal(m) /\ m \in Guarded
  <2>1. /\ ~modal[m].checking /\ modal' = [modal EXCEPT ![m].checking = TRUE]
        /\ Say(<<Fire("question", Closing(m))>>) /\ UNCHANGED <<popup, nav, version>>
    BY <1>7 DEF CloseModal
  <2>2. modal'[m].checking /\ \A k \in Modals \ {m} : modal'[k] = modal[k]
    BY <1>1, <2>1 DEF ModalState
  <2>3. Spared(Closing(m)) /\ Asking(Closing(m))'
    BY <2>1, <2>2, AskersNext DEF Spared
  <2>4. popup'.owner # Closing(m) /\ \A j \in DOMAIN calls : calls[j].owner # Closing(m)
    BY <1>1, <2>1, AloneWith
  <2> QED
    BY <1>1, <2>1, <2>3, <2>4, QuestionTurn
<1>8. CASE CloseModal(m) /\ m \notin Guarded
  <2> DEFINE md == [modal EXCEPT ![m] = Allowed(modal[m])]
  <2>1. Become(md) /\ UNCHANGED <<calls, nav, version>>
    BY <1>8 DEF CloseModal
  <2>2. \A k \in Modals : md[k].checking = modal[k].checking
    BY <1>1, Allows
  <2>3. modal' = md
    BY <2>1 DEF Become
  <2> HIDE DEF md
  <2> QED
    BY <1>2, <1>5, <2>1, <2>2, <2>3
<1>9. CASE CloseAccepted(m)
  <2> DEFINE r == [modal[m] EXCEPT !.checking = FALSE]
  <2>1. /\ popup.owner = Closing(m) /\ modal' = [modal EXCEPT ![m] = Allowed(r)] /\ popup' = NoPopup
        /\ UNCHANGED <<calls, nav, version>>
    BY <1>9 DEF CloseAccepted
  <2>2. r \in ModalState /\ r.checking = FALSE
    BY <1>1 DEF ModalState
  <2> HIDE DEF r
  <2>3. modal'[m].checking = FALSE /\ \A k \in Modals \ {m} : modal'[k] = modal[k]
    BY <1>1, <2>1, <2>2, Allows
  <2>4. popup'.owner = Page
    BY <2>1, Fires
  <2>5. Spared(Closing(m)) /\ ~Asking(Closing(m))'
    BY <1>1, <2>1, <2>3, <2>4, AskersNext DEF Spared
  <2> QED
    BY <1>1, <2>1, <2>4, <2>5, AnswerTurn
<1> QED
  BY <1>3, <1>4, <1>6, <1>7, <1>8, <1>9

LEMMA NavTurn ==
  ASSUME PopupIInv, Navigate \/ \E n \in Navs : DropFiles(n) \/ Save(n) \/ Saved(n) \/ SaveFails(n) \/ NavigationEnd(n)
  PROVE  Asks'
<1>1. /\ Asks /\ calls \in Seq(Call) /\ modal \in [Modals -> ModalState] /\ nav \in [Navs -> NavState]
      /\ popup \in [kind : Kinds, owner : Owners, host : Modals \union {Body}] /\ last \in 0..MaxNavs
      /\ Page \in Owners /\ NoPopup.owner = Page
      /\ \A n \in Navs : Leaving(n) \in Owners \ {Page}
  BY PopupNumbers, Fires DEF PopupIInv, Dialogs, Stacked, Leaves, Call
<1>2. CASE Navigate
  <2>1. last + 1 \in Navs
    BY <1>1, <1>2, PopupNumbers DEF Navigate, Navs
  <2>2. nav[last + 1].phase = "none"
    <3>1. \A n \in Navs : nav[n].phase # "none" => n <= last
      BY DEF PopupIInv, Leaves, ConsentGiven
    <3> QED
      BY <1>1, <2>1, <3>1
  <2>3. popup.owner # Leaving(last + 1) /\ \A j \in DOMAIN calls : calls[j].owner # Leaving(last + 1)
    BY <1>1, <2>1, <2>2, AloneWith
  <2>4. PICK n \in Navs : n = last + 1
    BY <2>1
  <2>5. GoOn(n, 1, dirty) /\ UNCHANGED <<modal, version, popup>>
    BY <1>2, <2>4 DEF Navigate
  <2> QED
    BY <1>1, <2>3, <2>4, <2>5, GoOnTurn
<1>3. ASSUME NEW n \in Navs, DropFiles(n) PROVE Asks'
  <2>1. PICK i : i = nav[n].at + 1
    OBVIOUS
  <2>2. GoOn(n, i, dirty) /\ UNCHANGED <<modal, version>> /\ popup.owner = Leaving(n) /\ popup' = NoPopup
    BY <1>3, <2>1 DEF DropFiles
  <2>3. \A j \in DOMAIN calls : calls[j].owner # Leaving(n)
    BY <1>1, <2>2, AloneWith
  <2> QED
    BY <1>1, <2>2, <2>3, GoOnTurn
<1>4. ASSUME NEW n \in Navs, Saved(n) PROVE Asks'
  <2>1. PICK i, d : i = nav[n].at + 1 /\ d = dirty'
    OBVIOUS
  <2>2. GoOn(n, i, d) /\ UNCHANGED <<modal, version, popup>> /\ nav[n].phase = "saving"
    BY <1>4, <2>1 DEF Saved
  <2>3. popup.owner # Leaving(n) /\ \A j \in DOMAIN calls : calls[j].owner # Leaving(n)
    BY <1>1, <2>2, AloneWith
  <2> QED
    BY <1>1, <2>2, <2>3, GoOnTurn
<1>5. ASSUME NEW n \in Navs, Save(n) PROVE Asks'
  <2>1. /\ nav' = [nav EXCEPT ![n].phase = "saving"] /\ UNCHANGED <<calls, modal, version>>
        /\ popup.owner = Leaving(n) /\ popup' = NoPopup
    BY <1>5 DEF Save
  <2>2. nav'[n].phase = "saving" /\ \A k \in Navs \ {n} : nav'[k] = nav[k]
    BY <1>1, <2>1 DEF NavState
  <2>3. Spared(Leaving(n)) /\ ~Asking(Leaving(n))'
    BY <1>1, <2>1, <2>2, AskersNext DEF Spared
  <2> QED
    BY <1>1, <2>1, <2>3, AnswerTurn
<1>6. ASSUME NEW n \in Navs, SaveFails(n) PROVE Asks'
  <2>1. nav' = [nav EXCEPT ![n].phase = "refused"] /\ UNCHANGED <<calls, modal, version, popup>> /\ nav[n].phase = "saving"
    BY <1>6 DEF SaveFails
  <2>2. \A k \in Navs : nav'[k].phase = "asking" <=> nav[k].phase = "asking"
    BY <1>1, <2>1 DEF NavState
  <2>3. Spared(Page)
    BY <2>1, <2>2 DEF Spared
  <2> QED
    BY <1>1, <2>1, <2>3, SilentTurn
<1>7. ASSUME NEW n \in Navs, NavigationEnd(n) PROVE Asks'
  <2> DEFINE md == [m \in Modals |-> IF modal[m].phase \in {"new", "gone"} THEN modal[m] ELSE Allowed(modal[m])]
  <2>1. /\ nav' = [nav EXCEPT ![n].phase = "ended"] /\ nav[n].phase = "passed" /\ Become(md) /\ UNCHANGED <<calls, version>>
    BY <1>7 DEF NavigationEnd
  <2>2. \A k \in Navs : nav'[k].phase = "asking" <=> nav[k].phase = "asking"
    BY <1>1, <2>1 DEF NavState
  <2>3. \A m \in Modals : md[m].checking = modal[m].checking
    BY <1>1, Allows
  <2>4. modal' = md
    BY <2>1 DEF Become
  <2> HIDE DEF md
  <2>5. popup'.owner = popup.owner
    BY <1>1, <2>1, BecomePopup
  <2>6. Spared(Page)
    BY <2>1, <2>2, <2>3, <2>4, <2>5 DEF Spared
  <2> QED
    BY <1>1, <2>1, <2>6, SilentTurn
<1> QED
  BY <1>2, <1>3, <1>4, <1>5, <1>6, <1>7

LEMMA OfferTurn ==
  ASSUME PopupIInv, NEW v, NEW source, ShowUpdate(v, source), v \in VersionState,
         v.shown = version.shown, v.step = version.step, UNCHANGED <<modal, nav, popup>>
  PROVE  Asks'
<1>1. /\ Asks /\ calls \in Seq(Call) /\ Page \in Owners /\ Updater \in Owners \ {Page} /\ version \in VersionState
      /\ (version.shown <=> version.step # "idle")
  BY PopupNumbers DEF PopupIInv, Dialogs, Updates, UpdateNotStuck, Call
<1>2. CASE version' = v /\ UNCHANGED calls
  <2>1. Spared(Page)
    BY <1>2 DEF Spared
  <2> QED
    BY <1>1, <1>2, <2>1, SilentTurn
<1>3. CASE ~v.shown
  <2>1. PICK o \in Overrides :
          /\ version' = [v EXCEPT !.shown = TRUE, !.source = source,
                                  !.step = CASE o = "holds" -> "held" [] o = "rejects" -> "rejecting" [] OTHER -> "asking"]
          /\ Say(IF o \in {"none", "throws"} THEN <<Fire("question", Updater)>> ELSE <<>>)
    BY <1>3 DEF ShowUpdate
  <2>2. version.step = "idle" /\ popup.owner # Updater /\ \A j \in DOMAIN calls : calls[j].owner # Updater
    BY <1>1, <1>3, AloneWith
  <2>3. version'.step = IF o = "holds" THEN "held" ELSE IF o = "rejects" THEN "rejecting" ELSE "asking"
    BY <2>1 DEF VersionState
  <2>4. Spared(Updater)
    BY DEF Spared
  <2>5. CASE o \in {"none", "throws"}
    <3>1. Say(<<Fire("question", Updater)>>) /\ Asking(Updater)'
      BY <2>1, <2>3, <2>5, AskersNext
    <3> QED
      BY <1>1, <2>2, <2>4, <3>1, QuestionTurn
  <2>6. CASE o \in {"rejects", "holds"}
    <3>1. calls' = calls /\ version'.step # "asking"
      BY <1>1, <2>1, <2>3, <2>6, ConcatEmptySeq DEF Say
    <3>2. Heard(Updater)'
      BY <2>2, <3>1, AskersNext DEF Heard, Unasked
    <3> QED
      BY <1>1, <2>4, <3>1, <3>2, SilentTurn
  <2> QED
    BY <2>5, <2>6, PopupAssumption
<1> QED
  BY <1>2, <1>3 DEF ShowUpdate

LEMMA UpdateTurn ==
  ASSUME PopupIInv, PollAnswers \/ SwReady \/ OverrideRejects \/ UpdateAccepted \/ ApplyHeld \/ Activated \/ Reload \/ Poll
  PROVE  Asks'
<1>1. /\ Asks /\ calls \in Seq(Call) /\ Page \in Owners /\ Updater \in Owners \ {Page} /\ version \in VersionState
      /\ NoPopup.owner = Page /\ MaxPolls \in Nat
  BY PopupNumbers, Fires DEF PopupIInv, Dialogs, Updates, Call
<1>2. ASSUME UNCHANGED <<calls, modal, nav, popup>>, version'.step = "asking" <=> version.step = "asking" PROVE Asks'
  <2>1. Spared(Page)
    BY <1>2 DEF Spared
  <2> QED
    BY <1>1, <1>2, <2>1, SilentTurn
<1>3. CASE PollAnswers
  <2> DEFINE v == [version EXCEPT !.inFlight = @ - 1]
  <2>1. v \in VersionState /\ v.shown = version.shown /\ v.step = version.step
    BY <1>1, <1>3 DEF PollAnswers, VersionState
  <2>2. UNCHANGED <<modal, nav, popup>> /\ (ShowUpdate(v, "poll") \/ (version' = v /\ UNCHANGED calls))
    BY <1>3 DEF PollAnswers
  <2> HIDE DEF v
  <2> QED
    BY <1>2, <2>1, <2>2, OfferTurn
<1>4. CASE SwReady
  BY <1>1, <1>4, OfferTurn DEF SwReady
<1>5. CASE OverrideRejects
  <2>1. /\ version' = [version EXCEPT !.step = "asking"] /\ Say(<<Fire("question", Updater)>>)
        /\ UNCHANGED <<modal, nav, popup>> /\ version.step = "rejecting"
    BY <1>5 DEF OverrideRejects
  <2>2. Asking(Updater)' /\ Spared(Updater)
    BY <1>1, <2>1, AskersNext DEF Spared, VersionState
  <2>3. popup'.owner # Updater /\ \A j \in DOMAIN calls : calls[j].owner # Updater
    BY <1>1, <2>1, AloneWith
  <2> QED
    BY <1>1, <2>1, <2>2, <2>3, QuestionTurn
<1>6. Apply => version'.step # "asking"
  BY <1>1 DEF Apply, VersionState
<1>7. CASE UpdateAccepted
  <2>1. /\ popup.owner = Updater /\ popup' = NoPopup /\ UNCHANGED <<calls, modal, nav>> /\ version'.step # "asking"
    BY <1>6, <1>7 DEF UpdateAccepted
  <2>2. Spared(Updater) /\ ~Asking(Updater)'
    BY <1>1, <2>1, AskersNext DEF Spared
  <2> QED
    BY <1>1, <2>1, <2>2, AnswerTurn
<1>8. CASE ApplyHeld
  BY <1>2, <1>6, <1>8 DEF ApplyHeld
<1>9. CASE Activated \/ Reload \/ Poll
  BY <1>1, <1>2, <1>9 DEF Activated, Reload, Poll, VersionState
<1> QED
  BY <1>3, <1>4, <1>5, <1>7, <1>8, <1>9

LEMMA AsksKeep == ASSUME PopupIInv, [PopupNext]_popupVars PROVE Asks'
<1>1. /\ Asks /\ calls \in Seq(Call) /\ Page \in Owners /\ modal \in [Modals -> ModalState] /\ nav \in [Navs -> NavState]
      /\ version \in VersionState /\ popup.owner \in Owners /\ NoPopup.owner = Page
  BY PopupNumbers, Fires DEF PopupIInv, Dialogs, Stacked, Leaves, Updates, Call
<1>2. ASSUME UNCHANGED <<nav, version, popup>>, \A m \in Modals : modal'[m].checking = modal[m].checking PROVE Spared(Page)
  BY <1>2 DEF Spared
<1>3. CASE ImportEnds \/ (\E i \in Editors : Type(i)) \/ UNCHANGED popupVars
  BY <1>1, <1>2, <1>3, SilentTurn DEF ImportEnds, Type, popupVars
<1>4. CASE BootArrives
  <2>1. UNCHANGED <<calls, nav, version, popup>> /\ \A m \in Modals : modal'[m].checking = modal[m].checking
    BY <1>1, <1>4 DEF BootArrives, ModalState
  <2> QED
    BY <1>1, <1>2, <2>1, SilentTurn
<1>5. ASSUME NEW kind \in {"message", "toast"}, Message(kind) PROVE Asks'
  <2> DEFINE c == Fire(kind, Page)
  <2>1. c \in Call /\ c.owner = Page
    BY <1>1, Fires DEF Call
  <2>2. Say(<<c>>) /\ UNCHANGED <<modal, nav, version, popup>>
    BY <1>5 DEF Message
  <2> HIDE DEF c
  <2>3. <<c>> \in Seq(Call) /\ \A j \in DOMAIN <<c>> : <<c>>[j].owner = Page
    BY <2>1
  <2> QED
    BY <1>1, <1>2, <2>2, <2>3, PageTurn
<1>6. CASE WorkBegins
  <2> DEFINE c == Fire("loading", Page)
  <2>1. c \in Call /\ c.owner = Page
    BY <1>1, Fires DEF Call
  <2>2. Say(<<c>>) /\ UNCHANGED <<modal, nav, version, popup>>
    BY <1>6 DEF WorkBegins
  <2> HIDE DEF c
  <2>3. <<c>> \in Seq(Call) /\ \A j \in DOMAIN <<c>> : <<c>>[j].owner = Page
    BY <2>1
  <2> QED
    BY <1>1, <1>2, <2>2, <2>3, PageTurn
<1>7. CASE WorkEnds
  <2>1. PICK cs \in Outcomes : Say(cs)
    BY <1>7 DEF WorkEnds
  <2> DEFINE a == Close
             b == Fire("toast", Page)
             d == Fire("message", Page)
  <2>2. {a, b, d} \subseteq {c \in Call : c.owner = Page}
    BY <1>1, Fires DEF Call
  <2>3. cs \in {<<a>>, <<a, b>>, <<d, a, b>>, <<d, a>>}
    BY <2>1 DEF Outcomes
  <2> HIDE DEF a, b, d
  <2>4. cs \in Seq(Call) /\ \A j \in DOMAIN cs : cs[j].owner = Page
    <3>1. CASE cs = <<a>>
      BY <2>2, <3>1
    <3>2. CASE cs = <<a, b>>
      BY <2>2, <3>2
    <3>3. CASE cs = <<d, a, b>>
      BY <2>2, <3>3
    <3>4. CASE cs = <<d, a>>
      BY <2>2, <3>4
    <3> QED
      BY <2>3, <3>1, <3>2, <3>3, <3>4
  <2>5. UNCHANGED <<modal, nav, version, popup>>
    BY <1>7 DEF WorkEnds
  <2> QED
    BY <1>1, <1>2, <2>1, <2>4, <2>5, PageTurn
<1>8. CASE Dismiss
  <2>1. PICK o \in Owners : o = popup.owner
    BY <1>1
  <2>2. Refused(o) /\ popup' = NoPopup /\ UNCHANGED calls
    BY <1>8, <2>1 DEF Dismiss
  <2>3. Spared(o) /\ ~Asking(o)'
    BY <1>1, <2>1, <2>2, Refusal DEF Spared
  <2>4. CASE o = Page
    BY <1>1, <2>2, <2>3, <2>4, SilentTurn
  <2>5. CASE o # Page
    BY <1>1, <2>1, <2>2, <2>3, <2>5, AnswerTurn
  <2> QED
    BY <2>4, <2>5
<1> QED
  BY <1>3, <1>4, <1>5, <1>6, <1>7, <1>8, RunTurn, RejectionTurn, ModalTurn, NavTurn, UpdateTurn DEF PopupNext

-----------------------------------------------------------------------------
(* PagePopups: the offer of an update.                                     *)

LEMMA UpdatesKeep == ASSUME PopupIInv, [PopupNext]_popupVars PROVE Updates'
<1> DEFINE Good(v) == v \in VersionState /\ (v.shown <=> v.step # "idle")
<1> SUFFICES Good(version')
  BY DEF Updates, UpdateNotStuck
<1>1. /\ Asks /\ calls \in Seq(Call) /\ Good(version) /\ MaxPolls \in Nat
  BY PopupNumbers DEF PopupIInv, Dialogs, Updates, UpdateNotStuck, Call
<1>2. ASSUME NEW o, Refused(o) PROVE Good(version')
  BY <1>1, <1>2 DEF Refused, Postponed, VersionState
<1>3. CASE CallRejected
  <2>1. 1 \in DOMAIN calls /\ Head(calls) = calls[1]
    BY <1>1, <1>3, Taken, LenProperties DEF CallRejected
  <2>2. Head(calls).owner = Updater => version.step = "asking"
    BY <1>1, <2>1, AloneWith
  <2>3. version' = IF Head(calls).owner = Updater THEN [version EXCEPT !.step = "stuck"] ELSE version
    BY <1>3 DEF CallRejected
  <2> QED
    BY <1>1, <2>2, <2>3 DEF VersionState
<1>4. ASSUME NEW v, Good(v), NEW source \in {"sw", "poll"}, ShowUpdate(v, source) PROVE Good(version')
  <2>1. CASE version' = v
    BY <1>4, <2>1
  <2>2. CASE ~v.shown
    <3>1. PICK step \in {"held", "rejecting", "asking"} : version' = [v EXCEPT !.shown = TRUE, !.source = source, !.step = step]
      BY <1>4, <2>2 DEF ShowUpdate
    <3> QED
      BY <1>4, <3>1 DEF VersionState
  <2> QED
    BY <1>4, <2>1, <2>2 DEF ShowUpdate
<1>5. CASE PollAnswers
  <2> DEFINE v == [version EXCEPT !.inFlight = @ - 1]
  <2>1. Good(v)
    BY <1>1, <1>5 DEF PollAnswers, VersionState
  <2>2. ShowUpdate(v, "poll") \/ version' = v
    BY <1>5 DEF PollAnswers
  <2> HIDE DEF v, Good
  <2> QED
    BY <1>4, <2>1, <2>2
<1>6. CASE SwReady
  BY <1>1, <1>4, <1>6 DEF SwReady
<1>7. CASE Poll
  BY <1>1, <1>7 DEF Poll, VersionState
<1>8. version.shown /\ Apply => Good(version')
  BY <1>1 DEF Apply, VersionState
<1>9. CASE UpdateAccepted
  <2>1. version.step = "asking"
    BY <1>1, <1>9, AloneWith DEF UpdateAccepted
  <2> QED
    BY <1>1, <1>8, <1>9, <2>1 DEF UpdateAccepted
<1>10. CASE ApplyHeld
  BY <1>1, <1>8, <1>10 DEF ApplyHeld
<1>11. CASE OverrideRejects \/ Activated \/ Reload
  BY <1>1, <1>11 DEF OverrideRejects, Activated, Reload, VersionState
<1>12. CASE ImportEnds \/ WorkBegins \/ WorkEnds \/ BootArrives \/ Navigate \/ UNCHANGED popupVars
  BY <1>1, <1>12 DEF ImportEnds, WorkBegins, WorkEnds, BootArrives, Navigate, popupVars
<1>13. CASE \/ \E kind \in {"message", "toast"} : Message(kind)
            \/ \E m \in Modals : OpenModal(m) \/ ModalShown(m) \/ ModalHidden(m) \/ CloseModal(m) \/ CloseAccepted(m)
            \/ \E i \in Editors : Type(i)
            \/ \E n \in Navs : DropFiles(n) \/ Save(n) \/ Saved(n) \/ SaveFails(n) \/ NavigationEnd(n)
  <2>1. version' = version
    BY <1>13 DEF Message, OpenModal, ModalShown, ModalHidden, CloseModal, CloseAccepted, Type, DropFiles, Save, Saved,
       SaveFails, NavigationEnd
  <2> QED
    BY <1>1, <2>1
<1>14. CASE RunCall \/ Dismiss
  BY <1>2, <1>14 DEF RunCall, Dismiss
<1> QED
  BY <1>3, <1>5, <1>6, <1>7, <1>9, <1>10, <1>11, <1>12, <1>13, <1>14 DEF PopupNext

-----------------------------------------------------------------------------
(* PagePopups: the guard of unsaved changes.                               *)

(* A navigation goes on from an editor: what is behind it, with the changes *)
(* before that editor agreed to.                                           *)
LEMMA GoOnNav ==
  ASSUME nav \in [Navs -> NavState], NEW n \in Navs, NEW i \in Nat, NEW d \in SUBSET Editors, GoOn(n, i, d)
  PROVE  /\ nav' \in [Navs -> NavState] /\ \A k \in Navs \ {n} : nav'[k] = nav[k]
         /\ nav'[n].phase \in {"passed", "asking"}
         /\ nav'[n].phase = "passed" => \A j \in d : j < i
         /\ nav'[n].phase = "asking" => nav'[n].at \in d /\ \A j \in d : j < nav'[n].at => j < i
<1> DEFINE ahead == {k \in d : k >= i}
           first == CHOOSE k \in ahead : \A j \in ahead : k <= j
<1>1. Editors \subseteq Nat /\ Editors \subseteq 0..NumEditors /\ NumEditors \in Nat
  BY PopupNumbers DEF Editors
<1>2. CASE ahead = {}
  <2>1. nav' = [nav EXCEPT ![n] = [phase |-> "passed", at |-> 0]]
    BY <1>2 DEF GoOn
  <2>2. \A j \in d : j < i
    BY <1>1, <1>2
  <2> QED
    BY <1>1, <2>1, <2>2 DEF NavState
<1>3. CASE ahead # {}
  <2>1. nav' = [nav EXCEPT ![n] = [phase |-> "asking", at |-> first]]
    BY <1>3 DEF GoOn
  <2>2. \E k \in ahead : \A j \in ahead : k <= j
    BY <1>1, <1>3, Least
  <2>3. first \in ahead /\ \A j \in ahead : first <= j
    BY <2>2
  <2> HIDE DEF first
  <2>4. first \in d /\ first \in 0..NumEditors /\ \A j \in d : j < first => j < i
    BY <1>1, <2>3
  <2> QED
    BY <1>1, <2>1, <2>4 DEF NavState
<1> QED
  BY <1>2, <1>3

LEMMA LeavesAside ==
  ASSUME Leaves, UNCHANGED <<last, dirty, typed, consent>>, nav' \in [Navs -> NavState],
         \A n \in Navs : \/ nav'[n] = nav[n] \/ (nav'[n].phase \in {"refused", "ended"} /\ nav[n].phase # "none")
                         \/ (nav[n].phase = "asking" /\ nav'[n].phase = "saving" /\ nav'[n].at = nav[n].at)
  PROVE  Leaves'
<1>1. ConsentGiven /\ last' = last /\ dirty' = dirty /\ typed' = typed /\ consent' = consent
  BY DEF Leaves
<1>2. \A n \in Navs : nav'[n].phase # "none" => n <= last'
  BY <1>1 DEF ConsentGiven
<1>3. \A n \in Navs : nav'[n].phase \in {"asking", "saving"} => nav'[n].at \in Editors
  BY <1>1 DEF ConsentGiven
<1>4. ASSUME NEW n \in Navs, NEW i \in dirty, Behind(n, i)', typed[i] < n PROVE i \in consent[n]
  <2>1. Behind(n, i)
    BY <1>4 DEF Behind
  <2> QED
    BY <1>1, <1>4, <2>1 DEF ConsentGiven
<1>5. ConsentGiven'
  BY <1>1, <1>2, <1>3, <1>4 DEF ConsentGiven
<1> QED
  BY <1>1, <1>5 DEF Leaves

LEMMA LeavesGoOn ==
  ASSUME Leaves, NEW n \in Navs, NEW i \in Nat, NEW d, d = dirty', dirty' \subseteq dirty, GoOn(n, i, d), typed' = typed,
         last' \in 0..MaxNavs, last <= last', n <= last', consent' \in [Navs -> SUBSET Editors],
         \A k \in Navs \ {n} : consent'[k] = consent[k],
         \A j \in dirty' : j < i /\ typed[j] < n => j \in consent'[n]
  PROVE  Leaves'
<1>1. /\ nav \in [Navs -> NavState] /\ last \in 0..MaxNavs /\ dirty \subseteq Editors /\ ConsentGiven
      /\ Editors \subseteq Nat /\ MaxNavs \in Nat /\ Navs \subseteq Nat
  BY PopupNumbers DEF Leaves, Editors, Navs
<1>2. /\ nav' \in [Navs -> NavState] /\ \A k \in Navs \ {n} : nav'[k] = nav[k]
      /\ nav'[n].phase \in {"passed", "asking"}
      /\ nav'[n].phase = "passed" => \A j \in d : j < i
      /\ nav'[n].phase = "asking" => nav'[n].at \in d /\ \A j \in d : j < nav'[n].at => j < i
  BY <1>1, GoOnNav
<1>3. \A k \in Navs : nav'[k].phase # "none" => k <= last'
  BY <1>1, <1>2 DEF ConsentGiven
<1>4. \A k \in Navs : nav'[k].phase \in {"asking", "saving"} => nav'[k].at \in Editors
  BY <1>1, <1>2 DEF ConsentGiven
<1>5. ASSUME NEW k \in Navs, NEW j \in dirty', Behind(k, j)', typed[j] < k PROVE j \in consent'[k]
  <2>1. CASE k = n
    <3>1. j < i
      BY <1>2, <1>5, <2>1 DEF Behind
    <3> QED
      BY <1>5, <2>1, <3>1
  <2>2. CASE k # n
    <3>1. Behind(k, j) /\ j \in dirty
      BY <1>2, <1>5, <2>2 DEF Behind
    <3> QED
      BY <1>1, <1>5, <2>2, <3>1 DEF ConsentGiven
  <2> QED
    BY <2>1, <2>2
<1>6. ConsentGiven'
  BY <1>1, <1>3, <1>4, <1>5 DEF ConsentGiven
<1> QED
  BY <1>1, <1>2, <1>6 DEF Leaves

LEMMA LeavesKeep == ASSUME PopupIInv, [PopupNext]_popupVars PROVE Leaves'
<1>1. /\ Leaves /\ ConsentGiven /\ Asks /\ calls \in Seq(Call) /\ nav \in [Navs -> NavState] /\ last \in 0..MaxNavs
      /\ dirty \subseteq Editors /\ typed \in [Editors -> 0..MaxNavs] /\ consent \in [Navs -> SUBSET Editors]
      /\ Editors \subseteq Nat /\ 0 \notin Editors /\ MaxNavs \in Nat /\ Navs = 1..MaxNavs /\ NumEditors \in Nat
  BY PopupNumbers DEF PopupIInv, Dialogs, Leaves, ConsentGiven, Call, Editors, Navs
<1>2. ASSUME UNCHANGED <<last, dirty, typed, consent, nav>> PROVE Leaves'
  BY <1>1, <1>2, LeavesAside
<1>3. \A n \in Navs : popup.owner = Leaving(n) => nav[n].phase = "asking"
  BY <1>1, AloneWith
<1>4. CASE RunCall \/ Dismiss
  <2>1. Refused(popup.owner) /\ UNCHANGED <<last, dirty, typed, consent>> /\ popup.owner \in Owners
    BY <1>4 DEF RunCall, Dismiss, PopupIInv, Dialogs
  <2>2. CASE popup.owner.role # "nav"
    BY <1>2, <2>1, <2>2 DEF Refused
  <2>3. CASE popup.owner.role = "nav"
    <3>1. popup.owner.of \in Navs /\ popup.owner = Leaving(popup.owner.of)
      BY <2>1, <2>3 DEF Owners, Leaving
    <3>2. PICK n \in Navs : n = popup.owner.of
      BY <3>1
    <3>3. nav' = [nav EXCEPT ![n].phase = "refused"] /\ nav[n].phase = "asking"
      BY <1>3, <2>1, <2>3, <3>1, <3>2 DEF Refused
    <3>4. nav' \in [Navs -> NavState] /\ nav'[n].phase = "refused" /\ \A k \in Navs \ {n} : nav'[k] = nav[k]
      BY <1>1, <3>3 DEF NavState
    <3> QED
      BY <1>1, <2>1, <3>3, <3>4, LeavesAside
  <2> QED
    BY <2>2, <2>3
<1>5. CASE CallRejected
  <2>1. PICK o : o = Head(calls).owner
    OBVIOUS
  <2>2. /\ UNCHANGED <<last, dirty, typed, consent>>
        /\ nav' = IF o.role = "nav" THEN [nav EXCEPT ![o.of].phase = "refused"] ELSE nav
    BY <1>5, <2>1 DEF CallRejected
  <2>3. Head(calls) \in Call /\ Head(calls) = calls[1] /\ 1 \in DOMAIN calls
    BY <1>1, <1>5, Taken, LenProperties DEF CallRejected
  <2>4. CASE o.role # "nav"
    BY <1>2, <2>2, <2>4
  <2>5. CASE o.role = "nav"
    <3>1. PICK n \in Navs : o.of = n /\ o = Leaving(n)
      BY <2>1, <2>3, <2>5 DEF Call, Owners, Leaving
    <3>2. nav[n].phase = "asking"
      BY <1>1, <2>1, <2>3, <3>1, AloneWith
    <3>3. nav' = [nav EXCEPT ![n].phase = "refused"]
      BY <2>2, <2>5, <3>1
    <3>4. nav' \in [Navs -> NavState] /\ nav'[n].phase = "refused" /\ \A k \in Navs \ {n} : nav'[k] = nav[k]
      BY <1>1, <3>3 DEF NavState
    <3> QED
      BY <1>1, <2>2, <3>2, <3>4, LeavesAside
  <2> QED
    BY <2>4, <2>5
<1>6. ASSUME NEW i \in Editors, Type(i) PROVE Leaves'
  <2>1. /\ dirty' = dirty \union {i} /\ typed' = [typed EXCEPT ![i] = last] /\ UNCHANGED <<nav, last, consent>>
    BY <1>6 DEF Type
  <2>2. typed' \in [Editors -> 0..MaxNavs] /\ typed'[i] = last /\ \A j \in Editors \ {i} : typed'[j] = typed[j]
    BY <1>1, <2>1
  <2>3. ASSUME NEW n \in Navs, NEW j \in dirty', Behind(n, j)', typed'[j] < n PROVE j \in consent'[n]
    <3>1. Behind(n, j) /\ n <= last
      BY <1>1, <2>1, <2>3 DEF Behind, ConsentGiven
    <3>2. j # i /\ j \in dirty
      BY <1>1, <2>1, <2>2, <2>3, <3>1
    <3> QED
      BY <1>1, <2>1, <2>2, <2>3, <3>1, <3>2 DEF ConsentGiven
  <2>4. ConsentGiven'
    BY <1>1, <2>1, <2>2, <2>3 DEF ConsentGiven
  <2> QED
    BY <1>1, <2>1, <2>4 DEF Leaves
<1>7. CASE Navigate
  <2>1. PICK n \in Navs : n = last + 1
    BY <1>1, <1>7 DEF Navigate
  <2>2. GoOn(n, 1, dirty) /\ last' = last + 1 /\ last < MaxNavs /\ UNCHANGED <<dirty, typed, consent>>
    BY <1>7, <2>1 DEF Navigate
  <2>3. \A j \in dirty : ~(j < 1)
    BY <1>1
  <2> QED
    BY <1>1, <2>1, <2>2, <2>3, LeavesGoOn
<1>8. ASSUME NEW n \in Navs, nav[n].phase \in {"asking", "saving"}, dirty' \subseteq dirty, GoOn(n, nav[n].at + 1, dirty'),
             UNCHANGED <<last, typed>>, consent' = [consent EXCEPT ![n] = consent[n] \union {nav[n].at}]
      PROVE  Leaves'
  <2>1. PICK i, d : i = nav[n].at + 1 /\ d = dirty'
    OBVIOUS
  <2>2. nav[n].at \in Editors /\ n <= last /\ i \in Nat
    <3>1. nav[n].phase \in {"asking", "saving"} /\ nav[n].phase # "none"
      BY <1>8
    <3>2. nav[n].at \in Editors /\ n <= last
      BY <1>1, <3>1 DEF ConsentGiven
    <3>3. nav[n].at \in Nat
      BY <1>1, <3>2
    <3> QED
      BY <2>1, <3>2, <3>3
  <2>3. consent' \in [Navs -> SUBSET Editors] /\ consent'[n] = consent[n] \union {nav[n].at}
        /\ \A k \in Navs \ {n} : consent'[k] = consent[k]
    BY <1>1, <1>8, <2>2
  <2>4. ASSUME NEW j \in dirty', j < i, typed[j] < n PROVE j \in consent'[n]
    <3>a. j \in dirty /\ j \in Nat /\ nav[n].at \in Nat
      BY <1>1, <1>8, <2>2
    <3>1. j \in dirty /\ (j = nav[n].at \/ j < nav[n].at)
      BY <2>1, <2>4, <3>a
    <3>2. j < nav[n].at => j \in consent[n]
      BY <1>1, <1>8, <2>4, <3>1 DEF ConsentGiven, Behind
    <3> QED
      BY <2>3, <3>1, <3>2
  <2>5. last' \in 0..MaxNavs /\ last <= last' /\ n <= last' /\ GoOn(n, i, d)
    BY <1>1, <1>8, <2>1, <2>2
  <2> QED
    BY <1>1, <1>8, <2>1, <2>2, <2>3, <2>4, <2>5, LeavesGoOn
<1>9. ASSUME NEW n \in Navs, DropFiles(n) PROVE Leaves'
  <2>1. nav[n].phase = "asking" /\ dirty' = dirty
    BY <1>3, <1>9 DEF DropFiles
  <2> QED
    BY <1>8, <1>9, <2>1 DEF DropFiles
<1>10. ASSUME NEW n \in Navs, Saved(n) PROVE Leaves'
  BY <1>8, <1>10 DEF Saved
<1>11. ASSUME NEW n \in Navs, Save(n) PROVE Leaves'
  <2>1. nav' = [nav EXCEPT ![n].phase = "saving"] /\ nav[n].phase = "asking" /\ UNCHANGED <<last, dirty, typed, consent>>
    BY <1>3, <1>11 DEF Save
  <2>2. nav' \in [Navs -> NavState] /\ nav'[n].phase = "saving" /\ nav'[n].at = nav[n].at /\ \A k \in Navs \ {n} : nav'[k] = nav[k]
    BY <1>1, <2>1 DEF NavState
  <2> QED
    BY <1>1, <2>1, <2>2, LeavesAside
<1>12. ASSUME NEW n \in Navs, SaveFails(n) PROVE Leaves'
  <2>1. nav' = [nav EXCEPT ![n].phase = "refused"] /\ nav[n].phase = "saving" /\ UNCHANGED <<last, dirty, typed, consent>>
    BY <1>12 DEF SaveFails
  <2>2. nav' \in [Navs -> NavState] /\ nav'[n].phase = "refused" /\ \A k \in Navs \ {n} : nav'[k] = nav[k]
    BY <1>1, <2>1 DEF NavState
  <2> QED
    BY <1>1, <2>1, <2>2, LeavesAside
<1>13. ASSUME NEW n \in Navs, NavigationEnd(n) PROVE Leaves'
  <2>1. /\ nav' = [nav EXCEPT ![n].phase = "ended"] /\ nav[n].phase = "passed" /\ dirty' = {} /\ UNCHANGED <<last, typed, consent>>
    BY <1>13 DEF NavigationEnd
  <2>2. nav' \in [Navs -> NavState] /\ nav'[n].phase = "ended" /\ \A k \in Navs \ {n} : nav'[k] = nav[k]
    BY <1>1, <2>1 DEF NavState
  <2>3. ConsentGiven'
    BY <1>1, <2>1, <2>2 DEF ConsentGiven
  <2> QED
    BY <1>1, <2>1, <2>2, <2>3 DEF Leaves
<1>14. CASE ImportEnds \/ WorkBegins \/ WorkEnds \/ BootArrives \/ UNCHANGED popupVars
  BY <1>2, <1>14 DEF ImportEnds, WorkBegins, WorkEnds, BootArrives, popupVars
<1>15. CASE \/ \E kind \in {"message", "toast"} : Message(kind)
            \/ \E m \in Modals : OpenModal(m) \/ ModalShown(m) \/ ModalHidden(m) \/ CloseModal(m) \/ CloseAccepted(m)
            \/ Poll \/ PollAnswers \/ SwReady \/ OverrideRejects \/ UpdateAccepted \/ ApplyHeld \/ Activated \/ Reload
  BY <1>2, <1>15 DEF Message, OpenModal, ModalShown, ModalHidden, CloseModal, CloseAccepted, Poll, PollAnswers, SwReady,
     OverrideRejects, UpdateAccepted, ApplyHeld, Activated, Reload
<1> QED
  BY <1>4, <1>5, <1>6, <1>7, <1>9, <1>10, <1>11, <1>12, <1>13, <1>14, <1>15 DEF PopupNext

LEMMA MovesCount == ASSUME PopupIInv, [PopupNext]_popupVars PROVE started' \in 0..MaxMoves
<1>1. started \in 0..MaxMoves /\ MaxMoves \in Nat
  BY PopupNumbers DEF PopupIInv
<1>2. started' = started \/ Move
  BY DEF PopupNext, popupVars, ImportEnds, RunCall, CallRejected, Dismiss, Message, WorkBegins, WorkEnds, BootArrives, OpenModal,
     ModalShown, ModalHidden, CloseModal, CloseAccepted, Type, Navigate, DropFiles, Save, Saved, SaveFails, NavigationEnd, Poll,
     PollAnswers, SwReady, OverrideRejects, UpdateAccepted, ApplyHeld, Activated, Reload
<1> QED
  BY <1>1, <1>2 DEF Move

LEMMA PopupsBegin == ASSUME PopupInit PROVE PopupIInv
<1>1. /\ calls = <<>> /\ popup = NoPopup /\ hosts = <<>> /\ DOMAIN calls = {}
  BY DEF PopupInit
<1>2. Dialogs
  BY <1>1, Fires DEF PopupInit, Dialogs
<1>3. Stacked
  <2>1. modal \in [Modals -> ModalState] /\ \A m \in Modals : modal[m].phase = "new" /\ ~modal[m].checking
    BY DEF PopupInit, ModalState
  <2>2. hosts \in Seq(Modals) /\ ToSet(hosts) = {} /\ IsInjective(hosts)
    BY <1>1, EmptyToSet
  <2> QED
    BY <1>1, <2>1, <2>2, Fires DEF PopupInit, Stacked
<1>4. Asks
  <2>1. \A o \in Owners \ {Page} : Unasked(o)
    BY <1>1, Fires DEF Unasked
  <2>2. \A o \in Owners \ {Page} : ~Asking(o)
    BY DEF Asking, PopupInit
  <2> QED
    BY <2>1, <2>2, AsksByOwner DEF Heard
<1>5. Spins
  BY <1>1, Fires DEF PopupInit, Spins, NoSpinnerLeft, SpinnersClose
<1>6. Leaves
  <2>1. nav \in [Navs -> NavState] /\ \A n \in Navs : nav[n].phase = "none"
    BY PopupNumbers DEF PopupInit, NavState
  <2>2. typed \in [Editors -> 0..MaxNavs] /\ consent \in [Navs -> SUBSET Editors] /\ dirty = {} /\ last \in 0..MaxNavs
    BY PopupNumbers DEF PopupInit
  <2> QED
    BY <2>1, <2>2 DEF Leaves, ConsentGiven
<1>7. Updates
  BY PopupNumbers DEF PopupInit, Updates, UpdateNotStuck, VersionState
<1>8. started \in 0..MaxMoves
  BY PopupNumbers DEF PopupInit
<1> QED
  BY <1>2, <1>3, <1>4, <1>5, <1>6, <1>7, <1>8 DEF PopupIInv

(* All of it together is inductive: the dialogs need the questions, the    *)
(* questions the navigations and the offer, and these the questions again. *)
THEOREM PopupInvariant == PopupSpec => []PopupIInv
<1>1. PopupIInv /\ [PopupNext]_popupVars => PopupIInv'
  BY DialogsKeep, StackKeeps, AsksKeep, LeavesKeep, UpdatesKeep, MovesCount DEF PopupIInv
<1> QED
  BY <1>1, PopupsBegin, PTL DEF PopupSpec

(* Whoever waits for the user is asked exactly once, no spinner outlives   *)
(* its work and no update is forgotten, in whatever order the popups of a  *)
(* page replace each other (notification.service.ts).                      *)
THEOREM PopupsAreSafe == PopupSpec => []PopupsSafe
<1>1. PopupIInv => PopupsSafe
  BY DEF PopupIInv, PopupsSafe, PopupTypeOK, Asks, Spins, Leaves, Updates
<1> QED
  BY <1>1, PopupInvariant, PTL

(* No page is left over changes its editor has not agreed to lose or has   *)
(* not saved for that navigation (leave-guard.service.ts).                 *)
THEOREM EditorsAgree == PopupSpec => EditsAreAsked
<1>1. PopupIInv =>
        [\A n \in Navs : nav[n].phase = "passed" /\ nav'[n].phase = "ended" =>
           \A i \in dirty : typed[i] < n => i \in consent[n]]_popupVars
  BY DEF PopupIInv, Leaves, ConsentGiven, Behind
<1> QED
  BY <1>1, PopupInvariant, PTL DEF EditsAreAsked

-----------------------------------------------------------------------------
(* NavMenus: the pile and the row.                                         *)

Layers == {"dropdowns", "menu", "bell"}

LEMMA PileIsWhatIsOpen ==
  ASSUME pile \in Seq(Layers), IsInjective(pile)
  PROVE  Piled \in Seq(Layers) /\ IsInjective(Piled) /\ ToSet(Piled) = Open
<1> DEFINE L == Layers
           all == <<"dropdowns", "menu", "bell">>
           new == Open \ ToSet(pile)
           a == Among(pile, Open)
           b == Among(all, new)
<1>1. Open \subseteq L
  BY DEF Open, Layers
<1>2. all \in Seq(L) /\ ToSet(all) = L /\ IsInjective(all)
  BY DEF Layers, ToSet, IsInjective
<1>3. Piled = a \o b
  BY DEF Piled
<1>4. pile \in Seq(L)
  OBVIOUS
<1> HIDE DEF L, all, new
<1>5. a \in Seq(L) /\ ToSet(a) = ToSet(pile) \intersect Open /\ IsInjective(a)
  <2> HIDE DEF a
  <2>1. /\ Among(pile, Open) \in Seq(L) /\ ToSet(Among(pile, Open)) = ToSet(pile) \intersect Open
        /\ IsInjective(pile) => IsInjective(Among(pile, Open))
    BY <1>4, Filters, Zenon
  <2> QED
    BY <2>1, Zenon DEF a
<1>6. b \in Seq(L) /\ ToSet(b) = L \intersect new /\ IsInjective(b)
  <2> HIDE DEF b
  <2>1. /\ Among(all, new) \in Seq(L) /\ ToSet(Among(all, new)) = ToSet(all) \intersect new
        /\ IsInjective(all) => IsInjective(Among(all, new))
    BY <1>2, Filters, Zenon
  <2> QED
    BY <1>2, <2>1, Zenon DEF b
<1> HIDE DEF a, b
<1>7. ToSet(a) \intersect ToSet(b) = {} /\ ToSet(a) \union ToSet(b) = Open
  BY <1>1, <1>5, <1>6 DEF new
<1>8. a \o b \in Seq(L) /\ ToSet(a \o b) = ToSet(a) \union ToSet(b) /\ IsInjective(a \o b)
  BY <1>5, <1>6, <1>7, Joined
<1> QED
  BY <1>3, <1>7, <1>8 DEF L

(* The row shows what fits.                                                *)
LEMMA RowFitsTheRoom ==
  ASSUME header \in Headers, room \in Rooms
  PROVE  /\ device = "mobile" => Fitting = Len(Items)
         /\ device = "wide" => Fitting + (IF Len(Items) > Fitting THEN 1 ELSE 0) <= room
<1> DEFINE S == {e \in ToSet(header) : loggedIn \/ ~e.authOnly}
<1>1. header \in Seq(MenuEntries) /\ room \in Nat
  BY MenuAssumption
<1>2. Len(Items) \in Nat
  <2>1. Items = Among(header, S)
    BY DEF Items
  <2> HIDE DEF S
  <2>2. Among(header, S) \in Seq(MenuEntries)
    BY <1>1, Filters, Zenon
  <2> QED
    BY <2>1, <2>2, LenProperties
<1>3. Fitting = IF device = "mobile" \/ Len(Items) <= room THEN Len(Items) ELSE room - 1
  BY DEF Fitting, RowFits
<1>4. PICK k, f, r : k = Len(Items) /\ f = Fitting /\ r = room /\ k \in Nat /\ r \in Nat
  BY <1>1, <1>2
<1>5. CASE device = "mobile"
  BY <1>3, <1>5
<1>6. CASE device # "mobile"
  <2>1. f = IF k <= r THEN k ELSE r - 1
    BY <1>3, <1>4, <1>6
  <2>2. f + (IF k > f THEN 1 ELSE 0) <= r
    <3>1. CASE k <= r
      <4>1. f = k /\ ~(k > f) /\ k + 0 = k
        BY <1>4, <2>1, <3>1
      <4> QED
        BY <3>1, <4>1
    <3>2. CASE ~(k <= r)
      <4>1. f = r - 1 /\ k > f /\ f + 1 = r /\ r <= r
        BY <1>4, <2>1, <3>2
      <4> QED
        BY <4>1
    <3> QED
      BY <3>1, <3>2
  <2> QED
    BY <1>4, <1>6, <2>2
<1> QED
  BY <1>5, <1>6

LEMMA MenusKeep == ASSUME MenuIInv, [MenuNext]_menuVars PROVE MenuIInv'
<1>1. CASE FlushMarks
  <2>1. /\ header' = header /\ room' = room /\ device' = device /\ loggedIn' = loggedIn
        /\ dropdown' = dropdown /\ langOpen' = langOpen /\ menuOpen' = menuOpen /\ bellOpen' = bellOpen
        /\ pile' = Piled /\ visibleCount' = Fitting
    BY <1>1 DEF FlushMarks, row
  <2>2. Piled \in Seq(Layers) /\ IsInjective(Piled) /\ ToSet(Piled) = Open
    BY PileIsWhatIsOpen DEF MenuIInv, Layers
  <2>3. Open' = Open /\ Items' = Items
    BY <2>1 DEF Open, Items
  <2>4. EscapeTakesWhatIsOpen'
    BY <2>1, <2>2, <2>3 DEF EscapeTakesWhatIsOpen
  <2>5. /\ device = "mobile" => Fitting = Len(Items) /\ ~(Len(Items) > Fitting)
        /\ device = "wide" => Fitting + (IF Len(Items) > Fitting THEN 1 ELSE 0) <= room
    <3>1. /\ device = "mobile" => Fitting = Len(Items)
          /\ device = "wide" => Fitting + (IF Len(Items) > Fitting THEN 1 ELSE 0) <= room
      BY RowFitsTheRoom DEF MenuIInv
    <3>2. \A k \in Nat : ~(k > k)
      OBVIOUS
    <3> QED
      BY <3>1, <3>2
  <2>6. Overflowing' <=> Len(Items) > Fitting
    BY <2>1, <2>3 DEF Overflowing
  <2>7. EntriesAreReachable'
    BY <2>1, <2>5, <2>6 DEF EntriesAreReachable
  <2> QED
    BY <2>1, <2>2, <2>4, <2>7 DEF MenuIInv, MenusSafe, Layers
<1>2. ASSUME Later, header' \in Headers, room' \in Rooms, device' \in {"mobile", "wide"} PROVE MenuIInv'
  BY <1>2 DEF MenuIInv, MenusSafe, EscapeTakesWhatIsOpen, EntriesAreReachable, Later, pageMarks
<1>3. header \in Headers /\ room \in Rooms /\ device \in {"mobile", "wide"}
  BY DEF MenuIInv
<1>4. CASE UNCHANGED menuVars
  <2>1. Open' = Open /\ Items' = Items
    BY <1>4 DEF menuVars, Open, Items
  <2> QED
    BY <1>4, <2>1 DEF menuVars, MenuIInv, MenusSafe, EscapeTakesWhatIsOpen, EntriesAreReachable, Overflowing
<1>5. CASE ToggleMenu \/ ToggleLang \/ ToggleSubmenu \/ ToggleBell \/ (\E i \in Clickable : ToggleGroup(i)) \/ ClickLink
           \/ ClickOutside \/ Navigated \/ SwitchLanguage \/ LanguageApplied \/ Escape
  <2>1. Later /\ UNCHANGED row
    BY <1>5 DEF ToggleMenu, ToggleLang, ToggleSubmenu, ToggleBell, ToggleGroup, ClickLink, ClickOutside, Navigated,
       SwitchLanguage, LanguageApplied, Escape
  <2> QED
    BY <1>2, <1>3, <2>1 DEF row
<1>6. CASE \/ \E d \in {"mobile", "wide"}, n \in Rooms : Resize(d, n)
           \/ LoginChanges \/ \E h \in Headers : Resolves(h)
  BY <1>2, <1>3, <1>6 DEF Resize, LoginChanges, Resolves
<1> QED
  BY <1>1, <1>4, <1>5, <1>6 DEF MenuNext

(* Escape always takes something that is open and finds all of it, and the *)
(* row holds what it shows, however many menus, layers and widths there    *)
(* are (navbar.component.ts, dismiss.ts).                                  *)
THEOREM MenusAreSafe == MenuSpec => []MenusSafe
<1>1. MenuInit => MenuIInv
  <2> SUFFICES ASSUME MenuInit PROVE MenuIInv
    OBVIOUS
  <2>1. pile \in Seq({"dropdowns", "menu", "bell"}) /\ IsInjective(pile)
    BY EmptyToSet DEF MenuInit
  <2> QED
    BY <2>1 DEF MenuInit, MenuIInv, MenusSafe, EscapeTakesWhatIsOpen, EntriesAreReachable
<1>2. MenuIInv => MenusSafe
  BY DEF MenuIInv
<1> QED
  BY <1>1, <1>2, MenusKeep, PTL DEF MenuSpec
=============================================================================
