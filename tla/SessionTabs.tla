---------------------------- MODULE SessionTabs ----------------------------
(***************************************************************************)
(* The login session of the browser: several tabs over one localStorage.   *)
(* Each tab keeps the token in memory (TokenService), a timer that ends it *)
(* at its expiry, the notice that warns of it (SessionExpiryNoticeService) *)
(* and the page it shows behind its two guards: authGuard, which lets no   *)
(* one in without a session, and leaveGuard, which asks before it lets go  *)
(* of unsaved edits.  No tab listens to the storage.                       *)
(* A token is the number of the login that minted it, 0 stands for none,   *)
(* and time is counted in units of the smallest delay of the code.         *)
(***************************************************************************)
EXTENDS Naturals, Sequences

CONSTANTS
  Tabs,        \* the tabs of one browser
  MaxLogins,   \* bound: logins in a behaviour
  MaxActs,     \* bound: things the users of the tabs do, logins included
  MaxTime,     \* bound: the last instant
  Life,        \* how long the server lets a token live
  WarnBefore,  \* AVVISO_PRIMA_MS
  MinLead,     \* the 5 s under which no warning is planned
  Slack,       \* the 1 s by which an end may precede the expiry and still be one
  MaxDelay     \* the longest delay setTimeout takes

ASSUME SessionAssumption ==
  /\ {MaxLogins, MaxActs, MaxTime, Life, WarnBefore, MinLead, Slack, MaxDelay} \subseteq Nat
  /\ MaxDelay > 0 /\ MinLead > 0 /\ MaxTime > 0

VARIABLES
  now,
  exp,      \* expiry of each token minted so far
  revoked,  \* the server refuses the tokens up to this one
  storage,  \* localStorage[bearerToken]
  tab,      \* what each tab holds, see TabState
  refused,  \* history: tokens whose 401 a tab has received
  ended,    \* history: how the last session of a tab ended
  toast,    \* history: the last notice a tab has shown
  moves     \* counts what MaxActs bounds

vars == <<now, exp, revoked, storage, tab, refused, ended, toast, moves>>

Unset == 0   \* no token, no instant
Tokens == 1..MaxLogins
Times == 0..(MaxTime + Life + MaxDelay)
Pages == {"public", "reserved", "login"}

\* token, its timer, the expiry the notice has seen, its warning timer, the page
\* and where the login returns to, the login and the doomed request under way, the
\* logout dialog, the navigation that follows the end of a session, the unsaved edits
\* of the page and (history) why the page was kept at such an end
TabState ==
  [token : Tokens \union {Unset}, timer : Times, last : Times, warn : Times,
   page : Pages, back : Pages, login : Tokens \union {Unset},
   req : Tokens \union {Unset},
   asking : BOOLEAN, nav : {"none", "logout", "expelled"}, dirty : BOOLEAN,
   stay : {"no", "refused", "crossed"}]

Fresh(page, back) ==
  [token |-> Unset, timer |-> Unset, last |-> Unset, warn |-> Unset, page |-> page, back |-> back,
   login |-> Unset, req |-> Unset, asking |-> FALSE,
   nav |-> "none", dirty |-> FALSE, stay |-> "no"]

\* What the history variables hold until something happens to a session.
Nothing == [cause |-> "none", at |-> Unset]
Silent == [kind |-> "none", expiry |-> Unset]

Init ==
  /\ now = 1 /\ exp = <<>> /\ revoked = 0 /\ storage = Unset
  /\ tab = [t \in Tabs |-> Fresh("login", "reserved")]
  /\ refused = {}
  /\ ended = [t \in Tabs |-> Nothing]
  /\ toast = [t \in Tabs |-> Silent]
  /\ moves = 0

\* A thing a user does, within the bound.
Act == moves < MaxActs /\ moves' = moves + 1

-----------------------------------------------------------------------------
(* TokenService *)

ExpiresAt(s) == IF s.token = Unset THEN Unset ELSE exp[s.token]
Live(k) == k # Unset /\ exp[k] > now
Earlier(a, b) == IF a < b THEN a ELSE b

Emptied(s) == [s EXCEPT !.token = Unset, !.timer = Unset]
Scheduled(expiry) == Earlier(expiry, now + MaxDelay)
Holding(s, k) == [s EXCEPT !.token = k, !.timer = Scheduled(exp[k])]

EndedBy(t, cause) ==
  IF tab[t].token = Unset THEN UNCHANGED ended
  ELSE ended' = [ended EXCEPT ![t] = [cause |-> cause, at |-> now]]

\* store(): a token that is over empties the tab and, through clear(), the storage.
Store(t, s, k) ==
  /\ tab' = [tab EXCEPT ![t] = IF Live(k) THEN Holding(s, k) ELSE Emptied(s)]
  /\ storage' = IF Live(k) THEN k ELSE Unset
  /\ IF Live(k) THEN UNCHANGED ended ELSE EndedBy(t, "badLogin")

\* discard(): with onlyIfOwn the storage loses only the token of this very tab.
Discard(t, s, onlyIfOwn, cause) ==
  /\ tab' = [tab EXCEPT ![t] = Emptied(s)]
  /\ storage' = IF onlyIfOwn /\ storage # tab[t].token THEN storage ELSE Unset
  /\ EndedBy(t, cause)


\* The timer of the expiry, which takes long delays in stages.
TimerFires(t) ==
  LET s == tab[t] IN
  /\ s.timer # Unset /\ s.timer <= now
  /\ \/ /\ ExpiresAt(s) <= now
        /\ Discard(t, s, TRUE, "expired")
     \/ /\ ExpiresAt(s) > now
        /\ tab' = [tab EXCEPT ![t].timer = Scheduled(ExpiresAt(s))]
        /\ UNCHANGED <<storage, ended>>
  /\ UNCHANGED <<now, exp, revoked, refused, toast, moves>>

-----------------------------------------------------------------------------
(* Pages and their guards *)

\* A page that is left takes its edits and what was under way on it along.
Left(s) == [s EXCEPT !.nav = "none", !.dirty = FALSE, !.stay = "no"]

\* authGuard: a reserved page sends to the login, which comes back to it.
GuardedBy(s, page) ==
  IF page = "reserved" /\ s.token = Unset
  THEN [Left(s) EXCEPT !.page = "login", !.back = "reserved"]
  ELSE [Left(s) EXCEPT !.page = page, !.back = "public"]

\* The user leaves, and answers leaveGuard for it if there are edits: to refuse is to
\* do nothing. A redirect to the login that still waits is superseded.
GoTo(t, page) ==
  /\ page # tab[t].page /\ tab[t].nav # "logout"
  /\ tab' = [tab EXCEPT ![t] = GuardedBy(@, page)]
  /\ Act
  /\ UNCHANGED <<now, exp, revoked, storage, refused, ended, toast>>

\* An editor of the page gets, saves or drops its changes.
Edit(t) ==
  /\ tab[t].page # "login" /\ tab[t].nav = "none"
  /\ tab' = [tab EXCEPT ![t].dirty = ~ @]
  /\ Act
  /\ UNCHANGED <<now, exp, revoked, storage, refused, ended, toast>>

\* leaveGuard asks for the edits and the user stays. After a logout the way back to
\* the current URL is then a navigation to where one is, which the router skips.
Stay(t) ==
  /\ tab[t].nav # "none" /\ tab[t].dirty
  /\ tab' = [tab EXCEPT ![t].nav = "none", ![t].stay = "refused"]
  /\ UNCHANGED <<now, exp, revoked, storage, refused, ended, toast, moves>>

\* A tab is opened or reloaded: the memory is new, restore() reads the storage
\* before the guard of the first page.
Boot(t) ==
  LET s == Fresh(tab[t].page, tab[t].back)
      r == IF Live(storage) THEN Holding(s, storage) ELSE s
  IN /\ tab' = [tab EXCEPT ![t] = IF s.page = "login" THEN r ELSE GuardedBy(r, s.page)]
     /\ storage' = IF Live(storage) THEN storage ELSE Unset
     /\ ended' = [ended EXCEPT ![t] = Nothing]
     /\ toast' = [toast EXCEPT ![t] = Silent]
     /\ Act
     /\ UNCHANGED <<now, exp, revoked, refused>>

-----------------------------------------------------------------------------
(* Login and logout *)

\* The form is locked while its answer is awaited; the server mints the token.
SubmitLogin(t) ==
  /\ tab[t].page = "login" /\ tab[t].login = Unset
  /\ Len(exp) < MaxLogins
  /\ exp' = Append(exp, now + Life)
  /\ tab' = [tab EXCEPT ![t].login = Len(exp')]
  /\ Act
  /\ UNCHANGED <<now, revoked, storage, refused, ended, toast>>

\* onLoggedIn returns to the page asked for, if the login page is still there.
Returned(s) == IF s.page = "login" THEN [s EXCEPT !.page = s.back, !.back = "public"] ELSE s

\* The answer: the token is stored even if the page has gone meanwhile.
LoginAnswer(t) ==
  LET k == tab[t].login
      s == [tab[t] EXCEPT !.login = Unset]
  IN /\ k # Unset
     /\ Store(t, IF Live(k) THEN Returned(s) ELSE s, k)
     /\ UNCHANGED <<now, exp, revoked, refused, toast, moves>>

LoginFails(t) ==
  /\ tab[t].login # Unset
  /\ tab' = [tab EXCEPT ![t].login = Unset]
  /\ UNCHANGED <<now, exp, revoked, storage, refused, ended, toast, moves>>

\* onLogout waits for the dialog: what it then clears is the session of that moment.
AskLogout(t) ==
  /\ tab[t].token # Unset /\ ~ tab[t].asking /\ tab[t].nav = "none"
  /\ tab' = [tab EXCEPT ![t].asking = TRUE]
  /\ Act
  /\ UNCHANGED <<now, exp, revoked, storage, refused, ended, toast>>

CancelLogout(t) ==
  /\ tab[t].asking
  /\ tab' = [tab EXCEPT ![t].asking = FALSE]
  /\ UNCHANGED <<now, exp, revoked, storage, refused, ended, toast, moves>>

ConfirmLogout(t) ==
  /\ tab[t].asking
  /\ Discard(t, [tab[t] EXCEPT !.asking = FALSE, !.nav = "logout"], FALSE, "logout")
  /\ UNCHANGED <<now, exp, revoked, refused, toast, moves>>

\* It leaves the page, if leaveGuard lets it, and comes back, so that authGuard speaks
\* again.
ComeBack(t) ==
  /\ tab[t].nav = "logout"
  /\ tab' = [tab EXCEPT ![t] = IF @.page = "login" THEN Left(@) ELSE GuardedBy(@, @.page)]
  /\ UNCHANGED <<now, exp, revoked, storage, refused, ended, toast, moves>>

-----------------------------------------------------------------------------
(* Calls to the backend and their 401 *)

\* build_api_Headers reads the token when the request leaves.  Only a request that
\* will be refused is followed: an answer other than a 401 changes nothing here, and
\* a verdict given later than this is that of a request sent later.
Send(t) ==
  /\ tab[t].req = Unset /\ tab[t].token # Unset
  /\ ~ Live(tab[t].token) \/ tab[t].token <= revoked
  /\ tab' = [tab EXCEPT ![t].req = tab[t].token]
  /\ Act
  /\ UNCHANGED <<now, exp, revoked, storage, refused, ended, toast>>

\* apiErrorInterceptor clears the session, whatever token the request had carried.
Rejected(t) ==
  /\ tab[t].req # Unset
  /\ refused' = refused \union {tab[t].req}
  /\ Discard(t, [tab[t] EXCEPT !.req = Unset], FALSE, "refused")
  /\ UNCHANGED <<now, exp, revoked, toast, moves>>

\* The server revokes all that was minted (erasure of the personal data).
Revoke ==
  /\ revoked < Len(exp)
  /\ revoked' = Len(exp)
  /\ UNCHANGED <<now, exp, storage, tab, refused, ended, toast, moves>>

-----------------------------------------------------------------------------
(* SessionExpiryNoticeService *)

NoticePending(t) == ExpiresAt(tab[t]) # tab[t].last

\* A slip in which any end of a session is taken for an expiry.
AlwaysUp(t) == TRUE
TimeIsUp(t) == now + Slack >= tab[t].last

\* A reserved page starts for the login. While the navigations of a logout are under
\* way that redirect supersedes the first, whose second, to the URL one is at, cancels
\* it in turn: unless the effect comes late, the two ends cross and the page stays.
Redirected(s) ==
  IF s.page # "reserved" THEN {s}
  ELSE IF s.nav = "logout" THEN {s, [s EXCEPT !.nav = "none", !.stay = "crossed"]}
  ELSE {[s EXCEPT !.nav = "expelled"]}

\* The effect saw the session go: told only if its time had come, and then a
\* reserved page is to be left for the login.
NoticeEnd(t) ==
  LET s == [tab[t] EXCEPT !.warn = Unset, !.last = Unset]
  IN /\ NoticePending(t) /\ ExpiresAt(tab[t]) = Unset
     /\ \E r \in IF TimeIsUp(t) THEN Redirected(s) ELSE {s} : tab' = [tab EXCEPT ![t] = r]
     /\ toast' = IF TimeIsUp(t) THEN [toast EXCEPT ![t] = [kind |-> "expired", expiry |-> tab[t].last]] ELSE toast
     /\ UNCHANGED <<now, exp, revoked, storage, refused, ended, moves>>

\* The redirect goes through, if leaveGuard lets it.
Expel(t) ==
  /\ tab[t].nav = "expelled"
  /\ tab' = [tab EXCEPT ![t] = [Left(@) EXCEPT !.page = "login", !.back = "reserved"]]
  /\ UNCHANGED <<now, exp, revoked, storage, refused, ended, toast, moves>>

\* The effect saw a session begin or change: its warning is planned if there is time.
NoticeBegin(t) ==
  LET expiry == ExpiresAt(tab[t]) IN
  /\ NoticePending(t) /\ expiry # Unset
  /\ tab' = [tab EXCEPT ![t].last = expiry, ![t].stay = "no",
                        ![t].warn = IF expiry >= now + WarnBefore + MinLead
                                    THEN Earlier(expiry - WarnBefore, now + MaxDelay) ELSE Unset]
  /\ ended' = [ended EXCEPT ![t] = Nothing]
  /\ toast' = [toast EXCEPT ![t] = Silent]
  /\ UNCHANGED <<now, exp, revoked, storage, refused, moves>>

Warn(t) ==
  /\ tab[t].warn # Unset /\ tab[t].warn <= now
  /\ tab' = [tab EXCEPT ![t].warn = Unset]
  /\ toast' = IF NoticePending(t) THEN toast
              ELSE [toast EXCEPT ![t] = [kind |-> "expiring", expiry |-> tab[t].last]]
  /\ UNCHANGED <<now, exp, revoked, storage, refused, ended, moves>>

\* Effects run within the turn that changed what they read: time waits for them.
Tick ==
  /\ now < MaxTime /\ \A t \in Tabs : ~ NoticePending(t)
  /\ now' = now + 1
  /\ UNCHANGED <<exp, revoked, storage, tab, refused, ended, toast, moves>>

Step(t) ==
  \/ TimerFires(t) \/ Boot(t) \/ Edit(t) \/ Stay(t) \/ \E page \in Pages : GoTo(t, page)
  \/ SubmitLogin(t) \/ LoginAnswer(t) \/ LoginFails(t)
  \/ AskLogout(t) \/ CancelLogout(t) \/ ConfirmLogout(t) \/ ComeBack(t)
  \/ Send(t) \/ Rejected(t)
  \/ NoticeEnd(t) \/ Expel(t) \/ NoticeBegin(t) \/ Warn(t)

Next == Revoke \/ Tick \/ \E t \in Tabs : Step(t)

\* The navigation after an end of a session, where leaveGuard has nothing to ask.
LeavesUnasked(t) == ~ tab[t].dirty /\ (ComeBack(t) \/ Expel(t))

\* The browser runs due timers, effects and navigations; nothing is owed by the user,
\* the answer to leaveGuard included.
Fairness ==
  \A t \in Tabs : WF_vars(TimerFires(t)) /\ WF_vars(NoticeEnd(t)) /\ WF_vars(NoticeBegin(t)) /\ WF_vars(LeavesUnasked(t))

Spec == Init /\ [][Next]_vars /\ Fairness

-----------------------------------------------------------------------------
\* Types, and timers that belong to a session: a tab without a token has no timer,
\* one with a token has one that is never later than its expiry.
Sound(s) ==
  /\ s \in TabState
  /\ {s.token, s.login, s.req} \subseteq 0..Len(exp)
  /\ IF s.token = Unset THEN s.timer = Unset ELSE s.timer \in 1..exp[s.token]
Ends == [cause : {"none", "expired", "logout", "refused", "badLogin"}, at : 0..MaxTime]
Notices == [kind : {"none", "expired", "expiring"}, expiry : Times]

TypeOK ==
  /\ now \in 1..MaxTime /\ moves \in 0..MaxActs
  /\ exp \in Seq(Times \ {Unset}) /\ Len(exp) <= MaxLogins /\ revoked \in 0..Len(exp)
  /\ storage \in 0..Len(exp) /\ refused \subseteq 1..Len(exp)
  /\ tab \in [Tabs -> TabState] /\ \A t \in Tabs : Sound(tab[t])
  /\ ended \in [Tabs -> Ends] /\ toast \in [Tabs -> Notices]

\* An end nobody has been told of yet is of this very instant: time waits for the notice.
EndsAreNew ==
  \A t \in Tabs : tab[t].token = Unset /\ tab[t].last # Unset => ended[t].at = now

SessionIInv == TypeOK /\ EndsAreNew

\* A session whose time is not over, in the storage or in a tab, goes only through
\* a logout, a 401 or a login that comes too late (or, in a tab, its reload): the
\* timer of one tab never takes the newer login another tab has stored.
LiveSessionKept ==
  [][/\ Live(storage) /\ storage' = Unset =>
          \E t \in Tabs : ConfirmLogout(t) \/ Rejected(t) \/ LoginAnswer(t)
     /\ \A t \in Tabs : Live(tab[t].token) /\ tab'[t].token # tab[t].token =>
          ConfirmLogout(t) \/ Rejected(t) \/ LoginAnswer(t) \/ Boot(t)]_vars

\* "Your session has expired" is said only if a session ended when the time of the
\* announced one was up (give or take the slack), however late the effect runs: a
\* logout, a 401 or another login before that time says nothing.
\* "It is about to expire" is said only of the session the tab has.
NoticesAreTrue ==
  [][\A t \in Tabs : toast'[t] # toast[t] /\ toast'[t].kind # "none" =>
       \/ /\ toast'[t].kind = "expired" /\ tab[t].token = Unset
          /\ ended[t].at + Slack >= toast'[t].expiry
       \/ /\ toast'[t].kind = "expiring" /\ ExpiresAt(tab[t]) = toast'[t].expiry]_vars

\* Sessions end for a cause, and the notices say the true one.
SessionSafe == LiveSessionKept /\ NoticesAreTrue

\* No tab keeps an expired token, however long its life and however many stages
\* its timer takes.
SessionsExpire ==
  \A t \in Tabs, k \in Tokens :
    (tab[t].token = k /\ ~ Live(k)) ~> (tab[t].token # k)

\* A page is kept at the end of its session: by its user, while leaveGuard asks or after
\* a refusal, or because a logout and the expiry crossed.
Kept(s) == s.stay # "no" \/ (s.nav # "none" /\ s.dirty)

\* A tab whose session expired or was closed does not stay on a reserved page, unless
\* its unsaved edits or two ends at once keep it there.
\* After a 401 it does, until the next navigation: the notice takes that end for a
\* logout (SessionExpiryNoticeService acts only when the time is up).
ReservedPageIsLeft ==
  \A t \in Tabs :
    (tab[t].page = "reserved" /\ tab[t].token = Unset /\ ended[t].cause \in {"expired", "logout"})
      ~> (\/ tab[t].page # "reserved" \/ tab[t].token # Unset \/ Kept(tab[t])
          \/ ended[t].cause \notin {"expired", "logout"})


\* What the comment of the interceptor says of a 401: the rejected token goes "at
\* once, in every tab".  The other tabs keep it in memory.
RejectedEverywhere == \A t \in Tabs : tab[t].token \notin refused
=============================================================================
