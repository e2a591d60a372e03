---------------------------- MODULE LocalizedPage ----------------------------
(***************************************************************************)
(* The page a visitor sees in the browser: the address, the language, the  *)
(* content, the head of the document and the shell around it.  A           *)
(* navigation passes the guards and the resolver before it is shown and a  *)
(* newer one supersedes it.  The language is asked for by the guard and by *)
(* the page once it is there (TranslateService); header and footer are     *)
(* resolved again for every language, login and identity                   *)
(* (ShellNavService); the head is rewritten by an effect (PageMetaService).*)
(***************************************************************************)
EXTENDS Naturals

CONSTANTS
  Langs,      \* the languages of the site
  DefaultLang,
  Places,     \* the pages of the site, the ones of errors apart
  Dated,      \* the pages with a date of their own
  Described,  \* the pages with a description of their own
  Imageless,  \* the pages that declare to have no image
  SiteDescribed, \* the languages the site has a description of its own for
  HasHandle,  \* the identity of the site names a Twitter profile
  Parts,      \* what the shell resolves: header, footer, icon, copyright
  MaxTrips,   \* bound: navigations of the user
  MaxSignIns  \* bound: logins and logouts

ASSUME LocalizedPageAssumption ==
  /\ DefaultLang \in Langs /\ {"error", "blank"} \cap Places = {} /\ "none" \notin Langs
  /\ Dated \subseteq Places /\ Described \subseteq Places /\ Imageless \subseteq Places
  /\ SiteDescribed \subseteq Langs /\ HasHandle \in BOOLEAN
  /\ MaxTrips \in Nat /\ MaxSignIns \in Nat

VARIABLES
  shown,     \* the address of the page that is there
  trip,      \* the navigation under way
  lang,      \* TranslateService.currentLang
  asked,     \* history: the language of the last call of setLanguage
  loads,     \* the catalogues under way: last is the one setLanguageToken names
  head,      \* the tags of the head: of now, of an earlier page, language or identity, or not there
  signedIn,  \* TokenService.isLoggedIn
  identity,  \* the identity of the site, a resource that follows language and login
  shell,     \* ShellNavService: the key and what each part was resolved for
  runs,      \* parts being resolved: last are those of the current generation
  effects,   \* effects of Angular to be run
  done       \* counts what MaxTrips and MaxSignIns bound

pageVars == <<shown, trip, lang, asked, loads, head, signedIn, identity, shell, runs,
              effects, done>>

\* The pages of each language have addresses of their own; an address that is
\* no page shows the page of errors in the language of its prefix.
Url == [page : Places \union {"error"}, in : Langs]
At(page, in) == [page |-> page, in |-> in]
Blank == At("blank", DefaultLang) \* before the first page
PageSteps == {"guards", "catalog", "content"}
NoTrip == [to |-> Blank, step |-> "none"]
\* The tags every page writes (title, robots, canonical, languages, JSON-LD) are one;
\* description, date of update, image with its card, and the twitter:site of the identity.
Tags == {"own", "description", "updated", "image", "site"}
Heads == [Tags -> {"now", "old", "none"}]
Aged == [t \in Tags |-> IF head[t] = "none" THEN "none" ELSE "old"]
Effects == {"language", "head", "shell"}

Load(in, awaited) == [in |-> in, fallback |-> FALSE, last |-> TRUE, awaited |-> awaited]

\* What header and footer depend on.
Key == [in |-> lang, login |-> signedIn, identity |-> identity = "present"]
NoShell == [in |-> "none", login |-> FALSE, identity |-> FALSE]

\* The head the server sends with a page, and the one of index.html.
Sent(u) ==
  [t \in Tags |-> IF (t = "image" /\ u.page \in Imageless) \/ (t = "site" /\ ~HasHandle) THEN "none" ELSE "now"]
Static == [t \in Tags |-> IF t = "site" THEN "none" ELSE "old"]

\* The initialisers have ended: the catalogue of the default language is here or
\* has failed, the session is restored and the router has begun with the guards of
\* the address.  The shell is what the server sent with a page, resolved for its
\* language or still for the default one, or what the initialiser resolved, or empty.
PageInit ==
  /\ shown = Blank /\ lang = DefaultLang
  /\ \E u \in Url :
       /\ IF u.page # "error" /\ u.in # DefaultLang
            THEN trip = [to |-> u, step |-> "catalog"] /\ asked = u.in /\ loads = {Load(u.in, TRUE)}
            ELSE trip = [to |-> u, step |-> "content"] /\ asked = DefaultLang /\ loads = {}
       /\ \E l \in {DefaultLang, "none"} \union (IF u.page = "error" THEN {} ELSE {u.in}), known \in BOOLEAN :
            shell = [key |-> [in |-> DefaultLang, login |-> FALSE, identity |-> FALSE],
                     part |-> [p \in Parts |-> [in |-> l, login |-> FALSE, identity |-> known /\ l # "none"]]]
       /\ head \in {Sent(u), Static}
  /\ signedIn \in BOOLEAN /\ identity = "loading"
  /\ runs = {} /\ effects = {"shell"} /\ done = [trips |-> 0, logins |-> 0]

\* The scheduler runs the effects before the next answer or the next click; the
\* router goes on in microtasks, before or after them.
Ticked == effects = {}

-----------------------------------------------------------------------------
(* The language *)

SetLanguage(l, awaited) ==
  /\ asked' = l
  /\ loads' = {[x EXCEPT !.last = FALSE] : x \in loads} \union {Load(l, awaited)}

\* A slip: an answer is taken whatever was asked after it.
AnyAnswer(load) == TRUE

\* An answer to an older call is dropped.
Taken(load) == load.last

\* Whoever awaits setLanguage goes on, also when its answer is dropped.
Returns(load) == load.awaited

\* The page of errors follows every change of the language; a page looks once, when it is there.
Watchers == IF shown.page = "error" THEN Effects ELSE {"shell", "head"}

LoadEnds(load, ok) ==
  LET retry == ~ok /\ ~load.fallback /\ load.in # DefaultLang
      taken == ~retry /\ Taken(load)
  IN /\ Ticked
     /\ loads' = (loads \ {load}) \union (IF retry THEN {[load EXCEPT !.fallback = TRUE]} ELSE {})
     /\ trip' = IF ~retry /\ Returns(load) THEN [trip EXCEPT !.step = "content"] ELSE trip
     /\ lang' = IF taken THEN load.in ELSE lang
     /\ identity' = IF lang' # lang THEN "loading" ELSE identity
     /\ head' = IF lang' # lang THEN Aged ELSE head
     /\ effects' = effects \union (IF lang' # lang THEN Watchers ELSE IF taken THEN {"head"} ELSE {})
     /\ UNCHANGED <<shown, asked, signedIn, shell, runs, done>>

LanguageEffect ==
  /\ "language" \in effects /\ effects' = effects \ {"language"}
  /\ IF shown.in # lang THEN SetLanguage(shown.in, FALSE) ELSE UNCHANGED <<asked, loads>>
  /\ UNCHANGED <<shown, trip, lang, head, signedIn, identity, shell, runs, done>>

-----------------------------------------------------------------------------
(* Navigations *)

\* To the page already there, a navigation only supersedes the one under way.
Go(u) ==
  /\ Ticked /\ done.trips < MaxTrips /\ done' = [done EXCEPT !.trips = @ + 1]
  /\ trip' = IF u = shown THEN NoTrip ELSE [to |-> u, step |-> "guards"]
  /\ loads' = {[x EXCEPT !.awaited = FALSE] : x \in loads}
  /\ UNCHANGED <<shown, lang, asked, head, signedIn, identity, shell, runs, effects>>

\* languageSyncGuard, on every page but the one of errors.
Guards ==
  /\ trip.step = "guards"
  /\ IF trip.to.page # "error" /\ trip.to.in # lang
       THEN SetLanguage(trip.to.in, TRUE) /\ trip' = [trip EXCEPT !.step = "catalog"]
       ELSE UNCHANGED <<asked, loads>> /\ trip' = [trip EXCEPT !.step = "content"]
  /\ UNCHANGED <<shown, lang, head, signedIn, identity, shell, runs, effects, done>>

Activate ==
  /\ trip.step = "content"
  /\ shown' = trip.to /\ trip' = NoTrip
  /\ head' = IF shown = Blank THEN head ELSE Aged
  /\ effects' = effects \union {"language", "head"}
  /\ UNCHANGED <<lang, asked, loads, signedIn, identity, shell, runs, done>>

\* A content that is not there, or not now, shows the page of errors, which has
\* one address for all languages.
ContentRefused ==
  /\ trip.step = "content" /\ trip.to.page # "error"
  /\ trip' = [to |-> At("error", DefaultLang), step |-> "guards"]
  /\ UNCHANGED <<shown, lang, asked, loads, head, signedIn, identity, shell, runs, effects, done>>

-----------------------------------------------------------------------------
(* Head and shell *)

\* setPageMeta, in the browser: what the page or the site has something to say of is
\* written; the image, which only the server can make, goes if the page has none, and
\* is otherwise left as it is, like all that is not written.
Written ==
  {"own"} \union {t \in {"description"} : shown.page \in Described \/ lang \in SiteDescribed}
          \union {t \in {"updated"} : shown.page \in Dated}
          \union {t \in {"site"} : HasHandle /\ identity = "present"}
PageMeta ==
  [t \in Tags |-> IF t \in Written THEN "now"
                 ELSE IF t = "image" /\ shown.page \in Imageless THEN "none" ELSE head[t]]

\* The page of errors writes its title and nothing else.
HeadEffect ==
  /\ "head" \in effects /\ effects' = effects \ {"head"}
  /\ head' = IF shown.page \in Places THEN PageMeta ELSE head
  /\ UNCHANGED <<shown, trip, lang, asked, loads, signedIn, identity, shell, runs, done>>

Resolve ==
  /\ shell' = [shell EXCEPT !.key = Key]
  /\ runs' = {[r EXCEPT !.last = FALSE] : r \in runs} \union {[part |-> p, for |-> Key, last |-> TRUE] : p \in Parts}

LastRound(r) == r.last

ShellEffect ==
  /\ "shell" \in effects /\ effects' = effects \ {"shell"}
  /\ IF Key = shell.key THEN UNCHANGED <<shell, runs>> ELSE Resolve
  /\ UNCHANGED <<shown, trip, lang, asked, loads, head, signedIn, identity, done>>

\* A part that fails is emptied, whatever the others do.
PartEnds(r, ok) ==
  /\ Ticked /\ runs' = runs \ {r}
  /\ shell' = IF LastRound(r) THEN [shell EXCEPT !.part[r.part] = IF ok THEN r.for ELSE NoShell] ELSE shell
  /\ UNCHANGED <<shown, trip, lang, asked, loads, head, signedIn, identity, effects, done>>

IdentityEnds(found) ==
  /\ Ticked /\ identity = "loading" /\ identity' = found /\ head' = Aged
  /\ effects' = effects \union {"shell", "head"}
  /\ UNCHANGED <<shown, trip, lang, asked, loads, signedIn, shell, runs, done>>

Sign ==
  /\ Ticked /\ done.logins < MaxSignIns /\ done' = [done EXCEPT !.logins = @ + 1]
  /\ signedIn' = ~signedIn /\ identity' = "loading" /\ head' = Aged
  /\ effects' = effects \union {"shell", "head"}
  /\ UNCHANGED <<shown, trip, lang, asked, loads, shell, runs>>

PageNext ==
  \/ \E load \in loads, ok \in BOOLEAN : LoadEnds(load, ok)
  \/ LanguageEffect \/ HeadEffect \/ ShellEffect
  \/ Guards \/ Activate \/ ContentRefused
  \/ \E r \in runs, ok \in BOOLEAN : PartEnds(r, ok)
  \/ \E found \in {"present", "absent"} : IdentityEnds(found)
  \/ Sign
  \/ \E u \in Url : Go(u)

PageSpec == PageInit /\ [][PageNext]_pageVars

-----------------------------------------------------------------------------
(* Properties *)

PageTypeOK ==
  /\ {shown, trip.to} \subseteq Url \union {Blank} /\ {lang, asked} \subseteq Langs
  /\ trip.step \in PageSteps \union {"none"}
  /\ loads \subseteq [in : Langs, fallback : BOOLEAN, last : BOOLEAN, awaited : BOOLEAN]
  /\ identity \in {"loading", "present", "absent"} /\ effects \subseteq Effects /\ head \in Heads
  /\ \A r \in runs : r.part \in Parts

Rest == trip = NoTrip /\ loads = {} /\ effects = {} /\ runs = {} /\ identity # "loading"

\* Of several calls of setLanguage the last one decides, in whatever order the
\* catalogues come.
LastAskedWins == loads = {} => lang = asked

\* With nothing under way, header and footer are those of the language and the login
\* of now, with the identity if there is one, or empty: never the answer to an older
\* state, however late it came.
ShellIsCurrent ==
  Rest => \A p \in Parts : LET for == shell.part[p] IN
            for = NoShell \/ (for.in = lang /\ for.login = signedIn /\ (identity = "present" => for.identity))

\* With nothing under way, no tag that the page, the site or the identity has something
\* to say of is left from an earlier page, an earlier language or the time before the
\* identity was known, and a page without an image shows that of no other.  What none
\* of them has to say of is left: the image of a page that has one, too.
HeadIsOfThePage ==
  Rest /\ shown.page \in Places =>
    /\ head["own"] = "now"
    /\ shown.page \in Described \/ lang \in SiteDescribed => head["description"] = "now"
    /\ shown.page \in Dated => head["updated"] = "now"
    /\ shown.page \in Imageless => head["image"] = "none"
    /\ HasHandle /\ identity = "present" => head["site"] = "now"

\* Once all answers have come, in any order, language, frame and head of the page are
\* those of the last thing asked for (translate.service.ts, page-meta.service.ts, identity).
PageSafe == PageTypeOK /\ LastAskedWins /\ ShellIsCurrent /\ HeadIsOfThePage

\* The call that counts is for the language last asked, which is there when it has ended.
LastLoadIsAsked ==
  /\ \A x \in loads : x.last => x.in = asked
  /\ (\A x \in loads : ~x.last) => lang = asked

\* A key that is not resolved has its effect to come; the parts of one that is are there, or
\* being resolved, or are those of the server for a language that is on its way.
ShellKeys == [in : Langs \union {"none"}, login : BOOLEAN, identity : BOOLEAN]
ResolvedFor(for, key) ==
  for = NoShell \/ (for.in = key.in /\ for.login = key.login /\ (key.identity => for.identity))
ShellFollows ==
  /\ shell \in [key : ShellKeys, part : [Parts -> ShellKeys]]
  /\ runs \subseteq [part : Parts, for : ShellKeys, last : BOOLEAN]
  /\ \A r \in runs : r.last => r.for = shell.key
  /\ "shell" \notin effects => Key = shell.key
  /\ Key = shell.key =>
       \A p \in Parts :
         ResolvedFor(shell.part[p], shell.key) \/ (\E r \in runs : r.last /\ r.part = p) \/ asked # lang

HeadFollows ==
  \/ "head" \in effects \/ shown.page \notin Places
  \/ /\ \A t \in Written : head[t] = "now"
     /\ shown.page \in Imageless => head["image"] = "none"

PageIInv ==
  /\ PageTypeOK /\ trip \in [to : Url \union {Blank}, step : PageSteps \union {"none"}] /\ signedIn \in BOOLEAN
  /\ LastLoadIsAsked /\ ShellFollows /\ HeadFollows

\* What the token of setLanguage is there for ("lasciando currentLang/<html lang>
\* allineati a una lingua diversa da quella dell'URL corrente"): with nothing under
\* way the language is the one of the address.
LanguageFollowsUrl == Rest => lang = shown.in
=============================================================================
