------------------------------- MODULE SiteTree -------------------------------
(***************************************************************************)
(* The site an author declares (site.ts) and what buildSite makes of it:   *)
(* the page map of every language, the plan of the server, the sitemap and *)
(* the paths of the audits; the routes Angular gets (routing.ts), the      *)
(* legal pages the engine adds and the breadcrumb of every page.  The tree *)
(* is a sequence in the order it is walked, every page with the index of   *)
(* its container; the author declares one page more at every step.         *)
(***************************************************************************)
EXTENDS Naturals, Sequences, FiniteSets, SequencesExt

CONSTANTS
  SiteLangs,    \* availableLanguages, a sequence
  MainLang,     \* defaultLang
  Segments,     \* what paths are made of
  PageTypes,    \* the types of the pages
  Declarations, \* the pages an author may declare: records of PageInput
  Settings,     \* the rest of the definition: records like Definition
  ParamSegs,    \* the segments of a path that are parameters
  Drafts,       \* the trees the author starts from
  Catalog,      \* what dynamicParams answers: SlugNodes in order, each with its parent
  MaxFlattened, \* MAX_FLATTENED_ENTRIES
  MaxPages      \* bound: pages declared

VARIABLES
  pages,        \* SiteDefinition.pages
  definition,   \* the other fields of SiteDefinition
  built         \* BuiltSite, or that buildSite has thrown

siteVars == <<pages, definition, built>>

Tongues == ToSet(SiteLangs)
NoType == "none"

\* A path is a sequence of segments for every language that has one; a literal path
\* has the same for all.  An external page has none.
IsPath(path) == DOMAIN path \subseteq Tongues /\ path \in [DOMAIN path -> Seq(Segments)]
PageInput(paths) ==
  [in : Nat, kind : {"parent", "leaf", "external"}, type : PageTypes \union {NoType}, path : paths, enabled : BOOLEAN,
   auth : {"yes", "no", "unset"}, noindex : {"yes", "no", "unset"}, render : {"server", "client"}, catalog : BOOLEAN]
IsPage(page) == page \in PageInput({page.path}) /\ IsPath(page.path)

\* A page is after its container, and only a container holds pages.
IsTree(tree) ==
  /\ tree \in Seq(ToSet(tree))
  /\ \A n \in 1..Len(tree) : IsPage(tree[n]) /\ tree[n].in \in 0..(n - 1)
  /\ \A n \in 1..Len(tree) : tree[n].in # 0 => tree[tree[n].in].kind = "parent"

\* global-settings.schema.json: the default language is one of the supported ones
ASSUME LanguagesAreListed == SiteLangs \in Seq(Tongues) /\ MainLang \in Tongues
ASSUME SegmentsAreKnown == Tongues \union {"policy", "privacy", "cookie"} \subseteq Segments
ASSUME DeclarationsAreTyped == \A page \in Declarations : IsPage(page)
ASSUME DraftsAreTrees == \A tree \in Drafts : IsTree(tree)
ASSUME SettingsAreTyped ==
  \A def \in Settings : /\ DOMAIN def.legal \subseteq {"privacy", "cookie"}
                        /\ \A s \in DOMAIN def.legal : def.legal[s].type \in PageTypes /\ IsPath(def.legal[s].path)

-----------------------------------------------------------------------------
(* Paths *)

\* resolvePagePath: the segment of the language, else of the default one, else none
ResolvePath(path, lang) ==
  IF lang \in DOMAIN path THEN path[lang] ELSE IF MainLang \in DOMAIN path THEN path[MainLang] ELSE <<>>

LangPrefix(lang) == IF lang = MainLang THEN <<>> ELSE <<lang>>

HasParam(path) == \E i \in DOMAIN path : path[i] \in ParamSegs

\* The containers of page n, from the outermost.
Chain(tree, n) ==
  LET up[k \in 0..n] == IF k = 0 THEN <<>> ELSE up[tree[k].in] \o <<k>> IN up[tree[n].in]

FullPath(tree, n, lang) ==
  LET at[k \in 0..n] == IF k = 0 THEN LangPrefix(lang) ELSE at[tree[k].in] \o ResolvePath(tree[k].path, lang)
  IN at[n]

-----------------------------------------------------------------------------
(* The legal pages, the normal form of the tree *)

\* resolveLegalPages: the slots in use; the cookie policy only for a site with cookies
LegalPages(def) == {s \in DOMAIN def.legal : s # "cookie" \/ def.cookies}

DeclaredTypes(tree) == {tree[n].type : n \in {k \in DOMAIN tree : tree[k].kind # "parent"}}

\* filterManagedLegalPages: a page the project declares itself is its own
Managed(tree, def) == {s \in LegalPages(def) : def.legal[s].type \notin DeclaredTypes(tree)}

\* pathPerLingua: the segment of the project, then that of the engine for the
\* language, then its English one.
LegalPath(s, def) ==
  LET own == def.legal[s].path
      engine == [l \in Tongues |-> IF s = "cookie" THEN <<"cookie">> ELSE <<"privacy">>]
  IN [l \in Tongues |-> IF l \in DOMAIN own THEN own[l] ELSE engine[l]]

\* buildPolicySection: the container of the legal pages, after all the others
PolicySection(tree, def) ==
  LET n == Len(tree) + 1
      slots == SetToSeq(Managed(tree, def))
      Page(kind, in, type, path, noindex) ==
        [in |-> in, kind |-> kind, type |-> type, path |-> path, enabled |-> TRUE, auth |-> "unset",
         noindex |-> noindex, render |-> "server", catalog |-> FALSE]
  IN IF slots = <<>> THEN <<>>
     ELSE <<Page("parent", 0, NoType, [l \in Tongues |-> <<"policy">>], "unset")>> \o
          [i \in DOMAIN slots |-> Page("leaf", n, def.legal[slots[i]].type, LegalPath(slots[i], def), "yes")]

\* A slip in which requiresAuth of a container stays with it.
AuthOfItsOwn(tree) == tree
\* normalizeSitePage: requiresAuth of a container is that of what it holds, unless a
\* page says otherwise.
Inherit(tree) ==
  LET auth[n \in 0..Len(tree)] ==
        IF n = 0 THEN "unset"
        ELSE IF tree[n].auth = "unset" /\ auth[tree[n].in] = "yes" /\ tree[n].kind # "external" THEN "yes" ELSE tree[n].auth
  IN [n \in DOMAIN tree |-> [tree[n] EXCEPT !.auth = auth[n]]]

\* disablePage: with the login off its page is there no more
LoginSlot(def) == IF def.loginOn THEN def.login ELSE NoType
WithoutLogin(tree, def) ==
  [n \in DOMAIN tree |-> IF ~def.loginOn /\ def.login # NoType /\ tree[n].type = def.login
                         THEN [tree[n] EXCEPT !.enabled = FALSE] ELSE tree[n]]

SitePages(tree, def) == WithoutLogin(Inherit(tree \o PolicySection(tree, def)), def)

-----------------------------------------------------------------------------
(* processPages *)

\* The pages the walk reaches: it stops at what is not enabled.
Reached(tree) ==
  LET on[n \in 0..Len(tree)] == n = 0 \/ (tree[n].enabled /\ on[tree[n].in])
  IN {n \in DOMAIN tree : on[n] /\ tree[n].kind # "parent"}

Leaves(tree) == {n \in Reached(tree) : tree[n].kind = "leaf"}

OneType(tree) == \A n, k \in Reached(tree) : tree[n].type = tree[k].type => n = k
OnePath(tree) ==
  \A lang \in Tongues : \A n, k \in Leaves(tree) : FullPath(tree, n, lang) = FullPath(tree, k, lang) => n = k

Noindex(page, def) == page.noindex = "yes" \/ (page.type = LoginSlot(def) /\ page.noindex = "unset")

PageMap(tree, def) ==
  {[node |-> n, type |-> tree[n].type, lang |-> lang, external |-> tree[n].kind = "external",
    path |-> IF tree[n].kind = "external" THEN <<>> ELSE FullPath(tree, n, lang),
    noindex |-> tree[n].kind = "leaf" /\ Noindex(tree[n], def)] : n \in Reached(tree), lang \in Tongues}

RenderMode(page) == IF page.auth = "yes" THEN "client" ELSE page.render

ServerRenderEntries(tree) ==
  {[path |-> FullPath(tree, n, lang), mode |-> RenderMode(tree[n]), lang |-> lang, node |-> n] :
     n \in Leaves(tree), lang \in Tongues}

AuditPaths(tree) ==
  {FullPath(tree, n, MainLang) :
     n \in {k \in Leaves(tree) : RenderMode(tree[k]) = "server" /\ ~HasParam(FullPath(tree, k, MainLang))}}

Listed(page, def) == page.auth # "yes" /\ ~Noindex(page, def)

SitemapEntries(tree, def) ==
  {e \in {[path |-> FullPath(tree, n, lang), lang |-> lang, type |-> tree[n].type] :
            n \in {k \in Leaves(tree) : Listed(tree[k], def)}, lang \in Tongues} : ~HasParam(e.path)}

\* The pages whose addresses only their catalogue knows, with a path in every language.
DynamicPages(tree, def) ==
  {tree[n].type : n \in {k \in Leaves(tree) :
     Listed(tree[k], def) /\ tree[k].catalog /\ \E lang \in Tongues : HasParam(FullPath(tree, k, lang))}}

\* validatePageRefs looks at the default language only.
SlotsResolve(tree, def) ==
  LET there == {tree[n].type : n \in Reached(tree)} IN
  /\ LoginSlot(def) \in there \union {NoType}
  /\ def.home \in there \union {NoType}
  /\ \A s \in LegalPages(def) : def.legal[s].type \in there

\* buildSite
BuildSite(tree, def) ==
  LET all == SitePages(tree, def) IN
  IF (def.cookies => "cookie" \in DOMAIN def.legal) /\ OneType(all) /\ OnePath(all) /\ SlotsResolve(all, def)
  THEN [ok |-> TRUE, pages |-> all, map |-> PageMap(all, def), server |-> ServerRenderEntries(all),
        sitemap |-> SitemapEntries(all, def), dynamic |-> DynamicPages(all, def), audit |-> AuditPaths(all)]
  ELSE [ok |-> FALSE, pages |-> <<>>, map |-> {}, server |-> {}, sitemap |-> {}, dynamic |-> {}, audit |-> {}]

\* getPageInfo
Info(type, lang) == {e \in built.map : e.type = type /\ e.lang = lang}

\* The parameters of a path up to its i-th segment.
Params(path, i) == Cardinality({j \in 1..i : path[j] \in ParamSegs})

\* flattenDynamicParams: the values of the catalogue from the root to as many levels as
\* the path has parameters; what ends before is left out, what is deeper is ignored.
FlattenDynamicParams(path) ==
  LET slugs[n \in 0..Len(Catalog)] == IF n = 0 THEN <<>> ELSE Append(slugs[Catalog[n].in], Catalog[n].slug)
      full == SelectSeq([n \in DOMAIN Catalog |-> slugs[n]], LAMBDA v : Len(v) = Params(path, Len(path)))
  IN SubSeq(full, 1, IF Len(full) < MaxFlattened THEN Len(full) ELSE MaxFlattened)

\* applyPathParams, and the addresses of a page
ApplyPathParams(path, values) ==
  [i \in DOMAIN path |-> IF path[i] \in ParamSegs THEN values[Params(path, i)] ELSE path[i]]
Addresses(path) ==
  IF HasParam(path) THEN {ApplyPathParams(path, v) : v \in ToSet(FlattenDynamicParams(path))} ELSE {path}

-----------------------------------------------------------------------------
(* The routes of Angular (routing.ts) *)

Routable(page) == page.enabled /\ page.kind # "external"

\* What is left of a url after the route of a page and of its containers: every route
\* takes its segments from the front.  A language but the default one is a route too.
Takes(path, url) == Len(path) <= Len(url) /\ \A i \in DOMAIN path : path[i] \in ParamSegs \union {url[i]}
LeftOver(tree, n, lang, url) ==
  LET left[k \in 0..n] ==
        LET path == IF k = 0 THEN LangPrefix(lang) ELSE ResolvePath(tree[k].path, lang)
            before == IF k = 0 THEN {url} ELSE IF Routable(tree[k]) THEN left[tree[k].in] ELSE {}
        IN {SubSeq(r, Len(path) + 1, Len(r)) : r \in {b \in before : Takes(path, b)}}
  IN left[n]

\* The pages a url may open, and the first of them in the order of the routes.
Matches(url) ==
  {m \in {[node |-> n, lang |-> SiteLangs[j], at |-> j] :
            n \in {k \in DOMAIN built.pages : built.pages[k].kind = "leaf"}, j \in DOMAIN SiteLangs} :
     <<>> \in LeftOver(built.pages, m.node, m.lang, url)}
Opens(url) ==
  {m \in Matches(url) : \A k \in Matches(url) : m.at < k.at \/ (m.at = k.at /\ m.node <= k.node)}

\* authGuard, on the page or on one of its containers
AsksLogin(n) == \E k \in {n} \union ToSet(Chain(built.pages, n)) : built.pages[k].auth = "yes"

-----------------------------------------------------------------------------
(* The breadcrumb *)

\* Nothing is above a flat page but the pages at the beginnings of its path.
FlatParents(path, lang) ==
  LET top == {n \in DOMAIN built.pages : built.pages[n].in = 0 /\ built.pages[n].kind = "leaf"}
      At(prefix) == {n \in top : ResolvePath(built.pages[n].path, lang) = prefix}
      FirstAt(prefix) == CHOOSE n \in At(prefix) : \A k \in At(prefix) : n <= k
      prefixes == SelectSeq([i \in 1..Len(path) |-> SubSeq(path, 1, i)], LAMBDA p : p # path /\ At(p) # {})
  IN [i \in DOMAIN prefixes |-> FirstAt(prefixes[i])]

\* findAncestors takes the first page of the type in the whole tree, also one that is off;
\* the external pages at the top are not in it.
FirstOf(type) ==
  LET alike == {n \in DOMAIN built.pages : built.pages[n].type = type /\ built.pages[n].kind # "parent"
                                          /\ (built.pages[n].kind = "external" => built.pages[n].in # 0)}
  IN CHOOSE n \in alike : \A k \in alike : n <= k

\* A container is a link if one of its pages is at its own path.
IsIndexed(n, lang) ==
  \/ built.pages[n].kind = "leaf"
  \/ \E k \in DOMAIN built.pages : built.pages[k].in = n /\ ResolvePath(built.pages[k].path, lang) = <<>>

Given(titles, link) == IF link THEN <<>> ELSE titles

\* trailFor, from the root of the language to the page; titles says whose names a
\* crumb bears: a container that is no link gives its own to the next.
TrailFor(type, lang) ==
  LET info == CHOOSE e \in Info(type, lang) : TRUE
      homes == Info(definition.home, lang)
      root == IF homes # {} THEN (CHOOSE e \in homes : TRUE).path ELSE LangPrefix(lang)
      around == Chain(built.pages, FirstOf(type))
      above == IF around # <<>> THEN around ELSE FlatParents(info.path, lang)
      walk[i \in 0..Len(above)] ==
        IF i = 0 THEN [at |-> root, titles |-> <<>>, trail |-> <<[titles |-> <<0>>, path |-> root]>>]
        ELSE LET n == above[i]
                 seg == ResolvePath(built.pages[n].path, lang)
                 at == walk[i - 1].at \o seg
                 titles == Append(walk[i - 1].titles, n)
                 link == seg # <<>> /\ IsIndexed(n, lang)
             IN [at |-> at, titles |-> Given(titles, link),
                 trail |-> IF link /\ at # info.path THEN Append(walk[i - 1].trail, [titles |-> titles, path |-> at])
                           ELSE walk[i - 1].trail]
      end == walk[Len(above)]
  IN IF type = definition.home THEN <<[titles |-> <<info.node>>, path |-> info.path]>>
     ELSE Append(end.trail, [titles |-> Append(end.titles, info.node), path |-> info.path])

-----------------------------------------------------------------------------
SiteInit ==
  /\ pages \in Drafts /\ definition \in Settings
  /\ built = BuildSite(pages, definition)

\* The containers the next page of the tree may be in: the last page, if it is one, and
\* those around it.
Holders == {0} \union {n \in DOMAIN pages :
  pages[n].kind = "parent" /\ (n = Len(pages) \/ n \in ToSet(Chain(pages, Len(pages))))}

DeclarePage(page, in) ==
  /\ Len(pages) < MaxPages
  /\ pages' = Append(pages, [page EXCEPT !.in = in])
  /\ built' = BuildSite(pages', definition)
  /\ UNCHANGED definition

SiteNext == \E page \in Declarations, in \in Holders : DeclarePage(page, in)

SiteSpec == SiteInit /\ [][SiteNext]_siteVars

-----------------------------------------------------------------------------
(* Properties *)

Inner == {e \in built.map : ~e.external}
Parametric(n) == \E lang \in Tongues : HasParam(FullPath(built.pages, n, lang))
\* No page of the default language is called like another language: nothing refuses one,
\* and its address is that of the other language.
NoPageIsALanguage == \A e \in Inner : e.lang = MainLang /\ e.path # <<>> => e.path[1] \notin Tongues

\* The address of every page, as menus and sitemap have it with the values of the catalogue
\* in it, is one the router takes to that page in that language, if to no earlier page with
\* a parameter in its place, and if no earlier page is at the very address a value of the
\* catalogue makes: the paths are put together here and taken apart there, in every
\* language, and a page that is off has neither.
LinksOpenTheirPage ==
  NoPageIsALanguage => \A e \in Inner : \A url \in Addresses(e.path) :
    /\ Opens(url) # {}
    /\ \A m \in Opens(url) : \/ m.node = e.node /\ m.lang = e.lang
                             \/ Parametric(m.node)
                             \/ HasParam(e.path) /\ FullPath(built.pages, m.node, m.lang) = url

\* What is published opens without a login: no address of the sitemap or of the audits, and
\* no page the server renders, is behind the guard of its page or of one of its containers,
\* unless the page itself or one of its containers says it asks for none.
SaysItAsksNone(n) == \E k \in {n} \union ToSet(Chain(built.pages, n)) : built.pages[k].auth = "no"
PublishedIsOpen ==
  NoPageIsALanguage =>
  /\ \A path \in {e.path : e \in built.sitemap} \union built.audit :
       \A m \in Opens(path) : AsksLogin(m.node) => SaysItAsksNone(m.node) \/ Parametric(m.node)
  /\ \A e \in built.server : e.mode = "server" /\ AsksLogin(e.node) => SaysItAsksNone(e.node)

\* A breadcrumb names every container of the page once, from the outside, whichever of them
\* are links: only what leads to the container whose own path the page is at gives way to it.
\* A page whose type an earlier page, which is off, has too is not among them: nothing
\* refuses the two, and the breadcrumb is that of the containers of the other.
HomeAtRoot(lang) == \E h \in Info(definition.home, lang) : h.path = LangPrefix(lang)
TitlesOf(trail) ==
  LET titles[i \in 0..Len(trail)] == IF i = 0 THEN <<>> ELSE titles[i - 1] \o trail[i].titles IN titles[Len(trail)]
\* s without the g elements that follow the d-th
Skipping(s, d, g) == [i \in 1..(Len(s) - g) |-> s[IF i <= d THEN i ELSE i + g]]
TrailNamesEveryLevel ==
  \A e \in Inner : HomeAtRoot(e.lang) /\ e.type # definition.home /\ Chain(built.pages, e.node) # <<>> /\ FirstOf(e.type) = e.node =>
    LET above == <<0>> \o Chain(built.pages, e.node) \o <<e.node>>
    IN \E d \in 1..Len(above), g \in 0..Len(above) :
         /\ d + g < Len(above) /\ TitlesOf(TrailFor(e.type, e.lang)) = Skipping(above, d, g)
         /\ g # 0 => ResolvePath(built.pages[e.node].path, e.lang) = <<>>

\* Routes, links, sitemap, server routes and breadcrumbs, each built by a walk of its own
\* over the same tree, agree (siteBuilder.ts, site.ts).
SiteSafe == LinksOpenTheirPage /\ PublishedIsOpen /\ TrailNamesEveryLevel

\* "`requiresAuth` sul contenitore vale per l'intero sottoalbero": also for the pages of a
\* container in it that asks for none, which says nothing of the guard around it.
SubtreeAsksLogin ==
  \A e \in built.server : e.mode = "server" /\ AsksLogin(e.node) => built.pages[e.node].auth = "no"

\* "Se non navigabile, collassa il titolo nel segmento successivo": what is a link in a
\* breadcrumb opens a page.
CrumbsOpenPages ==
  \A e \in Inner : HomeAtRoot(e.lang) =>
    \A i \in DOMAIN TrailFor(e.type, e.lang) :
      \A url \in Addresses(TrailFor(e.type, e.lang)[i].path) : Opens(url) # {}
=============================================================================
