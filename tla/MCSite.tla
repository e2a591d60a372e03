------------------------------- MODULE MCSite -------------------------------
(***************************************************************************)
(* What a site is made of and what of it reaches its visitors, for TLC:    *)
(* the ceremony that sets the project up, the tree of its pages, its menus *)
(* and its colours, the documents made of the catalogue and the            *)
(* notifications have no state in common, so one configuration checks each *)
(* of them, and in a behaviour one of them runs while the others stay      *)
(* where they start. Fairness is that of the part that runs.               *)
(***************************************************************************)
EXTENDS ProjectSetup, SiteTree, SiteNav, DesignSystem, SitemapCache, NotificationStream

VARIABLE part

\* NotificationStream
CONSTANT t1
OneTab == [t \in {t1} |-> Nothing]

\* ProjectSetup
MCNames == {"", "Mercatino App", "Bar"}
MCSlug == [n \in MCNames |-> CASE n = "Bar" -> "bar" [] n = "" -> "" [] OTHER -> "mercatino-app"]
MCPascal == [n \in MCNames |-> CASE n = "Bar" -> "Bar" [] n = "" -> "" [] OTHER -> "MercatinoApp"]

\* SiteTree: pages whose paths clash, shadow each other or belong to a language, in containers
\* that are off, reserved or have a parameter
MCLangs == <<"it", "en">>
Same(p) == [l \in {"it", "en"} |-> p]
PathsOf(p, q) == [l \in {"it", "en"} |-> IF l = "it" THEN p ELSE q]
MCPage(kind, type, path) ==
  [in |-> 0, kind |-> kind, type |-> type, path |-> path, enabled |-> TRUE, auth |-> "unset",
   noindex |-> "unset", render |-> "server", catalog |-> FALSE]
MCHome == MCPage("leaf", "A", Same(<<>>))
MCHomeOfEn == MCPage("leaf", "A", Same(<<"en">>))
\* A type declared in a container that is off, and again in one that is not.
MCMoved ==
  <<MCHome, [MCPage("parent", "none", Same(<<"a">>)) EXCEPT !.enabled = FALSE], [MCPage("leaf", "D", Same(<<"b">>)) EXCEPT !.in = 2],
    MCPage("parent", "none", Same(<<"b">>)), [MCPage("leaf", "D", Same(<<"a">>)) EXCEPT !.in = 4],
    [MCPage("leaf", "B", Same(<<>>)) EXCEPT !.in = 4]>>
MCDrafts == {<<MCHome>>, <<MCHomeOfEn>>, MCMoved}
MCDeclarations ==
  {MCPage("parent", "none", p) : p \in {Same(<<":y">>), PathsOf(<<"a">>, <<"b">>)}}
  \cup {[MCPage("parent", "none", Same(<<>>)) EXCEPT !.auth = "no"],
        [MCPage("parent", "none", Same(<<"a">>)) EXCEPT !.enabled = FALSE],
        [MCPage("parent", "none", Same(<<"a">>)) EXCEPT !.auth = "yes"], MCPage("external", "X", <<>>)}
  \cup {MCPage("leaf", "D", Same(<<>>)), MCPage("leaf", "P", PathsOf(<<"a">>, <<"b">>)),
        [MCPage("leaf", "B", Same(<<":x">>)) EXCEPT !.catalog = TRUE],
        [MCPage("leaf", "B", [l \in {"it"} |-> <<"b">>]) EXCEPT !.auth = "no"],
        [MCPage("leaf", "D", Same(<<"a">>)) EXCEPT !.noindex = "yes", !.auth = "yes"]}
MCLegal ==
  [doc \in {"privacy", "cookie"} |->
     IF doc = "privacy" THEN [type |-> "P", path |-> [l \in {} |-> <<>>]]
     ELSE [type |-> "C", path |-> [l \in {"en"} |-> <<"biscuits">>]]]
MCSegments == {"it", "en", "a", "b", ":x", ":y", "biscuits", "policy", "privacy", "cookie"}
MCSettings == {[home |-> "A", login |-> "B", loginOn |-> on, cookies |-> TRUE, legal |-> MCLegal] : on \in BOOLEAN}
MCCatalog == <<[in |-> 0, slug |-> "a"], [in |-> 1, slug |-> "w"], [in |-> 1, slug |-> "z"]>>

\* SiteNav
MCNavItem(kind, ref, auth) == [in |-> 0, kind |-> kind, ref |-> ref, auth |-> auth]
MCNavItems ==
  {MCNavItem("page", "home", FALSE), MCNavItem("page", "gone", FALSE), MCNavItem("link", "url", TRUE),
   MCNavItem("group", "g", FALSE), MCNavItem("group", "g", TRUE), MCNavItem("field", "email", FALSE),
   MCNavItem("text", "absent", FALSE), MCNavItem("social", "url", TRUE), MCNavItem("custom", "c", TRUE)}
MCIdentities ==
  {[k \in {} |-> "x"], [partitaIva |-> "1", codiceFiscale |-> "1", email |-> "e", social |-> "s"],
   [k \in {"partitaIva", "codiceFiscale", "titolare.nome", "titolare.email", "email", "dpo.email"} |->
      CASE k = "partitaIva" -> "1" [] k = "codiceFiscale" -> "2" [] k = "titolare.nome" -> "n"
        [] k = "titolare.email" -> "m" [] k = "email" -> "absent" [] OTHER -> "d"]}

\* DesignSystem
MCBrands == {0, 250, 400, 550, 570, 900}
MCPatches ==
  {[superfici |-> "fusione"], [superfici |-> "tenue"], [superfici |-> "tenue-flottante"], [superfici |-> "distinte"],
   [sfondo |-> 200], [sfondo |-> 650, superfici |-> "tenue-flottante"],
   [testo |-> 450], [testo |-> 950, navSuperficie |-> "body"], [secondary |-> 600],
   [forza |-> "dark", pannello |-> "light"], [forza |-> "light"], [pannello |-> "dark"],
   [smoke |-> TRUE, roles |-> [shop |-> [showSmoke |-> TRUE], legal |-> [fitViewport |-> TRUE]]],
   [roles |-> [shop |-> [showPanel |-> FALSE]]]}
MCRoleSets == {{"default", "legal"}, {"default", "shop"}}

mcVars == <<part, setupVars, siteVars, navVars, designVars, docVars, notifVars>>

MCInit ==
  /\ part \in {"setup", "tree", "menus", "colours", "documents", "notifications"}
  /\ part = "tree" \/ (pages = <<MCHomeOfEn>> /\ definition = (CHOOSE s \in Settings : TRUE))
  /\ part = "menus" \/ (section = "header" /\ owner = (CHOOSE i \in Identities : TRUE))
  /\ part = "colours" \/ (brand = (CHOOSE b \in Brands : TRUE) /\ used = (CHOOSE u \in RoleSets : TRUE))
  /\ SetupInit /\ SiteInit /\ NavInit /\ DesignInit /\ DocInit /\ NotifInit

MCNext ==
  /\ UNCHANGED part
  /\ \/ /\ part = "setup" /\ SetupNext
        /\ UNCHANGED <<siteVars, navVars, designVars, docVars, notifVars>>
     \/ /\ part = "tree" /\ SiteNext
        /\ UNCHANGED <<setupVars, navVars, designVars, docVars, notifVars>>
     \/ /\ part = "menus" /\ NavNext
        /\ UNCHANGED <<setupVars, siteVars, designVars, docVars, notifVars>>
     \/ /\ part = "colours" /\ DesignNext
        /\ UNCHANGED <<setupVars, siteVars, navVars, docVars, notifVars>>
     \/ /\ part = "documents" /\ DocNext
        /\ UNCHANGED <<setupVars, siteVars, navVars, designVars, notifVars>>
     \/ /\ part = "notifications" /\ NotifNext
        /\ UNCHANGED <<setupVars, siteVars, navVars, designVars, docVars>>

MCFairness ==
  /\ \A f \in Clients : WF_docVars(part = "documents" /\ (FetchSettles(f) \/ DocFetchFails(f)))
  /\ \A c \in Conns : WF_notifVars(part = "notifications" /\ Handler(c))
  /\ \A t \in Tabs : WF_notifVars(part = "notifications" /\ Browser(t))

MCSpec == MCInit /\ [][MCNext]_mcVars /\ MCFairness
=============================================================================
