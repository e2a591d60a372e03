------------------------------ MODULE MCPages ------------------------------
(***************************************************************************)
(* What the SSR server keeps and sends, and what the page does in the      *)
(* browser without asking for more, for TLC: these parts have no state in  *)
(* common, so one configuration checks each of them, and in a behaviour    *)
(* one of them runs while the others stay where they start.                *)
(***************************************************************************)
EXTENDS SitemapCache, ServerRequests, NonceStream, CookieConsent, EditorHistory,
        EditorText, NavMenus, UploadForm, LocalizedPage

VARIABLE part

\* NonceStream
MCNeedle == <<"<", "a", "r">>

\* EditorHistory, EditorText
MCWritten == {<<>>, <<"block">>}
MCButtons == <<"undo", "redo", "bold">>
MCTexts == {<<>>} \cup UNION {[1..n -> {"a", " ", "*", "_"}] : n \in 1..4}
MCLines ==
  {LineOf(i, k[1], k[2], TRUE) : i \in {0, 2}, k \in {<<"text", 0>>, <<"numbered", 1>>, <<"numbered", 2>>, <<"bullet", 0>>}}
MCDrafts == {d \in UNION {[1..n -> MCLines] : n \in 1..3} : InOrder(d)}
Token(raw, tokens) == [raw |-> raw, tokens |-> tokens]
MCTokens ==
  {Token(r, <<>>) : r \in {<<>>, <<"x">>, <<"y", "x">>}}
  \cup {Token(r, <<Token(q, <<>>), Token(<<"x">>, <<>>)>>) :
          r \in {<<"x">>, <<"x", "y">>, <<"y", "y">>}, q \in {<<"x">>, <<"y", "x">>}}
MCSources ==
  {[text |-> t, tokens |-> k] : t \in UNION {[1..n -> {"x", "y"}] : n \in 0..3}, k \in UNION {[1..n -> MCTokens] : n \in 0..2}}

\* NavMenus
MCEntry(k, g, a) == [key |-> k, group |-> g, authOnly |-> a]
MCHeaders ==
  {<<MCEntry("home", FALSE, FALSE), MCEntry("shop", TRUE, FALSE)>>,
   <<MCEntry("home", FALSE, FALSE), MCEntry("mine", TRUE, TRUE), MCEntry("shop", TRUE, FALSE)>>}

\* LocalizedPage: the first page, at home
PageWaits ==
  /\ signedIn = FALSE /\ asked = DefaultLang /\ loads = {} /\ head = Static
  /\ trip = [to |-> At("home", DefaultLang), step |-> "content"]
  /\ shell = [key |-> [in |-> DefaultLang, login |-> FALSE, identity |-> FALSE],
              part |-> [p \in Parts |-> [in |-> "none", login |-> FALSE, identity |-> FALSE]]]

\* UploadForm: files that are fine, too large or not accepted
MCFile(n, k, s) == [name |-> n, kind |-> k, size |-> s]
MCPicks ==
  {<<>>, <<MCFile("a", "pdf", 1)>>, <<MCFile("b", "pdf", 3)>>, <<MCFile("c", "exe", 1)>>,
   <<MCFile("a", "pdf", 1), MCFile("d", "png", 1)>>, <<MCFile("d", "png", 1), MCFile("c", "exe", 1)>>}
MCAcceptSets == {{}, {"pdf", "png"}}
MCLimits == {0, 2}

mcVars == <<part, docVars, requestVars, streamVars, cookieVars, editorVars, textVars,
            menuVars, uploadVars, pageVars>>

MCInit ==
  /\ part \in {"documents", "requests", "stream", "consent", "history", "text", "menus", "upload", "page"}
  /\ part = "requests" \/ env = (CHOOSE e \in Environments : TRUE)
  /\ part = "consent" \/ (gpc = FALSE /\ webApp = FALSE /\ needed = Tracking)
  /\ part = "text" \/ (doc = NoDraft /\ lines = <<>> /\ caret = 0 /\ source = (CHOOSE s \in Sources : s.text = <<>>))
  /\ part = "menus" \/ (header = (CHOOSE h \in Headers : TRUE) /\ loggedIn = FALSE /\ device = "wide" /\ room = (CHOOSE r \in Rooms : TRUE))
  /\ part = "upload" \/ (accept = {} /\ maxSize = 0 /\ multiple = FALSE)
  /\ part = "page" \/ PageWaits
  /\ DocInit /\ RequestInit /\ StreamInit /\ CookieInit /\ EditorInit /\ TextInit /\ MenuInit /\ UploadInit /\ PageInit
  \* A visit begins signed out, with a page of the server, which knew the identity; the page
  \* "about" is only gone to.
  /\ part = "page" => ~signedIn /\ trip.to.page # "about" /\ head = Sent(trip.to)
                      /\ \A p \in Parts : shell.part[p].identity = (shell.part[p].in # "none")

MCNext ==
  /\ UNCHANGED part
  /\ \/ /\ part = "documents" /\ DocNext
        /\ UNCHANGED <<requestVars, streamVars, cookieVars, editorVars, textVars, menuVars, uploadVars, pageVars>>
     \/ /\ part = "requests" /\ RequestNext
        /\ UNCHANGED <<docVars, streamVars, cookieVars, editorVars, textVars, menuVars, uploadVars, pageVars>>
     \/ /\ part = "stream" /\ StreamNext
        /\ UNCHANGED <<docVars, requestVars, cookieVars, editorVars, textVars, menuVars, uploadVars, pageVars>>
     \/ /\ part = "consent" /\ CookieNext
        /\ UNCHANGED <<docVars, requestVars, streamVars, editorVars, textVars, menuVars, uploadVars, pageVars>>
     \/ /\ part = "history" /\ EditorNext
        /\ UNCHANGED <<docVars, requestVars, streamVars, cookieVars, textVars, menuVars, uploadVars, pageVars>>
     \/ /\ part = "text" /\ TextNext
        /\ UNCHANGED <<docVars, requestVars, streamVars, cookieVars, editorVars, menuVars, uploadVars, pageVars>>
     \/ /\ part = "menus" /\ MenuNext
        /\ UNCHANGED <<docVars, requestVars, streamVars, cookieVars, editorVars, textVars, uploadVars, pageVars>>
     \/ /\ part = "upload" /\ UploadNext
        /\ UNCHANGED <<docVars, requestVars, streamVars, cookieVars, editorVars, textVars, menuVars, pageVars>>
     \/ /\ part = "page" /\ PageNext
        /\ UNCHANGED <<docVars, requestVars, streamVars, cookieVars, editorVars, textVars, menuVars, uploadVars>>

MCSpec == MCInit /\ [][MCNext]_mcVars
=============================================================================
