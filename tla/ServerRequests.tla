--------------------------- MODULE ServerRequests ---------------------------
(***************************************************************************)
(* What the SSR server answers (server.ts, server-env.ts): the chain of    *)
(* handlers a request goes through, under any configuration of the         *)
(* installation, and a client that follows the redirects.                  *)
(***************************************************************************)
EXTENDS Naturals, FiniteSets

CONSTANTS
  Hosts,     \* the host names of the installation, as a request or a variable may give them
  LocalHost, \* LOCAL_DEV_HOSTS
  Stranger,  \* a host nobody configured
  MaxVisits  \* bound: requests typed by somebody

NoHost == "none"

VARIABLES
  env,      \* the configuration, read once: see Environments
  request,  \* the request on its way, NoRequest when there is none
  hops,     \* redirects followed since it was typed
  answer,   \* the response to the last request
  visits

requestVars == <<env, request, hops, answer, visits>>

\* FRONTEND_BASE_URL, NG_ALLOWED_HOSTS, frontend.hostname, SEO_NOINDEX, isWebApp
Environments ==
  [baseUrl : Hosts \cup {NoHost}, allowed : SUBSET Hosts, hostname : Hosts \cup {NoHost},
   noindex : BOOLEAN, webApp : BOOLEAN]

\* serverEnv.site.baseUrl, by its host; NoHost leaves no canonical host
CanonicalHost(e) == IF e.baseUrl # NoHost THEN e.baseUrl ELSE e.hostname
\* NG_ALLOWED_HOSTS, or frontend.hostname, or the local hosts
ListedHosts(e) ==
  IF e.allowed # {} THEN e.allowed ELSE IF e.hostname # NoHost THEN {e.hostname} ELSE {LocalHost}
\* parseAllowedHosts: the host of FRONTEND_BASE_URL is always in.
AllowedHosts(e) == ListedHosts(e) \cup ({e.baseUrl} \ {NoHost})

\* What a path leads to.  "private", "hidden": known pages that need a session or are noindex.
Pages == {"page", "private", "hidden"}
Unpaged == {"unknown", "error404", "error", "offline"}
Engine == {"cdn", "sitemap", "internal", "security"}
Files == {"files", "legal", "manifest", "robots", "static"}
Targets == Pages \cup Unpaged \cup Engine \cup Files \cup {"health", "api"}
NoRequest == [host |-> NoHost, at |-> NoHost, slash |-> FALSE, get |-> TRUE]
HttpRequests == [host : Hosts \cup {LocalHost, Stranger}, at : Targets, slash : BOOLEAN, get : BOOLEAN]

\* getSeoStatusForPath, over the status of the rendering
PageStatus(at) ==
  CASE at \in Pages -> 200
    [] at \in {"unknown", "error404"} -> 404
    [] at = "error" -> 500
    [] at = "offline" -> 503

Reply(status, noindex) == [status |-> status, noindex |-> noindex, to |-> NoHost]
Unanswered == Reply(0, FALSE)
Redirect(to) == [status |-> 301, noindex |-> FALSE, to |-> to]

\* The normalisation of hosts and slashes applies to what is read, not to what is sent.
Mismatched(e, r) == r.get /\ CanonicalHost(e) # NoHost /\ r.host # CanonicalHost(e)
Slashed(r) == r.get /\ r.slash
\* A slip in which the slash is cut and the host left as it is.
KeepsHost(e, r) == Redirect(r.host)
\* 301, in one hop, to the canonical host, or to the one asked where there is none
Normalized(e, r) == Redirect(IF CanonicalHost(e) # NoHost THEN CanonicalHost(e) ELSE r.host)

\* express.static, after the handlers of the engine; robots.txt and X-Robots-Tag are set from
\* here on where the installation is noindex.
FileReply(e, r) ==
  IF r.at = "files" \/ (r.at = "manifest" /\ r.get /\ ~e.webApp) THEN Reply(404, FALSE)
  ELSE IF r.at = "legal" THEN Reply(200, FALSE)
  ELSE Reply(IF r.get THEN 200 ELSE 404, e.noindex)
PageReply(e, r) == Reply(PageStatus(r.at), e.noindex \/ r.at \in {"private", "hidden"})

\* app.use, app.get and app.post in the order they are declared
RequestHandled(e, r) ==
  IF r.at = "health" THEN IF r.get THEN Reply(200, FALSE) ELSE Reply(404, e.noindex)
  ELSE IF r.host \notin AllowedHosts(e) THEN Reply(421, FALSE)
  ELSE IF Mismatched(e, r) \/ Slashed(r) THEN Normalized(e, r)
  ELSE IF r.at = "api" \/ (r.at \in Engine /\ (r.get \/ r.at = "internal")) THEN Reply(200, FALSE)
  ELSE IF r.at \in Files THEN FileReply(e, r)
  ELSE IF r.at \in Engine THEN Reply(404, e.noindex)
  ELSE PageReply(e, r)

RequestInit ==
  /\ env \in Environments
  /\ request = NoRequest /\ hops = 0 /\ answer = Unanswered /\ visits = 0

VisitHost(r) ==
  /\ request = NoRequest /\ visits < MaxVisits
  /\ request' = r /\ hops' = 0 /\ answer' = Unanswered /\ visits' = visits + 1
  /\ UNCHANGED env
Serve ==
  /\ request # NoRequest /\ answer = Unanswered
  /\ answer' = RequestHandled(env, request)
  /\ UNCHANGED <<env, request, hops, visits>>
Follow ==
  /\ answer.status = 301
  /\ request' = [request EXCEPT !.host = answer.to, !.slash = FALSE]
  /\ hops' = hops + 1 /\ answer' = Unanswered
  /\ UNCHANGED <<env, visits>>
RequestArrives ==
  /\ answer # Unanswered /\ answer.status # 301
  /\ request' = NoRequest /\ answer' = Unanswered /\ hops' = 0
  /\ UNCHANGED <<env, visits>>

RequestNext == \/ \E r \in HttpRequests : VisitHost(r)
               \/ Serve \/ Follow \/ RequestArrives
RequestSpec == RequestInit /\ [][RequestNext]_requestVars

-----------------------------------------------------------------------------
(* Properties *)

\* One redirect is enough, and the host it leads to is one the server answers for: where the
\* canonical host comes from FRONTEND_BASE_URL, or the allowed ones from frontend.hostname.
RedirectsAreServed ==
  /\ hops <= 1
  /\ env.baseUrl # NoHost \/ env.allowed = {} \/ CanonicalHost(env) \in env.allowed
     => (hops = 1 => answer.status \notin {301, 421})

\* What a redirect is followed with is in its final form, and an answer is the one of the
\* request on its way.
RequestIInv ==
  /\ env \in Environments /\ hops \in {0, 1}
  /\ request = NoRequest => hops = 0 /\ answer = Unanswered
  /\ request # NoRequest => request.at \in Targets
  /\ request # NoRequest => request = [host |-> request.host, at |-> request.at, slash |-> request.slash, get |-> request.get]
  /\ answer = Unanswered \/ answer = RequestHandled(env, request)
  /\ hops = 1 =>
       /\ request.get /\ ~request.slash
       /\ IF CanonicalHost(env) # NoHost THEN request.host = CanonicalHost(env) ELSE request.host \in AllowedHosts(env)

\* SiteEnv.noindex, "il server emette X-Robots-Tag: noindex, nofollow su ogni risposta"
\* (server-env.ts:236-237, DOCKER_README.md:157).
NoindexEverywhere ==
  env.noindex /\ answer.status = 200 /\ request.at \notin {"health", "api"} => answer.noindex
=============================================================================
