---------------------------- MODULE SitemapCache ----------------------------
(***************************************************************************)
(* The documents the SSR server derives from the catalogue of the backend  *)
(* (dynamic-sitemap.ts): /sitemap.xml, llms.txt and the audit paths, their *)
(* caches, the fetch concurrent requests share, and the invalidation the   *)
(* backend posts when the catalogue changes (SitemapNotifier.cs).          *)
(*                                                                         *)
(* The server has one thread, so a handler runs undisturbed up to the      *)
(* fetch and from its answer on; what happens in between is what matters.  *)
(* Each document has a cache (cached, llmsCached), and both are built from *)
(* Entries (entriesCache), which is what the audit paths ask for.          *)
(***************************************************************************)
EXTENDS Naturals, FiniteSets, FiniteSetsExt

CONSTANTS
  Clients,    \* clients, each with one request at a time
  Documents,  \* sitemap.xml, llms.txt
  Entries,
  NoDoc,
  CacheEnabled,    \* config.dynamicSitemapCache
  TTL,        \* CACHE_TTL_MS (seven days)
  Timeout,    \* serverEnv.server.proxyTimeout
  MaxTime,    \* bound: the clock
  MaxChanges  \* bound: changes of the catalogue

ASSUME SitemapAssumption ==
  /\ NoDoc \notin Clients \union Documents \union {Entries}
  /\ Entries \notin Documents
  /\ CacheEnabled \in BOOLEAN
  /\ {TTL, Timeout} \subseteq Nat \ {0}
  /\ {MaxTime, MaxChanges} \subseteq Nat

VARIABLES
  now,       \* the clock
  catalog,   \* version of the catalogue in the backend
  posts,     \* revalidation requests on the way, by version
  told,      \* highest version the server has been told of
  cache,     \* [Views -> entry or NoDoc]
  inFlight,  \* entriesInFlight: the request that started the fetch, or NoDoc
  fetching,  \* [Clients -> state of the fetch it started]
  view,      \* [Clients -> Views \union {NoDoc}], what it waits for
  askedAt,   \* [Clients -> Nat], its Date.now()
  awaiting,  \* [Clients -> Clients \union {NoDoc}], the fetch it waits for
  sentOut    \* [Views -> Nat], the version last sent of each

backend  == <<catalog, posts>>
requests == <<view, askedAt, awaiting, sentOut>>
docVars == <<now, backend, told, cache, inFlight, fetching, requests>>

-----------------------------------------------------------------------------
Views == Documents \union {Entries}

(* What was read of the catalogue: which version, when, and whether a      *)
(* revalidation came while the fetch was running.                          *)
Content == [version : 0..MaxChanges, at : 0..MaxTime, overtaken : BOOLEAN]
Entry   == [content : Content, expires : Nat]
DocFetch   == [state : {"none", "asked"}, overtaken : BOOLEAN]
             \union [state : {"read"}, content : Content]
NoFetch == [state |-> "none", overtaken |-> FALSE]

FetchRuns(f) == fetching[f].state \in {"asked", "read"}
Valid(v) == CacheEnabled /\ cache[v] # NoDoc /\ now < cache[v].expires

DocInit ==
  /\ now = 0
  /\ catalog = 0
  /\ posts = {}
  /\ told = 0
  /\ cache = [v \in Views |-> NoDoc]
  /\ inFlight = NoDoc
  /\ fetching = [r \in Clients |-> NoFetch]
  /\ view = [r \in Clients |-> NoDoc]
  /\ askedAt = [r \in Clients |-> 0]
  /\ awaiting = [r \in Clients |-> NoDoc]
  /\ sentOut = [v \in Views |-> 0]

-----------------------------------------------------------------------------
ServeDoc(v, c) ==
  /\ sentOut' = [sentOut EXCEPT ![v] = c.version]
  /\ UNCHANGED <<view, askedAt, awaiting>>

(* The document is in its cache and has not expired.                       *)
CacheHit(r, v) ==
  /\ view[r] = NoDoc
  /\ Valid(v)
  /\ ServeDoc(v, cache[v].content)
  /\ UNCHANGED <<now, backend, told, cache, inFlight, fetching>>

(* The document is built from entries that have not expired, and kept for  *)
(* a whole TTL of its own.                                                 *)
Build(r, v) ==
  /\ view[r] = NoDoc
  /\ v # Entries /\ ~Valid(v)
  /\ Valid(Entries)
  /\ ServeDoc(v, cache[Entries].content)
  /\ cache' = [cache EXCEPT ![v] =
       [content |-> cache[Entries].content, expires |-> now + TTL]]
  /\ UNCHANGED <<now, backend, told, inFlight, fetching>>

Wait(r, v, f) ==
  /\ view' = [view EXCEPT ![r] = v]
  /\ askedAt' = [askedAt EXCEPT ![r] = now]
  /\ awaiting' = [awaiting EXCEPT ![r] = f]
  /\ UNCHANGED sentOut

(* Mutant: a fetch for every request.                                      *)
AskAgain(r, v) ==
  /\ view[r] = NoDoc
  /\ ~Valid(v) /\ ~Valid(Entries)
  /\ inFlight' = r
  /\ fetching' = [fetching EXCEPT ![r] = [state |-> "asked", overtaken |-> FALSE]]
  /\ Wait(r, v, r)
  /\ UNCHANGED <<now, backend, told, cache>>

(* Neither is there: wait for the fetch in progress, or start one.         *)
Ask(r, v) ==
  /\ view[r] = NoDoc
  /\ ~Valid(v) /\ ~Valid(Entries)
  /\ IF inFlight = NoDoc
       THEN /\ inFlight' = r
            /\ fetching' = [fetching EXCEPT ![r] = [state |-> "asked", overtaken |-> FALSE]]
            /\ Wait(r, v, r)
       ELSE /\ Wait(r, v, inFlight)
            /\ UNCHANGED <<inFlight, fetching>>
  /\ UNCHANGED <<now, backend, told, cache>>

(* The backend reads its catalogue and answers.                            *)
Read(f) ==
  /\ fetching[f].state = "asked"
  /\ fetching' = [fetching EXCEPT ![f] = [state |-> "read", content |->
       [version |-> catalog, at |-> now, overtaken |-> fetching[f].overtaken]]]
  /\ UNCHANGED <<now, backend, told, cache, inFlight, requests>>

-----------------------------------------------------------------------------
Waiters(f, v) == {r \in Clients : awaiting[r] = f /\ view[r] = v}
Times(f, v) == {askedAt[r] : r \in Waiters(f, v)}

(* getDynamicEntries is called by each request for the audit paths and by  *)
(* the first one of each document; the last caller leaves the expiry.      *)
EntriesExpiry(f) ==
  TTL + Max(Times(f, Entries)
             \union {Min(Times(f, v)) : v \in {w \in Views : Times(f, w) # {}}})

Expiry(f, v) == IF v = Entries THEN EntriesExpiry(f) ELSE TTL + Max(Times(f, v))

Refresh(f, c) ==
  [v \in Views |->
     IF CacheEnabled /\ (v = Entries \/ Waiters(f, v) # {})
       THEN [content |-> c, expires |-> Expiry(f, v)] ELSE cache[v]]

(* The waiting requests are answered and gone.                             *)
End(f) ==
  /\ fetching' = [fetching EXCEPT ![f] = NoFetch]
  /\ inFlight' = NoDoc
  /\ view' = [r \in Clients |-> IF awaiting[r] = f THEN NoDoc ELSE view[r]]
  /\ awaiting' = [r \in Clients |-> IF awaiting[r] = f THEN NoDoc ELSE awaiting[r]]
  /\ askedAt' = [r \in Clients |-> IF awaiting[r] = f THEN 0 ELSE askedAt[r]]
  /\ UNCHANGED <<now, backend, told>>

(* The answer has arrived: all who wait store it and send it.              *)
FetchSettles(f) ==
  /\ fetching[f].state = "read"
  /\ LET c == fetching[f].content
     IN  /\ cache' = Refresh(f, c)
         /\ sentOut' = [v \in Views |-> IF Waiters(f, v) # {} THEN c.version ELSE sentOut[v]]
  /\ End(f)

(* When the fetch fails a document falls back on its last content, however *)
(* old; without any, and for the audit paths, the answer is an error.      *)
Fallback(v) == v # Entries /\ CacheEnabled /\ cache[v] # NoDoc

(* Mutant: what is sent instead is kept for another TTL.                   *)
FailAndRenew(f) ==
  /\ sentOut' = [v \in Views |->
       IF Waiters(f, v) # {} /\ Fallback(v) THEN cache[v].content.version ELSE sentOut[v]]
  /\ End(f)
  /\ cache' = [v \in Views |->
       IF Waiters(f, v) # {} /\ Fallback(v) THEN [cache[v] EXCEPT !.expires = now + TTL] ELSE cache[v]]

FailWith(f) ==
  /\ sentOut' = [v \in Views |->
       IF Waiters(f, v) # {} /\ Fallback(v) THEN cache[v].content.version ELSE sentOut[v]]
  /\ End(f)
  /\ UNCHANGED cache

(* Mutant: no timeout, a backend that accepts and is silent is waited for. *)
FailAfterAnswer(f) == fetching[f].state = "read" /\ FailWith(f)

(* An error of the backend or of the network, or the timeout.              *)
DocFetchFails(f) == FetchRuns(f) /\ FailWith(f)

-----------------------------------------------------------------------------
(* A write to the catalogue; afterwards NotifyChangedAsync posts.          *)
Change ==
  /\ catalog < MaxChanges
  /\ catalog' = catalog + 1
  /\ posts' = posts \union {catalog + 1}
  /\ UNCHANGED <<now, told, cache, inFlight, fetching, requests>>

(* The post fails: logged, the write stands.                               *)
PostLost(p) ==
  /\ p \in posts
  /\ posts' = posts \ {p}
  /\ UNCHANGED <<now, catalog, told, cache, inFlight, fetching, requests>>

Overtaken(f) ==
  CASE fetching[f].state = "asked" -> [fetching[f] EXCEPT !.overtaken = TRUE]
    [] fetching[f].state = "read" -> [fetching[f] EXCEPT !.content.overtaken = TRUE]
    [] OTHER -> fetching[f]

(* The three caches are dropped; a fetch in progress goes on.              *)
Revalidate(p) ==
  /\ p \in posts
  /\ posts' = posts \ {p}
  /\ told' = Max({told, p})
  /\ cache' = [v \in Views |-> NoDoc]
  /\ fetching' = [f \in Clients |-> Overtaken(f)]
  /\ UNCHANGED <<now, catalog, inFlight, requests>>

(* A fetch is over when its timeout strikes.                               *)
Tick ==
  /\ now < MaxTime
  /\ \A f \in Clients : FetchRuns(f) => now < askedAt[f] + Timeout
  /\ now' = now + 1
  /\ UNCHANGED <<backend, told, cache, inFlight, fetching, requests>>

DocNext ==
  \/ \E r \in Clients, v \in Views : CacheHit(r, v) \/ Build(r, v) \/ Ask(r, v)
  \/ \E f \in Clients : Read(f) \/ FetchSettles(f) \/ DocFetchFails(f)
  \/ Change
  \/ \E p \in posts : PostLost(p) \/ Revalidate(p)
  \/ Tick

DocSpec == DocInit /\ [][DocNext]_docVars

(* An answer is processed, and AbortSignal.timeout ends a silent fetch.    *)
FairDocSpec == DocSpec /\ \A f \in Clients : WF_docVars(FetchSettles(f) \/ DocFetchFails(f))

-----------------------------------------------------------------------------
DocTypeOK ==
  /\ now \in 0..MaxTime
  /\ catalog \in 0..MaxChanges
  /\ posts \subseteq 1..MaxChanges
  /\ told \in 0..MaxChanges
  /\ cache \in [Views -> Entry \union {NoDoc}]
  /\ inFlight \in {f \in Clients : FetchRuns(f)} \union {NoDoc}
  /\ fetching \in [Clients -> DocFetch]
  /\ view \in [Clients -> Views \union {NoDoc}]
  /\ askedAt \in [Clients -> 0..MaxTime]
  /\ awaiting \in [Clients -> Clients \union {NoDoc}]
  /\ sentOut \in [Views -> 0..MaxChanges]

(* The backend answers one fetch at a time, whatever the mix of documents  *)
(* asked for and of failures before (entriesInFlight ??=, finally).        *)
OneFetch == \A f, g \in Clients : FetchRuns(f) /\ FetchRuns(g) => f = g

(* After a revalidation no cache holds an older catalogue, with one        *)
(* exception: a fetch that was in progress when it came stores its answer  *)
(* afterwards (revalidateSitemapHandler).                                  *)
RevalidatedIsGone ==
  \A v \in Views : cache[v] # NoDoc =>
    cache[v].content.overtaken \/ cache[v].content.version >= told

(* If every notification is lost, what a cache still sends as valid is     *)
(* less than two TTLs and a timeout old: two, for a document built from    *)
(* entries near their end is kept a TTL more (getDynamicEntries).          *)
AgeBounded ==
  \A v \in Views : Valid(v) => now - cache[v].content.at < 2 * TTL + Timeout

(* Who reads one document again and again never sees the catalogue go      *)
(* back, across expiries, failures, fallbacks and revalidations.           *)
NeverBackwards == [][\A v \in Views : sentOut'[v] >= sentOut[v]]_docVars

(* What the two caches keep (dynamic-sitemap.ts): one fetch at a time,     *)
(* nothing older than a revalidation or than its age allows.               *)
DocumentsSafe == DocTypeOK /\ OneFetch /\ RevalidatedIsGone /\ AgeBounded

-----------------------------------------------------------------------------
(* What the proofs need beyond it.  The fetch that runs is the one that    *)
(* new requests join, and who waits waits for it, its starter too.         *)
FlightIsKnown ==
  /\ \A f \in Clients : FetchRuns(f) <=> inFlight = f
  /\ \A r \in Clients : awaiting[r] # NoDoc => FetchRuns(awaiting[r])
  /\ \A r \in Clients : view[r] # NoDoc <=> awaiting[r] # NoDoc
  /\ \A f \in Clients : FetchRuns(f) => awaiting[f] = f

(* A fetch lasts a timeout, and its answer was read meanwhile.             *)
FetchIsShort ==
  /\ \A r \in Clients : askedAt[r] <= now
  /\ \A f \in Clients : FetchRuns(f) => now <= askedAt[f] + Timeout
  /\ \A f \in Clients : fetching[f].state = "read" =>
       askedAt[f] <= fetching[f].content.at /\ fetching[f].content.at <= now

(* How long what was read at a time is kept.                               *)
KeptSoLong ==
  \A v \in Views : cache[v] # NoDoc =>
    cache[v].expires <= cache[v].content.at + Timeout + (IF v = Entries THEN TTL ELSE 2 * TTL)

(* The server hears of changes that have happened; a fetch it has heard    *)
(* nothing during brings what it knows of.                                 *)
ToldIsTrue ==
  /\ told <= catalog
  /\ \A p \in posts : p <= catalog
  /\ \A f \in Clients : fetching[f].state = "read" =>
       fetching[f].content.overtaken \/ fetching[f].content.version >= told

(* Nothing that is kept or was sent is newer than this version.            *)
UpTo(n) ==
  \A v \in Views : sentOut[v] <= n /\ (cache[v] # NoDoc => cache[v].content.version <= n)

(* From what was sent to the entries, the answer on its way and the        *)
(* catalogue, versions never fall.                                         *)
VersionsInOrder ==
  /\ \A v \in Views : cache[v] # NoDoc => CacheEnabled /\ sentOut[v] <= cache[v].content.version
  /\ cache[Entries] # NoDoc => UpTo(cache[Entries].content.version)
  /\ \A f \in Clients : fetching[f].state = "read" =>
       UpTo(fetching[f].content.version) /\ fetching[f].content.version <= catalog
  /\ UpTo(catalog)

DocIInv ==
  /\ DocTypeOK /\ RevalidatedIsGone
  /\ FlightIsKnown /\ FetchIsShort /\ KeptSoLong /\ ToldIsTrue /\ VersionsInOrder

-----------------------------------------------------------------------------
(* Every request is answered, also when the backend is silent.             *)
DocumentsAnswered == \A r \in Clients : view[r] # NoDoc ~> view[r] = NoDoc
=============================================================================
