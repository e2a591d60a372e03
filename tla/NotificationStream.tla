------------------------- MODULE NotificationStream -------------------------
(***************************************************************************)
(* Realtime notifications, from Publish to the list of a browser tab: the  *)
(* in-memory stream of the backend (NotificationStream), the SSE endpoint  *)
(* (EngineNotificationStreamController) and the client                     *)
(* (NotificationStreamService over the browser's EventSource).             *)
(*                                                                         *)
(* Publish runs on any thread and takes the subscribers one at a time, the *)
(* history afterwards; handlers, publishers and tabs interleave freely,    *)
(* connections break, the backend may die.                                 *)
(***************************************************************************)
EXTENDS Naturals, Sequences, SequencesExt, FilteredSequences

CONSTANTS
  Messages,         \* each is published at most once; its id is itself
  Tabs,             \* browser tabs
  Conns,            \* bound: SSE connections of a behaviour, fresh GUIDs
  Groups,           \* group keys
  GroupOf,          \* [Tabs -> Groups \union {Nothing}], INotificationGroupResolver
  Everyone,         \* the broadcast target
  Nothing,             \* no connection, no message, no group, no tab
  BufferSize,       \* PerConnectionBuffer (100)
  HistoryCapacity,  \* HistoryCapacity (100)
  ListMax,         \* MAX_ITEMS (50)
  MaxCrashes,       \* bound: deaths of the backend
  MaxCalls          \* bound: calls of connect, disconnect and clear by the page

Hello == "connection"  \* the handshake frame, without an id

ASSUME StreamAssumption ==
  /\ GroupOf \in [Tabs -> Groups \union {Nothing}]
  /\ {BufferSize, HistoryCapacity, ListMax} \subseteq Nat \ {0}
  /\ {MaxCrashes, MaxCalls} \subseteq Nat
  /\ Nothing \notin Messages \union Tabs \union Conns
  /\ Hello \notin Messages

VARIABLES
  \* backend
  stage,     \* [Conns -> Stage], the handler of GET /notifications/stream
  opener,     \* [Conns -> Tabs], the tab that opened it
  since,     \* [Conns -> Messages], its Last-Event-ID
  chan,      \* [Conns -> Seq(Messages)], its bounded channel
  history,   \* Seq(Messages)
  pub,       \* [Messages -> PubStage], the thread that publishes it
  target,    \* [Messages -> Targets]
  todo,      \* [Messages -> SUBSET Conns], the matching subscribers still to visit
  reached,   \* [Messages -> SUBSET Conns], the channels that accepted it
  dropped,   \* [Conns -> SUBSET Messages], what DropOldest threw away
  crashes,
  \* network
  wire,      \* [Conns -> Seq(Messages \union {Hello})], frames on the way
  fetch,     \* [Conns -> Fetch], the GET /history asked when it opened
  answer,    \* [Conns -> Seq(Messages)], the response of that GET
  \* tab
  es,        \* [Tabs -> EsState], the EventSource; "off" and "closed": none
  cur,       \* [Tabs -> Conns], the connection it reads
  lastId,    \* [Tabs -> Messages], what it will send as Last-Event-ID
  timer,     \* [Tabs -> BOOLEAN], the retry of 3 s is armed
  holder,    \* [Tabs -> Conns], NotificationConnection.id
  items,     \* [Tabs -> Seq(Messages)], notifications()
  seen,      \* [Tabs -> SUBSET Messages], what the list has ever held
  calls

server  == <<stage, opener, since, chan, dropped>>
publish == <<pub, target, todo, reached>>
network == <<wire, fetch, answer>>
link    == <<es, cur, lastId, timer, holder>>
list    == <<items, seen>>
notifVars    == <<server, history, publish, crashes, network, link, list, calls>>

-----------------------------------------------------------------------------
ConnStage == {"unused", "replay", "streaming", "gone"}
PubStage == {"new", "sending", "done", "lost"}
Fetch == {"none", "asked", "answered", "done"}
EsState == {"off", "connecting", "open", "closed"}
Targets == {Everyone} \union Groups \union Conns

Attached(c) == stage[c] \in {"replay", "streaming"}

Addressed(to, c) == to \in {Everyone, c} \/ (to \in Groups /\ to = GroupOf[opener[c]])

(* The list keeps its last n elements.                                     *)
LastOf(s, n) == IF Len(s) > n THEN SubSeq(s, Len(s) - n + 1, Len(s)) ELSE s

(* GetHistory: broadcast and the caller's group; after an id, what follows *)
(* it, or everything when the id is not there.                             *)
Relevant(group) ==
  Among(history, {m \in Messages : target[m] = Everyone \/ (group # Nothing /\ target[m] = group)})

GetHistory(group, after) ==
  LET all == Relevant(group)
  IN IF after \in ToSet(all) THEN SubSeq(all, SelectInSeq(all, LAMBDA m : m = after) + 1, Len(all)) ELSE all

-----------------------------------------------------------------------------
NotifInit ==
  /\ stage = [c \in Conns |-> "unused"]
  /\ opener = [c \in Conns |-> Nothing]
  /\ since = [c \in Conns |-> Nothing]
  /\ chan = [c \in Conns |-> <<>>]
  /\ dropped = [c \in Conns |-> {}]
  /\ history = <<>>
  /\ pub = [m \in Messages |-> "new"]
  /\ target = [m \in Messages |-> Nothing]
  /\ todo = [m \in Messages |-> {}]
  /\ reached = [m \in Messages |-> {}]
  /\ crashes = 0
  /\ wire = [c \in Conns |-> <<>>]
  /\ fetch = [c \in Conns |-> "none"]
  /\ answer = [c \in Conns |-> <<>>]
  /\ es = [t \in Tabs |-> "connecting"]
  /\ cur = [t \in Tabs |-> Nothing]
  /\ lastId = [t \in Tabs |-> Nothing]
  /\ timer = [t \in Tabs |-> FALSE]
  /\ holder = [t \in Tabs |-> Nothing]
  /\ items = [t \in Tabs |-> <<>>]
  /\ seen = [t \in Tabs |-> {}]
  /\ calls = 0

-----------------------------------------------------------------------------
(* Publish.                                                                *)

(* _subscribers.Values is a snapshot of the registered connections.        *)
Publish(m, to) ==
  /\ pub[m] = "new"
  /\ to \in Conns => stage[to] # "unused"
  /\ pub' = [pub EXCEPT ![m] = "sending"]
  /\ target' = [target EXCEPT ![m] = to]
  /\ todo' = [todo EXCEPT ![m] = {c \in Conns : Attached(c) /\ Addressed(to, c)}]
  /\ UNCHANGED <<server, history, reached, crashes, network, link, list, calls>>

(* TryWrite fails on a completed channel; a full one loses its oldest.     *)
Send(m, c) ==
  /\ c \in todo[m]
  /\ todo' = [todo EXCEPT ![m] = @ \ {c}]
  /\ IF Attached(c)
       THEN /\ reached' = [reached EXCEPT ![m] = @ \union {c}]
            /\ chan' = [chan EXCEPT ![c] = LastOf(Append(@, m), BufferSize)]
            /\ dropped' = [dropped EXCEPT ![c] = IF Len(chan[c]) = BufferSize THEN @ \union {Head(chan[c])} ELSE @]
       ELSE UNCHANGED <<reached, chan, dropped>>
  /\ UNCHANGED <<stage, opener, since, history, pub, target, crashes, network, link, list, calls>>

(* Then the history, except for a message to one connection; Publish       *)
(* answers whether reached[m] # {}.                                        *)
Store(m) ==
  /\ pub[m] = "sending"
  /\ todo[m] = {}
  /\ pub' = [pub EXCEPT ![m] = "done"]
  /\ history' = IF target[m] \in Conns THEN history ELSE LastOf(Append(history, m), HistoryCapacity)
  /\ UNCHANGED <<server, target, todo, reached, crashes, network, link, list, calls>>

-----------------------------------------------------------------------------
(* GET /notifications/stream.                                              *)

(* Subscribe, then the handshake frame.                                    *)
Subscribe(t, c) ==
  /\ es[t] = "connecting"
  /\ cur[t] = Nothing
  /\ stage[c] = "unused"
  /\ stage' = [stage EXCEPT ![c] = "replay"]
  /\ opener' = [opener EXCEPT ![c] = t]
  /\ since' = [since EXCEPT ![c] = lastId[t]]
  /\ wire' = [wire EXCEPT ![c] = <<Hello>>]
  /\ cur' = [cur EXCEPT ![t] = c]
  /\ UNCHANGED <<chan, dropped, history, publish, crashes, fetch, answer, es, lastId, timer, holder, list, calls>>

(* With a Last-Event-ID, the messages after it.                            *)
Replay(c) ==
  /\ stage[c] = "replay"
  /\ stage' = [stage EXCEPT ![c] = "streaming"]
  /\ wire' = IF since[c] = Nothing THEN wire
             ELSE [wire EXCEPT ![c] = @ \o GetHistory(GroupOf[opener[c]], since[c])]
  /\ UNCHANGED <<opener, since, chan, dropped, history, publish, crashes, fetch, answer, link, list, calls>>

(* Mutant: the message leaves the channel and no frame is written.         *)
PumpLoses(c) ==
  /\ stage[c] = "streaming"
  /\ chan[c] # <<>>
  /\ chan' = [chan EXCEPT ![c] = Tail(@)]
  /\ UNCHANGED <<stage, opener, since, dropped, history, publish, crashes, network, link, list, calls>>

Pump(c) ==
  /\ stage[c] = "streaming"
  /\ chan[c] # <<>>
  /\ chan' = [chan EXCEPT ![c] = Tail(@)]
  /\ wire' = [wire EXCEPT ![c] = Append(@, Head(chan[c]))]
  /\ UNCHANGED <<stage, opener, since, dropped, history, publish, crashes, fetch, answer, link, list, calls>>

(* Mutant: a handler without traffic never notices its client is gone.     *)
UnsubscribeOnTraffic(c) ==
  /\ Attached(c)
  /\ cur[opener[c]] # c
  /\ chan[c] # <<>>
  /\ stage' = [stage EXCEPT ![c] = "gone"]
  /\ chan' = [chan EXCEPT ![c] = <<>>]
  /\ UNCHANGED <<opener, since, dropped, history, publish, crashes, network, link, list, calls>>

(* The request is aborted or a write fails: finally, Unsubscribe.          *)
Unsubscribe(c) ==
  /\ Attached(c)
  /\ cur[opener[c]] # c
  /\ stage' = [stage EXCEPT ![c] = "gone"]
  /\ chan' = [chan EXCEPT ![c] = <<>>]
  /\ UNCHANGED <<opener, since, dropped, history, publish, crashes, network, link, list, calls>>

(* Everything in memory goes.                                              *)
ServerDies ==
  /\ crashes < MaxCrashes
  /\ crashes' = crashes + 1
  /\ stage' = [c \in Conns |-> IF Attached(c) THEN "gone" ELSE stage[c]]
  /\ chan' = [c \in Conns |-> <<>>]
  /\ history' = <<>>
  /\ pub' = [m \in Messages |-> IF pub[m] = "sending" THEN "lost" ELSE pub[m]]
  /\ todo' = [m \in Messages |-> {}]
  /\ UNCHANGED <<opener, since, dropped, target, reached, network, link, list, calls>>

-----------------------------------------------------------------------------
(* The EventSource.                                                        *)

Reads(t, c) == cur[t] = c /\ c # Nothing

(* onopen, which asks for the history, and the handshake.                  *)
Open(t, c) ==
  /\ Reads(t, c)
  /\ wire[c] # <<>>
  /\ Head(wire[c]) = Hello
  /\ wire' = [wire EXCEPT ![c] = Tail(@)]
  /\ es' = [es EXCEPT ![t] = "open"]
  /\ holder' = [holder EXCEPT ![t] = c]
  /\ fetch' = [fetch EXCEPT ![c] = "asked"]
  /\ UNCHANGED <<server, history, publish, crashes, answer, cur, lastId, timer, list, calls>>

Show(t, m) ==
  /\ items' = [items EXCEPT ![t] = LastOf(Append(@, m), ListMax)]
  /\ seen' = [seen EXCEPT ![t] = @ \union {m}]

(* An id already in the list is ignored.                                   *)
Ingest(t, m) == IF m \in ToSet(items[t]) THEN UNCHANGED list ELSE Show(t, m)

Receive(t, c) ==
  /\ Reads(t, c)
  /\ wire[c] # <<>>
  /\ Head(wire[c]) # Hello
  /\ wire' = [wire EXCEPT ![c] = Tail(@)]
  /\ lastId' = [lastId EXCEPT ![t] = Head(wire[c])]
  /\ Ingest(t, Head(wire[c]))
  /\ UNCHANGED <<server, history, publish, crashes, fetch, answer, es, cur, timer, holder, calls>>

(* Mutant: the id of a dead connection stays in the holder.                *)
LoseKeepsHolder(t, state) ==
  /\ es' = [es EXCEPT ![t] = state]
  /\ cur' = [cur EXCEPT ![t] = Nothing]
  /\ wire' = [c \in Conns |-> IF Reads(t, c) THEN <<>> ELSE wire[c]]
  /\ UNCHANGED holder

(* The frames on the way are lost, the connection id is forgotten.         *)
Lose(t, state) ==
  /\ es' = [es EXCEPT ![t] = state]
  /\ cur' = [cur EXCEPT ![t] = Nothing]
  /\ wire' = [c \in Conns |-> IF Reads(t, c) THEN <<>> ELSE wire[c]]
  /\ holder' = [holder EXCEPT ![t] = Nothing]

(* Transient: the same EventSource connects again with its Last-Event-ID.  *)
Drop(t) ==
  /\ es[t] \in {"connecting", "open"}
  /\ cur[t] # Nothing
  /\ Lose(t, "connecting")
  /\ UNCHANGED <<server, history, publish, crashes, fetch, answer, lastId, timer, list, calls>>

(* Terminal: the attempt is answered with an error; retry in 3 s.          *)
Refused(t) ==
  /\ es[t] = "connecting"
  /\ cur[t] = Nothing
  /\ Lose(t, "closed")
  /\ timer' = [timer EXCEPT ![t] = TRUE]
  /\ UNCHANGED <<server, history, publish, crashes, fetch, answer, lastId, list, calls>>

(* connect(): without an EventSource, a new one, with no Last-Event-ID.    *)
NewEventSource(t) ==
  IF es[t] \in {"off", "closed"}
    THEN /\ es' = [es EXCEPT ![t] = "connecting"]
         /\ lastId' = [lastId EXCEPT ![t] = Nothing]
    ELSE UNCHANGED <<es, lastId>>

Retry(t) ==
  /\ timer[t]
  /\ timer' = [timer EXCEPT ![t] = FALSE]
  /\ NewEventSource(t)
  /\ UNCHANGED <<server, history, publish, crashes, network, cur, holder, list, calls>>

(* A call of the page.                                                     *)
Call == calls < MaxCalls /\ calls' = calls + 1

Connect(t) ==
  /\ Call
  /\ NewEventSource(t)
  /\ UNCHANGED <<server, history, publish, crashes, network, cur, timer, holder, list>>

Disconnect(t) ==
  /\ Call
  /\ es[t] # "off"
  /\ Lose(t, "off")
  /\ UNCHANGED <<server, history, publish, crashes, fetch, answer, lastId, timer, list>>

-----------------------------------------------------------------------------
(* GET /notifications/history, and the list.                               *)

AnswerHistory(c) ==
  /\ fetch[c] = "asked"
  /\ fetch' = [fetch EXCEPT ![c] = "answered"]
  /\ answer' = [answer EXCEPT ![c] = GetHistory(GroupOf[opener[c]], Nothing)]
  /\ UNCHANGED <<server, history, publish, crashes, wire, link, list, calls>>

(* An error is silent.                                                     *)
FetchFails(c) ==
  /\ fetch[c] = "asked"
  /\ fetch' = [fetch EXCEPT ![c] = "done"]
  /\ UNCHANGED <<server, history, publish, crashes, wire, answer, link, list, calls>>

(* What the list lacks goes in front of it; the last ListMax stay.        *)
Merged(old, current) ==
  LastOf(Among(old, Messages \ ToSet(current)) \o current, ListMax)

MergeHistory(c) ==
  /\ fetch[c] = "answered"
  /\ fetch' = [fetch EXCEPT ![c] = "done"]
  /\ answer' = [answer EXCEPT ![c] = <<>>]
  /\ items' = [items EXCEPT ![opener[c]] = Merged(answer[c], @)]
  /\ seen' = [seen EXCEPT ![opener[c]] = @ \union ToSet(items'[opener[c]])]
  /\ UNCHANGED <<server, history, publish, crashes, wire, link, calls>>

Clear(t) ==
  /\ Call
  /\ items[t] # <<>>
  /\ items' = [items EXCEPT ![t] = <<>>]
  /\ UNCHANGED <<server, history, publish, crashes, network, link, seen>>

-----------------------------------------------------------------------------
Handler(c) == Replay(c) \/ Pump(c) \/ Unsubscribe(c)
Browser(t) == \E c \in Conns : Open(t, c) \/ Receive(t, c)

NotifNext ==
  \/ \E m \in Messages, to \in Targets : Publish(m, to)
  \/ \E m \in Messages : Store(m) \/ \E c \in Conns : Send(m, c)
  \/ \E c \in Conns : Handler(c) \/ AnswerHistory(c) \/ FetchFails(c) \/ MergeHistory(c)
  \/ \E t \in Tabs, c \in Conns : Subscribe(t, c)
  \/ \E t \in Tabs :
       Browser(t) \/ Drop(t) \/ Refused(t) \/ Retry(t) \/ Connect(t) \/ Disconnect(t) \/ Clear(t)
  \/ ServerDies

(* Handlers run, a broken connection is noticed at the latest by the       *)
(* heartbeat, the browser dispatches what it receives.                     *)
NotifFairness ==
  /\ \A c \in Conns : WF_notifVars(Handler(c))
  /\ \A t \in Tabs : WF_notifVars(Browser(t))

NotifSpec == NotifInit /\ [][NotifNext]_notifVars
FairNotifSpec == NotifSpec /\ NotifFairness

-----------------------------------------------------------------------------
NotifTypeOK ==
  /\ stage \in [Conns -> ConnStage]
  /\ opener \in [Conns -> Tabs \union {Nothing}]
  /\ since \in [Conns -> Messages \union {Nothing}]
  /\ chan \in [Conns -> Seq(Messages)] /\ \A c \in Conns : Len(chan[c]) <= BufferSize
  /\ dropped \in [Conns -> SUBSET Messages]
  /\ history \in Seq(Messages) /\ Len(history) <= HistoryCapacity
  /\ pub \in [Messages -> PubStage]
  /\ target \in [Messages -> Targets \union {Nothing}]
  /\ todo \in [Messages -> SUBSET Conns]
  /\ reached \in [Messages -> SUBSET Conns]
  /\ crashes \in 0..MaxCrashes
  /\ wire \in [Conns -> Seq(Messages \union {Hello})] /\ answer \in [Conns -> Seq(Messages)]
  /\ fetch \in [Conns -> Fetch]
  /\ es \in [Tabs -> EsState]
  /\ cur \in [Tabs -> Conns \union {Nothing}]
  /\ lastId \in [Tabs -> Messages \union {Nothing}]
  /\ timer \in [Tabs -> BOOLEAN]
  /\ holder \in [Tabs -> Conns \union {Nothing}]
  /\ items \in [Tabs -> Seq(Messages)] /\ \A t \in Tabs : Len(items[t]) <= ListMax
  /\ seen \in [Tabs -> SUBSET Messages]
  /\ calls \in 0..MaxCalls

(* A message reaches only its audience, live, by replay or by the history: *)
(* everyone, the tabs of the group, or the tab that opened the connection, *)
(* never another one (Addressed, GetHistory, backend/README.md:221).         *)
InAudience(t, m) ==
  \/ target[m] = Everyone
  \/ target[m] \in Groups /\ target[m] = GroupOf[t]
  \/ target[m] \in Conns /\ opener[target[m]] = t

AudienceRespected ==
  \A t \in Tabs, m \in Messages :
    m \in seen[t] => InAudience(t, m)

(* The list never holds the same id twice, whatever live frames, replays   *)
(* and history responses overlap (ingest and loadHistory deduplicate).     *)
ItemsDistinct == \A t \in Tabs : IsInjective(items[t])

(* As long as its connection lives, a tab misses no message its channel    *)
(* accepted, except those DropOldest threw away for a slow reader          *)
(* (Stream loop, PerConnectionBuffer).                                     *)
NoGapWhileConnected ==
  \A m \in Messages : \A c \in reached[m] :
    Attached(c) /\ Reads(opener[c], c) =>
      \/ m \in ToSet(chan[c]) \union ToSet(wire[c]) \union dropped[c]
      \/ m \in seen[opener[c]]

(* The id sent as X-Connection-Id is that of the connection the tab reads, *)
(* one of its own (NotificationConnection).                                *)
HolderIsCurrent ==
  \A t \in Tabs : holder[t] # Nothing =>
    es[t] = "open" /\ holder[t] = cur[t] /\ opener[holder[t]] = t

(* What a tab shows and says of itself is right, whatever stream, replay,  *)
(* history and reconnections overlap.                                      *)
TabsSafe == NotifTypeOK /\ AudienceRespected /\ ItemsDistinct /\ HolderIsCurrent

-----------------------------------------------------------------------------
(* Why the tabs are right: a message on its way, wherever it is, has been  *)
(* published to the tab at the end of that way.                            *)

Gets(t, m) == pub[m] # "new" /\ InAudience(t, m)
Used(c) == stage[c] # "unused"

TargetsStand ==
  \A m \in Messages : pub[m] # "new" =>
    target[m] \in Targets /\ (target[m] \in Conns => Used(target[m]))

ConnsAreKnown ==
  /\ \A c \in Conns : IF Used(c) THEN opener[c] \in Tabs
                      ELSE chan[c] = <<>> /\ wire[c] = <<>> /\ answer[c] = <<>> /\ fetch[c] = "none"
  /\ \A t \in Tabs : cur[t] # Nothing => Used(cur[t]) /\ opener[cur[t]] = t
  /\ \A m \in Messages : \A c \in todo[m] \union reached[m] : Used(c)

OnTheWay(c) == ToSet(chan[c]) \union (ToSet(wire[c]) \ {Hello}) \union ToSet(answer[c])

FlowsAreAddressed ==
  /\ \A m \in Messages : \A c \in todo[m] : pub[m] = "sending" /\ Gets(opener[c], m)
  /\ \A c \in Conns : \A m \in OnTheWay(c) : Gets(opener[c], m)
  /\ \A t \in Tabs : \A m \in seen[t] : Gets(t, m)

(* A message enters the history once, so its excerpts repeat nothing.      *)
HistoryOnce ==
  /\ IsInjective(history) /\ \A m \in ToSet(history) : pub[m] = "done"
  /\ \A c \in Conns : IsInjective(answer[c])

ListIsSeen == \A t \in Tabs : ToSet(items[t]) \subseteq seen[t]

NotifIInv ==
  /\ NotifTypeOK /\ TargetsStand /\ ConnsAreKnown /\ FlowsAreAddressed /\ HistoryOnce /\ ListIsSeen
  /\ ItemsDistinct /\ HolderIsCurrent /\ NoGapWhileConnected

-----------------------------------------------------------------------------
(* The documented promise (frontend/README.md:1060): after a reconnection  *)
(* with Last-Event-ID the server sends the messages that were missed.  At  *)
(* rest, a message that an earlier connection of the tab accepted, that    *)
(* did not overflow and is still in the history has been seen.             *)
NothingUnderWay(t) ==
  /\ es[t] = "open" /\ stage[cur[t]] = "streaming" /\ fetch[cur[t]] = "done"
  /\ chan[cur[t]] = <<>> /\ wire[cur[t]] = <<>>
  /\ \A m \in Messages : pub[m] \in {"new", "done"}

MissedAreResent ==
  \A t \in Tabs : NothingUnderWay(t) /\ since[cur[t]] # Nothing =>
    \A m \in ToSet(Relevant(GroupOf[t])) :
      (\E c \in reached[m] : opener[c] = t /\ m \notin dropped[c]) => m \in seen[t]

(* A connection whose client went away leaves the registry.                *)
DeadConnectionsLeave ==
  \A c \in Conns : (Attached(c) /\ cur[opener[c]] # c) ~> stage[c] = "gone"

(* A message the channel accepted is seen, or its connection breaks, or    *)
(* the buffer overflows.                                                   *)
AcceptedIsSeen ==
  \A m \in Messages, c \in Conns :
    (c \in reached[m] /\ Attached(c) /\ Reads(opener[c], c)) ~>
      \/ ~Attached(c) \/ ~Reads(opener[c], c)
      \/ m \in dropped[c]
      \/ m \in seen[opener[c]]

(* Streams come to an end or to a tab: no dead connection stays, no        *)
(* accepted message is lost on a living one.                               *)
StreamsServe == DeadConnectionsLeave /\ AcceptedIsSeen
=============================================================================
