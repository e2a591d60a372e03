---------------------- MODULE NotificationStreamProofs ----------------------
(***************************************************************************)
(* What a tab shows and says of itself is right, for any number of tabs,   *)
(* connections, groups and messages and any size of the buffers.  The      *)
(* argument follows a message on its way: wherever it is, in a channel, in *)
(* a frame, in a response or in a list, it came there from a place before, *)
(* and the first such place is the set of subscribers Publish addressed.   *)
(***************************************************************************)
EXTENDS NotificationStream, SequenceFacts

-----------------------------------------------------------------------------
(* The lists of the history and of the tabs.                               *)

(* A bounded list loses its first elements only.                           *)
LEMMA Bounded ==
  ASSUME NEW S, NEW s \in Seq(S), NEW n \in Nat \ {0}
  PROVE  /\ LastOf(s, n) \in Seq(S) /\ Len(LastOf(s, n)) <= n
         /\ ToSet(LastOf(s, n)) \subseteq ToSet(s) /\ (IsInjective(s) => IsInjective(LastOf(s, n)))
         /\ Len(s) <= n => LastOf(s, n) = s
         /\ \A i \in 1..Len(s) : i > Len(s) - n => s[i] \in ToSet(LastOf(s, n))
<1>1. Len(s) \in Nat /\ DOMAIN s = 1..Len(s)
  BY LenProperties
<1>2. CASE Len(s) <= n
  BY <1>1, <1>2 DEF LastOf, ToSet
<1>3. CASE Len(s) > n
  <2> DEFINE k == Len(s) - n + 1
  <2>1. k \in 1..Len(s) + 1 /\ LastOf(s, n) = SubSeq(s, k, Len(s)) /\ Len(s) - k + 1 = n
    BY <1>1, <1>3 DEF LastOf
  <2> HIDE DEF k
  <2>2. /\ LastOf(s, n) \in Seq(S) /\ Len(LastOf(s, n)) = n
        /\ ToSet(LastOf(s, n)) \subseteq ToSet(s) /\ (IsInjective(s) => IsInjective(LastOf(s, n)))
        /\ \A i \in k..Len(s) : s[i] \in ToSet(LastOf(s, n))
    BY <2>1, Suffix
  <2>3. \A i \in 1..Len(s) : i > Len(s) - n => i \in k..Len(s)
    BY <1>1 DEF k
  <2> QED
    BY <1>1, <1>3, <2>2, <2>3
<1> QED
  BY <1>1, <1>2, <1>3

(* What joins a bounded list is in it; what leaves it was the first.       *)
LEMMA Pushed ==
  ASSUME NEW S, NEW s \in Seq(S), NEW e \in S, NEW n \in Nat \ {0}, Len(s) <= n
  PROVE  LET t == LastOf(Append(s, e), n)
         IN  /\ t \in Seq(S) /\ Len(t) <= n
             /\ e \in ToSet(t) /\ ToSet(t) \subseteq ToSet(s) \union {e}
             /\ IsInjective(s) /\ e \notin ToSet(s) => IsInjective(t)
             /\ IF Len(s) = n THEN ToSet(s) \subseteq ToSet(t) \union {Head(s)} /\ Head(s) \in S
                ELSE ToSet(s) \subseteq ToSet(t)
<1> DEFINE a == Append(s, e)
           t == LastOf(a, n)
<1>1. /\ a \in Seq(S) /\ Len(s) \in Nat /\ Len(a) = Len(s) + 1 /\ ToSet(a) = ToSet(s) \union {e}
      /\ a[Len(s) + 1] = e /\ \A i \in 1..Len(s) : a[i] = s[i]
      /\ IsInjective(s) /\ e \notin ToSet(s) => IsInjective(a)
  BY Appended
<1> HIDE DEF a
<1>2. /\ t \in Seq(S) /\ Len(t) <= n /\ ToSet(t) \subseteq ToSet(a) /\ (IsInjective(a) => IsInjective(t))
      /\ \A i \in 1..Len(a) : i > Len(a) - n => a[i] \in ToSet(t)
  BY <1>1, Bounded
<1> HIDE DEF t
<1>3. e \in ToSet(t)
  BY <1>1, <1>2
<1>4. \A i \in 1..Len(s) : i > 1 \/ Len(s) < n => s[i] \in ToSet(t)
  BY <1>1, <1>2
<1>5. DOMAIN s = 1..Len(s)
  BY LenProperties
<1>6. Len(s) < n => ToSet(s) \subseteq ToSet(t)
  BY <1>4, <1>5 DEF ToSet
<1>7. Len(s) = n => Head(s) = s[1] /\ Head(s) \in S
  <2>1. Len(s) = n => s # <<>>
    BY EmptySeq
  <2> QED
    BY <2>1, Taken
<1>8. Len(s) = n => ToSet(s) \subseteq ToSet(t) \union {Head(s)}
  BY <1>1, <1>4, <1>5, <1>7 DEF ToSet
<1> QED
  BY <1>1, <1>2, <1>3, <1>6, <1>7, <1>8 DEF a, t

(* The excerpt of the history a caller gets: messages of the history it is *)
(* in the audience of, none of them twice.                                 *)
LEMMA Excerpt ==
  ASSUME history \in Seq(Messages), NEW group, NEW after
  PROVE  /\ GetHistory(group, after) \in Seq(Messages)
         /\ \A m \in ToSet(GetHistory(group, after)) :
              m \in ToSet(history) /\ m \in Messages /\ (target[m] = Everyone \/ (group # Nothing /\ target[m] = group))
         /\ IsInjective(history) => IsInjective(GetHistory(group, after))
<1> DEFINE all == Relevant(group)
           S == {m \in Messages : target[m] = Everyone \/ (group # Nothing /\ target[m] = group)}
           I == {i \in 1..Len(all) : all[i] = after}
<1>1. all \in Seq(Messages) /\ ToSet(all) \subseteq ToSet(history) \intersect S /\ (IsInjective(history) => IsInjective(all))
  <2>1. all = Among(history, S)
    BY DEF Relevant
  <2> HIDE DEF all, S
  <2> QED
    BY <2>1, Filters
<1>2. CASE after \notin ToSet(all)
  <2>1. GetHistory(group, after) = all
    BY <1>2 DEF GetHistory
  <2> HIDE DEF all
  <2> QED
    BY <1>1, <2>1
<1>3. CASE after \in ToSet(all)
  <2> DEFINE k == SelectInSeq(all, LAMBDA m : m = after)
             r == SubSeq(all, k + 1, Len(all))
  <2>1. GetHistory(group, after) = r
    BY <1>3 DEF GetHistory
  <2>2. k = IF I # {} THEN Min(I) ELSE 0
    BY Zenon DEF SelectInSeq
  <2>3. k \in 0..Len(all) /\ Len(all) \in Nat
    <3>1. Len(all) \in Nat /\ I \in SUBSET Nat
      BY <1>1, LenProperties
    <3>2. I # {} => Min(I) \in I
      <4>1. I # {} => \E x \in I : \A y \in I : x <= y
        BY <3>1, Least
      <4> HIDE DEF I
      <4> QED
        BY <4>1, Zenon DEF Min
    <3> QED
      BY <2>2, <3>1, <3>2
  <2> HIDE DEF all, k
  <2>4. k + 1 \in 1..Len(all) + 1
    BY <2>3
  <2>5. r \in Seq(Messages) /\ ToSet(r) \subseteq ToSet(all) /\ (IsInjective(all) => IsInjective(r))
    BY <1>1, <2>4, Suffix
  <2> HIDE DEF r
  <2> QED
    BY <1>1, <2>1, <2>5
<1> QED
  BY <1>2, <1>3

-----------------------------------------------------------------------------
(* The first state.                                                        *)

LEMMA InitInv == NotifInit => NotifIInv
<1> SUFFICES ASSUME NotifInit PROVE NotifIInv
  OBVIOUS
<1>1. NotifTypeOK
  BY StreamAssumption, EmptySeq DEF NotifInit, NotifTypeOK, ConnStage, PubStage, Fetch, EsState
<1>2. TargetsStand /\ ConnsAreKnown
  BY DEF NotifInit, TargetsStand, ConnsAreKnown, Used
<1>3. FlowsAreAddressed
  BY EmptyToSet DEF NotifInit, FlowsAreAddressed, OnTheWay
<1>4. HistoryOnce /\ ListIsSeen /\ ItemsDistinct
  BY EmptyToSet DEF NotifInit, HistoryOnce, ListIsSeen, ItemsDistinct
<1>5. HolderIsCurrent /\ NoGapWhileConnected
  BY DEF NotifInit, HolderIsCurrent, NoGapWhileConnected
<1> QED
  BY <1>1, <1>2, <1>3, <1>4, <1>5 DEF NotifIInv

-----------------------------------------------------------------------------
(* What the actions have in common.                                        *)

(* A message keeps its audience, a connection its tab.                     *)
LEMMA AudienceStands ==
  ASSUME TargetsStand,
         \A c \in Conns : Used(c) => Used(c)' /\ opener'[c] = opener[c],
         \A m \in Messages : pub[m] # "new" => pub'[m] # "new" /\ target'[m] = target[m]
  PROVE  \A t \in Tabs, m \in Messages : Gets(t, m) => Gets(t, m)'
BY DEF TargetsStand, Gets, InAudience

LEMMA MessagesOnly == NotifTypeOK => \A c \in Conns : OnTheWay(c) \subseteq Messages
<1> SUFFICES ASSUME NotifTypeOK, NEW c \in Conns, NEW m \in OnTheWay(c) PROVE m \in Messages
  OBVIOUS
<1>1. chan[c] \in Seq(Messages) /\ wire[c] \in Seq(Messages \union {Hello}) /\ answer[c] \in Seq(Messages)
  BY DEF NotifTypeOK
<1> QED
  BY <1>1, LenProperties, ElementOfSeq DEF OnTheWay, ToSet

(* Each thing on its way had been sent on that way before, or belongs there. *)
LEMMA FlowsKeep ==
  ASSUME NotifIInv,
         \A c \in Conns : Used(c) => Used(c)' /\ opener'[c] = opener[c],
         \A m \in Messages : pub[m] # "new" => pub'[m] # "new" /\ target'[m] = target[m],
         \A m \in Messages : todo'[m] \in SUBSET Conns,
         \A m \in Messages : \A c \in todo'[m] : (c \in todo[m] /\ pub'[m] = pub[m]) \/ (pub'[m] = "sending" /\ Gets(opener[c], m)'),
         \A c \in Conns : \A m \in OnTheWay(c)' : m \in OnTheWay(c) \/ (m \in Messages /\ (c \in todo[m] \/ (Used(c) /\ Gets(opener[c], m)))),
         seen' \in [Tabs -> SUBSET Messages],
         \A t \in Tabs : \A m \in seen'[t] : m \in seen[t] \/ \E c \in Conns : Used(c) /\ opener[c] = t /\ m \in OnTheWay(c)
  PROVE  FlowsAreAddressed'
<1>1. \A t \in Tabs, m \in Messages : Gets(t, m) => Gets(t, m)'
  BY AudienceStands DEF NotifIInv
<1>2. \A c \in Conns : ~Used(c) => OnTheWay(c) = {}
  BY EmptyToSet DEF NotifIInv, ConnsAreKnown, OnTheWay
<1>3. \A c \in Conns : Used(c) => opener[c] \in Tabs
  BY DEF NotifIInv, ConnsAreKnown
<1>4. \A m \in Messages : \A c \in todo[m] : c \in Conns /\ Used(c) /\ pub[m] = "sending" /\ Gets(opener[c], m)
  BY DEF NotifIInv, ConnsAreKnown, FlowsAreAddressed, NotifTypeOK
<1>5. \A c \in Conns : \A m \in OnTheWay(c) : Used(c) /\ Gets(opener[c], m)
  BY <1>2 DEF NotifIInv, FlowsAreAddressed
<1>6. ASSUME NEW m \in Messages, NEW c \in todo'[m] PROVE pub'[m] = "sending" /\ Gets(opener[c], m)'
  <2>1. CASE c \in todo[m] /\ pub'[m] = pub[m]
    <3>1. c \in Conns /\ Used(c) /\ opener[c] \in Tabs /\ opener'[c] = opener[c] /\ Gets(opener[c], m)
      BY <1>3, <1>4, <2>1
    <3>2. ASSUME NEW t \in Tabs, t = opener[c] PROVE Gets(t, m)'
      BY <1>1, <3>1, <3>2
    <3> QED
      BY <1>4, <2>1, <3>1, <3>2 DEF Gets, InAudience
  <2> QED
    BY <1>6, <2>1
<1>7. ASSUME NEW c \in Conns, NEW m \in OnTheWay(c)' PROVE Gets(opener[c], m)'
  <2>1. m \in Messages /\ Used(c) /\ opener[c] \in Tabs /\ opener'[c] = opener[c] /\ Gets(opener[c], m)
    BY <1>3, <1>4, <1>5, <1>7, MessagesOnly DEF NotifIInv
  <2>2. ASSUME NEW t \in Tabs, t = opener[c] PROVE Gets(t, m)'
    BY <1>1, <2>1, <2>2
  <2> QED
    BY <2>1, <2>2 DEF Gets, InAudience
<1>8. ASSUME NEW t \in Tabs, NEW m \in seen'[t] PROVE Gets(t, m)'
  <2>1. m \in Messages
    OBVIOUS
  <2>2. Gets(t, m)
    BY <1>5, <2>1, <1>8 DEF NotifIInv, FlowsAreAddressed
  <2> QED
    BY <1>1, <2>1, <2>2
<1> QED
  BY <1>6, <1>7, <1>8 DEF FlowsAreAddressed

-----------------------------------------------------------------------------
(* Publish.                                                                *)

(* The message is new: nothing of it is on the way before, and its         *)
(* subscribers are in its audience.                                        *)
LEMMA PublishKeeps == ASSUME NotifIInv, NEW m \in Messages, NEW to \in Targets, Publish(m, to) PROVE NotifIInv'
<1>1. /\ pub[m] = "new" /\ pub' = [pub EXCEPT ![m] = "sending"] /\ target' = [target EXCEPT ![m] = to]
      /\ todo' = [todo EXCEPT ![m] = {c \in Conns : Attached(c) /\ Addressed(to, c)}]
      /\ to \in Conns => stage[to] # "unused"
      /\ UNCHANGED <<server, history, reached, crashes, network, link, list, calls>>
      /\ pub \in [Messages -> PubStage] /\ target \in [Messages -> Targets \union {Nothing}] /\ todo \in [Messages -> SUBSET Conns]
  BY DEF Publish, NotifIInv, NotifTypeOK
<1>2. NotifTypeOK'
  BY <1>1 DEF NotifIInv, NotifTypeOK, PubStage, server, network, link, list
<1>3. TargetsStand'
  BY <1>1 DEF NotifIInv, TargetsStand, Used, server
<1>4. ConnsAreKnown'
  BY <1>1 DEF NotifIInv, ConnsAreKnown, Used, Attached, server, network, link
<1>5. FlowsAreAddressed'
  <2>1. \A c : OnTheWay(c)' = OnTheWay(c)
    BY <1>1 DEF OnTheWay, server, network
  <2>2. \A c \in Conns : Attached(c) /\ Addressed(to, c) => Gets(opener[c], m)'
    BY <1>1 DEF Gets, InAudience, Addressed, Targets, server
  <2>3. \A n \in Messages : \A c \in todo'[n] : (c \in todo[n] /\ pub'[n] = pub[n]) \/ (pub'[n] = "sending" /\ Gets(opener[c], n)')
    BY <1>1, <2>2
  <2>4. \A n \in Messages : todo'[n] \in SUBSET Conns /\ (pub[n] # "new" => pub'[n] # "new" /\ target'[n] = target[n])
    BY <1>1
  <2>5. (\A c \in Conns : Used(c) => Used(c)' /\ opener'[c] = opener[c]) /\ seen' = seen /\ seen \in [Tabs -> SUBSET Messages]
    BY <1>1 DEF Used, server, list, NotifIInv, NotifTypeOK
  <2> QED
    BY <2>1, <2>3, <2>4, <2>5, FlowsKeep
<1>6. HistoryOnce'
  BY <1>1 DEF NotifIInv, HistoryOnce, network
<1>7. ListIsSeen' /\ ItemsDistinct' /\ HolderIsCurrent' /\ NoGapWhileConnected'
  BY <1>1 DEF NotifIInv, ListIsSeen, ItemsDistinct, HolderIsCurrent, NoGapWhileConnected, Attached, Reads,
     server, network, link, list
<1> QED
  BY <1>2, <1>3, <1>4, <1>5, <1>6, <1>7 DEF NotifIInv

(* A full channel drops its first message and owns up to it.               *)
LEMMA SendKeeps == ASSUME NotifIInv, NEW m \in Messages, NEW c \in Conns, Send(m, c) PROVE NotifIInv'
<1>1. /\ c \in todo[m] /\ todo' = [todo EXCEPT ![m] = @ \ {c}]
      /\ UNCHANGED <<stage, opener, since, history, pub, target, crashes, network, link, list, calls>>
      /\ todo \in [Messages -> SUBSET Conns] /\ reached \in [Messages -> SUBSET Conns] /\ dropped \in [Conns -> SUBSET Messages]
      /\ chan[c] \in Seq(Messages) /\ Len(chan[c]) <= BufferSize /\ BufferSize \in Nat \ {0}
  BY StreamAssumption DEF Send, NotifIInv, NotifTypeOK
<1> DEFINE q == LastOf(Append(chan[c], m), BufferSize)
<1>2. /\ q \in Seq(Messages) /\ Len(q) <= BufferSize /\ m \in ToSet(q) /\ ToSet(q) \subseteq ToSet(chan[c]) \union {m}
      /\ IF Len(chan[c]) = BufferSize THEN ToSet(chan[c]) \subseteq ToSet(q) \union {Head(chan[c])} /\ Head(chan[c]) \in Messages
         ELSE ToSet(chan[c]) \subseteq ToSet(q)
  BY <1>1, Pushed
<1> HIDE DEF q
<1>3. CASE ~Attached(c)
  <2>1. UNCHANGED <<server, reached>>
    BY <1>1, <1>3 DEF Send, server
  <2>2. NotifTypeOK'
    BY <1>1, <2>1 DEF NotifIInv, NotifTypeOK, server, network, link, list
  <2>3. TargetsStand' /\ ConnsAreKnown'
    BY <1>1, <2>1 DEF NotifIInv, TargetsStand, ConnsAreKnown, Used, server, network, link
  <2>4. FlowsAreAddressed' /\ HistoryOnce'
    BY <1>1, <2>1 DEF NotifIInv, FlowsAreAddressed, HistoryOnce, OnTheWay, Gets, InAudience, server, network, list
  <2>5. ListIsSeen' /\ ItemsDistinct' /\ HolderIsCurrent' /\ NoGapWhileConnected'
    BY <1>1, <2>1 DEF NotifIInv, ListIsSeen, ItemsDistinct, HolderIsCurrent, NoGapWhileConnected, Attached, Reads,
       server, network, link, list
  <2> QED
    BY <2>2, <2>3, <2>4, <2>5 DEF NotifIInv
<1>4. CASE Attached(c)
  <2>1. /\ reached' = [reached EXCEPT ![m] = @ \union {c}]
        /\ chan' = [chan EXCEPT ![c] = q]
        /\ dropped' = [dropped EXCEPT ![c] = IF Len(chan[c]) = BufferSize THEN @ \union {Head(chan[c])} ELSE @]
    BY <1>4 DEF Send, q
  <2>2. \A d \in Conns : chan'[d] = IF d = c THEN q ELSE chan[d]
    BY <2>1 DEF NotifIInv, NotifTypeOK
  <2>3. NotifTypeOK'
    BY <1>1, <1>2, <2>1, <2>2 DEF NotifIInv, NotifTypeOK, network, link, list
  <2>4. Used(c)
    BY <1>4 DEF Used, Attached
  <2>5. TargetsStand' /\ ConnsAreKnown'
    BY <1>1, <2>1, <2>2, <2>4 DEF NotifIInv, TargetsStand, ConnsAreKnown, Used, network, link
  <2>6. FlowsAreAddressed'
    <3>1. \A d \in Conns : OnTheWay(d)' \subseteq OnTheWay(d) \union (IF d = c THEN {m} ELSE {})
      BY <1>1, <1>2, <2>2 DEF OnTheWay, network
    <3>2. \A n \in Messages : todo'[n] \in SUBSET Conns /\ \A d \in todo'[n] : d \in todo[n]
      BY <1>1
    <3>3. (\A d \in Conns : Used(d) => Used(d)' /\ opener'[d] = opener[d]) /\ seen' = seen /\ seen \in [Tabs -> SUBSET Messages]
      BY <1>1 DEF Used, list, NotifIInv, NotifTypeOK
    <3>4. \A n \in Messages : pub[n] # "new" => pub'[n] # "new" /\ target'[n] = target[n]
      BY <1>1
    <3>5. \A d \in Conns : \A n \in OnTheWay(d)' : n \in OnTheWay(d) \/ (n \in Messages /\ d \in todo[n])
      BY <1>1, <3>1
    <3>6. \A n \in Messages : \A d \in todo'[n] : d \in todo[n] /\ pub'[n] = pub[n]
      BY <1>1, <3>2
    <3> QED
      BY <3>2, <3>3, <3>4, <3>5, <3>6, FlowsKeep
  <2>7. HistoryOnce' /\ ListIsSeen' /\ ItemsDistinct' /\ HolderIsCurrent'
    BY <1>1 DEF NotifIInv, HistoryOnce, ListIsSeen, ItemsDistinct, HolderIsCurrent, network, link, list
  <2>8. NoGapWhileConnected'
    <3> SUFFICES ASSUME NEW n \in Messages, NEW d \in reached'[n], Attached(d)', Reads(opener[d], d)'
                 PROVE  n \in ToSet(chan'[d]) \union ToSet(wire'[d]) \union dropped'[d] \/ n \in seen'[opener'[d]]
      BY DEF NoGapWhileConnected
    <3>1. d \in Conns /\ (d \in reached[n] \/ (d = c /\ n = m))
      <4>1. reached'[n] = IF n = m THEN reached[n] \union {c} ELSE reached[n]
        BY <1>1, <2>1
      <4>2. reached[n] \in SUBSET Conns
        BY <1>1
      <4> QED
        BY <4>1, <4>2
    <3>2. d \in reached[n] => n \in ToSet(chan[d]) \union ToSet(wire[d]) \union dropped[d] \/ n \in seen[opener[d]]
      BY <1>1 DEF NotifIInv, NoGapWhileConnected, Attached, Reads, link
    <3>3. UNCHANGED <<wire, seen, opener>>
      BY <1>1 DEF network, list
    <3>4. CASE d # c
      BY <1>1, <2>1, <2>2, <3>1, <3>2, <3>3, <3>4
    <3>5. CASE d = c
      BY <1>1, <1>2, <2>1, <2>2, <3>1, <3>2, <3>3, <3>5
    <3> QED
      BY <3>4, <3>5
  <2> QED
    BY <2>3, <2>5, <2>6, <2>7, <2>8 DEF NotifIInv
<1> QED
  BY <1>3, <1>4

(* A message enters the history once: before, it was not yet done.         *)
LEMMA StoreKeeps == ASSUME NotifIInv, NEW m \in Messages, Store(m) PROVE NotifIInv'
<1>1. /\ pub[m] = "sending" /\ todo[m] = {} /\ pub' = [pub EXCEPT ![m] = "done"]
      /\ history' = IF target[m] \in Conns THEN history ELSE LastOf(Append(history, m), HistoryCapacity)
      /\ UNCHANGED <<server, target, todo, reached, crashes, network, link, list, calls>>
      /\ pub \in [Messages -> PubStage] /\ history \in Seq(Messages) /\ Len(history) <= HistoryCapacity
      /\ HistoryCapacity \in Nat \ {0}
  BY StreamAssumption DEF Store, NotifIInv, NotifTypeOK
<1>2. /\ history' \in Seq(Messages) /\ Len(history') <= HistoryCapacity
      /\ ToSet(history') \subseteq ToSet(history) \union {m}
      /\ IsInjective(history')
  <2>1. IsInjective(history) /\ m \notin ToSet(history)
    BY <1>1 DEF NotifIInv, HistoryOnce
  <2> QED
    BY <1>1, <2>1, Pushed
<1>3. NotifTypeOK'
  BY <1>1, <1>2 DEF NotifIInv, NotifTypeOK, PubStage, server, network, link, list
<1>4. TargetsStand' /\ ConnsAreKnown'
  BY <1>1 DEF NotifIInv, TargetsStand, ConnsAreKnown, Used, server, network, link
<1>5. FlowsAreAddressed'
  <2>1. \A c : OnTheWay(c)' = OnTheWay(c)
    BY <1>1 DEF OnTheWay, server, network
  <2>2. \A n \in Messages : \A c \in todo'[n] : c \in todo[n] /\ pub'[n] = pub[n]
    BY <1>1
  <2>3. \A n \in Messages : todo'[n] \in SUBSET Conns /\ (pub[n] # "new" => pub'[n] # "new" /\ target'[n] = target[n])
    BY <1>1 DEF NotifIInv, NotifTypeOK
  <2>4. (\A c \in Conns : Used(c) => Used(c)' /\ opener'[c] = opener[c]) /\ seen' = seen /\ seen \in [Tabs -> SUBSET Messages]
    BY <1>1 DEF Used, server, list, NotifIInv, NotifTypeOK
  <2> QED
    BY <2>1, <2>2, <2>3, <2>4, FlowsKeep
<1>6. HistoryOnce'
  BY <1>1, <1>2 DEF NotifIInv, HistoryOnce, NotifTypeOK, network
<1>7. ListIsSeen' /\ ItemsDistinct' /\ HolderIsCurrent' /\ NoGapWhileConnected'
  BY <1>1 DEF NotifIInv, ListIsSeen, ItemsDistinct, HolderIsCurrent, NoGapWhileConnected, Attached, Reads,
     server, network, link, list
<1> QED
  BY <1>3, <1>4, <1>5, <1>6, <1>7 DEF NotifIInv

-----------------------------------------------------------------------------
(* GET /notifications/stream.                                              *)

(* A fresh connection carries its handshake and nothing else, and a tab    *)
(* that is not open sends no connection id.                                *)
LEMMA SubscribeKeeps == ASSUME NotifIInv, NEW t \in Tabs, NEW c \in Conns, Subscribe(t, c) PROVE NotifIInv'
<1>1. /\ es[t] = "connecting" /\ cur[t] = Nothing /\ stage[c] = "unused"
      /\ stage' = [stage EXCEPT ![c] = "replay"] /\ opener' = [opener EXCEPT ![c] = t]
      /\ since' = [since EXCEPT ![c] = lastId[t]] /\ wire' = [wire EXCEPT ![c] = <<Hello>>]
      /\ cur' = [cur EXCEPT ![t] = c]
      /\ UNCHANGED <<chan, dropped, history, publish, crashes, fetch, answer, es, lastId, timer, holder, list, calls>>
      /\ stage \in [Conns -> ConnStage] /\ opener \in [Conns -> Tabs \union {Nothing}]
      /\ cur \in [Tabs -> Conns \union {Nothing}] /\ wire \in [Conns -> Seq(Messages \union {Hello})]
  BY DEF Subscribe, NotifIInv, NotifTypeOK
<1>2. <<Hello>> \in Seq(Messages \union {Hello}) /\ ToSet(<<Hello>>) = {Hello}
  BY DEF ToSet
<1>3. /\ \A d \in Conns : d # c => stage'[d] = stage[d] /\ opener'[d] = opener[d] /\ wire'[d] = wire[d]
      /\ stage'[c] = "replay" /\ opener'[c] = t /\ wire'[c] = <<Hello>>
      /\ cur'[t] = c /\ \A u \in Tabs : u # t => cur'[u] = cur[u]
  BY <1>1
<1>4. ~Used(c) /\ \A d \in Conns : Used(d) => d # c /\ Used(d)' /\ opener'[d] = opener[d]
  BY <1>1, <1>3 DEF Used
<1>5. NotifTypeOK'
  BY <1>1, <1>2 DEF NotifIInv, NotifTypeOK, ConnStage, publish, list
<1>6. TargetsStand'
  BY <1>1, <1>4 DEF NotifIInv, TargetsStand, Targets, publish
<1>7. ConnsAreKnown'
  <2>1. \A d \in Conns : IF Used(d)' THEN opener'[d] \in Tabs
                          ELSE chan'[d] = <<>> /\ wire'[d] = <<>> /\ answer'[d] = <<>> /\ fetch'[d] = "none"
    BY <1>1, <1>3, <1>4 DEF NotifIInv, ConnsAreKnown, Used
  <2>2. \A u \in Tabs : cur'[u] # Nothing => stage'[cur'[u]] # "unused" /\ opener'[cur'[u]] = u
    <3> SUFFICES ASSUME NEW u \in Tabs, cur'[u] # Nothing PROVE stage'[cur'[u]] # "unused" /\ opener'[cur'[u]] = u
      OBVIOUS
    <3>1. CASE u = t
      BY <1>1, <1>3, <3>1 DEF Used
    <3>2. CASE u # t
      <4>1. cur'[u] = cur[u] /\ cur[u] \in Conns /\ Used(cur[u]) /\ opener[cur[u]] = u
        BY <1>1, <1>3, <3>2 DEF NotifIInv, ConnsAreKnown
      <4> QED
        BY <1>3, <1>4, <4>1 DEF Used
    <3> QED
      BY <3>1, <3>2
  <2>3. \A m \in Messages : \A d \in todo'[m] \union reached'[m] : d \in Conns /\ Used(d)
    BY <1>1 DEF NotifIInv, NotifTypeOK, ConnsAreKnown, publish
  <2> QED
    BY <1>4, <2>1, <2>2, <2>3 DEF ConnsAreKnown, Used
<1>8. FlowsAreAddressed'
  <2>1. \A d \in Conns : OnTheWay(d)' \subseteq OnTheWay(d)
    BY <1>1, <1>2, <1>3 DEF OnTheWay
  <2>2. /\ \A m \in Messages : pub'[m] = pub[m] /\ target'[m] = target[m] /\ todo'[m] = todo[m] /\ todo[m] \in SUBSET Conns
        /\ seen' = seen /\ seen \in [Tabs -> SUBSET Messages]
    BY <1>1 DEF publish, list, NotifIInv, NotifTypeOK
  <2> QED
    BY <1>4, <2>1, <2>2, FlowsKeep
<1>9. HistoryOnce' /\ ListIsSeen' /\ ItemsDistinct'
  BY <1>1 DEF NotifIInv, HistoryOnce, ListIsSeen, ItemsDistinct, publish, list
<1>10. HolderIsCurrent'
  <2> SUFFICES ASSUME NEW u \in Tabs, holder'[u] # Nothing PROVE es'[u] = "open" /\ holder'[u] = cur'[u] /\ opener'[holder'[u]] = u
    BY DEF HolderIsCurrent
  <2>1. es[u] = "open" /\ holder[u] = cur[u] /\ opener[holder[u]] = u /\ UNCHANGED <<es, holder>> /\ holder[u] # Nothing
    BY <1>1 DEF NotifIInv, HolderIsCurrent
  <2>2. u # t /\ holder[u] \in Conns /\ Used(holder[u])
    BY <1>1, <2>1 DEF NotifIInv, ConnsAreKnown
  <2> QED
    BY <1>3, <1>4, <2>1, <2>2
<1>11. NoGapWhileConnected'
  <2> SUFFICES ASSUME NEW m \in Messages, NEW d \in reached'[m], Attached(d)', Reads(opener[d], d)'
               PROVE  m \in ToSet(chan'[d]) \union ToSet(wire'[d]) \union dropped'[d] \/ m \in seen'[opener'[d]]
    BY DEF NoGapWhileConnected
  <2>1. d \in reached[m] /\ d \in Conns /\ Used(d) /\ UNCHANGED <<chan, dropped, seen>>
    BY <1>1 DEF NotifIInv, NotifTypeOK, ConnsAreKnown, publish, list
  <2>2. d # c /\ opener'[d] = opener[d] /\ wire'[d] = wire[d] /\ Attached(d)
    BY <1>3, <1>4, <2>1 DEF Attached
  <2>3. Reads(opener[d], d)
    BY <1>1, <2>1, <2>2 DEF Reads
  <2> QED
    BY <2>1, <2>2, <2>3 DEF NotifIInv, NoGapWhileConnected
<1> QED
  BY <1>5, <1>6, <1>7, <1>8, <1>9, <1>10, <1>11 DEF NotifIInv

(* A handler moves messages of its channel, or of the history, to its      *)
(* frames: nothing leaves the way of a living connection.                  *)
LEMMA HandlerMoves ==
  ASSUME NotifIInv, NotifTypeOK', NEW c \in Conns, Used(c),
         UNCHANGED <<opener, since, dropped, history, publish, crashes, fetch, answer, link, list, calls>>,
         \A d \in Conns : d # c => stage'[d] = stage[d] /\ chan'[d] = chan[d] /\ wire'[d] = wire[d],
         Used(c)', Attached(c)' => Attached(c),
         \A m \in OnTheWay(c)' : m \in OnTheWay(c) \/ (m \in Messages /\ Gets(opener[c], m)),
         Attached(c)' => ToSet(chan[c]) \union ToSet(wire[c]) \subseteq ToSet(chan'[c]) \union ToSet(wire'[c])
  PROVE  NotifIInv'
<1>1. \A d \in Conns : Used(d)' = Used(d) /\ opener'[d] = opener[d]
  BY DEF Used
<1>2. TargetsStand' /\ ConnsAreKnown'
  <2>1. TargetsStand'
    BY <1>1 DEF NotifIInv, TargetsStand, publish
  <2>2. \A d \in Conns : IF Used(d)' THEN opener'[d] \in Tabs
                          ELSE chan'[d] = <<>> /\ wire'[d] = <<>> /\ answer'[d] = <<>> /\ fetch'[d] = "none"
    BY <1>1 DEF NotifIInv, ConnsAreKnown, Used
  <2>3. \A u \in Tabs : cur'[u] # Nothing => cur'[u] \in Conns /\ Used(cur'[u]) /\ opener'[cur'[u]] = u
    BY DEF NotifIInv, NotifTypeOK, ConnsAreKnown, link
  <2>4. \A m \in Messages : \A d \in todo'[m] \union reached'[m] : d \in Conns /\ Used(d)
    BY DEF NotifIInv, NotifTypeOK, ConnsAreKnown, publish
  <2> QED
    BY <1>1, <2>1, <2>2, <2>3, <2>4 DEF ConnsAreKnown, Used
<1>3. FlowsAreAddressed'
  <2>1. \A d \in Conns : \A m \in OnTheWay(d)' : m \in OnTheWay(d) \/ (m \in Messages /\ Used(d) /\ Gets(opener[d], m))
    BY DEF OnTheWay
  <2>2. /\ \A m \in Messages : pub'[m] = pub[m] /\ target'[m] = target[m] /\ todo'[m] = todo[m] /\ todo[m] \in SUBSET Conns
        /\ seen' = seen /\ seen \in [Tabs -> SUBSET Messages]
    BY DEF publish, list, NotifIInv, NotifTypeOK
  <2> QED
    BY <1>1, <2>1, <2>2, FlowsKeep
<1>4. HistoryOnce' /\ ListIsSeen' /\ ItemsDistinct' /\ HolderIsCurrent'
  BY DEF NotifIInv, HistoryOnce, ListIsSeen, ItemsDistinct, HolderIsCurrent, publish, link, list
<1>5. NoGapWhileConnected'
  <2> SUFFICES ASSUME NEW m \in Messages, NEW d \in reached'[m], Attached(d)', Reads(opener[d], d)'
               PROVE  m \in ToSet(chan'[d]) \union ToSet(wire'[d]) \union dropped'[d] \/ m \in seen'[opener'[d]]
    BY DEF NoGapWhileConnected
  <2>1. d \in reached[m] /\ d \in Conns /\ UNCHANGED <<opener, dropped, seen, cur>> /\ Reads(opener[d], d)
    BY DEF NotifIInv, NotifTypeOK, publish, list, link, Reads
  <2>2. Attached(d)
    BY <2>1 DEF Attached
  <2>3. m \in ToSet(chan[d]) \union ToSet(wire[d]) \union dropped[d] \/ m \in seen[opener[d]]
    BY <2>1, <2>2 DEF NotifIInv, NoGapWhileConnected
  <2> QED
    BY <2>1, <2>3
<1> QED
  BY <1>2, <1>3, <1>4, <1>5 DEF NotifIInv

LEMMA Wider == ASSUME NEW S, NEW T, S \subseteq T, NEW s \in Seq(S) PROVE s \in Seq(T)
BY LenProperties, ElementOfSeq, SeqDef

(* What is in the history for a group is for the tabs of the group.        *)
LEMMA ExcerptIsAddressed ==
  ASSUME NotifIInv, NEW c \in Conns, Used(c), NEW after
  PROVE  LET h == GetHistory(GroupOf[opener[c]], after)
         IN  h \in Seq(Messages) /\ IsInjective(h) /\ \A m \in ToSet(h) : m \in Messages /\ Gets(opener[c], m)
<1> DEFINE h == GetHistory(GroupOf[opener[c]], after)
<1>1. /\ opener[c] \in Tabs /\ GroupOf[opener[c]] \in Groups \union {Nothing} /\ history \in Seq(Messages)
      /\ IsInjective(history) /\ \A m \in ToSet(history) : pub[m] = "done"
  BY StreamAssumption DEF NotifIInv, NotifTypeOK, ConnsAreKnown, HistoryOnce
<1>2. /\ h \in Seq(Messages) /\ IsInjective(h)
      /\ \A m \in ToSet(h) : m \in ToSet(history) /\ m \in Messages
           /\ (target[m] = Everyone \/ (GroupOf[opener[c]] # Nothing /\ target[m] = GroupOf[opener[c]]))
  BY <1>1, Excerpt
<1> HIDE DEF h
<1>3. \A m \in ToSet(h) : m \in Messages /\ Gets(opener[c], m)
  BY <1>1, <1>2 DEF Gets, InAudience
<1> QED
  BY <1>2, <1>3 DEF h

LEMMA ReplayKeeps == ASSUME NotifIInv, NEW c \in Conns, Replay(c) PROVE NotifIInv'
<1> DEFINE h == GetHistory(GroupOf[opener[c]], since[c])
<1>1. /\ stage[c] = "replay" /\ stage' = [stage EXCEPT ![c] = "streaming"]
      /\ wire' = IF since[c] = Nothing THEN wire ELSE [wire EXCEPT ![c] = @ \o h]
      /\ UNCHANGED <<opener, since, chan, dropped, history, publish, crashes, fetch, answer, link, list, calls>>
      /\ stage \in [Conns -> ConnStage] /\ wire \in [Conns -> Seq(Messages \union {Hello})]
  BY DEF Replay, NotifIInv, NotifTypeOK
<1>2. Used(c) /\ Attached(c) /\ Used(c)'
  BY <1>1 DEF Used, Attached
<1>3. h \in Seq(Messages) /\ \A m \in ToSet(h) : m \in Messages /\ Gets(opener[c], m)
  BY <1>2, ExcerptIsAddressed
<1> HIDE DEF h
<1>4. h \in Seq(Messages \union {Hello})
  BY <1>3, Wider
<1>5. wire[c] \o h \in Seq(Messages \union {Hello}) /\ ToSet(wire[c] \o h) = ToSet(wire[c]) \union ToSet(h)
  <2>1. wire[c] \in Seq(Messages \union {Hello})
    BY <1>1
  <2> QED
    BY <1>4, <2>1, Joined
<1>6. /\ wire' \in [Conns -> Seq(Messages \union {Hello})]
      /\ ToSet(wire[c]) \subseteq ToSet(wire'[c]) /\ ToSet(wire'[c]) \subseteq ToSet(wire[c]) \union ToSet(h)
  BY <1>1, <1>5
<1>7. \A d \in Conns : d # c => stage'[d] = stage[d] /\ chan'[d] = chan[d] /\ wire'[d] = wire[d]
  BY <1>1
<1>8. NotifTypeOK'
  BY <1>1, <1>6 DEF NotifIInv, NotifTypeOK, ConnStage, publish, link, list
<1>9. \A m \in OnTheWay(c)' : m \in OnTheWay(c) \/ (m \in Messages /\ Gets(opener[c], m))
  BY <1>1, <1>3, <1>6 DEF OnTheWay
<1> QED
  BY <1>1, <1>2, <1>6, <1>7, <1>8, <1>9, HandlerMoves

LEMMA PumpKeeps == ASSUME NotifIInv, NEW c \in Conns, Pump(c) PROVE NotifIInv'
<1> DEFINE m == Head(chan[c])
<1>1. /\ stage[c] = "streaming" /\ chan[c] # <<>>
      /\ chan' = [chan EXCEPT ![c] = Tail(chan[c])] /\ wire' = [wire EXCEPT ![c] = Append(wire[c], m)]
      /\ UNCHANGED <<stage, opener, since, dropped, history, publish, crashes, fetch, answer, link, list, calls>>
      /\ chan \in [Conns -> Seq(Messages)] /\ wire \in [Conns -> Seq(Messages \union {Hello})]
      /\ Len(chan[c]) <= BufferSize /\ BufferSize \in Nat
  BY StreamAssumption DEF Pump, NotifIInv, NotifTypeOK
<1>2. /\ m \in Messages /\ Tail(chan[c]) \in Seq(Messages) /\ Len(chan[c]) \in Nat /\ Len(Tail(chan[c])) = Len(chan[c]) - 1
      /\ ToSet(chan[c]) = ToSet(Tail(chan[c])) \union {m}
  BY <1>1, Taken
<1> HIDE DEF m
<1>3. Append(wire[c], m) \in Seq(Messages \union {Hello}) /\ ToSet(Append(wire[c], m)) = ToSet(wire[c]) \union {m}
  <2>1. wire[c] \in Seq(Messages \union {Hello}) /\ m \in Messages \union {Hello}
    BY <1>1, <1>2
  <2> QED
    BY <2>1, Appended
<1>4. /\ chan'[c] = Tail(chan[c]) /\ wire'[c] = Append(wire[c], m)
      /\ \A d \in Conns : d # c => stage'[d] = stage[d] /\ chan'[d] = chan[d] /\ wire'[d] = wire[d]
  BY <1>1
<1>5. NotifTypeOK'
  BY <1>1, <1>2, <1>3, <1>4 DEF NotifIInv, NotifTypeOK, publish, link, list
<1>6. Used(c) /\ Used(c)' /\ Attached(c)
  BY <1>1 DEF Used, Attached
<1>7. OnTheWay(c)' \subseteq OnTheWay(c)
  BY <1>1, <1>2, <1>3, <1>4, StreamAssumption DEF OnTheWay
<1>8. ToSet(chan[c]) \union ToSet(wire[c]) \subseteq ToSet(chan'[c]) \union ToSet(wire'[c])
  BY <1>2, <1>3, <1>4
<1>9. UNCHANGED <<opener, since, dropped, history, publish, crashes, fetch, answer, link, list, calls>>
  BY <1>1
<1> QED
  BY <1>4, <1>5, <1>6, <1>7, <1>8, <1>9, HandlerMoves

LEMMA UnsubscribeKeeps == ASSUME NotifIInv, NEW c \in Conns, Unsubscribe(c) PROVE NotifIInv'
<1>1. /\ Attached(c) /\ stage' = [stage EXCEPT ![c] = "gone"] /\ chan' = [chan EXCEPT ![c] = <<>>]
      /\ UNCHANGED <<opener, since, dropped, history, publish, crashes, network, link, list, calls>>
      /\ stage \in [Conns -> ConnStage] /\ chan \in [Conns -> Seq(Messages)]
  BY DEF Unsubscribe, NotifIInv, NotifTypeOK
<1>2. /\ stage'[c] = "gone" /\ chan'[c] = <<>> /\ UNCHANGED <<wire, answer, fetch>>
      /\ \A d \in Conns : d # c => stage'[d] = stage[d] /\ chan'[d] = chan[d]
  BY <1>1 DEF network
<1>3. BufferSize \in Nat /\ <<>> \in Seq(Messages) /\ Len(<<>>) = 0
  BY StreamAssumption
<1>4. NotifTypeOK'
  BY <1>1, <1>2, <1>3 DEF NotifIInv, NotifTypeOK, ConnStage, network, publish, link, list
<1>5. Used(c) /\ Used(c)' /\ ~Attached(c)'
  BY <1>1, <1>2 DEF Used, Attached
<1>6. OnTheWay(c)' \subseteq OnTheWay(c)
  BY <1>2, EmptyToSet DEF OnTheWay
<1> QED
  BY <1>1, <1>2, <1>4, <1>5, <1>6, HandlerMoves DEF network

(* The backend dies: what was in its memory is on no way any more, and no  *)
(* connection lives.                                                       *)
LEMMA ServerDiesKeeps == ASSUME NotifIInv, ServerDies PROVE NotifIInv'
<1>1. /\ crashes < MaxCrashes /\ crashes' = crashes + 1
      /\ stage' = [c \in Conns |-> IF Attached(c) THEN "gone" ELSE stage[c]]
      /\ chan' = [c \in Conns |-> <<>>] /\ history' = <<>> /\ todo' = [m \in Messages |-> {}]
      /\ pub' = [m \in Messages |-> IF pub[m] = "sending" THEN "lost" ELSE pub[m]]
      /\ UNCHANGED <<opener, since, dropped, target, reached, network, link, list, calls>>
      /\ stage \in [Conns -> ConnStage] /\ pub \in [Messages -> PubStage]
      /\ crashes \in 0..MaxCrashes /\ {MaxCrashes, BufferSize, HistoryCapacity} \subseteq Nat
  BY StreamAssumption DEF ServerDies, NotifIInv, NotifTypeOK
<1>2. \A c \in Conns : (Used(c) <=> Used(c)') /\ opener'[c] = opener[c] /\ ~Attached(c)'
  BY <1>1 DEF Used, Attached, ConnStage
<1>3. \A m \in Messages : (pub[m] # "new" <=> pub'[m] # "new") /\ (pub[m] = "done" => pub'[m] = "done") /\ target'[m] = target[m]
  BY <1>1 DEF PubStage
<1>4. NotifTypeOK'
  <2>1. stage' \in [Conns -> ConnStage] /\ pub' \in [Messages -> PubStage] /\ crashes' \in 0..MaxCrashes
    BY <1>1 DEF ConnStage, PubStage
  <2>2. <<>> \in Seq(Messages) /\ Len(<<>>) = 0
    OBVIOUS
  <2>3. chan' \in [Conns -> Seq(Messages)] /\ \A c \in Conns : Len(chan'[c]) <= BufferSize
    BY <1>1, <2>2
  <2>4. todo' \in [Messages -> SUBSET Conns] /\ history' \in Seq(Messages) /\ Len(history') <= HistoryCapacity
    BY <1>1, <2>2
  <2> QED
    BY <1>1, <2>1, <2>3, <2>4 DEF NotifIInv, NotifTypeOK, network, link, list
<1>5. TargetsStand'
  BY <1>2, <1>3 DEF NotifIInv, TargetsStand, Targets
<1>6. ConnsAreKnown'
  <2>1. \A d \in Conns : IF Used(d)' THEN opener'[d] \in Tabs
                          ELSE chan'[d] = <<>> /\ wire'[d] = <<>> /\ answer'[d] = <<>> /\ fetch'[d] = "none"
    BY <1>1, <1>2 DEF NotifIInv, ConnsAreKnown, network
  <2>2. \A u \in Tabs : cur'[u] # Nothing => cur'[u] \in Conns /\ Used(cur'[u]) /\ opener'[cur'[u]] = u
    BY <1>1 DEF NotifIInv, NotifTypeOK, ConnsAreKnown, link
  <2>3. \A m \in Messages : \A d \in todo'[m] \union reached'[m] : d \in Conns /\ Used(d)
    BY <1>1 DEF NotifIInv, NotifTypeOK, ConnsAreKnown
  <2> QED
    BY <1>2, <2>1, <2>2, <2>3 DEF ConnsAreKnown, Used
<1>7. FlowsAreAddressed'
  <2>1. \A d \in Conns : OnTheWay(d)' \subseteq OnTheWay(d)
    BY <1>1, EmptyToSet DEF OnTheWay, network
  <2>2. \A m \in Messages : todo'[m] = {}
    BY <1>1
  <2>3. seen' = seen /\ seen \in [Tabs -> SUBSET Messages]
    BY <1>1 DEF list, NotifIInv, NotifTypeOK
  <2> QED
    BY <1>2, <1>3, <2>1, <2>2, <2>3, FlowsKeep
<1>8. HistoryOnce'
  BY <1>1, EmptyToSet DEF NotifIInv, HistoryOnce, network
<1>9. ListIsSeen' /\ ItemsDistinct' /\ HolderIsCurrent'
  BY <1>1 DEF NotifIInv, ListIsSeen, ItemsDistinct, HolderIsCurrent, link, list
<1>10. NoGapWhileConnected'
  BY <1>1, <1>2 DEF NoGapWhileConnected, NotifIInv, NotifTypeOK
<1> QED
  BY <1>4, <1>5, <1>6, <1>7, <1>8, <1>9, <1>10 DEF NotifIInv

-----------------------------------------------------------------------------
(* The EventSource.                                                        *)

(* What a tab or its requests do leaves the backend as it is: the flows go *)
(* on if nothing comes from elsewhere.                                     *)
LEMMA BackendStands ==
  ASSUME NotifIInv, UNCHANGED <<server, history, publish>>,
         \A c \in Conns : ~Used(c) => wire'[c] = <<>> /\ answer'[c] = <<>> /\ fetch'[c] = "none",
         \A t \in Tabs : cur'[t] = cur[t] \/ cur'[t] = Nothing,
         \A c \in Conns : \A m \in OnTheWay(c)' : m \in OnTheWay(c) \/ (m \in Messages /\ Used(c) /\ Gets(opener[c], m)),
         \A c \in Conns : IsInjective(answer'[c]),
         seen' \in [Tabs -> SUBSET Messages],
         \A t \in Tabs : \A m \in seen'[t] : m \in seen[t] \/ \E c \in Conns : Used(c) /\ opener[c] = t /\ m \in OnTheWay(c)
  PROVE  TargetsStand' /\ ConnsAreKnown' /\ FlowsAreAddressed' /\ HistoryOnce'
<1>1. \A c : Used(c)' = Used(c) /\ opener'[c] = opener[c]
  BY DEF Used, server
<1>2. TargetsStand'
  BY <1>1 DEF NotifIInv, TargetsStand, publish
<1>3. ConnsAreKnown'
  <2>1. \A d \in Conns : IF Used(d)' THEN opener'[d] \in Tabs
                          ELSE chan'[d] = <<>> /\ wire'[d] = <<>> /\ answer'[d] = <<>> /\ fetch'[d] = "none"
    BY <1>1 DEF NotifIInv, ConnsAreKnown, server
  <2>2. \A u \in Tabs : cur'[u] # Nothing => Used(cur'[u]) /\ opener'[cur'[u]] = u
    BY <1>1 DEF NotifIInv, ConnsAreKnown
  <2>3. \A m \in Messages : \A d \in todo'[m] \union reached'[m] : Used(d)
    BY DEF NotifIInv, ConnsAreKnown, publish
  <2> QED
    BY <1>1, <2>1, <2>2, <2>3 DEF ConnsAreKnown, Used
<1>4. FlowsAreAddressed'
  <2>1. \A m \in Messages : pub'[m] = pub[m] /\ target'[m] = target[m] /\ todo'[m] = todo[m] /\ todo[m] \in SUBSET Conns
    BY DEF publish, NotifIInv, NotifTypeOK
  <2> QED
    BY <1>1, <2>1, FlowsKeep
<1>5. HistoryOnce'
  BY DEF NotifIInv, HistoryOnce, publish
<1> QED
  BY <1>2, <1>3, <1>4, <1>5

(* The connection id a tab keeps is that of the connection it opens.       *)
LEMMA OpenKeeps == ASSUME NotifIInv, NEW t \in Tabs, NEW c \in Conns, Open(t, c) PROVE NotifIInv'
<1>1. /\ cur[t] = c /\ wire[c] # <<>> /\ Head(wire[c]) = Hello /\ c # Nothing
      /\ wire' = [wire EXCEPT ![c] = Tail(wire[c])] /\ es' = [es EXCEPT ![t] = "open"]
      /\ holder' = [holder EXCEPT ![t] = c] /\ fetch' = [fetch EXCEPT ![c] = "asked"]
      /\ UNCHANGED <<server, history, publish, crashes, answer, cur, lastId, timer, list, calls>>
      /\ wire \in [Conns -> Seq(Messages \union {Hello})] /\ es \in [Tabs -> EsState]
      /\ holder \in [Tabs -> Conns \union {Nothing}] /\ fetch \in [Conns -> Fetch]
  BY DEF Open, Reads, NotifIInv, NotifTypeOK
<1>2. Tail(wire[c]) \in Seq(Messages \union {Hello}) /\ ToSet(wire[c]) = ToSet(Tail(wire[c])) \union {Hello}
  <2>1. wire[c] \in Seq(Messages \union {Hello})
    BY <1>1
  <2> QED
    BY <1>1, <2>1, Taken
<1>3. /\ wire'[c] = Tail(wire[c]) /\ \A d \in Conns : d # c => wire'[d] = wire[d] /\ fetch'[d] = fetch[d]
      /\ es'[t] = "open" /\ holder'[t] = c /\ \A u \in Tabs : u # t => es'[u] = es[u] /\ holder'[u] = holder[u]
  BY <1>1
<1>4. Used(c) /\ opener[c] = t
  BY <1>1 DEF NotifIInv, ConnsAreKnown
<1>5. NotifTypeOK'
  BY <1>1, <1>2 DEF NotifIInv, NotifTypeOK, Fetch, EsState, server, publish, list
<1>6. TargetsStand' /\ ConnsAreKnown' /\ FlowsAreAddressed' /\ HistoryOnce'
  <2>1. \A d \in Conns : OnTheWay(d)' \subseteq OnTheWay(d)
    BY <1>1, <1>2, <1>3 DEF OnTheWay, server
  <2>2. \A d \in Conns : ~Used(d) => wire'[d] = <<>> /\ answer'[d] = <<>> /\ fetch'[d] = "none"
    BY <1>1, <1>3, <1>4 DEF NotifIInv, ConnsAreKnown
  <2>3. (\A d \in Conns : IsInjective(answer'[d])) /\ seen' = seen /\ seen \in [Tabs -> SUBSET Messages] /\ cur' = cur
    BY <1>1 DEF NotifIInv, NotifTypeOK, HistoryOnce, list
  <2> QED
    BY <1>1, <2>1, <2>2, <2>3, BackendStands
<1>7. ListIsSeen' /\ ItemsDistinct'
  BY <1>1 DEF NotifIInv, ListIsSeen, ItemsDistinct, list
<1>8. HolderIsCurrent'
  BY <1>1, <1>3, <1>4 DEF NotifIInv, HolderIsCurrent, server
<1>9. NoGapWhileConnected'
  <2> SUFFICES ASSUME NEW m \in Messages, NEW d \in reached'[m], Attached(d)', Reads(opener[d], d)'
               PROVE  m \in ToSet(chan'[d]) \union ToSet(wire'[d]) \union dropped'[d] \/ m \in seen'[opener'[d]]
    BY DEF NoGapWhileConnected
  <2>1. m # Hello /\ d \in Conns /\ d \in reached[m] /\ UNCHANGED <<chan, dropped, seen, opener>> /\ Attached(d) /\ Reads(opener[d], d)
    BY <1>1, StreamAssumption DEF NotifIInv, NotifTypeOK, server, publish, list, Attached, Reads
  <2>2. m \in ToSet(chan[d]) \union ToSet(wire[d]) \union dropped[d] \/ m \in seen[opener[d]]
    BY <2>1 DEF NotifIInv, NoGapWhileConnected
  <2> QED
    BY <1>2, <1>3, <2>1, <2>2
<1> QED
  BY <1>5, <1>6, <1>7, <1>8, <1>9 DEF NotifIInv

(* A message that is read is in the list, or was before.                   *)
LEMMA ReceiveKeeps == ASSUME NotifIInv, NEW t \in Tabs, NEW c \in Conns, Receive(t, c) PROVE NotifIInv'
<1> DEFINE m == Head(wire[c])
<1>1. /\ cur[t] = c /\ wire[c] # <<>> /\ m # Hello /\ c # Nothing
      /\ wire' = [wire EXCEPT ![c] = Tail(wire[c])] /\ lastId' = [lastId EXCEPT ![t] = m]
      /\ Ingest(t, m)
      /\ UNCHANGED <<server, history, publish, crashes, fetch, answer, es, cur, timer, holder, calls>>
      /\ wire \in [Conns -> Seq(Messages \union {Hello})] /\ lastId \in [Tabs -> Messages \union {Nothing}]
      /\ items \in [Tabs -> Seq(Messages)] /\ seen \in [Tabs -> SUBSET Messages] /\ Len(items[t]) <= ListMax /\ ListMax \in Nat \ {0}
  BY StreamAssumption DEF Receive, Reads, NotifIInv, NotifTypeOK
<1>2. /\ Tail(wire[c]) \in Seq(Messages \union {Hello}) /\ ToSet(wire[c]) = ToSet(Tail(wire[c])) \union {m}
      /\ m \in Messages /\ m \in ToSet(wire[c])
  <2>1. wire[c] \in Seq(Messages \union {Hello})
    BY <1>1
  <2> QED
    BY <1>1, <2>1, Taken
<1> HIDE DEF m
<1>3. Used(c) /\ opener[c] = t
  BY <1>1 DEF NotifIInv, ConnsAreKnown
<1>4. wire'[c] = Tail(wire[c]) /\ \A d \in Conns : d # c => wire'[d] = wire[d]
  BY <1>1
<1>5. /\ items' \in [Tabs -> Seq(Messages)] /\ seen' \in [Tabs -> SUBSET Messages] /\ m \in seen'[t] /\ seen'[t] \subseteq seen[t] \union {m}
      /\ \A u \in Tabs : (u # t => seen'[u] = seen[u]) /\ seen[u] \subseteq seen'[u] /\ Len(items'[u]) <= ListMax
                        /\ IsInjective(items'[u]) /\ ToSet(items'[u]) \subseteq seen'[u]
  <2>1. \A u \in Tabs : Len(items[u]) <= ListMax /\ IsInjective(items[u]) /\ ToSet(items[u]) \subseteq seen[u]
    BY DEF NotifIInv, NotifTypeOK, ListIsSeen, ItemsDistinct
  <2>2. CASE m \in ToSet(items[t])
    BY <1>1, <1>2, <2>1, <2>2 DEF Ingest, list
  <2>3. CASE m \notin ToSet(items[t])
    <3> DEFINE q == LastOf(Append(items[t], m), ListMax)
    <3>1. items' = [items EXCEPT ![t] = q] /\ seen' = [seen EXCEPT ![t] = seen[t] \union {m}]
      BY <1>1, <2>3 DEF Ingest, Show
    <3>2. items[t] \in Seq(Messages)
      BY <1>1
    <3>3. q \in Seq(Messages) /\ Len(q) <= ListMax /\ ToSet(q) \subseteq ToSet(items[t]) \union {m} /\ IsInjective(q)
      BY <1>1, <1>2, <2>1, <2>3, <3>2, Pushed
    <3> HIDE DEF q
    <3>4. /\ items'[t] = q /\ seen'[t] = seen[t] \union {m}
          /\ \A u \in Tabs : u # t => items'[u] = items[u] /\ seen'[u] = seen[u]
      BY <1>1, <3>1
    <3>5. items' \in [Tabs -> Seq(Messages)] /\ seen' \in [Tabs -> SUBSET Messages]
      BY <1>1, <1>2, <3>1, <3>3
    <3> QED
      BY <2>1, <3>3, <3>4, <3>5
  <2> QED
    BY <2>2, <2>3
<1>6. NotifTypeOK'
  BY <1>1, <1>2, <1>5 DEF NotifIInv, NotifTypeOK, server, publish
<1>7. TargetsStand' /\ ConnsAreKnown' /\ FlowsAreAddressed' /\ HistoryOnce'
  <2>1. \A d \in Conns : OnTheWay(d)' \subseteq OnTheWay(d)
    BY <1>1, <1>2, <1>4 DEF OnTheWay, server
  <2>2. \A d \in Conns : ~Used(d) => wire'[d] = <<>> /\ answer'[d] = <<>> /\ fetch'[d] = "none"
    BY <1>1, <1>3, <1>4 DEF NotifIInv, ConnsAreKnown
  <2>3. (\A d \in Conns : IsInjective(answer'[d])) /\ cur' = cur
    BY <1>1 DEF NotifIInv, HistoryOnce
  <2>4. m \in OnTheWay(c)
    BY <1>1, <1>2 DEF OnTheWay
  <2>5. \A u \in Tabs : \A n \in seen'[u] : n \in seen[u] \/ (u = t /\ n = m)
    BY <1>5
  <2> QED
    BY <1>1, <1>3, <1>5, <2>1, <2>2, <2>3, <2>4, <2>5, BackendStands
<1>8. ListIsSeen' /\ ItemsDistinct'
  BY <1>5 DEF ListIsSeen, ItemsDistinct
<1>9. HolderIsCurrent'
  BY <1>1 DEF NotifIInv, HolderIsCurrent, server
<1>10. NoGapWhileConnected'
  <2> SUFFICES ASSUME NEW n \in Messages, NEW d \in reached'[n], Attached(d)', Reads(opener[d], d)'
               PROVE  n \in ToSet(chan'[d]) \union ToSet(wire'[d]) \union dropped'[d] \/ n \in seen'[opener'[d]]
    BY DEF NoGapWhileConnected
  <2>1. d \in Conns /\ d \in reached[n] /\ UNCHANGED <<chan, dropped, opener>> /\ Attached(d) /\ Reads(opener[d], d) /\ Used(d)
    BY <1>1 DEF NotifIInv, NotifTypeOK, server, publish, Attached, Reads, Used
  <2>2. opener[d] \in Tabs
    BY <2>1 DEF NotifIInv, ConnsAreKnown
  <2>3. n \in ToSet(chan[d]) \union ToSet(wire[d]) \union dropped[d] \/ n \in seen[opener[d]]
    BY <2>1 DEF NotifIInv, NoGapWhileConnected
  <2>4. n \in ToSet(wire[d]) => n \in ToSet(wire'[d]) \/ n \in seen'[opener[d]]
    BY <1>2, <1>3, <1>4, <1>5, <2>1
  <2> QED
    BY <1>5, <2>1, <2>2, <2>3, <2>4
<1> QED
  BY <1>6, <1>7, <1>8, <1>9, <1>10 DEF NotifIInv

(* A tab that loses its connection forgets its id; its frames are lost,    *)
(* which no promise to a living connection covers.                         *)
LEMMA LoseKeeps ==
  ASSUME NotifIInv, NEW t \in Tabs, NEW state \in EsState, Lose(t, state), timer' \in [Tabs -> BOOLEAN], calls' \in 0..MaxCalls,
         UNCHANGED <<server, history, publish, crashes, fetch, answer, lastId, list>>
  PROVE  NotifIInv'
<1>1. /\ es' = [es EXCEPT ![t] = state] /\ cur' = [cur EXCEPT ![t] = Nothing] /\ holder' = [holder EXCEPT ![t] = Nothing]
      /\ wire' = [c \in Conns |-> IF Reads(t, c) THEN <<>> ELSE wire[c]]
      /\ es \in [Tabs -> EsState] /\ cur \in [Tabs -> Conns \union {Nothing}] /\ holder \in [Tabs -> Conns \union {Nothing}]
      /\ wire \in [Conns -> Seq(Messages \union {Hello})]
  BY DEF Lose, NotifIInv, NotifTypeOK
<1>2. /\ \A c \in Conns : wire'[c] = IF Reads(t, c) THEN <<>> ELSE wire[c]
      /\ cur'[t] = Nothing /\ holder'[t] = Nothing
      /\ \A u \in Tabs : u # t => es'[u] = es[u] /\ cur'[u] = cur[u] /\ holder'[u] = holder[u]
  BY <1>1
<1>3. NotifTypeOK'
  <2>1. wire' \in [Conns -> Seq(Messages \union {Hello})]
    BY <1>1
  <2>2. es' \in [Tabs -> EsState] /\ cur' \in [Tabs -> Conns \union {Nothing}] /\ holder' \in [Tabs -> Conns \union {Nothing}]
    BY <1>1
  <2> QED
    BY <2>1, <2>2 DEF NotifIInv, NotifTypeOK, server, publish, list
<1>4. TargetsStand' /\ ConnsAreKnown' /\ FlowsAreAddressed' /\ HistoryOnce'
  <2>1. \A d \in Conns : OnTheWay(d)' \subseteq OnTheWay(d)
    BY <1>2, EmptyToSet DEF OnTheWay, server
  <2>2. \A d \in Conns : ~Used(d) => wire'[d] = <<>> /\ answer'[d] = <<>> /\ fetch'[d] = "none"
    BY <1>2 DEF NotifIInv, ConnsAreKnown
  <2>3. /\ \A d \in Conns : IsInjective(answer'[d])
        /\ \A u \in Tabs : cur'[u] = cur[u] \/ cur'[u] = Nothing
        /\ seen' = seen /\ seen \in [Tabs -> SUBSET Messages]
    BY <1>2 DEF NotifIInv, NotifTypeOK, HistoryOnce, list
  <2> QED
    BY <2>1, <2>2, <2>3, BackendStands
<1>5. ListIsSeen' /\ ItemsDistinct'
  BY DEF NotifIInv, ListIsSeen, ItemsDistinct, list
<1>6. HolderIsCurrent'
  BY <1>2 DEF NotifIInv, HolderIsCurrent, server
<1>7. NoGapWhileConnected'
  <2> SUFFICES ASSUME NEW m \in Messages, NEW d \in reached'[m], Attached(d)', Reads(opener[d], d)'
               PROVE  m \in ToSet(chan'[d]) \union ToSet(wire'[d]) \union dropped'[d] \/ m \in seen'[opener'[d]]
    BY DEF NoGapWhileConnected
  <2>1. d \in Conns /\ d \in reached[m] /\ UNCHANGED <<chan, dropped, opener, seen>> /\ Attached(d) /\ Used(d)
    BY DEF NotifIInv, NotifTypeOK, server, publish, list, Attached, Used
  <2>2. opener[d] \in Tabs /\ cur'[opener[d]] = d /\ d # Nothing
    BY <2>1 DEF NotifIInv, ConnsAreKnown, Reads
  <2>3. opener[d] # t /\ Reads(opener[d], d)
    BY <1>2, <2>2 DEF Reads
  <2>4. ~Reads(t, d)
    BY <2>3 DEF Reads, NotifIInv, ConnsAreKnown
  <2> QED
    BY <1>2, <2>1, <2>3, <2>4 DEF NotifIInv, NoGapWhileConnected
<1> QED
  BY <1>3, <1>4, <1>5, <1>6, <1>7 DEF NotifIInv

LEMMA LossesKeep == ASSUME NotifIInv, NEW t \in Tabs, Drop(t) \/ Refused(t) \/ Disconnect(t) PROVE NotifIInv'
<1>1. timer \in [Tabs -> BOOLEAN] /\ calls \in 0..MaxCalls /\ MaxCalls \in Nat
  BY StreamAssumption DEF NotifIInv, NotifTypeOK
<1>2. {"connecting", "closed", "off"} \subseteq EsState
  BY DEF EsState
<1>3. CASE Drop(t)
  BY <1>1, <1>2, <1>3, LoseKeeps DEF Drop
<1>4. CASE Refused(t)
  <2>1. timer' \in [Tabs -> BOOLEAN]
    BY <1>1, <1>4 DEF Refused
  <2> QED
    BY <1>1, <1>2, <1>4, <2>1, LoseKeeps DEF Refused
<1>5. CASE Disconnect(t)
  <2>1. calls' \in 0..MaxCalls
    BY <1>1, <1>5 DEF Disconnect, Call
  <2> QED
    BY <1>1, <1>2, <1>5, <2>1, LoseKeeps DEF Disconnect
<1> QED
  BY <1>3, <1>4, <1>5

(* A new EventSource replaces none that is open.                           *)
LEMMA NewSourceKeeps == ASSUME NotifIInv, NEW t \in Tabs, Retry(t) \/ Connect(t) PROVE NotifIInv'
<1>1. /\ NewEventSource(t) /\ timer' \in [Tabs -> BOOLEAN] /\ calls' \in 0..MaxCalls
      /\ UNCHANGED <<server, history, publish, crashes, network, cur, holder, list>>
      /\ es \in [Tabs -> EsState] /\ lastId \in [Tabs -> Messages \union {Nothing}]
  <2>1. timer \in [Tabs -> BOOLEAN] /\ calls \in 0..MaxCalls /\ MaxCalls \in Nat
    BY StreamAssumption DEF NotifIInv, NotifTypeOK
  <2>2. timer' \in [Tabs -> BOOLEAN] /\ calls' \in 0..MaxCalls
    <3>1. CASE Retry(t)
      BY <2>1, <3>1 DEF Retry
    <3>2. CASE Connect(t)
      BY <2>1, <3>2 DEF Connect, Call
    <3> QED
      BY <3>1, <3>2
  <2> QED
    BY <2>2 DEF Retry, Connect, NotifIInv, NotifTypeOK
<1>2. es' \in [Tabs -> EsState] /\ lastId' \in [Tabs -> Messages \union {Nothing}]
      /\ \A u \in Tabs : es[u] = "open" => es'[u] = "open"
  BY <1>1 DEF NewEventSource, EsState
<1>3. NotifTypeOK'
  BY <1>1, <1>2 DEF NotifIInv, NotifTypeOK, server, publish, network, list
<1>4. TargetsStand' /\ ConnsAreKnown' /\ FlowsAreAddressed' /\ HistoryOnce'
  <2>1. \A d \in Conns : OnTheWay(d)' = OnTheWay(d)
    BY <1>1 DEF OnTheWay, server, network
  <2>2. /\ \A d \in Conns : ~Used(d) => wire'[d] = <<>> /\ answer'[d] = <<>> /\ fetch'[d] = "none"
        /\ \A d \in Conns : IsInjective(answer'[d])
        /\ seen' = seen /\ seen \in [Tabs -> SUBSET Messages] /\ cur' = cur
    BY <1>1 DEF NotifIInv, NotifTypeOK, HistoryOnce, ConnsAreKnown, list, network
  <2> QED
    BY <1>1, <2>1, <2>2, BackendStands
<1>5. ListIsSeen' /\ ItemsDistinct' /\ HolderIsCurrent' /\ NoGapWhileConnected'
  BY <1>1, <1>2 DEF NotifIInv, ListIsSeen, ItemsDistinct, HolderIsCurrent, NoGapWhileConnected, Attached, Reads,
     server, publish, network, list
<1> QED
  BY <1>3, <1>4, <1>5 DEF NotifIInv

-----------------------------------------------------------------------------
(* GET /notifications/history, and the list.                               *)

LEMMA AnswerHistoryKeeps == ASSUME NotifIInv, NEW c \in Conns, AnswerHistory(c) PROVE NotifIInv'
<1> DEFINE h == GetHistory(GroupOf[opener[c]], Nothing)
<1>1. /\ fetch[c] = "asked" /\ fetch' = [fetch EXCEPT ![c] = "answered"] /\ answer' = [answer EXCEPT ![c] = h]
      /\ UNCHANGED <<server, history, publish, crashes, wire, link, list, calls>>
      /\ fetch \in [Conns -> Fetch] /\ answer \in [Conns -> Seq(Messages)]
  BY DEF AnswerHistory, NotifIInv, NotifTypeOK
<1>2. Used(c)
  BY <1>1 DEF NotifIInv, ConnsAreKnown
<1>3. h \in Seq(Messages) /\ IsInjective(h) /\ \A m \in ToSet(h) : m \in Messages /\ Gets(opener[c], m)
  BY <1>2, ExcerptIsAddressed
<1> HIDE DEF h
<1>4. /\ answer'[c] = h /\ \A d \in Conns : d # c => answer'[d] = answer[d] /\ fetch'[d] = fetch[d]
  BY <1>1
<1>5. NotifTypeOK'
  BY <1>1, <1>3 DEF NotifIInv, NotifTypeOK, Fetch, server, publish, link, list
<1>6. TargetsStand' /\ ConnsAreKnown' /\ FlowsAreAddressed' /\ HistoryOnce'
  <2>1. \A d \in Conns : \A m \in OnTheWay(d)' : m \in OnTheWay(d) \/ (m \in Messages /\ Used(d) /\ Gets(opener[d], m))
    BY <1>1, <1>2, <1>3, <1>4 DEF OnTheWay, server
  <2>2. /\ \A d \in Conns : ~Used(d) => wire'[d] = <<>> /\ answer'[d] = <<>> /\ fetch'[d] = "none"
        /\ \A d \in Conns : IsInjective(answer'[d])
        /\ seen' = seen /\ seen \in [Tabs -> SUBSET Messages] /\ cur' = cur
    BY <1>1, <1>2, <1>3, <1>4 DEF NotifIInv, NotifTypeOK, HistoryOnce, ConnsAreKnown, list, link
  <2> QED
    BY <1>1, <2>1, <2>2, BackendStands
<1>7. ListIsSeen' /\ ItemsDistinct' /\ HolderIsCurrent' /\ NoGapWhileConnected'
  BY <1>1 DEF NotifIInv, ListIsSeen, ItemsDistinct, HolderIsCurrent, NoGapWhileConnected, Attached, Reads,
     server, publish, link, list
<1> QED
  BY <1>5, <1>6, <1>7 DEF NotifIInv

LEMMA FetchFailsKeeps == ASSUME NotifIInv, NEW c \in Conns, FetchFails(c) PROVE NotifIInv'
<1>1. /\ fetch[c] = "asked" /\ fetch' = [fetch EXCEPT ![c] = "done"]
      /\ UNCHANGED <<server, history, publish, crashes, wire, answer, link, list, calls>>
      /\ fetch \in [Conns -> Fetch]
  BY DEF FetchFails, NotifIInv, NotifTypeOK
<1>2. NotifTypeOK'
  BY <1>1 DEF NotifIInv, NotifTypeOK, Fetch, server, publish, link, list
<1>3. TargetsStand' /\ ConnsAreKnown' /\ FlowsAreAddressed' /\ HistoryOnce'
  <2>1. \A d \in Conns : OnTheWay(d)' = OnTheWay(d)
    BY <1>1 DEF OnTheWay, server
  <2>2. /\ \A d \in Conns : ~Used(d) => wire'[d] = <<>> /\ answer'[d] = <<>> /\ fetch'[d] = "none"
        /\ \A d \in Conns : IsInjective(answer'[d])
        /\ seen' = seen /\ seen \in [Tabs -> SUBSET Messages] /\ cur' = cur
    BY <1>1 DEF NotifIInv, NotifTypeOK, HistoryOnce, ConnsAreKnown, list, link
  <2> QED
    BY <1>1, <2>1, <2>2, BackendStands
<1>4. ListIsSeen' /\ ItemsDistinct' /\ HolderIsCurrent' /\ NoGapWhileConnected'
  BY <1>1 DEF NotifIInv, ListIsSeen, ItemsDistinct, HolderIsCurrent, NoGapWhileConnected, Attached, Reads,
     server, publish, link, list
<1> QED
  BY <1>2, <1>3, <1>4 DEF NotifIInv

(* What the list had is left out of the response before the two are        *)
(* joined, and neither repeats a message of its own.                       *)
LEMMA MergeHistoryKeeps == ASSUME NotifIInv, NEW c \in Conns, MergeHistory(c) PROVE NotifIInv'
<1> DEFINE t == opener[c]
           q == Merged(answer[c], items[t])
<1>1. /\ fetch[c] = "answered" /\ fetch' = [fetch EXCEPT ![c] = "done"] /\ answer' = [answer EXCEPT ![c] = <<>>]
      /\ items' = [items EXCEPT ![t] = q] /\ seen' = [seen EXCEPT ![t] = seen[t] \union ToSet(items'[t])]
      /\ UNCHANGED <<server, history, publish, crashes, wire, link, calls>>
      /\ fetch \in [Conns -> Fetch] /\ answer \in [Conns -> Seq(Messages)]
      /\ items \in [Tabs -> Seq(Messages)] /\ seen \in [Tabs -> SUBSET Messages] /\ ListMax \in Nat \ {0}
  BY StreamAssumption DEF MergeHistory, NotifIInv, NotifTypeOK
<1>2. Used(c) /\ t \in Tabs
  BY <1>1 DEF NotifIInv, ConnsAreKnown
<1> HIDE DEF t
<1>3. q \in Seq(Messages) /\ Len(q) <= ListMax /\ ToSet(q) \subseteq ToSet(answer[c]) \union ToSet(items[t]) /\ IsInjective(q)
  <2> DEFINE new == Among(answer[c], Messages \ ToSet(items[t]))
             all == new \o items[t]
  <2>1. answer[c] \in Seq(Messages) /\ items[t] \in Seq(Messages) /\ IsInjective(answer[c]) /\ IsInjective(items[t])
    BY <1>1, <1>2 DEF NotifIInv, HistoryOnce, ItemsDistinct
  <2>2. new \in Seq(Messages) /\ ToSet(new) \subseteq ToSet(answer[c]) \intersect (Messages \ ToSet(items[t])) /\ IsInjective(new)
    BY <2>1, Filters
  <2> HIDE DEF new
  <2>3. all \in Seq(Messages) /\ ToSet(all) = ToSet(new) \union ToSet(items[t]) /\ IsInjective(all)
    BY <2>1, <2>2, Joined
  <2>4. q = LastOf(all, ListMax)
    BY DEF Merged, new
  <2> HIDE DEF all, q
  <2>5. q \in Seq(Messages) /\ Len(q) <= ListMax /\ ToSet(q) \subseteq ToSet(all) /\ IsInjective(q)
    BY <1>1, <2>3, <2>4, Bounded
  <2> QED
    BY <2>2, <2>3, <2>5
<1> HIDE DEF q
<1>4. /\ items'[t] = q /\ seen'[t] = seen[t] \union ToSet(q)
      /\ \A u \in Tabs : u # t => items'[u] = items[u] /\ seen'[u] = seen[u]
      /\ answer'[c] = <<>> /\ \A d \in Conns : d # c => answer'[d] = answer[d] /\ fetch'[d] = fetch[d]
  BY <1>1, <1>2
<1>5. ToSet(q) \subseteq Messages
  BY <1>3, LenProperties, ElementOfSeq DEF ToSet
<1>6. NotifTypeOK'
  <2>1. items' \in [Tabs -> Seq(Messages)] /\ \A u \in Tabs : Len(items'[u]) <= ListMax
    BY <1>1, <1>2, <1>3, <1>4 DEF NotifIInv, NotifTypeOK
  <2>2. seen' \in [Tabs -> SUBSET Messages] /\ fetch' \in [Conns -> Fetch]
    BY <1>1, <1>4, <1>5 DEF Fetch
  <2>3. answer' \in [Conns -> Seq(Messages)]
    BY <1>1, EmptySeq
  <2> QED
    BY <1>1, <2>1, <2>2, <2>3 DEF NotifIInv, NotifTypeOK, server, publish, link
<1>7. TargetsStand' /\ ConnsAreKnown' /\ FlowsAreAddressed' /\ HistoryOnce'
  <2>1. \A d \in Conns : OnTheWay(d)' \subseteq OnTheWay(d)
    BY <1>1, <1>4, EmptyToSet DEF OnTheWay, server
  <2>2. /\ \A d \in Conns : ~Used(d) => wire'[d] = <<>> /\ answer'[d] = <<>> /\ fetch'[d] = "none"
        /\ \A d \in Conns : IsInjective(answer'[d])
        /\ cur' = cur
    BY <1>1, <1>2, <1>4, EmptyToSet DEF NotifIInv, HistoryOnce, ConnsAreKnown, link
  <2>3. ToSet(answer[c]) \subseteq OnTheWay(c) /\ ToSet(items[t]) \subseteq seen[t]
    BY <1>2 DEF OnTheWay, NotifIInv, ListIsSeen
  <2>4. \A u \in Tabs : \A m \in seen'[u] : m \in seen[u] \/ (u = t /\ m \in OnTheWay(c))
    BY <1>3, <1>4, <2>3
  <2>5. \A u \in Tabs : \A m \in seen'[u] : m \in seen[u] \/ \E d \in Conns : Used(d) /\ opener[d] = u /\ m \in OnTheWay(d)
    BY <1>2, <2>4 DEF t
  <2>6. seen' \in [Tabs -> SUBSET Messages]
    BY <1>6 DEF NotifTypeOK
  <2> QED
    BY <1>1, <2>1, <2>2, <2>5, <2>6, BackendStands
<1>8. ListIsSeen' /\ ItemsDistinct'
  BY <1>2, <1>3, <1>4 DEF NotifIInv, ListIsSeen, ItemsDistinct
<1>9. HolderIsCurrent'
  BY <1>1 DEF NotifIInv, HolderIsCurrent, server, link
<1>10. NoGapWhileConnected'
  <2>1. \A u \in Tabs : seen[u] \subseteq seen'[u]
    BY <1>4
  <2>2. \A m \in Messages : \A d \in reached[m] : d \in Conns /\ opener[d] \in Tabs
    BY DEF NotifIInv, NotifTypeOK, ConnsAreKnown
  <2> QED
    BY <1>1, <2>1, <2>2 DEF NotifIInv, NoGapWhileConnected, Attached, Reads, server, publish, link
<1> QED
  BY <1>6, <1>7, <1>8, <1>9, <1>10 DEF NotifIInv

LEMMA ClearKeeps == ASSUME NotifIInv, NEW t \in Tabs, Clear(t) PROVE NotifIInv'
<1>1. /\ items' = [items EXCEPT ![t] = <<>>] /\ calls' \in 0..MaxCalls
      /\ UNCHANGED <<server, history, publish, crashes, network, link, seen>>
      /\ items \in [Tabs -> Seq(Messages)] /\ ListMax \in Nat
  BY StreamAssumption DEF Clear, Call, NotifIInv, NotifTypeOK
<1>2. items'[t] = <<>> /\ \A u \in Tabs : u # t => items'[u] = items[u]
  BY <1>1
<1>3. NotifTypeOK'
  <2>1. items' \in [Tabs -> Seq(Messages)] /\ \A u \in Tabs : Len(items'[u]) <= ListMax
    BY <1>1, <1>2, EmptySeq DEF NotifIInv, NotifTypeOK
  <2> QED
    BY <1>1, <2>1 DEF NotifIInv, NotifTypeOK, server, publish, network, link
<1>4. TargetsStand' /\ ConnsAreKnown' /\ FlowsAreAddressed' /\ HistoryOnce'
  BY <1>1 DEF NotifIInv, TargetsStand, ConnsAreKnown, FlowsAreAddressed, HistoryOnce, OnTheWay, Used, Gets, InAudience,
     server, publish, network, link
<1>5. ListIsSeen' /\ ItemsDistinct'
  BY <1>1, <1>2, EmptyToSet DEF NotifIInv, ListIsSeen, ItemsDistinct
<1>6. HolderIsCurrent' /\ NoGapWhileConnected'
  BY <1>1 DEF NotifIInv, HolderIsCurrent, NoGapWhileConnected, Attached, Reads, server, publish, network, link
<1> QED
  BY <1>3, <1>4, <1>5, <1>6 DEF NotifIInv

-----------------------------------------------------------------------------
LEMMA NextKeeps == NotifIInv /\ [NotifNext]_notifVars => NotifIInv'
<1> SUFFICES ASSUME NotifIInv, [NotifNext]_notifVars PROVE NotifIInv'
  OBVIOUS
<1>1. ASSUME NEW m \in Messages, NEW to \in Targets, Publish(m, to) PROVE NotifIInv'
  BY <1>1, PublishKeeps
<1>2. ASSUME NEW m \in Messages, Store(m) \/ \E c \in Conns : Send(m, c) PROVE NotifIInv'
  BY <1>2, StoreKeeps, SendKeeps
<1>3. ASSUME NEW c \in Conns, Handler(c) PROVE NotifIInv'
  BY <1>3, ReplayKeeps, PumpKeeps, UnsubscribeKeeps DEF Handler
<1>4. ASSUME NEW c \in Conns, AnswerHistory(c) \/ FetchFails(c) \/ MergeHistory(c) PROVE NotifIInv'
  BY <1>4, AnswerHistoryKeeps, FetchFailsKeeps, MergeHistoryKeeps
<1>5. ASSUME NEW t \in Tabs, NEW c \in Conns, Subscribe(t, c) PROVE NotifIInv'
  BY <1>5, SubscribeKeeps
<1>6. ASSUME NEW t \in Tabs, Browser(t) PROVE NotifIInv'
  BY <1>6, OpenKeeps, ReceiveKeeps DEF Browser
<1>7. ASSUME NEW t \in Tabs, Drop(t) \/ Refused(t) \/ Disconnect(t) PROVE NotifIInv'
  BY <1>7, LossesKeep
<1>8. ASSUME NEW t \in Tabs, Retry(t) \/ Connect(t) \/ Clear(t) PROVE NotifIInv'
  BY <1>8, NewSourceKeeps, ClearKeeps
<1>9. CASE ServerDies
  BY <1>9, ServerDiesKeeps
<1>10. CASE UNCHANGED notifVars
  BY <1>10 DEF NotifIInv, NotifTypeOK, TargetsStand, ConnsAreKnown, FlowsAreAddressed, HistoryOnce, ListIsSeen,
     ItemsDistinct, HolderIsCurrent, NoGapWhileConnected, OnTheWay, Used, Gets, InAudience, Attached, Reads,
     notifVars, server, publish, network, link, list
<1> QED
  BY <1>1, <1>2, <1>3, <1>4, <1>5, <1>6, <1>7, <1>8, <1>9, <1>10 DEF NotifNext

LEMMA StreamInvariant == NotifSpec => []NotifIInv
<1> QED
  BY InitInv, NextKeeps, PTL DEF NotifSpec

(* Whatever stream, replay, history and reconnections overlap, a tab shows *)
(* what is addressed to it, once, and the connection id it sends is its    *)
(* own and live (NotificationStream, NotificationStreamService).           *)
THEOREM TabsAreSafe == NotifSpec => []TabsSafe
<1>1. NotifIInv => TabsSafe
  BY DEF NotifIInv, TabsSafe, FlowsAreAddressed, AudienceRespected, Gets
<1> QED
  BY <1>1, StreamInvariant, PTL

(* A tab that stays connected misses no message its channel accepted,      *)
(* except those DropOldest threw away (the loop of the stream endpoint).   *)
THEOREM NoGaps == NotifSpec => []NoGapWhileConnected
<1>1. NotifIInv => NoGapWhileConnected
  BY DEF NotifIInv
<1> QED
  BY <1>1, StreamInvariant, PTL
=============================================================================
