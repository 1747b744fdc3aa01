----------------------- MODULE MultiBuilding_proofs ------------------------
(***************************************************************************)
(* What holds of the exchange and of the multi-building agent's sockets    *)
(* for every set of clients, topics and buildings, and every bound.        *)
(***************************************************************************)
EXTENDS MultiBuilding, FiniteSetTheorems, FunctionTheorems,
        WellFoundedInduction, TLAPS

-----------------------------------------------------------------------------
(* The PUSH sockets.  A socket was used since the last cleanup exactly when *)
(* it carries the number of the present period.                            *)

PubsInv ==
  /\ sequence \in Nat
  /\ idle \in [Buildings -> 0 .. 2]
  /\ DOMAIN pubs \subseteq Buildings /\ hosts \subseteq Hosts
  /\ \A b \in Buildings :
       /\ b \in DOMAIN pubs <=> idle[b] < 2
       /\ b \in DOMAIN pubs => (pubs[b] = sequence <=> idle[b] = 0)

LEMMA EndsPubs == PubsInv /\ Ends /\ UNCHANGED hosts => PubsInv'
BY DEF Ends, PubsInv

LEMMA OnSendPubs == PubsInv /\ OnSend => PubsInv'
<1> SUFFICES ASSUME PubsInv, OnSend
             PROVE  PubsInv'
  OBVIOUS
<1> DEFINE b == Head(bus).building
<1>1. PICK sent \in BOOLEAN :
        /\ UNCHANGED <<sequence, hosts>>
        /\ IF b \notin hosts \cup DOMAIN pubs
             THEN UNCHANGED <<pubs, idle>>
             ELSE /\ pubs' = IF sent THEN With(pubs, b, sequence) ELSE Without(pubs, b)
                  /\ idle' = [idle EXCEPT ![b] = IF sent THEN 0 ELSE 2]
  BY DEF OnSend, Receives
<1> HIDE DEF b
<1>2. CASE b \notin hosts \cup DOMAIN pubs
  BY <1>1, <1>2 DEF PubsInv
<1>3. CASE b \in hosts \cup DOMAIN pubs /\ sent
  <2>1. b \in Buildings
    BY <1>3, BuildingAssumption DEF PubsInv
  <2>2. pubs' = With(pubs, b, sequence) /\ idle' = [idle EXCEPT ![b] = 0]
    BY <1>1, <1>3
  <2>3. DOMAIN pubs' = DOMAIN pubs \cup {b}
    BY <2>2 DEF With
  <2>4. \A x \in DOMAIN pubs' : pubs'[x] = IF x = b THEN sequence ELSE pubs[x]
    BY <2>2, <2>3 DEF With
  <2> QED
    BY <1>1, <2>1, <2>2, <2>3, <2>4 DEF PubsInv
<1>4. CASE b \in hosts \cup DOMAIN pubs /\ ~sent
  <2>1. b \in Buildings
    BY <1>4, BuildingAssumption DEF PubsInv
  <2>2. pubs' = Without(pubs, b) /\ idle' = [idle EXCEPT ![b] = 2]
    BY <1>1, <1>4
  <2>3. DOMAIN pubs' = DOMAIN pubs \ {b}
    BY <2>2 DEF Without
  <2>4. \A x \in DOMAIN pubs' : pubs'[x] = pubs[x]
    BY <2>2, <2>3 DEF Without
  <2> QED
    BY <1>1, <2>1, <2>2, <2>3, <2>4 DEF PubsInv
<1> QED
  BY <1>2, <1>3, <1>4

LEMMA OnCleanupPubs == PubsInv /\ OnCleanup => PubsInv'
<1> SUFFICES ASSUME PubsInv, OnCleanup
             PROVE  PubsInv'
  OBVIOUS
<1>1. /\ sequence' = sequence + 1 /\ hosts' = hosts
      /\ idle' = [b \in Buildings |-> IF idle[b] = 0 THEN 1 ELSE 2]
      /\ DOMAIN pubs' = { x \in DOMAIN pubs : pubs[x] = sequence }
      /\ \A b \in DOMAIN pubs' : pubs'[b] = pubs[b]
  BY DEF OnCleanup
<1>2. \A b \in Buildings : b \in DOMAIN pubs' <=> idle[b] = 0
  BY <1>1 DEF PubsInv
<1> QED
  BY <1>1, <1>2 DEF PubsInv

LEMMA NextPubs == PubsInv /\ [Next]_vars => PubsInv'
<1> SUFFICES ASSUME PubsInv, [Next]_vars
             PROVE  PubsInv'
  OBVIOUS
<1> DEFINE Kept == UNCHANGED <<hosts, pubs, sequence, idle>>
<1>1. Kept => PubsInv'
  BY DEF PubsInv
<1>2. CASE LocalAgents
  BY <1>1, <1>2 DEF LocalAgents
<1>3. ASSUME NEW b \in Buildings, PublishSend(b)
      PROVE  PubsInv'
  BY <1>1, <1>3 DEF PublishSend
<1>4. CASE Broker
  BY <1>1, <1>4 DEF Broker
<1>5. CASE HandleSubMessage
  <2>1. CASE OnSubscribe
    BY <1>1, <2>1 DEF OnSubscribe, Receives
  <2>2. CASE OnUnsubscribe
    BY <1>1, <2>2 DEF OnUnsubscribe, Receives
  <2>3. CASE OnSubscriptionInit
    BY <1>1, <2>3 DEF OnSubscriptionInit, Receives
  <2>4. CASE OnSubscriptionList
    BY <1>1, <2>4, EndsPubs DEF OnSubscriptionList
  <2>5. CASE OnSend
    BY <2>5, OnSendPubs
  <2>6. CASE HostsUnreadable
    BY <2>6, EndsPubs DEF HostsUnreadable
  <2> QED
    BY <1>5, <2>1, <2>2, <2>3, <2>4, <2>5, <2>6 DEF HandleSubMessage
<1>6. CASE OnCleanup
  BY <1>6, OnCleanupPubs
<1>7. CASE HandleRepublishFails
  BY <1>7, EndsPubs DEF HandleRepublishFails
<1>8. CASE Join
  BY <1>1, <1>8 DEF Join
<1>9. CASE Restart
  BY <1>1, <1>9 DEF Restart
<1>10. CASE UNCHANGED vars
  BY <1>1, <1>10 DEF vars
<1>11. CASE EditHosts
  BY <1>11 DEF EditHosts, PubsInv
<1> QED
  BY <1>2, <1>3, <1>4, <1>5, <1>6, <1>7, <1>8, <1>9, <1>10, <1>11 DEF Next

\* on_cleanup closes exactly the PUSH sockets without use since the cleanup
\* before, and a failed send closes its own, however sends, failures, cleanups
\* and restarts follow each other.
THEOREM PubsStayFresh == Spec => []PubsFresh
<1>1. Init => PubsInv
  BY DEF Init, PubsInv
<1>2. PubsInv => PubsFresh
  BY DEF PubsInv, PubsFresh
<1> QED
  BY <1>1, <1>2, NextPubs, PTL DEF Spec

-----------------------------------------------------------------------------
(* The set of the exchange.  What the XPUB socket has yet to tell says more *)
(* about a topic than the set: the last change of a topic decides.          *)

About(t) == \E i \in 1 .. Len(changes) : changes[i].topic = t
LastAdds(t) ==
  \E i \in 1 .. Len(changes) :
    /\ changes[i] = Change("add", t)
    /\ \A j \in i + 1 .. Len(changes) : changes[j].topic # t
WillHave(t) == LastAdds(t) \/ (t \in subscriptions /\ ~About(t))

SubsInv ==
  /\ held \in [Clients -> SUBSET Topics]
  /\ changes \in Seq(Changes)
  /\ subscriptions \subseteq Topics
  /\ \A t \in Topics : t \in Held <=> WillHave(t)

\* A change that is appended decides for its topic, and for no other.
LEMMA Appended ==
  ASSUME changes \in Seq(Changes), NEW o \in {"add", "remove"}, NEW u \in Topics,
         changes' = Append(changes, Change(o, u)), subscriptions' = subscriptions
  PROVE  /\ WillHave(u)' <=> o = "add"
         /\ \A t \in Topics \ {u} : WillHave(t)' <=> WillHave(t)
<1>1. /\ Len(changes') = Len(changes) + 1
      /\ Len(changes) \in Nat
      /\ changes'[Len(changes) + 1] = Change(o, u)
      /\ \A i \in 1 .. Len(changes) : changes'[i] = changes[i]
  BY DEF Changes, Change
<1>2. Change(o, u).topic = u /\ Change(o, u).op = o
  BY DEF Change
<1>3. About(u)'
  BY <1>1, <1>2 DEF About
<1>4. LastAdds(u)' <=> o = "add"
  <2>1. o = "add" => LastAdds(u)'
    BY <1>1, <1>2 DEF LastAdds
  <2>2. ASSUME LastAdds(u)'
        PROVE  o = "add"
    <3>1. PICK i \in 1 .. Len(changes') :
            /\ changes'[i] = Change("add", u)
            /\ \A j \in i + 1 .. Len(changes') : changes'[j].topic # u
      BY <2>2 DEF LastAdds, Change
    <3>2. i = Len(changes) + 1
      BY <1>1, <1>2, <3>1
    <3> QED
      BY <1>1, <1>2, <3>1, <3>2 DEF Change
  <2> QED
    BY <2>1, <2>2
<1>5. ASSUME NEW t \in Topics \ {u}
      PROVE  (About(t)' <=> About(t)) /\ (LastAdds(t)' <=> LastAdds(t))
  <2>1. About(t)' <=> About(t)
    BY <1>1, <1>2, <1>5 DEF About
  <2>2. ASSUME LastAdds(t)
        PROVE  LastAdds(t)'
    <3>1. PICK i \in 1 .. Len(changes) :
            /\ changes[i] = Change("add", t)
            /\ \A j \in i + 1 .. Len(changes) : changes[j].topic # t
      BY <2>2 DEF LastAdds
    <3>2. \A j \in i + 1 .. Len(changes') : changes'[j].topic # t
      BY <1>1, <1>2, <3>1
    <3>3. i \in 1 .. Len(changes') /\ changes'[i] = Change("add", t)
      BY <1>1, <3>1
    <3> QED
      BY <3>2, <3>3 DEF LastAdds, Change
  <2>3. ASSUME LastAdds(t)'
        PROVE  LastAdds(t)
    <3>1. PICK i \in 1 .. Len(changes') :
            /\ changes'[i] = Change("add", t)
            /\ \A j \in i + 1 .. Len(changes') : changes'[j].topic # t
      BY <2>3 DEF LastAdds, Change
    <3>2. Change("add", t).topic = t
      BY DEF Change
    <3>3. i \in 1 .. Len(changes)
      BY <1>1, <1>2, <3>1, <3>2
    <3>4. \A j \in i + 1 .. Len(changes) : changes[j].topic # t
      BY <1>1, <3>1, <3>3
    <3> QED
      BY <1>1, <3>1, <3>3, <3>4 DEF LastAdds
  <2> QED
    BY <2>1, <2>2, <2>3
<1> QED
  BY <1>3, <1>4, <1>5 DEF WillHave

\* The exchange takes a change over into its set.
LEMMA Taken ==
  ASSUME SubsInv, HandleSubscription
  PROVE  SubsInv'
<1> DEFINE h == Head(changes)
<1>1. /\ changes # <<>> /\ changes' = Tail(changes) /\ held' = held
      /\ subscriptions' = IF h.op = "add" THEN subscriptions \cup {h.topic}
                                          ELSE subscriptions \ {h.topic}
  BY DEF HandleSubscription
<1>2. changes \in Seq(Changes)
  BY DEF SubsInv
<1>3. h \in Changes /\ h = changes[1] /\ 1 \in 1 .. Len(changes)
  BY <1>1, <1>2
<1>4. /\ Len(changes') = Len(changes) - 1 /\ Len(changes) \in Nat
      /\ \A i \in 1 .. Len(changes') : changes'[i] = changes[i + 1]
      /\ changes' \in Seq(Changes)
  BY <1>1, <1>2
<1>5. /\ h.topic \in Topics /\ h.op \in {"add", "remove"}
      /\ h = Change(h.op, h.topic)
  BY <1>3 DEF Changes, Change
<1> HIDE DEF h
<1>6. ASSUME NEW t \in Topics
      PROVE  WillHave(t)' <=> WillHave(t)
  <2>1. About(t) <=> About(t)' \/ h.topic = t
    <3>1. About(t)' => About(t)
      BY <1>4 DEF About
    <3>2. h.topic = t => About(t)
      BY <1>3 DEF About
    <3>3. ASSUME About(t), h.topic # t
          PROVE  About(t)'
      <4>1. PICK i \in 1 .. Len(changes) : changes[i].topic = t
        BY <3>3 DEF About
      <4>2. i # 1 /\ i - 1 \in 1 .. Len(changes') /\ (i - 1) + 1 = i
        BY <1>3, <1>4, <3>3, <4>1
      <4>3. changes'[i - 1].topic = t
        BY <1>4, <4>1, <4>2
      <4> QED
        BY <4>2, <4>3 DEF About
    <3> QED
      BY <3>1, <3>2, <3>3
  <2>2. Change("add", t).topic = t
    BY DEF Change
  <2>3. LastAdds(t)' => LastAdds(t)
    <3>1. SUFFICES ASSUME LastAdds(t)'
                   PROVE  LastAdds(t)
      OBVIOUS
    <3>2. PICK i \in 1 .. Len(changes') :
            /\ changes'[i] = Change("add", t)
            /\ \A j \in i + 1 .. Len(changes') : changes'[j].topic # t
      BY <3>1 DEF LastAdds, Change
    <3>3. i + 1 \in 1 .. Len(changes) /\ changes[i + 1] = Change("add", t)
      BY <1>4, <3>2
    <3>4. ASSUME NEW j \in (i + 1) + 1 .. Len(changes)
          PROVE  changes[j].topic # t
      <4>1. j - 1 \in i + 1 .. Len(changes') /\ (j - 1) + 1 = j
        BY <1>4, <3>2, <3>4
      <4>2. changes'[j - 1] = changes[j]
        BY <1>4, <3>2, <4>1
      <4> QED
        BY <3>2, <4>1, <4>2
    <3> QED
      BY <3>3, <3>4 DEF LastAdds
  <2>4. LastAdds(t) /\ About(t)' => LastAdds(t)'
    <3>1. SUFFICES ASSUME LastAdds(t), About(t)'
                   PROVE  LastAdds(t)'
      OBVIOUS
    <3>2. PICK i \in 1 .. Len(changes) :
            /\ changes[i] = Change("add", t)
            /\ \A j \in i + 1 .. Len(changes) : changes[j].topic # t
      BY <3>1 DEF LastAdds
    <3>3. PICK k \in 1 .. Len(changes') : changes'[k].topic = t
      BY <3>1 DEF About
    <3>4. k + 1 \in 1 .. Len(changes) /\ changes[k + 1].topic = t
      BY <1>4, <3>3
    <3>5. ~(k + 1 \in i + 1 .. Len(changes))
      BY <3>2, <3>4
    <3>6. i - 1 \in 1 .. Len(changes') /\ (i - 1) + 1 = i
      <4>1. /\ i \in Nat /\ k \in Nat /\ Len(changes) \in Nat /\ 1 <= k
            /\ i <= Len(changes) /\ k + 1 <= Len(changes)
            /\ Len(changes') = Len(changes) - 1
        BY <1>4, <3>2, <3>3, <3>4
      <4>2. k + 1 <= i
        BY <3>5, <4>1
      <4> QED
        BY <4>1, <4>2
    <3>7. changes'[i - 1] = Change("add", t)
      BY <1>4, <3>2, <3>6
    <3>8. \A j \in (i - 1) + 1 .. Len(changes') : changes'[j].topic # t
      <4> SUFFICES ASSUME NEW j \in i .. Len(changes')
                   PROVE  changes'[j].topic # t
        BY <3>6
      <4>1. j \in 1 .. Len(changes') /\ j + 1 \in i + 1 .. Len(changes)
        BY <1>4, <3>2
      <4> QED
        BY <1>4, <3>2, <4>1
    <3> QED
      BY <3>6, <3>7, <3>8 DEF LastAdds, Change
  <2>5. ASSUME ~About(t)'
        PROVE  /\ ~LastAdds(t)'
               /\ LastAdds(t) <=> h = Change("add", t)
    <3>1. ~LastAdds(t)'
      BY <2>2, <2>5 DEF LastAdds, About, Change
    <3>2. ASSUME NEW i \in 1 .. Len(changes), i # 1
          PROVE  changes[i].topic # t
      <4>1. i - 1 \in 1 .. Len(changes') /\ (i - 1) + 1 = i
        BY <1>4, <3>2
      <4>2. changes'[i - 1] = changes[i]
        BY <1>4, <4>1
      <4> QED
        BY <2>5, <4>1, <4>2 DEF About
    <3>3. LastAdds(t) => h = Change("add", t)
      BY <1>3, <2>2, <3>2 DEF LastAdds
    <3>4. ASSUME h = Change("add", t)
          PROVE  LastAdds(t)
      <4>1. changes[1] = Change("add", t)
        BY <1>3, <3>4
      <4>2. \A j \in 1 + 1 .. Len(changes) : changes[j].topic # t
        BY <1>4, <3>2
      <4> QED
        BY <1>3, <4>1, <4>2 DEF LastAdds
    <3> QED
      BY <3>1, <3>3, <3>4
  <2>6. CASE About(t)'
    BY <2>1, <2>3, <2>4, <2>6 DEF WillHave
  <2>7. CASE ~About(t)' /\ h.topic # t
    BY <1>1, <2>1, <2>2, <2>5, <2>7 DEF WillHave
  <2>8. CASE ~About(t)' /\ h.topic = t
    <3>1. h = Change("add", t) <=> h.op = "add"
      BY <1>5, <2>8 DEF Change
    <3>2. t \in subscriptions' <=> h.op = "add"
      BY <1>1, <2>8
    <3> QED
      BY <2>1, <2>5, <2>8, <3>1, <3>2 DEF WillHave
  <2> QED
    BY <2>6, <2>7, <2>8
<1>7. subscriptions' \subseteq Topics
  BY <1>1, <1>5 DEF SubsInv
<1>8. Held' = Held
  BY <1>1 DEF Held
<1> QED
  BY <1>1, <1>4, <1>6, <1>7, <1>8 DEF SubsInv

LEMMA SubscribeSubs ==
  ASSUME SubsInv, NEW c \in Clients, NEW u \in Topics, Subscribe(c, u)
  PROVE  SubsInv'
<1>1. /\ held' = [held EXCEPT ![c] = held[c] \cup {u}]
      /\ held \in [Clients -> SUBSET Topics]
      /\ subscriptions' = subscriptions
  BY DEF Subscribe, SubsInv
<1>2. held' \in [Clients -> SUBSET Topics]
  BY <1>1
<1>3. Held' = Held \cup {u}
  BY <1>1 DEF Held
<1>4. CASE u \in Held
  <2>1. changes' = changes
    BY <1>4 DEF Subscribe, Tells
  <2> QED
    BY <1>1, <1>2, <1>3, <1>4, <2>1 DEF SubsInv, WillHave, LastAdds, About
<1>5. CASE u \notin Held
  <2>1. changes' = Append(changes, Change("add", u))
    BY <1>5 DEF Subscribe, Tells
  <2>2. changes' \in Seq(Changes)
    BY <2>1 DEF SubsInv, Changes, Change
  <2>3. \A t \in Topics : WillHave(t)' <=> WillHave(t) \/ t = u
    BY <1>1, <2>1, Appended DEF SubsInv
  <2> QED
    BY <1>1, <1>2, <1>3, <2>2, <2>3 DEF SubsInv
<1> QED
  BY <1>4, <1>5

LEMMA UnsubscribeSubs ==
  ASSUME SubsInv, NEW c \in Clients, NEW u \in Topics, Unsubscribe(c, u)
  PROVE  SubsInv'
<1>1. /\ held' = [held EXCEPT ![c] = held[c] \ {u}]
      /\ held \in [Clients -> SUBSET Topics]
      /\ subscriptions' = subscriptions
      /\ u \in held[c]
  BY DEF Unsubscribe, SubsInv
<1>2. held' \in [Clients -> SUBSET Topics]
  BY <1>1
<1>3. u \in Held /\ \A t \in Topics \ {u} : t \in Held' <=> t \in Held
  BY <1>1 DEF Held
<1>4. CASE u \in Held'
  <2>1. changes' = changes
    BY <1>3, <1>4 DEF Unsubscribe, Tells, Held
  <2> QED
    BY <1>1, <1>2, <1>3, <1>4, <2>1 DEF SubsInv, WillHave, LastAdds, About
<1>5. CASE u \notin Held'
  <2>1. changes' = Append(changes, Change("remove", u))
    BY <1>3, <1>5 DEF Unsubscribe, Tells, Held
  <2>2. changes' \in Seq(Changes)
    BY <2>1 DEF SubsInv, Changes, Change
  <2>3. ~WillHave(u)' /\ \A t \in Topics \ {u} : WillHave(t)' <=> WillHave(t)
    BY <1>1, <2>1, Appended DEF SubsInv
  <2> QED
    BY <1>1, <1>2, <1>3, <1>5, <2>2, <2>3 DEF SubsInv
<1> QED
  BY <1>4, <1>5

LEMMA NextSubs == SubsInv /\ [Next]_vars => SubsInv'
<1> SUFFICES ASSUME SubsInv, [Next]_vars
             PROVE  SubsInv'
  OBVIOUS
<1>1. UNCHANGED <<held, changes, subscriptions>> => SubsInv'
  BY DEF SubsInv, Held, WillHave, LastAdds, About
<1>2. CASE LocalAgents
  BY <1>2, SubscribeSubs, UnsubscribeSubs DEF LocalAgents
<1>3. ASSUME NEW b \in Buildings, PublishSend(b)
      PROVE  SubsInv'
  BY <1>1, <1>3 DEF PublishSend
<1>4. CASE Broker
  BY <1>1, <1>4, Taken DEF Broker, AgentExchange, HandleMessage
<1>5. CASE HandleSubMessage
  BY <1>1, <1>5 DEF HandleSubMessage, OnSubscribe, OnUnsubscribe,
                    OnSubscriptionInit, OnSubscriptionList, OnSend,
                    HostsUnreadable, Receives
<1>6. CASE OnCleanup
  BY <1>1, <1>6 DEF OnCleanup
<1>7. CASE HandleRepublishFails
  BY <1>1, <1>7 DEF HandleRepublishFails
<1>8. CASE Join
  BY <1>1, <1>8 DEF Join
<1>9. CASE Restart
  BY <1>1, <1>9 DEF Restart
<1>10. CASE UNCHANGED vars
  BY <1>1, <1>10 DEF vars, exchange
<1>11. CASE EditHosts
  BY <1>1, <1>11 DEF EditHosts, exchange
<1> QED
  BY <1>2, <1>3, <1>4, <1>5, <1>6, <1>7, <1>8, <1>9, <1>10, <1>11 DEF Next

\* Whenever agent_exchange has read all the XPUB socket has to tell, its set of
\* subscriptions is what the agents of the platform hold: the list it answers
\* with, and the announcements before it, lose no topic and keep no stale one.
THEOREM ExchangeExact == Spec => []SubscriptionsExact
<1>1. Init => SubsInv
  BY DEF Init, InitExchange, SubsInv, Held, WillHave, LastAdds, About
<1>2. SubsInv => SubscriptionsExact
  <2> SUFFICES ASSUME SubsInv, changes = <<>>
               PROVE  subscriptions = Held
    BY DEF SubscriptionsExact
  <2>1. \A t \in Topics : t \in Held <=> t \in subscriptions
    BY DEF SubsInv, WillHave, LastAdds, About
  <2>2. Held \subseteq Topics /\ subscriptions \subseteq Topics
    BY DEF SubsInv, Held
  <2> QED
    BY <2>1, <2>2
<1> QED
  BY <1>1, <1>2, NextSubs, PTL DEF Spec

-----------------------------------------------------------------------------
(* The SUB sockets.  What the agent has yet to read decides for a topic as  *)
(* long as something of the topic is on the bus; then its socket does.      *)

Answers == [op : {"list"}, cookie : {"init", "clean"}, topics : SUBSET Topics]
Sends == [op : {"send"}, building : Buildings]

Sets(m, t) ==
  \/ m.op = "add" /\ m.topic = t
  \/ m.op = "list" /\ m.cookie = "init" /\ t \in m.topics
Clears(m, t) == m.op = "remove" /\ m.topic = t

Counted(t) == BuildingOf[t] \in DOMAIN subs /\ subs[BuildingOf[t]][t] > 0

\* What is on the bus ends with t set, or leaves it set.
Covered(t) ==
  \/ \E i \in 1 .. Len(bus) :
       /\ Sets(bus[i], t)
       /\ \A j \in i + 1 .. Len(bus) : ~Clears(bus[j], t)
  \/ /\ \A i \in 1 .. Len(bus) : ~Clears(bus[i], t)
     /\ Counted(t)

IsInit(m) == m.op = "list" /\ m.cookie = "init"
Informed == listed \/ \E i \in 1 .. Len(bus) : IsInit(bus[i])

BusInv ==
  /\ changes \in Seq(Changes)
  /\ subscriptions \subseteq Topics
  /\ requests \in Seq([op : {"list"}, cookie : {"init", "clean"}] \cup Sends)
  /\ bus \in Seq(Changes \cup Answers \cup Sends)
  /\ ~joined => bus = <<>> /\ ~listed /\ lost = 0
  /\ lost \in 0 .. MaxLost
  /\ steady \subseteq hosts /\ hosts \subseteq Hosts
  /\ ~alive => ~joined
  /\ \A b \in DOMAIN subs : subs[b] \in [Topics -> Nat]

CoveredInv ==
  joined /\ Informed /\ lost = 0 =>
    \A t \in subscriptions : BuildingOf[t] \in steady => Covered(t)

\* What the exchange sends reaches the bus, unless it is dropped.
LEMMA Broadcasts ==
  ASSUME BusInv, NEW m, Broadcast(m)
  PROVE  /\ lost' \in 0 .. MaxLost
         /\ \/ lost' = lost /\ bus' = IF joined THEN Append(bus, m) ELSE bus
            \/ joined /\ bus' = bus /\ lost' # 0
<1>1. lost \in 0 .. MaxLost /\ MaxLost \in Nat
  BY LimitsAssumption DEF BusInv
<1>2. CASE lost' = lost
  BY <1>1, <1>2 DEF Broadcast
<1>3. CASE joined /\ bus' = bus /\ lost < MaxLost /\ lost' = lost + 1
  BY <1>1, <1>3
<1> QED
  BY <1>2, <1>3 DEF Broadcast

-----------------------------------------------------------------------------

\* A message is put at the end of the bus.
LEMMA Sent ==
  ASSUME BusInv, NEW m \in Changes \cup Answers \cup Sends,
         bus' = Append(bus, m), subs' = subs
  PROVE  /\ \A t \in Topics : Sets(m, t) => Covered(t)'
         /\ \A t \in Topics : Covered(t) /\ ~Clears(m, t) => Covered(t)'
         /\ \A i \in 1 .. Len(bus') : IsInit(bus'[i]) =>
              IsInit(m) \/ \E k \in 1 .. Len(bus) : IsInit(bus[k])
<1>1. /\ Len(bus') = Len(bus) + 1 /\ Len(bus) \in Nat
      /\ bus'[Len(bus) + 1] = m
      /\ \A i \in 1 .. Len(bus) : bus'[i] = bus[i]
  BY DEF BusInv
<1>2. ASSUME NEW t \in Topics, Sets(m, t)
      PROVE  Covered(t)'
  <2>1. Len(bus') \in 1 .. Len(bus') /\ bus'[Len(bus')] = m
    BY <1>1
  <2>2. \A j \in Len(bus') + 1 .. Len(bus') : FALSE
    BY <1>1
  <2>3. \E i \in 1 .. Len(bus') :
          Sets(bus'[i], t) /\ \A j \in i + 1 .. Len(bus') : ~Clears(bus'[j], t)
    BY <1>2, <2>1, <2>2
  <2> QED
    BY <2>3 DEF Covered, Sets, Clears
<1>3. ASSUME NEW t \in Topics, Covered(t), ~Clears(m, t)
      PROVE  Covered(t)'
  <2>1. ASSUME NEW i \in 1 .. Len(bus), Sets(bus[i], t),
               \A j \in i + 1 .. Len(bus) : ~Clears(bus[j], t)
        PROVE  Covered(t)'
    <3>1. i \in 1 .. Len(bus') /\ Sets(bus'[i], t)
      BY <1>1, <2>1
    <3>2. \A j \in i + 1 .. Len(bus') : j \in i + 1 .. Len(bus) \/ j = Len(bus) + 1
      BY <1>1
    <3>3. \A j \in i + 1 .. Len(bus') : ~Clears(bus'[j], t)
      BY <1>1, <1>3, <2>1, <3>2
    <3> QED
      BY <3>1, <3>3 DEF Covered, Sets, Clears
  <2>2. ASSUME \A i \in 1 .. Len(bus) : ~Clears(bus[i], t), Counted(t)
        PROVE  Covered(t)'
    <3>1. \A i \in 1 .. Len(bus') : i \in 1 .. Len(bus) \/ i = Len(bus) + 1
      BY <1>1
    <3>2. \A i \in 1 .. Len(bus') : ~Clears(bus'[i], t)
      BY <1>1, <1>3, <2>2, <3>1
    <3> QED
      BY <2>2, <3>2 DEF Covered, Counted, Clears
  <2> QED
    BY <1>3, <2>1, <2>2 DEF Covered
<1>4. ASSUME NEW i \in 1 .. Len(bus'), IsInit(bus'[i])
      PROVE  IsInit(m) \/ \E k \in 1 .. Len(bus) : IsInit(bus[k])
  <2>1. i \in 1 .. Len(bus) \/ i = Len(bus) + 1
    BY <1>1
  <2> QED
    BY <1>1, <1>4, <2>1
<1> QED
  BY <1>2, <1>3, <1>4

\* The first message is taken off the bus, and the socket does what it says.
LEMMA Read ==
  ASSUME BusInv, bus # <<>>, bus' = Tail(bus), NEW t \in Topics,
         Covered(t),
         Sets(Head(bus), t) => Counted(t)',
         Counted(t) /\ ~Clears(Head(bus), t) => Counted(t)'
  PROVE  Covered(t)'
<1>1. /\ Len(bus') = Len(bus) - 1 /\ Len(bus) \in Nat \ {0}
      /\ Head(bus) = bus[1]
      /\ \A i \in 1 .. Len(bus') : bus'[i] = bus[i + 1]
  BY DEF BusInv
<1>2. ASSUME NEW k \in Nat, \A j \in k + 1 .. Len(bus) : ~Clears(bus[j], t)
      PROVE  \A j \in 1 .. Len(bus') : j >= k => ~Clears(bus'[j], t)
  BY <1>1, <1>2
<1>3. ASSUME NEW i \in 1 .. Len(bus), Sets(bus[i], t),
             \A j \in i + 1 .. Len(bus) : ~Clears(bus[j], t)
      PROVE  Covered(t)'
  <2>1. CASE i = 1
    <3>1. Counted(t)'
      BY <1>1, <1>3, <2>1
    <3>2. \A j \in 1 .. Len(bus') : ~Clears(bus'[j], t)
      BY <1>2, <1>3, <2>1
    <3> QED
      BY <3>1, <3>2 DEF Covered, Clears
  <2>2. CASE i # 1
    <3>1. i - 1 \in 1 .. Len(bus') /\ (i - 1) + 1 = i /\ i \in Nat
      BY <1>1, <2>2
    <3>2. Sets(bus'[i - 1], t)
      BY <1>1, <1>3, <3>1
    <3>3. \A j \in (i - 1) + 1 .. Len(bus') : ~Clears(bus'[j], t)
      BY <1>1, <1>2, <1>3, <3>1
    <3> QED
      BY <3>1, <3>2, <3>3 DEF Covered, Sets, Clears
  <2> QED
    BY <2>1, <2>2
<1>4. ASSUME \A i \in 1 .. Len(bus) : ~Clears(bus[i], t), Counted(t)
      PROVE  Covered(t)'
  <2>1. Counted(t)'
    BY <1>1, <1>4
  <2>2. \A j \in 1 .. Len(bus') : ~Clears(bus'[j], t)
    BY <1>1, <1>4
  <2> QED
    BY <2>1, <2>2 DEF Covered, Clears
<1> QED
  BY <1>3, <1>4 DEF Covered

-----------------------------------------------------------------------------
(* Every action keeps both invariants.                                     *)

LEMMA SocketsIdle ==
  ASSUME BusInv, CoveredInv, UNCHANGED <<subscriptions, joined, bus, lost, listed, subs>>,
         changes' \in Seq(Changes),
         requests' \in Seq([op : {"list"}, cookie : {"init", "clean"}] \cup Sends),
         ~alive' => ~joined',
         steady' \subseteq hosts' /\ hosts' \subseteq Hosts,
         steady' \subseteq steady \/ ~joined
  PROVE  BusInv' /\ CoveredInv'
<1>1. BusInv'
  BY DEF BusInv
<1>2. Informed' = Informed
  BY DEF Informed, IsInit
<1>3. \A t : Covered(t)' = Covered(t)
  BY DEF Covered, Counted, Sets, Clears
<1> QED
  BY <1>1, <1>2, <1>3 DEF CoveredInv

\* What add_subscription does to the count of a topic.
LEMMA Adding ==
  ASSUME BusInv, NEW T \in SUBSET Topics, subs' = AddSubscriptions(T)
  PROVE  /\ \A b \in DOMAIN subs' : subs'[b] \in [Topics -> Nat]
         /\ \A t \in Topics : Counted(t) => Counted(t)'
         /\ \A t \in T : BuildingOf[t] \in hosts => Counted(t)'
<1> DEFINE known == { t \in T : BuildingOf[t] \in hosts \cup DOMAIN subs }
           One(b, t) == IF t \in known /\ BuildingOf[t] = b THEN 1 ELSE 0
<1>1. subs' = [b \in DOMAIN subs \cup { BuildingOf[t] : t \in known } |->
                 [t \in Topics |-> SocketOf(b)[t] + One(b, t)]]
  BY DEF AddSubscriptions
<1>2. known \subseteq T /\ \A b, t : One(b, t) \in {0, 1}
  OBVIOUS
<1>3. \A t \in T : BuildingOf[t] \in hosts => t \in known /\ One(BuildingOf[t], t) = 1
  OBVIOUS
<1> HIDE DEF known, One
<1>4. \A b : SocketOf(b) \in [Topics -> Nat]
  BY DEF BusInv, SocketOf, NoTopics
<1>5. \A b \in DOMAIN subs' : \A t \in Topics :
        subs'[b][t] = SocketOf(b)[t] + One(b, t)
  BY <1>1
<1>6. \A b \in DOMAIN subs' : subs'[b] \in [Topics -> Nat]
  <2> SUFFICES ASSUME NEW b \in DOMAIN subs'
               PROVE  subs'[b] \in [Topics -> Nat]
    OBVIOUS
  <2>1. subs'[b] = [t \in Topics |-> SocketOf(b)[t] + One(b, t)]
    BY <1>1
  <2>2. \A t \in Topics : SocketOf(b)[t] + One(b, t) \in Nat
    BY <1>2, <1>4
  <2> QED
    BY <2>1, <2>2
<1>7. ASSUME NEW t \in Topics, Counted(t)
      PROVE  Counted(t)'
  <2>1. BuildingOf[t] \in DOMAIN subs' /\ SocketOf(BuildingOf[t])[t] > 0
    BY <1>1, <1>7 DEF Counted, SocketOf
  <2>2. SocketOf(BuildingOf[t])[t] \in Nat /\ One(BuildingOf[t], t) \in {0, 1}
    BY <1>2, <1>4
  <2> QED
    BY <1>5, <2>1, <2>2 DEF Counted
<1>8. ASSUME NEW t \in T, BuildingOf[t] \in hosts
      PROVE  Counted(t)'
  <2>1. t \in known /\ One(BuildingOf[t], t) = 1 /\ t \in Topics
    BY <1>3, <1>8
  <2>2. BuildingOf[t] \in DOMAIN subs'
    BY <1>1, <2>1
  <2>3. SocketOf(BuildingOf[t])[t] \in Nat
    BY <1>4, <2>1
  <2> QED
    BY <1>5, <2>1, <2>2, <2>3 DEF Counted
<1> QED
  BY <1>6, <1>7, <1>8

\* A step of the agent that takes one message and closes nothing.
LEMMA ReadKeeps ==
  ASSUME BusInv, CoveredInv, bus # <<>>, bus' = Tail(bus),
         UNCHANGED <<changes, subscriptions, joined, lost, hosts, steady, requests, alive>>,
         listed' => listed \/ IsInit(Head(bus)),
         \A b \in DOMAIN subs' : subs'[b] \in [Topics -> Nat],
         \A t \in Topics : BuildingOf[t] \in steady =>
           /\ Sets(Head(bus), t) => Counted(t)'
           /\ Counted(t) /\ ~Clears(Head(bus), t) => Counted(t)'
  PROVE  BusInv' /\ CoveredInv'
<1>1. /\ Len(bus') = Len(bus) - 1 /\ Len(bus) \in Nat \ {0}
      /\ Head(bus) = bus[1]
      /\ \A i \in 1 .. Len(bus') : bus'[i] = bus[i + 1]
      /\ bus' \in Seq(Changes \cup Answers \cup Sends)
  BY DEF BusInv
<1>2. joined
  BY DEF BusInv
<1>3. BusInv'
  BY <1>1, <1>2 DEF BusInv
<1>4. ASSUME Informed'
      PROVE  Informed
  <2>1. CASE listed'
    BY <1>1, <2>1 DEF Informed
  <2>2. CASE \E i \in 1 .. Len(bus') : IsInit(bus'[i])
    <3>1. PICK i \in 1 .. Len(bus') : IsInit(bus'[i])
      BY <2>2
    <3>2. i + 1 \in 1 .. Len(bus) /\ IsInit(bus[i + 1])
      BY <1>1, <3>1
    <3> QED
      BY <3>2 DEF Informed
  <2> QED
    BY <1>4, <2>1, <2>2 DEF Informed, IsInit
<1>5. ASSUME NEW t \in subscriptions, Covered(t), BuildingOf[t] \in steady
      PROVE  Covered(t)'
  BY <1>5, Read DEF BusInv
<1> QED
  BY <1>2, <1>3, <1>4, <1>5 DEF CoveredInv

LEMMA HandlerConnects ==
  ASSUME BusInv, CoveredInv, HandleSubMessage
  PROVE  BusInv' /\ CoveredInv'
<1> DEFINE h == Head(bus)
<1>0. steady \subseteq hosts
  BY DEF BusInv
<1>1. bus # <<>>
  BY DEF HandleSubMessage, OnSubscribe, OnUnsubscribe, OnSubscriptionInit,
         OnSubscriptionList, OnSend, HostsUnreadable, Receives, Takes
<1>2. h \in Changes \cup Answers \cup Sends
  BY <1>1 DEF BusInv
<1>3. /\ h.op = "add" => h.topic \in Topics
      /\ h.op = "remove" => h.topic \in Topics
      /\ h.op = "list" => h.topics \in SUBSET Topics
  BY <1>2 DEF Changes, Answers, Sends
<1>4. CASE OnSubscribe
  <2>1. /\ bus' = Tail(bus) /\ h.op = "add" /\ subs' = AddSubscriptions({h.topic})
        /\ UNCHANGED <<changes, subscriptions, joined, lost, hosts, steady,
                        requests, alive, listed>>
    BY <1>4 DEF OnSubscribe, Receives, Takes
  <2>2. {h.topic} \in SUBSET Topics
    BY <1>3, <2>1
  <2>3. \A t : Sets(h, t) => t \in {h.topic}
    BY <2>1 DEF Sets
  <2> HIDE DEF h
  <2>4. /\ \A b \in DOMAIN subs' : subs'[b] \in [Topics -> Nat]
        /\ \A t \in Topics : Counted(t) => Counted(t)'
        /\ \A t \in {h.topic} : BuildingOf[t] \in hosts => Counted(t)'
    BY <2>1, <2>2, Adding
  <2>5. \A t \in Topics : BuildingOf[t] \in steady =>
          /\ Sets(h, t) => Counted(t)'
          /\ Counted(t) => Counted(t)'
    BY <1>0, <2>3, <2>4
  <2> QED
    BY <1>1, <2>1, <2>4, <2>5, ReadKeeps DEF h
<1>5. CASE OnSubscriptionInit
  <2>1. /\ bus' = Tail(bus) /\ h.op = "list" /\ subs' = AddSubscriptions(h.topics)
        /\ IsInit(h)
        /\ UNCHANGED <<changes, subscriptions, joined, lost, hosts, steady, requests, alive>>
    BY <1>5 DEF OnSubscriptionInit, Receives, Takes, IsInit
  <2>2. h.topics \in SUBSET Topics
    BY <1>3, <2>1
  <2>3. \A t : Sets(h, t) => t \in h.topics
    BY <2>1 DEF Sets
  <2> HIDE DEF h
  <2>4. /\ \A b \in DOMAIN subs' : subs'[b] \in [Topics -> Nat]
        /\ \A t \in Topics : Counted(t) => Counted(t)'
        /\ \A t \in h.topics : BuildingOf[t] \in hosts => Counted(t)'
    BY <2>1, <2>2, Adding
  <2>5. \A t \in Topics : BuildingOf[t] \in steady =>
          /\ Sets(h, t) => Counted(t)'
          /\ Counted(t) => Counted(t)'
    BY <1>0, <2>3, <2>4
  <2> QED
    BY <1>1, <2>1, <2>4, <2>5, ReadKeeps DEF h
<1>6. CASE OnUnsubscribe
  <2> DEFINE u == h.topic
             b0 == BuildingOf[u]
  <2>1. /\ bus' = Tail(bus) /\ h.op = "remove"
        /\ subs' = IF b0 \in DOMAIN subs
                     THEN [subs EXCEPT ![b0][u] = IF @ > 0 THEN @ - 1 ELSE 0] ELSE subs
        /\ UNCHANGED <<changes, subscriptions, joined, lost, hosts, steady,
                        requests, alive, listed>>
    BY <1>6 DEF OnUnsubscribe, Receives, Takes
  <2>2. u \in Topics
    BY <1>3, <2>1
  <2>3. \A t : ~Sets(h, t)
    BY <2>1 DEF Sets
  <2>4. \A t : ~Clears(h, t) => t # u
    BY <2>1 DEF Clears
  <2> HIDE DEF h, u, b0
  <2>5. DOMAIN subs' = DOMAIN subs
    BY <2>1
  <2>6. \A b \in DOMAIN subs : subs[b] \in [Topics -> Nat]
    BY DEF BusInv
  <2>7. ASSUME NEW b \in DOMAIN subs
        PROVE  /\ subs'[b] \in [Topics -> Nat]
               /\ \A t \in Topics \ {u} : subs'[b][t] = subs[b][t]
    <3>1. CASE b0 \in DOMAIN subs /\ b = b0
      <4>1. subs'[b] = [subs[b] EXCEPT ![u] = IF @ > 0 THEN @ - 1 ELSE 0]
        BY <2>1, <3>1
      <4>2. subs[b][u] \in Nat
        BY <2>2, <2>6, <2>7
      <4>3. (IF subs[b][u] > 0 THEN subs[b][u] - 1 ELSE 0) \in Nat
        BY <4>2
      <4> QED
        BY <2>2, <2>6, <2>7, <4>1, <4>3
    <3>2. CASE ~(b0 \in DOMAIN subs /\ b = b0)
      BY <2>1, <2>6, <2>7, <3>2
    <3> QED
      BY <3>1, <3>2
  <2>8. \A t \in Topics \ {u} : Counted(t) => Counted(t)'
    BY <2>5, <2>7 DEF Counted
  <2>9. \A t \in Topics : BuildingOf[t] \in steady =>
          /\ Sets(h, t) => Counted(t)'
          /\ Counted(t) /\ ~Clears(h, t) => Counted(t)'
    BY <2>3, <2>4, <2>8
  <2> QED
    BY <1>1, <2>1, <2>5, <2>7, <2>9, ReadKeeps DEF h
<1>10. MaxLost \in Nat
  BY LimitsAssumption
<1>11. Ends /\ UNCHANGED <<changes, subscriptions, requests, hosts>> => BusInv' /\ CoveredInv'
  BY <1>10 DEF Ends, BusInv, CoveredInv
<1>7. ASSUME bus' = Tail(bus), (h.op = "list" /\ h.cookie = "clean") \/ h.op = "send",
             UNCHANGED <<changes, subscriptions, joined, lost, hosts, steady,
                         requests, alive, listed, subs>>
      PROVE  BusInv' /\ CoveredInv'
  <2>1. \A t : ~Sets(h, t)
    BY <1>7 DEF Sets
  <2>2. \A t : Counted(t) => Counted(t)'
    BY <1>7 DEF Counted
  <2>3. \A b \in DOMAIN subs' : subs'[b] \in [Topics -> Nat]
    BY <1>7 DEF BusInv
  <2> HIDE DEF h
  <2> QED
    BY <1>1, <1>7, <2>1, <2>2, <2>3, ReadKeeps DEF h
<1>8. CASE OnSubscriptionList
  <2>1. CASE subs = <<>>
    BY <1>7, <1>8, <2>1 DEF OnSubscriptionList, Takes
  <2>2. CASE subs # <<>>
    BY <1>8, <1>11, <2>2 DEF OnSubscriptionList
  <2> QED
    BY <2>1, <2>2
<1>9. CASE OnSend
  BY <1>7, <1>9 DEF OnSend, Receives, Takes
<1>12. CASE HostsUnreadable
  BY <1>11, <1>12 DEF HostsUnreadable
<1> QED
  BY <1>4, <1>5, <1>6, <1>8, <1>9, <1>12 DEF HandleSubMessage

\* What the exchange announces or answers covers every topic of its set.
LEMMA BrokerConnects ==
  ASSUME BusInv, CoveredInv, Broker
  PROVE  BusInv' /\ CoveredInv'
<1> DEFINE Message == Changes \cup Answers \cup Sends
<1>1. ASSUME NEW m \in Message, Broadcast(m),
             UNCHANGED <<joined, alive, listed, subs, hosts, steady>>,
             changes' \in Seq(Changes), subscriptions' \subseteq Topics,
             requests' \in Seq([op : {"list"}, cookie : {"init", "clean"}] \cup Sends),
             \A t \in subscriptions' :
               Sets(m, t) \/ (t \in subscriptions /\ ~IsInit(m) /\ ~Clears(m, t))
      PROVE  BusInv' /\ CoveredInv'
  <2>0. /\ lost' \in 0 .. MaxLost
        /\ \/ lost' = lost /\ bus' = IF joined THEN Append(bus, m) ELSE bus
           \/ joined /\ bus' = bus /\ lost' # 0
    BY <1>1, Broadcasts
  <2>1. CASE ~joined
    BY <1>1, <2>0, <2>1 DEF BusInv, CoveredInv
  <2>3. CASE joined /\ bus' = bus /\ lost' # 0
    BY <1>1, <2>0, <2>3 DEF BusInv, CoveredInv
  <2>2. CASE joined /\ bus' = Append(bus, m) /\ lost' = lost
    <3>1. bus' = Append(bus, m)
      BY <2>2
    <3>2. BusInv'
      BY <1>1, <2>2, <3>1 DEF BusInv
    <3>3. ASSUME Informed', ~IsInit(m)
          PROVE  Informed
      BY <1>1, <3>1, <3>3, Sent DEF Informed, IsInit
    <3>4. ASSUME Informed', lost' = 0, NEW t \in subscriptions', BuildingOf[t] \in steady
          PROVE  Covered(t)'
      <4>1. t \in Topics
        BY <1>1
      <4>2. CASE Sets(m, t)
        BY <1>1, <3>1, <4>1, <4>2, Sent
      <4>3. CASE t \in subscriptions /\ ~IsInit(m) /\ ~Clears(m, t)
        <5>1. Covered(t)
          BY <2>2, <3>3, <3>4, <4>3 DEF CoveredInv
        <5> QED
          BY <1>1, <3>1, <4>1, <4>3, <5>1, Sent
      <4> QED
        BY <1>1, <4>2, <4>3
    <3> QED
      BY <1>1, <3>2, <3>4 DEF CoveredInv
  <2> QED
    BY <2>0, <2>1, <2>2, <2>3 DEF BusInv
<1>2. CASE HandleSubscription
  <2> DEFINE h == Head(changes)
  <2>1. /\ changes # <<>> /\ changes' = Tail(changes)
        /\ subscriptions' = IF h.op = "add" THEN subscriptions \cup {h.topic}
                                            ELSE subscriptions \ {h.topic}
        /\ Broadcast(h)
        /\ UNCHANGED <<requests, joined, alive, listed, subs, hosts, steady>>
    BY <1>2 DEF HandleSubscription, Broker
  <2>2. h \in Changes
    BY <2>1 DEF BusInv
  <2>3. h.op \in {"add", "remove"} /\ h.topic \in Topics
    BY <2>2 DEF Changes
  <2>4. changes' \in Seq(Changes)
    BY <2>1 DEF BusInv
  <2> HIDE DEF h
  <2>5. subscriptions' \subseteq Topics
    BY <2>1, <2>3 DEF BusInv
  <2>6. \A t \in subscriptions' :
          Sets(h, t) \/ (t \in subscriptions /\ ~IsInit(h) /\ ~Clears(h, t))
    BY <2>1, <2>3 DEF Sets, Clears, IsInit
  <2> QED
    BY <1>1, <2>1, <2>2, <2>4, <2>5, <2>6 DEF BusInv
<1>3. CASE HandleMessage
  <2> DEFINE r == Head(requests)
             m == IF r.op = "list"
                    THEN [op |-> "list", cookie |-> r.cookie, topics |-> subscriptions] ELSE r
  <2>1. /\ requests # <<>> /\ requests' = Tail(requests) /\ Broadcast(m)
        /\ UNCHANGED <<changes, subscriptions, joined, alive, listed, subs, hosts, steady>>
    BY <1>3 DEF HandleMessage, Broker
  <2>2. r \in [op : {"list"}, cookie : {"init", "clean"}] \cup Sends
    BY <2>1 DEF BusInv
  <2>3. requests' \in Seq([op : {"list"}, cookie : {"init", "clean"}] \cup Sends)
    BY <2>1 DEF BusInv
  <2> HIDE DEF r
  <2>4. CASE r \in [op : {"list"}, cookie : {"init", "clean"}]
    <3>1. m = [op |-> "list", cookie |-> r.cookie, topics |-> subscriptions]
      BY <2>4
    <3>2. m \in Answers /\ \A t : ~Clears(m, t)
      BY <2>4, <3>1 DEF Answers, Clears, BusInv
    <3>3. \A t \in subscriptions' : Sets(m, t) \/ ~IsInit(m)
      BY <2>1, <3>1 DEF Sets, IsInit
    <3> HIDE DEF m
    <3> QED
      BY <1>1, <2>1, <2>3, <3>2, <3>3 DEF BusInv
  <2>5. CASE r \in Sends
    <3>1. m = r /\ m.op = "send"
      BY <2>5 DEF Sends
    <3>2. ~IsInit(m) /\ \A t : ~Clears(m, t)
      BY <3>1 DEF IsInit, Clears
    <3> HIDE DEF m
    <3> QED
      BY <1>1, <2>1, <2>3, <2>5, <3>1, <3>2 DEF BusInv
  <2> QED
    BY <2>2, <2>4, <2>5
<1> QED
  BY <1>2, <1>3 DEF Broker, AgentExchange

LEMMA NextConnects ==
  ASSUME BusInv, CoveredInv, [Next]_vars
  PROVE  BusInv' /\ CoveredInv'
<1> DEFINE Queries == [op : {"list"}, cookie : {"init", "clean"}]
<1>1. requests \in Seq(Queries \cup Sends) /\ changes \in Seq(Changes)
  BY DEF BusInv
<1>2. CASE LocalAgents
  <2>1. /\ UNCHANGED <<subscriptions, requests, joined, bus, lost, hosts, steady,
                       alive, listed, subs>>
        /\ \E o \in {"add", "remove"}, t \in Topics :
             changes' = changes \/ changes' = Append(changes, Change(o, t))
    BY <1>2 DEF LocalAgents, Subscribe, Unsubscribe, Tells
  <2>2. \A o \in {"add", "remove"}, t \in Topics : Change(o, t) \in Changes
    BY DEF Change, Changes
  <2>3. changes' \in Seq(Changes)
    BY <1>1, <2>1, <2>2
  <2> QED
    BY <2>1, <2>3, SocketsIdle DEF BusInv
<1>3. ASSUME NEW b \in Buildings, PublishSend(b)
      PROVE  BusInv' /\ CoveredInv'
  <2>1. [op |-> "send", building |-> b] \in Sends
    BY DEF Sends
  <2> QED
    BY <1>1, <1>3, <2>1, SocketsIdle DEF PublishSend, BusInv
<1>4. CASE Broker
  BY <1>4, BrokerConnects
<1>5. CASE HandleSubMessage
  BY <1>5, HandlerConnects
<1>6. CASE OnCleanup
  <2>1. [op |-> "list", cookie |-> "clean"] \in Queries
    OBVIOUS
  <2> QED
    BY <1>1, <1>6, <2>1, SocketsIdle DEF OnCleanup, Requests, BusInv
<1>7. CASE HandleRepublishFails
  BY <1>7, LimitsAssumption DEF HandleRepublishFails, Ends, BusInv, CoveredInv
<1>8. CASE Join
  BY <1>8 DEF Join, BusInv, CoveredInv, Informed
<1>9. CASE Restart
  <2>1. [op |-> "list", cookie |-> "init"] \in Queries
    OBVIOUS
  <2> QED
    BY <1>1, <1>9, <2>1, SocketsIdle DEF Restart, Requests, BusInv
<1>10. CASE UNCHANGED vars
  BY <1>1, <1>10, SocketsIdle DEF vars, exchange, BusInv
<1>11. CASE EditHosts
  BY <1>1, <1>11, SocketsIdle DEF EditHosts, exchange, BusInv
<1> QED
  BY <1>2, <1>3, <1>4, <1>5, <1>6, <1>7, <1>8, <1>9, <1>10, <1>11 DEF Next

\* A multi-building agent that took the list it asked for in setup, and has read
\* what the exchange sent it, hears of every topic local agents subscribe to: no
\* announcement is missed between the answer to its request and its own
\* subscription, and none that crosses the answer is undone by it.  The only ways
\* to miss one are a message the exchange dropped at its high-water mark, and a
\* building without an address when add_subscription read the launch file.
THEOREM NoTopicMissed == Spec => []Connected
<1>1. Init => BusInv /\ CoveredInv
  BY LimitsAssumption DEF Init, InitExchange, BusInv, CoveredInv
<1>2. BusInv /\ CoveredInv => Connected
  BY DEF BusInv, CoveredInv, Connected, Informed, Covered, Counted
<1> QED
  BY <1>1, <1>2, NextConnects, PTL DEF Spec

-----------------------------------------------------------------------------
(* Announcements of a topic take turns: it is added, removed, added again.  *)

Is(m, t) == m.op \in {"add", "remove"} /\ m.topic = t
NoneOf(q, t) == \A i \in 1 .. Len(q) : ~Is(q[i], t)
FirstOf(q, t, o) ==
  \E i \in 1 .. Len(q) :
    Is(q[i], t) /\ q[i].op = o /\ \A j \in 1 .. i - 1 : ~Is(q[j], t)
LastOf(q, t, o) ==
  \E i \in 1 .. Len(q) :
    Is(q[i], t) /\ q[i].op = o /\ \A j \in i + 1 .. Len(q) : ~Is(q[j], t)
InTurn(q, t) ==
  \A i, j \in 1 .. Len(q) :
    /\ i < j /\ Is(q[i], t) /\ Is(q[j], t)
    /\ \A k \in i + 1 .. j - 1 : ~Is(q[k], t)
    => q[i].op # q[j].op

\* A message about something else at the end changes nothing for the topic.
LEMMA AppendOther ==
  ASSUME NEW S, NEW q \in Seq(S), NEW m \in S, NEW t, ~Is(m, t),
         NEW p, p = Append(q, m)
  PROVE  /\ NoneOf(p, t) <=> NoneOf(q, t)
         /\ \A o : FirstOf(p, t, o) <=> FirstOf(q, t, o)
         /\ \A o : LastOf(p, t, o) <=> LastOf(q, t, o)
         /\ InTurn(q, t) => InTurn(p, t)
<1>1. /\ Len(p) = Len(q) + 1 /\ Len(q) \in Nat
      /\ \A i \in 1 .. Len(q) : p[i] = q[i]
      /\ p[Len(q) + 1] = m
  OBVIOUS
<1>2. \A i \in 1 .. Len(p) : Is(p[i], t) => i \in 1 .. Len(q)
  <2>1. \A i \in 1 .. Len(p) : i \in 1 .. Len(q) \/ i = Len(q) + 1
    BY <1>1
  <2> QED
    BY <1>1, <2>1
<1>3. \A i \in 1 .. Len(q) : i \in 1 .. Len(p) /\ (Is(p[i], t) <=> Is(q[i], t))
  BY <1>1
<1>4. NoneOf(p, t) <=> NoneOf(q, t)
  BY <1>2, <1>3 DEF NoneOf
<1>5. ASSUME NEW i \in 1 .. Len(q)
      PROVE  /\ (\A j \in 1 .. i - 1 : ~Is(p[j], t)) <=> (\A j \in 1 .. i - 1 : ~Is(q[j], t))
             /\ (\A j \in i + 1 .. Len(p) : ~Is(p[j], t))
                  <=> (\A j \in i + 1 .. Len(q) : ~Is(q[j], t))
  <2>1. \A j \in 1 .. i - 1 : j \in 1 .. Len(q)
    BY <1>1
  <2>2. \A j \in i + 1 .. Len(q) : j \in i + 1 .. Len(p) /\ j \in 1 .. Len(q)
    BY <1>1
  <2>3. \A j \in i + 1 .. Len(p) : Is(p[j], t) => j \in i + 1 .. Len(q)
    BY <1>1, <1>2
  <2> QED
    BY <1>3, <2>1, <2>2, <2>3
<1>6. \A o : FirstOf(p, t, o) <=> FirstOf(q, t, o)
  <2> SUFFICES ASSUME NEW o
               PROVE  FirstOf(p, t, o) <=> FirstOf(q, t, o)
    OBVIOUS
  <2>1. FirstOf(p, t, o) => FirstOf(q, t, o)
    BY <1>1, <1>2, <1>3, <1>5 DEF FirstOf
  <2>2. FirstOf(q, t, o) => FirstOf(p, t, o)
    BY <1>1, <1>3, <1>5 DEF FirstOf
  <2> QED
    BY <2>1, <2>2
<1>7. \A o : LastOf(p, t, o) <=> LastOf(q, t, o)
  <2> SUFFICES ASSUME NEW o
               PROVE  LastOf(p, t, o) <=> LastOf(q, t, o)
    OBVIOUS
  <2>1. LastOf(p, t, o) => LastOf(q, t, o)
    BY <1>1, <1>2, <1>3, <1>5 DEF LastOf
  <2>2. ASSUME LastOf(q, t, o)
        PROVE  LastOf(p, t, o)
    <3>1. PICK i \in 1 .. Len(q) :
            Is(q[i], t) /\ q[i].op = o /\ \A j \in i + 1 .. Len(q) : ~Is(q[j], t)
      BY <2>2 DEF LastOf
    <3>2. \A j \in i + 1 .. Len(p) : ~Is(p[j], t)
      BY <1>5, <3>1
    <3>3. i \in 1 .. Len(p) /\ p[i] = q[i]
      BY <1>1, <1>3, <3>1
    <3> QED
      BY <3>1, <3>2, <3>3 DEF LastOf
  <2> QED
    BY <2>1, <2>2
<1>8. ASSUME InTurn(q, t)
      PROVE  InTurn(p, t)
  <2> SUFFICES ASSUME NEW i \in 1 .. Len(p), NEW j \in 1 .. Len(p),
                      i < j, Is(p[i], t), Is(p[j], t),
                      \A k \in i + 1 .. j - 1 : ~Is(p[k], t)
               PROVE  p[i].op # p[j].op
    BY DEF InTurn
  <2>1. i \in 1 .. Len(q) /\ j \in 1 .. Len(q)
    BY <1>2
  <2>2. \A k \in i + 1 .. j - 1 : k \in 1 .. Len(q)
    BY <1>1, <2>1
  <2>3. \A k \in i + 1 .. j - 1 : ~Is(q[k], t)
    BY <1>3, <2>2
  <2> QED
    BY <1>1, <1>3, <1>8, <2>1, <2>3 DEF InTurn
<1> QED
  BY <1>4, <1>6, <1>7, <1>8

\* One about the topic is its last, and its first if there was none.
LEMMA AppendOne ==
  ASSUME NEW S, NEW q \in Seq(S), NEW m \in S, NEW t, Is(m, t),
         NEW p, p = Append(q, m)
  PROVE  /\ ~NoneOf(p, t)
         /\ \A o : FirstOf(p, t, o) <=> FirstOf(q, t, o) \/ (NoneOf(q, t) /\ o = m.op)
         /\ \A o : LastOf(p, t, o) <=> o = m.op
         /\ InTurn(q, t) /\ ~LastOf(q, t, m.op) => InTurn(p, t)
<1> DEFINE n == Len(q) + 1
<1>1. /\ Len(p) = n /\ Len(q) \in Nat /\ n = Len(q) + 1
      /\ \A i \in 1 .. Len(q) : p[i] = q[i]
      /\ p[n] = m
  OBVIOUS
<1> HIDE DEF n
<1>2. n \in 1 .. n /\ n \in Nat /\ \A i \in 1 .. n : i \in 1 .. Len(q) \/ i = n
  BY <1>1
<1>3. \A i \in 1 .. Len(q) : i \in 1 .. n /\ (Is(p[i], t) <=> Is(q[i], t))
  BY <1>1
<1>4. ~NoneOf(p, t)
  BY <1>1, <1>2 DEF NoneOf
<1>5. ASSUME NEW i \in 1 .. Len(q)
      PROVE  (\A j \in 1 .. i - 1 : ~Is(p[j], t)) <=> (\A j \in 1 .. i - 1 : ~Is(q[j], t))
  <2>1. \A j \in 1 .. i - 1 : j \in 1 .. Len(q)
    BY <1>1
  <2> QED
    BY <1>3, <2>1
<1>6. (\A j \in 1 .. n - 1 : ~Is(p[j], t)) <=> NoneOf(q, t)
  <2>1. n - 1 = Len(q)
    BY <1>1
  <2> QED
    BY <1>3, <2>1 DEF NoneOf
<1>7. ASSUME NEW o
      PROVE  FirstOf(p, t, o) <=> FirstOf(q, t, o) \/ (NoneOf(q, t) /\ o = m.op)
  <2>1. ASSUME FirstOf(p, t, o)
        PROVE  FirstOf(q, t, o) \/ (NoneOf(q, t) /\ o = m.op)
    <3>1. PICK i \in 1 .. n :
            Is(p[i], t) /\ p[i].op = o /\ \A j \in 1 .. i - 1 : ~Is(p[j], t)
      BY <1>1, <2>1 DEF FirstOf
    <3>2. CASE i = n
      BY <1>1, <1>6, <3>1, <3>2
    <3>3. CASE i \in 1 .. Len(q)
      BY <1>1, <1>3, <1>5, <3>1, <3>3 DEF FirstOf
    <3> QED
      BY <1>2, <3>2, <3>3
  <2>2. FirstOf(q, t, o) => FirstOf(p, t, o)
    BY <1>1, <1>3, <1>5 DEF FirstOf
  <2>3. NoneOf(q, t) /\ o = m.op => FirstOf(p, t, o)
    BY <1>1, <1>2, <1>6 DEF FirstOf
  <2> QED
    BY <2>1, <2>2, <2>3
<1>8. ASSUME NEW o
      PROVE  LastOf(p, t, o) <=> o = m.op
  <2>1. \A j \in n + 1 .. n : FALSE
    BY <1>2
  <2>2. \A i \in 1 .. Len(q) : n \in i + 1 .. n
    BY <1>1
  <2>3. LastOf(p, t, o) => o = m.op
    BY <1>1, <1>2, <2>2 DEF LastOf
  <2>4. o = m.op => LastOf(p, t, o)
    BY <1>1, <1>2, <2>1 DEF LastOf
  <2> QED
    BY <2>3, <2>4
<1>9. ASSUME InTurn(q, t), ~LastOf(q, t, m.op)
      PROVE  InTurn(p, t)
  <2> SUFFICES ASSUME NEW i \in 1 .. n, NEW j \in 1 .. n,
                      i < j, Is(p[i], t), Is(p[j], t),
                      \A k \in i + 1 .. j - 1 : ~Is(p[k], t)
               PROVE  p[i].op # p[j].op
    BY <1>1 DEF InTurn
  <2>1. i \in 1 .. Len(q) /\ \A k \in i + 1 .. j - 1 : k \in 1 .. Len(q)
    BY <1>1
  <2>2. Is(q[i], t) /\ p[i] = q[i] /\ \A k \in i + 1 .. j - 1 : ~Is(q[k], t)
    BY <1>1, <1>3, <2>1
  <2>3. CASE j = n
    <3>1. j - 1 = Len(q) /\ p[j] = m
      BY <1>1, <2>3
    <3> QED
      BY <1>9, <2>1, <2>2, <3>1 DEF LastOf
  <2>4. CASE j \in 1 .. Len(q)
    BY <1>1, <1>3, <1>9, <2>1, <2>2, <2>4 DEF InTurn
  <2> QED
    BY <1>2, <2>3, <2>4
<1> QED
  BY <1>4, <1>7, <1>8, <1>9

\* The last message about a topic stays the last one when the first message of
\* a queue is taken off, and those left still take turns.
LEMMA LastOfTail ==
  ASSUME NEW q, NEW p, NEW t, NEW o, Len(q) \in Nat \ {0}, Len(p) = Len(q) - 1,
         \A i \in 1 .. Len(p) : p[i] = q[i + 1],
         LastOf(p, t, o)
  PROVE  LastOf(q, t, o)
<1>1. PICK i \in 1 .. Len(p) :
        Is(p[i], t) /\ p[i].op = o /\ \A j \in i + 1 .. Len(p) : ~Is(p[j], t)
  BY DEF LastOf
<1>2. i + 1 \in 1 .. Len(q) /\ q[i + 1] = p[i]
  OBVIOUS
<1>3. ASSUME NEW j \in (i + 1) + 1 .. Len(q)
      PROVE  ~Is(q[j], t)
  <2>1. j - 1 \in 1 .. Len(p) /\ j - 1 \in i + 1 .. Len(p) /\ (j - 1) + 1 = j
    OBVIOUS
  <2> QED
    BY <1>1, <2>1
<1> QED
  BY <1>1, <1>2, <1>3 DEF LastOf

LEMMA InTurnTail ==
  ASSUME NEW q, NEW p, NEW t, Len(q) \in Nat \ {0}, Len(p) = Len(q) - 1,
         \A i \in 1 .. Len(p) : p[i] = q[i + 1],
         InTurn(q, t)
  PROVE  InTurn(p, t)
<1> SUFFICES ASSUME NEW i \in 1 .. Len(p), NEW j \in 1 .. Len(p),
                    i < j, Is(p[i], t), Is(p[j], t),
                    \A k \in i + 1 .. j - 1 : ~Is(p[k], t)
             PROVE  p[i].op # p[j].op
  BY DEF InTurn
<1>1. /\ i + 1 \in 1 .. Len(q) /\ j + 1 \in 1 .. Len(q) /\ i + 1 < j + 1
      /\ q[i + 1] = p[i] /\ q[j + 1] = p[j]
  OBVIOUS
<1>2. ASSUME NEW k \in (i + 1) + 1 .. (j + 1) - 1
      PROVE  ~Is(q[k], t)
  <2>1. k - 1 \in 1 .. Len(p) /\ k - 1 \in i + 1 .. j - 1 /\ (k - 1) + 1 = k
    OBVIOUS
  <2> QED
    BY <2>1
<1> QED
  BY <1>1, <1>2 DEF InTurn

\* What is taken off the front was about something else.
LEMMA TailOther ==
  ASSUME NEW S, NEW q \in Seq(S), q # <<>>, NEW t, ~Is(Head(q), t),
         NEW p, p = Tail(q)
  PROVE  /\ NoneOf(p, t) <=> NoneOf(q, t)
         /\ \A o : FirstOf(p, t, o) => FirstOf(q, t, o)
         /\ \A o : FirstOf(q, t, o) => FirstOf(p, t, o)
         /\ \A o : LastOf(p, t, o) => LastOf(q, t, o)
         /\ InTurn(q, t) => InTurn(p, t)
<1>1. /\ Len(p) = Len(q) - 1 /\ Len(q) \in Nat \ {0}
      /\ \A i \in 1 .. Len(p) : p[i] = q[i + 1]
      /\ ~Is(q[1], t)
  OBVIOUS
<1>2. \A i \in 1 .. Len(p) : i + 1 \in 1 .. Len(q) /\ (Is(p[i], t) <=> Is(q[i + 1], t))
  BY <1>1
<1>3. \A i \in 1 .. Len(q) : Is(q[i], t) => i - 1 \in 1 .. Len(p) /\ (i - 1) + 1 = i
  <2>1. \A i \in 1 .. Len(q) : i = 1 \/ (i - 1 \in 1 .. Len(p) /\ (i - 1) + 1 = i)
    BY <1>1
  <2> QED
    BY <1>1, <2>1
<1>4. NoneOf(p, t) <=> NoneOf(q, t)
  BY <1>2, <1>3 DEF NoneOf
<1>5. ASSUME NEW o, FirstOf(p, t, o)
      PROVE  FirstOf(q, t, o)
  <2>1. PICK i \in 1 .. Len(p) :
          Is(p[i], t) /\ p[i].op = o /\ \A j \in 1 .. i - 1 : ~Is(p[j], t)
    BY <1>5 DEF FirstOf
  <2>2. ASSUME NEW j \in 1 .. (i + 1) - 1, Is(q[j], t)
        PROVE  FALSE
    <3>1. j \in 1 .. Len(q)
      BY <1>1
    <3>2. j - 1 \in 1 .. Len(p) /\ (j - 1) + 1 = j
      BY <1>3, <2>2, <3>1
    <3>3. j - 1 \in 1 .. i - 1
      BY <1>1, <3>2
    <3>4. Is(p[j - 1], t)
      BY <1>2, <2>2, <3>2
    <3> QED
      BY <2>1, <3>3, <3>4
  <2> QED
    BY <1>1, <1>2, <2>1, <2>2 DEF FirstOf
<1>6. ASSUME NEW o, FirstOf(q, t, o)
      PROVE  FirstOf(p, t, o)
  <2>1. PICK i \in 1 .. Len(q) :
          Is(q[i], t) /\ q[i].op = o /\ \A j \in 1 .. i - 1 : ~Is(q[j], t)
    BY <1>6 DEF FirstOf
  <2>2. i - 1 \in 1 .. Len(p) /\ p[i - 1] = q[i]
    BY <1>1, <1>3, <2>1
  <2>3. ASSUME NEW j \in 1 .. (i - 1) - 1
        PROVE  ~Is(p[j], t)
    <3>1. j \in 1 .. Len(p) /\ j + 1 \in 1 .. i - 1
      BY <1>1, <2>2
    <3> QED
      BY <1>2, <2>1, <3>1
  <2> QED
    BY <2>1, <2>2, <2>3 DEF FirstOf
<1>7. ASSUME NEW o, LastOf(p, t, o)
      PROVE  LastOf(q, t, o)
  BY <1>1, <1>7, LastOfTail
<1>8. InTurn(q, t) => InTurn(p, t)
  BY <1>1, InTurnTail
<1> QED
  BY <1>4, <1>5, <1>6, <1>7, <1>8

\* It was about the topic: what follows in the topic is the other operation.
LEMMA TailOne ==
  ASSUME NEW S, NEW q \in Seq(S), q # <<>>, NEW t, Is(Head(q), t),
         NEW p, p = Tail(q)
  PROVE  /\ ~NoneOf(q, t)
         /\ \A o : FirstOf(q, t, o) <=> o = Head(q).op
         /\ \A o : LastOf(p, t, o) => LastOf(q, t, o)
         /\ NoneOf(p, t) => LastOf(q, t, Head(q).op)
         /\ InTurn(q, t) => InTurn(p, t) /\ ~FirstOf(p, t, Head(q).op)
<1> DEFINE h == Head(q)
<1>1. /\ Len(p) = Len(q) - 1 /\ Len(q) \in Nat \ {0}
      /\ \A i \in 1 .. Len(p) : p[i] = q[i + 1]
      /\ q[1] = h /\ Is(h, t)
  OBVIOUS
<1> HIDE DEF h
<1>2. /\ 1 \in 1 .. Len(q)
      /\ \A i \in 1 .. Len(p) : i + 1 \in 1 .. Len(q) /\ (Is(p[i], t) <=> Is(q[i + 1], t))
  BY <1>1
<1>3. ~NoneOf(q, t)
  BY <1>1, <1>2 DEF NoneOf
<1>4. ASSUME NEW o
      PROVE  FirstOf(q, t, o) <=> o = h.op
  <2>1. \A i \in 1 .. Len(q) : i = 1 \/ 1 \in 1 .. i - 1
    OBVIOUS
  <2>2. FirstOf(q, t, o) => o = h.op
    BY <1>1, <2>1 DEF FirstOf
  <2>3. \A j \in 1 .. 1 - 1 : FALSE
    OBVIOUS
  <2>4. o = h.op => FirstOf(q, t, o)
    BY <1>1, <1>2, <2>3 DEF FirstOf
  <2> QED
    BY <2>2, <2>4
<1>5. ASSUME NEW o, LastOf(p, t, o)
      PROVE  LastOf(q, t, o)
  BY <1>1, <1>5, LastOfTail
<1>6. ASSUME NoneOf(p, t)
      PROVE  LastOf(q, t, h.op)
  <2>1. ASSUME NEW j \in 1 + 1 .. Len(q)
        PROVE  ~Is(q[j], t)
    <3>1. j - 1 \in 1 .. Len(p) /\ (j - 1) + 1 = j
      BY <1>1
    <3> QED
      BY <1>2, <1>6, <3>1 DEF NoneOf
  <2> QED
    BY <1>1, <1>2, <2>1 DEF LastOf
<1>7. ASSUME InTurn(q, t), FirstOf(p, t, h.op)
      PROVE  FALSE
  <2>1. PICK i \in 1 .. Len(p) :
          Is(p[i], t) /\ p[i].op = h.op /\ \A j \in 1 .. i - 1 : ~Is(p[j], t)
    BY <1>7 DEF FirstOf
  <2>2. ASSUME NEW k \in 1 + 1 .. (i + 1) - 1
        PROVE  ~Is(q[k], t)
    <3>1. k - 1 \in 1 .. Len(p) /\ k - 1 \in 1 .. i - 1 /\ (k - 1) + 1 = k
      BY <1>1
    <3> QED
      BY <1>2, <2>1, <3>1
  <2>3. i + 1 \in 1 .. Len(q) /\ 1 < i + 1 /\ q[i + 1] = p[i] /\ Is(q[i + 1], t)
    BY <1>1, <1>2, <2>1
  <2>4. q[1].op # q[i + 1].op
    BY <1>1, <1>2, <1>7, <2>2, <2>3 DEF InTurn
  <2> QED
    BY <1>1, <2>1, <2>3, <2>4
<1>8. InTurn(q, t) => InTurn(p, t)
  BY <1>1, InTurnTail
<1> QED
  BY <1>3, <1>4, <1>5, <1>6, <1>7, <1>8 DEF h

-----------------------------------------------------------------------------
(* The announcements of a topic take turns on their whole way from the XPUB *)
(* socket to the agent: what is waiting starts with what the set of the     *)
(* exchange lacks, and what is on its way ends with what the set says, as    *)
(* long as none of it was dropped.                                          *)

TopicInv(t) ==
  /\ InTurn(changes, t)
  /\ lost = 0 => InTurn(bus, t)
  /\ \A o \in {"add", "remove"} :
       /\ FirstOf(changes, t, o) => (o = "remove" <=> t \in subscriptions)
       /\ LastOf(changes, t, o) => (o = "add" <=> t \in Held)
       /\ lost = 0 /\ LastOf(bus, t, o) => (o = "add" <=> t \in subscriptions)
  /\ NoneOf(changes, t) => (t \in subscriptions <=> t \in Held)

TurnInv == \A t \in Topics : TopicInv(t)

Messages == Changes \cup Answers \cup Sends

\* Only changes are about a topic.
LEMMA IsChange ==
  ASSUME NEW m \in Changes
  PROVE  m.op \in {"add", "remove"} /\ m.topic \in Topics /\ Is(m, m.topic)
BY DEF Changes, Is

LEMMA EmptyTurn ==
  ASSUME NEW q, q = <<>>
  PROVE  \A t, o : InTurn(q, t) /\ ~LastOf(q, t, o) /\ ~FirstOf(q, t, o) /\ NoneOf(q, t)
<1>1. \A i \in 1 .. Len(q) : FALSE
  OBVIOUS
<1> QED
  BY <1>1 DEF InTurn, LastOf, FirstOf, NoneOf

\* The XPUB socket tells of a topic that is taken up or given up.
LEMMA ToldTurn ==
  ASSUME SubsInv, TurnInv, NEW o \in {"add", "remove"}, NEW u \in Topics,
         changes' = Append(changes, Change(o, u)), UNCHANGED <<bus, lost, subscriptions>>,
         u \in Held <=> o # "add", u \in Held' <=> o = "add",
         \A t \in Topics \ {u} : t \in Held' <=> t \in Held
  PROVE  TurnInv'
<1> SUFFICES ASSUME NEW t \in Topics
             PROVE  TopicInv(t)'
  BY DEF TurnInv
<1>1. TopicInv(t) /\ changes \in Seq(Changes)
  BY DEF TurnInv, SubsInv
<1> DEFINE m == Change(o, u)
<1>2. /\ m \in Changes /\ m.op = o /\ (Is(m, t) <=> t = u)
      /\ changes' = Append(changes, m)
  BY DEF Change, Changes, Is
<1> HIDE DEF m
<1>3. CASE t # u
  BY <1>1, <1>2, <1>3, AppendOther DEF TopicInv
<1>4. CASE t = u
  <2>1. ~LastOf(changes, t, m.op) /\ InTurn(changes, t) /\ Is(m, t)
    BY <1>1, <1>2, <1>4 DEF TopicInv
  <2>2. /\ ~NoneOf(changes', t)
        /\ \A x : FirstOf(changes', t, x) <=>
                    FirstOf(changes, t, x) \/ (NoneOf(changes, t) /\ x = o)
        /\ \A x : LastOf(changes', t, x) <=> x = o
        /\ InTurn(changes', t)
    BY <1>1, <1>2, <2>1, AppendOne
  <2> QED
    BY <1>1, <1>4, <2>2 DEF TopicInv
<1> QED
  BY <1>3, <1>4

\* The exchange takes the first change into its set, and announces it.
LEMMA AnnouncedTurn ==
  ASSUME SubsInv, BusInv, TurnInv, Broker, HandleSubscription
  PROVE  TurnInv'
<1> SUFFICES ASSUME NEW t \in Topics
             PROVE  TopicInv(t)'
  BY DEF TurnInv
<1>1. TopicInv(t) /\ changes \in Seq(Changes) /\ bus \in Seq(Messages)
  BY DEF TurnInv, SubsInv, BusInv, Messages
<1> DEFINE h == Head(changes)
<1>2. /\ changes # <<>> /\ changes' = Tail(changes)
      /\ subscriptions' = IF h.op = "add" THEN subscriptions \cup {h.topic}
                                          ELSE subscriptions \ {h.topic}
      /\ held' = held
      /\ Broadcast(h)
  BY DEF HandleSubscription
<1>3. h \in Changes /\ h \in Messages
  BY <1>1, <1>2 DEF Messages
<1>4. /\ h.op \in {"add", "remove"} /\ h.topic \in Topics
      /\ Is(h, t) <=> t = h.topic
  BY <1>3, IsChange DEF Is
<1>5. Held' = Held
  BY <1>2 DEF Held
<1> HIDE DEF h
<1>8. \/ lost' = lost /\ bus' = IF joined THEN Append(bus, h) ELSE bus
      \/ joined /\ bus' = bus /\ lost' # 0
  BY <1>2, Broadcasts
<1>6. CASE t # h.topic
  <2>1. /\ NoneOf(changes', t) <=> NoneOf(changes, t)
        /\ \A o : FirstOf(changes', t, o) => FirstOf(changes, t, o)
        /\ \A o : LastOf(changes', t, o) => LastOf(changes, t, o)
        /\ InTurn(changes', t)
    BY <1>1, <1>2, <1>4, <1>6, TailOther DEF TopicInv, h
  <2>2. lost' = 0 => /\ \A o : LastOf(bus', t, o) => LastOf(bus, t, o)
                     /\ InTurn(bus', t) /\ lost = 0
    <3>1. CASE lost' = lost /\ bus' = bus
      BY <1>1, <3>1 DEF TopicInv
    <3>2. CASE lost' = lost /\ bus' = Append(bus, h)
      BY <1>1, <1>3, <1>4, <1>6, <3>2, AppendOther DEF TopicInv
    <3> QED
      BY <1>8, <3>1, <3>2
  <2>3. t \in subscriptions' <=> t \in subscriptions
    BY <1>2, <1>6
  <2> QED
    BY <1>1, <1>5, <2>1, <2>2, <2>3 DEF TopicInv
<1>7. CASE t = h.topic
  <2> DEFINE o == h.op
  <2>1. /\ ~NoneOf(changes, t) /\ FirstOf(changes, t, o)
        /\ \A x : LastOf(changes', t, x) => LastOf(changes, t, x)
        /\ NoneOf(changes', t) => LastOf(changes, t, o)
        /\ InTurn(changes', t) /\ ~FirstOf(changes', t, o)
    BY <1>1, <1>2, <1>4, <1>7, TailOne DEF TopicInv, h
  <2>2. t \in subscriptions <=> o = "remove"
    BY <1>1, <1>4, <2>1 DEF TopicInv
  <2>3. t \in subscriptions' <=> o = "add"
    BY <1>2, <1>7
  <2>4. lost = 0 => ~LastOf(bus, t, o)
    BY <1>1, <1>4, <2>2 DEF TopicInv
  <2>5. lost' = 0 => InTurn(bus', t) /\ \A x : LastOf(bus', t, x) => x = o
    <3>1. CASE joined /\ lost' = 0 /\ lost' = lost /\ bus' = Append(bus, h)
      BY <1>1, <1>3, <1>4, <1>7, <2>4, <3>1, AppendOne DEF TopicInv
    <3>2. CASE ~joined /\ bus' = bus
      BY <3>2, EmptyTurn DEF BusInv
    <3> QED
      BY <1>8, <3>1, <3>2
  <2> QED
    BY <1>1, <1>4, <1>5, <2>1, <2>3, <2>5 DEF TopicInv
<1> QED
  BY <1>6, <1>7

\* Nothing about a topic is put on the bus, or a message is read.
LEMMA BusTurn ==
  ASSUME SubsInv, BusInv, TurnInv, UNCHANGED <<held, changes, subscriptions>>,
         \/ bus' = <<>>
         \/ lost' = 0 => lost = 0 /\ bus' = bus
         \/ lost' = lost /\ \E m \in Messages : (\A t : ~Is(m, t)) /\ bus' = Append(bus, m)
         \/ lost' = lost /\ bus # <<>> /\ bus' = Tail(bus)
  PROVE  TurnInv'
<1> SUFFICES ASSUME NEW t \in Topics
             PROVE  TopicInv(t)'
  BY DEF TurnInv
<1>1. TopicInv(t) /\ bus \in Seq(Messages) /\ Held' = Held
  BY DEF TurnInv, BusInv, Messages, Held
<1>2. lost' = 0 =>
        InTurn(bus', t) /\ \A o : LastOf(bus', t, o) => lost = 0 /\ LastOf(bus, t, o)
  <2>1. CASE lost' = 0 => lost = 0 /\ bus' = bus
    BY <1>1, <2>1 DEF TopicInv
  <2>2. CASE bus' = <<>>
    BY <2>2, EmptyTurn
  <2>3. CASE lost' = lost /\ \E m \in Messages : (\A x : ~Is(m, x)) /\ bus' = Append(bus, m)
    BY <1>1, <2>3, AppendOther DEF TopicInv
  <2>4. CASE lost' = lost /\ bus # <<>> /\ bus' = Tail(bus)
    <3>1. CASE Is(Head(bus), t)
      BY <1>1, <2>4, <3>1, TailOne DEF TopicInv
    <3>2. CASE ~Is(Head(bus), t)
      BY <1>1, <2>4, <3>2, TailOther DEF TopicInv
    <3> QED
      BY <3>1, <3>2
  <2> QED
    BY <2>1, <2>2, <2>3, <2>4
<1> QED
  BY <1>1, <1>2 DEF TopicInv

LEMMA HandlerReads ==
  ASSUME HandleSubMessage
  PROVE  /\ UNCHANGED <<held, changes, subscriptions, requests>>
         /\ bus # <<>>
         /\ (bus' = Tail(bus) /\ UNCHANGED <<lost, hosts, steady>>) \/ (Ends /\ UNCHANGED hosts)
BY DEF HandleSubMessage, OnSubscribe, OnUnsubscribe, OnSubscriptionInit,
       OnSubscriptionList, OnSend, HostsUnreadable, Receives, Takes

\* What HandleMessage sends the agent.
LEMMA AnswerSent ==
  ASSUME BusInv, HandleMessage
  PROVE  /\ UNCHANGED <<held, changes, subscriptions, joined>>
         /\ requests # <<>> /\ requests' = Tail(requests)
         /\ \E m \in Messages :
              /\ \A t : ~Is(m, t)
              /\ IsInit(m) <=> IsInit(Head(requests))
              /\ \/ lost' = lost /\ bus' = IF joined THEN Append(bus, m) ELSE bus
                 \/ joined /\ bus' = bus /\ lost' # 0
<1> DEFINE r == Head(requests)
           m == IF r.op = "list"
                  THEN [op |-> "list", cookie |-> r.cookie, topics |-> subscriptions] ELSE r
<1>1. /\ UNCHANGED <<held, changes, subscriptions, joined>>
      /\ requests # <<>> /\ requests' = Tail(requests)
      /\ Broadcast(m)
  BY DEF HandleMessage
<1>2. r \in [op : {"list"}, cookie : {"init", "clean"}] \cup Sends
  BY <1>1 DEF BusInv
<1> HIDE DEF r
<1>3. m \in Messages /\ (\A t : ~Is(m, t)) /\ (IsInit(m) <=> IsInit(r))
  <2>1. CASE r \in [op : {"list"}, cookie : {"init", "clean"}]
    <3>1. m = [op |-> "list", cookie |-> r.cookie, topics |-> subscriptions]
      BY <2>1
    <3>2. subscriptions \subseteq Topics
      BY DEF BusInv
    <3> QED
      BY <2>1, <3>1, <3>2 DEF Messages, Answers, Is, IsInit
  <2>2. CASE r \in Sends
    <3>1. m = r /\ r.op = "send"
      BY <2>2 DEF Sends
    <3> QED
      BY <2>2, <3>1 DEF Messages, Is, IsInit
  <2> QED
    BY <1>2, <2>1, <2>2
<1> HIDE DEF m
<1>4. \/ lost' = lost /\ bus' = IF joined THEN Append(bus, m) ELSE bus
      \/ joined /\ bus' = bus /\ lost' # 0
  BY <1>1, Broadcasts
<1> QED
  BY <1>1, <1>3, <1>4 DEF r

LEMMA NextTurn ==
  ASSUME SubsInv, BusInv, TurnInv, [Next]_vars
  PROVE  TurnInv'
<1>1. UNCHANGED <<held, changes, subscriptions>>
      /\ (UNCHANGED <<bus, lost>> \/ bus' = <<>>) => TurnInv'
  BY BusTurn
<1>2. CASE LocalAgents
  <2>1. PICK c \in Clients, u \in Topics : Subscribe(c, u) \/ Unsubscribe(c, u)
    BY <1>2 DEF LocalAgents
  <2>2. UNCHANGED <<bus, lost, subscriptions>> /\ held \in [Clients -> SUBSET Topics]
    BY <2>1 DEF Subscribe, Unsubscribe, SubsInv
  <2>3. CASE Subscribe(c, u)
    <3>1. held' = [held EXCEPT ![c] = held[c] \cup {u}]
      BY <2>3 DEF Subscribe
    <3>2. Held' = Held \cup {u}
      BY <2>2, <3>1 DEF Held
    <3>3. CASE u \in Held
      <4>1. changes' = changes /\ Held' = Held
        BY <2>3, <3>2, <3>3 DEF Subscribe, Tells
      <4> QED
        BY <2>2, <4>1 DEF TurnInv, TopicInv
    <3>4. CASE u \notin Held
      <4>1. changes' = Append(changes, Change("add", u))
        BY <2>3, <3>4 DEF Subscribe, Tells
      <4> QED
        BY <2>2, <3>2, <3>4, <4>1, ToldTurn
    <3> QED
      BY <3>3, <3>4
  <2>4. CASE Unsubscribe(c, u)
    <3>1. held' = [held EXCEPT ![c] = held[c] \ {u}] /\ u \in held[c]
      BY <2>4 DEF Unsubscribe
    <3>2. u \in Held /\ \A t \in Topics \ {u} : t \in Held' <=> t \in Held
      BY <2>2, <3>1 DEF Held
    <3>3. CASE u \in Held'
      <4>1. changes' = changes
        BY <2>4, <3>2, <3>3 DEF Unsubscribe, Tells, Held
      <4>2. \A t \in Topics : t \in Held' <=> t \in Held
        BY <3>2, <3>3
      <4> QED
        BY <2>2, <4>1, <4>2 DEF TurnInv, TopicInv
    <3>4. CASE u \notin Held'
      <4>1. changes' = Append(changes, Change("remove", u))
        BY <2>4, <3>2, <3>4 DEF Unsubscribe, Tells, Held
      <4> QED
        BY <2>2, <3>2, <3>4, <4>1, ToldTurn
    <3> QED
      BY <3>3, <3>4
  <2> QED
    BY <2>1, <2>3, <2>4
<1>3. ASSUME NEW b \in Buildings, PublishSend(b)
      PROVE  TurnInv'
  BY <1>1, <1>3 DEF PublishSend
<1>4. CASE Broker
  <2>1. CASE HandleSubscription
    BY <1>4, <2>1, AnnouncedTurn
  <2>2. CASE HandleMessage
    <3>1. /\ UNCHANGED <<held, changes, subscriptions>>
          /\ \/ lost' = 0 => lost = 0 /\ bus' = bus
             \/ lost' = lost /\ \E m \in Messages : (\A t : ~Is(m, t)) /\ bus' = Append(bus, m)
      BY <2>2, AnswerSent
    <3> QED
      BY <3>1, BusTurn
  <2> QED
    BY <1>4, <2>1, <2>2 DEF Broker, AgentExchange
<1>5. CASE HandleSubMessage
  <2>1. /\ UNCHANGED <<held, changes, subscriptions>> /\ bus # <<>>
        /\ (lost' = lost /\ bus' = Tail(bus)) \/ bus' = <<>>
    BY <1>5, HandlerReads DEF Ends
  <2> QED
    BY <2>1, BusTurn
<1>6. CASE OnCleanup
  BY <1>1, <1>6 DEF OnCleanup
<1>7. CASE HandleRepublishFails
  BY <1>1, <1>7 DEF HandleRepublishFails, Ends
<1>8. CASE Join
  BY <1>1, <1>8 DEF Join
<1>9. CASE Restart
  BY <1>1, <1>9 DEF Restart
<1>10. CASE UNCHANGED vars
  BY <1>1, <1>10 DEF vars, exchange
<1>11. CASE EditHosts
  BY <1>1, <1>11 DEF EditHosts, exchange
<1> QED
  BY <1>2, <1>3, <1>4, <1>5, <1>6, <1>7, <1>8, <1>9, <1>10, <1>11 DEF Next

-----------------------------------------------------------------------------
(* How often a socket is subscribed to a topic.  Apart from the lists asked *)
(* for by agents that ended since, which count a topic once more each, an   *)
(* announcement that sets it comes only after one that clears it.           *)

Inits(q) == { i \in 1 .. Len(q) : IsInit(q[i]) }

\* A set of numbers is as large when each is one less.
LEMMA Shifted ==
  ASSUME NEW A \in SUBSET Int, IsFiniteSet(A)
  PROVE  LET B == { a - 1 : a \in A }
         IN  IsFiniteSet(B) /\ Cardinality(B) = Cardinality(A)
<1> DEFINE B == { a - 1 : a \in A }
           f == [a \in A |-> a - 1]
<1>1. f \in [A -> B] /\ \A a \in A : f[a] = a - 1
  OBVIOUS
<1>2. \A x \in B : \E a \in A : f[a] = x
  BY <1>1
<1> HIDE DEF f, B
<1>3. ASSUME NEW a \in A, NEW b \in A, f[a] = f[b]
      PROVE  a = b
  <2>1. a \in Int /\ b \in Int /\ a - 1 = b - 1
    BY <1>1, <1>3
  <2> QED
    BY <2>1
<1>4. f \in Bijection(A, B)
  BY <1>1, <1>2, <1>3, Fun_IsBij
<1>5. ExistsBijection(A, B)
  BY <1>4, Fun_ExistsBij
<1> QED
  BY <1>5, FS_Bijection DEF B

LEMMA InitsFinite ==
  ASSUME NEW q, Len(q) \in Nat
  PROVE  /\ IsFiniteSet(Inits(q)) /\ Cardinality(Inits(q)) \in Nat
         /\ Cardinality(Inits(q)) <= Len(q)
<1> DEFINE n == Len(q)
<1>1. Inits(q) \in SUBSET (1 .. n)
  BY DEF Inits
<1>2. n \in Nat
  OBVIOUS
<1> HIDE DEF n
<1>3. IsFiniteSet(1 .. n) /\ Cardinality(1 .. n) = IF 1 > n THEN 0 ELSE n - 1 + 1
  BY <1>2, FS_Interval
<1>4. Cardinality(1 .. n) = n
  BY <1>2, <1>3
<1>5. IsFiniteSet(Inits(q)) /\ Cardinality(Inits(q)) <= n
  BY <1>1, <1>3, <1>4, FS_Subset
<1>6. Cardinality(Inits(q)) \in Nat
  BY <1>5, FS_CardinalityType
<1> QED
  BY <1>5, <1>6 DEF n

LEMMA InitsAppend ==
  ASSUME NEW S, NEW q \in Seq(S), NEW m \in S, NEW p, p = Append(q, m)
  PROVE  Cardinality(Inits(p)) = Cardinality(Inits(q)) + (IF IsInit(m) THEN 1 ELSE 0)
<1>1. /\ Len(p) = Len(q) + 1 /\ Len(q) \in Nat
      /\ \A i \in 1 .. Len(q) : p[i] = q[i]
      /\ p[Len(q) + 1] = m
  OBVIOUS
<1>2. 1 .. Len(p) = (1 .. Len(q)) \cup {Len(q) + 1}
  BY <1>1
<1>3. Inits(p) = Inits(q) \cup (IF IsInit(m) THEN {Len(q) + 1} ELSE {})
  BY <1>1, <1>2 DEF Inits
<1>4. Len(q) + 1 \notin Inits(q)
  BY <1>1 DEF Inits
<1>5. IsFiniteSet(Inits(q)) /\ Cardinality(Inits(q)) \in Nat
  BY <1>1, InitsFinite
<1>6. CASE IsInit(m)
  <2>1. Inits(p) = Inits(q) \cup {Len(q) + 1}
    BY <1>3, <1>6
  <2> QED
    BY <1>4, <1>5, <1>6, <2>1, FS_AddElement
<1>7. CASE ~IsInit(m)
  <2>1. Inits(p) = Inits(q)
    BY <1>3, <1>7
  <2> QED
    BY <1>5, <1>7, <2>1
<1> QED
  BY <1>6, <1>7

LEMMA InitsTail ==
  ASSUME NEW S, NEW q \in Seq(S), q # <<>>, NEW p, p = Tail(q)
  PROVE  Cardinality(Inits(q)) = Cardinality(Inits(p)) + (IF IsInit(Head(q)) THEN 1 ELSE 0)
<1> DEFINE A == Inits(q) \ {1}
<1>1. /\ Len(p) = Len(q) - 1 /\ Len(q) \in Nat \ {0} /\ Len(p) \in Nat
      /\ \A i \in 1 .. Len(p) : p[i] = q[i + 1]
      /\ q[1] = Head(q)
  OBVIOUS
<1>2. IsFiniteSet(Inits(q)) /\ Cardinality(Inits(q)) \in Nat
  BY <1>1, InitsFinite
<1>3. Inits(p) = { a - 1 : a \in A }
  <2>1. ASSUME NEW i \in Inits(p)
        PROVE  i + 1 \in A /\ i = (i + 1) - 1
    <3>1. i \in 1 .. Len(p) /\ IsInit(q[i + 1])
      BY <1>1 DEF Inits
    <3>2. i + 1 \in 1 .. Len(q) /\ i + 1 # 1 /\ i = (i + 1) - 1
      BY <1>1, <3>1
    <3> QED
      BY <3>1, <3>2 DEF Inits
  <2>2. ASSUME NEW a \in A
        PROVE  a - 1 \in Inits(p)
    <3>1. a \in 1 .. Len(q) /\ a # 1 /\ IsInit(q[a])
      BY DEF Inits
    <3>2. a - 1 \in 1 .. Len(p) /\ (a - 1) + 1 = a
      BY <1>1, <3>1
    <3> QED
      BY <1>1, <3>1, <3>2 DEF Inits
  <2> HIDE DEF A
  <2> QED
    BY <2>1, <2>2
<1>4. 1 \in Inits(q) <=> IsInit(Head(q))
  <2>1. 1 \in 1 .. Len(q)
    BY <1>1
  <2> QED
    BY <1>1, <2>1 DEF Inits
<1>5. /\ IsFiniteSet(A)
      /\ Cardinality(A) = Cardinality(Inits(q)) - (IF IsInit(Head(q)) THEN 1 ELSE 0)
  BY <1>2, <1>4, FS_RemoveElement
<1>6. A \in SUBSET Int
  BY DEF Inits
<1> HIDE DEF A
<1>7. Cardinality(Inits(p)) = Cardinality(A)
  BY <1>3, <1>5, <1>6, Shifted
<1> QED
  BY <1>2, <1>5, <1>7

-----------------------------------------------------------------------------

Count(t) == IF BuildingOf[t] \in DOMAIN subs THEN subs[BuildingOf[t]][t] ELSE 0

\* What the agent has yet to hear of a topic starts with its removal: the
\* topic was announced to it once more than it was given up.
Ahead(t) ==
  IF FirstOf(bus, t, "remove") \/ (NoneOf(bus, t) /\ t \in subscriptions) THEN 1 ELSE 0

\* The lists under way that will count a topic once more.
ToCome == Cardinality(Inits(requests)) + Cardinality(Inits(bus))

SocketsInv ==
  /\ {joined, alive, listed} \subseteq BOOLEAN
  /\ DOMAIN subs \subseteq Hosts
  /\ \A b \in DOMAIN subs : \A t \in Topics : BuildingOf[t] # b => subs[b][t] = 0
  /\ ~joined => subs = <<>>

CountInv ==
  /\ Len(requests) <= QueueLimit
  /\ ToCome <= QueueLimit
  /\ lost = 0 => \A t \in Topics : Count(t) + ToCome <= QueueLimit + Ahead(t)

Queries == [op : {"list"}, cookie : {"init", "clean"}]

\* A set of numbers that is not empty has a least member.
LEMMA LeastNat ==
  ASSUME NEW T \in SUBSET Nat, T # {}
  PROVE  \E m \in T : \A n \in T : m <= n
<1> DEFINE R == OpToRel(<, Nat)
<1>1. IsWellFoundedOn(R, Nat)
  BY NatLessThanWellFounded
<1>2. \A m, n \in Nat : m < n => <<m, n>> \in R
  BY DEF OpToRel
<1> HIDE DEF R
<1>3. PICK m \in T : \A n \in T : ~(<<n, m>> \in R)
  BY <1>1, WFMin
<1>4. \A n \in T : ~(n < m)
  BY <1>2, <1>3
<1> QED
  BY <1>4

\* What waits of a topic has a first.
LEMMA SomeFirst ==
  ASSUME NEW q, Len(q) \in Nat, NEW t, ~NoneOf(q, t)
  PROVE  FirstOf(q, t, "add") \/ FirstOf(q, t, "remove")
<1> DEFINE A == { i \in 1 .. Len(q) : Is(q[i], t) }
<1>1. PICK a \in 1 .. Len(q) : Is(q[a], t)
  BY DEF NoneOf
<1>2. A \in SUBSET Nat /\ a \in A
  BY <1>1
<1>3. PICK i \in A : \A j \in A : i <= j
  <2> HIDE DEF A
  <2> QED
    BY <1>2, LeastNat
<1>4. i \in 1 .. Len(q) /\ Is(q[i], t) /\ q[i].op \in {"add", "remove"}
  BY DEF Is
<1>5. ASSUME NEW j \in 1 .. i - 1
      PROVE  ~Is(q[j], t)
  <2>1. j \in 1 .. Len(q) /\ ~(i <= j)
    BY <1>4
  <2> QED
    BY <1>3, <2>1
<1> QED
  BY <1>4, <1>5 DEF FirstOf

\* What is announced once is not announced again before it is taken back.
LEMMA ReadAhead ==
  ASSUME SubsInv, BusInv, TurnInv, lost = 0, bus # <<>>, bus' = Tail(bus),
         subscriptions' = subscriptions, NEW t \in Topics
  PROVE  /\ ~Is(Head(bus), t) => Ahead(t)' = Ahead(t)
         /\ Is(Head(bus), t) /\ Head(bus).op = "add" => Ahead(t) = 0 /\ Ahead(t)' = 1
         /\ Is(Head(bus), t) /\ Head(bus).op = "remove" => Ahead(t) = 1
<1> DEFINE h == Head(bus)
<1>1. bus \in Seq(Messages) /\ Len(bus') \in Nat /\ TopicInv(t)
  BY DEF BusInv, TurnInv, Messages
<1>2. CASE ~Is(h, t)
  <2>1. /\ NoneOf(bus', t) <=> NoneOf(bus, t)
        /\ FirstOf(bus', t, "remove") <=> FirstOf(bus, t, "remove")
    <3>1. /\ NoneOf(bus', t) <=> NoneOf(bus, t)
          /\ \A o : FirstOf(bus', t, o) => FirstOf(bus, t, o)
          /\ \A o : FirstOf(bus, t, o) => FirstOf(bus', t, o)
      BY <1>1, <1>2, TailOther
    <3> QED
      BY <3>1
  <2> QED
    BY <1>2, <2>1 DEF Ahead
<1>3. CASE Is(h, t)
  <2>1. /\ ~NoneOf(bus, t)
        /\ \A o : FirstOf(bus, t, o) <=> o = h.op
        /\ NoneOf(bus', t) => LastOf(bus, t, h.op)
        /\ InTurn(bus, t) => ~FirstOf(bus', t, h.op)
    BY <1>1, <1>3, TailOne
  <2>2. CASE h.op = "remove"
    BY <1>3, <2>1, <2>2 DEF Ahead
  <2>3. CASE h.op = "add"
    <3>1. Ahead(t) = 0
      BY <2>1, <2>3 DEF Ahead
    <3>2. CASE NoneOf(bus', t)
      <4>1. t \in subscriptions
        BY <1>1, <2>1, <2>3, <3>2 DEF TopicInv
      <4>2. Ahead(t)' = 1
        BY <3>2, <4>1 DEF Ahead
      <4> QED
        BY <1>3, <2>3, <3>1, <4>2
    <3>3. CASE ~NoneOf(bus', t)
      <4>1. FirstOf(bus', t, "add") \/ FirstOf(bus', t, "remove")
        BY <1>1, <3>3, SomeFirst
      <4>2. FirstOf(bus', t, "remove")
        BY <1>1, <2>1, <2>3, <4>1 DEF TopicInv
      <4>3. Ahead(t)' = 1
        BY <4>2 DEF Ahead
      <4> QED
        BY <1>3, <2>3, <3>1, <4>3
    <3> QED
      BY <3>2, <3>3
  <2>4. h.op \in {"add", "remove"}
    BY <1>3 DEF Is
  <2> QED
    BY <1>3, <2>2, <2>3, <2>4
<1> QED
  BY <1>2, <1>3

\* An announcement tells the agent what the set of the exchange told before.
LEMMA AnnouncedAhead ==
  ASSUME SubsInv, BusInv, TurnInv, HandleSubscription, lost = 0,
         bus' = Append(bus, Head(changes)), NEW t \in Topics
  PROVE  Ahead(t)' = Ahead(t)
<1> DEFINE h == Head(changes)
<1>1. TopicInv(t) /\ changes \in Seq(Changes) /\ bus \in Seq(Messages)
  BY DEF TurnInv, SubsInv, BusInv, Messages
<1>2. /\ changes # <<>> /\ bus' = Append(bus, h)
      /\ subscriptions' = IF h.op = "add" THEN subscriptions \cup {h.topic}
                                          ELSE subscriptions \ {h.topic}
  BY DEF HandleSubscription
<1>3. h \in Changes /\ h \in Messages
  BY <1>1, <1>2 DEF Messages
<1>4. h.op \in {"add", "remove"} /\ h.topic \in Topics /\ (Is(h, t) <=> t = h.topic)
  BY <1>3, IsChange DEF Is
<1> HIDE DEF h
<1>5. CASE t # h.topic
  <2>1. /\ NoneOf(bus', t) <=> NoneOf(bus, t)
        /\ \A o : FirstOf(bus', t, o) <=> FirstOf(bus, t, o)
    BY <1>1, <1>2, <1>3, <1>4, <1>5, AppendOther
  <2>2. t \in subscriptions' <=> t \in subscriptions
    BY <1>2, <1>5
  <2> QED
    BY <2>1, <2>2 DEF Ahead
<1>6. CASE t = h.topic
  <2>1. /\ ~NoneOf(bus', t)
        /\ \A o : FirstOf(bus', t, o) <=> FirstOf(bus, t, o) \/ (NoneOf(bus, t) /\ o = h.op)
    <3>1. Is(h, t) /\ h \in Messages /\ bus \in Seq(Messages) /\ bus' = Append(bus, h)
      BY <1>1, <1>2, <1>3, <1>4, <1>6
    <3> QED
      BY <3>1, AppendOne
  <2>2. FirstOf(changes, t, h.op)
    BY <1>1, <1>2, <1>4, <1>6, TailOne DEF h
  <2>3. t \in subscriptions <=> h.op = "remove"
    BY <1>1, <1>4, <2>2 DEF TopicInv
  <2> QED
    BY <2>1, <2>3 DEF Ahead
<1> QED
  BY <1>5, <1>6

-----------------------------------------------------------------------------

LEMMA CountsAre ==
  ASSUME BusInv
  PROVE  /\ \A t \in Topics : Count(t) \in Nat
         /\ \A t : Ahead(t) \in {0, 1}
         /\ Cardinality(Inits(requests)) \in Nat /\ Cardinality(Inits(bus)) \in Nat
         /\ Len(requests) \in Nat /\ Cardinality(Inits(requests)) <= Len(requests)
<1>1. Len(requests) \in Nat /\ Len(bus) \in Nat
  BY DEF BusInv
<1>2. \A t \in Topics : Count(t) \in Nat
  BY DEF BusInv, Count
<1>3. \A t : Ahead(t) \in {0, 1}
  BY DEF Ahead
<1>4. /\ Cardinality(Inits(requests)) \in Nat /\ Cardinality(Inits(bus)) \in Nat
      /\ Cardinality(Inits(requests)) <= Len(requests)
  BY <1>1, InitsFinite
<1> QED
  BY <1>1, <1>2, <1>3, <1>4

\* add_subscription counts each topic of its list at most once more, at the
\* building in the topic.
LEMMA AddCounts ==
  ASSUME BusInv, SocketsInv, NEW T \in SUBSET Topics, subs' = AddSubscriptions(T)
  PROVE  /\ DOMAIN subs' \subseteq Hosts
         /\ \A b \in DOMAIN subs' : \A t \in Topics : BuildingOf[t] # b => subs'[b][t] = 0
         /\ \A t \in Topics : Count(t)' <= Count(t) + 1
         /\ \A t \in Topics \ T : Count(t)' <= Count(t)
<1> DEFINE known == { t \in T : BuildingOf[t] \in hosts \cup DOMAIN subs }
           One(b, t) == IF t \in known /\ BuildingOf[t] = b THEN 1 ELSE 0
<1>1. subs' = [b \in DOMAIN subs \cup { BuildingOf[t] : t \in known } |->
                 [t \in Topics |-> SocketOf(b)[t] + One(b, t)]]
  BY DEF AddSubscriptions
<1>2. /\ \A b, t : One(b, t) \in {0, 1}
      /\ \A b, t : BuildingOf[t] # b => One(b, t) = 0
      /\ \A b : \A t \in Topics \ T : One(b, t) = 0
      /\ \A t \in known : BuildingOf[t] \in hosts \cup DOMAIN subs
  OBVIOUS
<1> HIDE DEF known, One
<1>3. DOMAIN subs' \subseteq Hosts /\ DOMAIN subs \subseteq DOMAIN subs'
  BY <1>1, <1>2 DEF SocketsInv, BusInv
<1>4. \A b \in DOMAIN subs' : \A t \in Topics : subs'[b][t] = SocketOf(b)[t] + One(b, t)
  BY <1>1
<1>5. /\ \A b : \A t \in Topics : SocketOf(b)[t] \in Nat
      /\ \A b : \A t \in Topics : BuildingOf[t] # b => SocketOf(b)[t] = 0
      /\ \A t \in Topics : Count(t) = SocketOf(BuildingOf[t])[t]
  BY DEF BusInv, SocketsInv, SocketOf, NoTopics, Count
<1>6. ASSUME NEW b \in DOMAIN subs', NEW t \in Topics, BuildingOf[t] # b
      PROVE  subs'[b][t] = 0
  BY <1>2, <1>4, <1>5, <1>6
<1>7. ASSUME NEW t \in Topics
      PROVE  Count(t)' <= Count(t) + 1 /\ (t \notin T => Count(t)' <= Count(t))
  <2> DEFINE b == BuildingOf[t]
  <2>1. /\ Count(t) = SocketOf(b)[t] /\ SocketOf(b)[t] \in Nat
        /\ One(b, t) \in {0, 1} /\ (t \notin T => One(b, t) = 0)
    BY <1>2, <1>5
  <2>2. Count(t)' = IF b \in DOMAIN subs' THEN subs'[b][t] ELSE 0
    BY DEF Count
  <2> HIDE DEF b
  <2>3. b \in DOMAIN subs' => Count(t)' = SocketOf(b)[t] + One(b, t)
    BY <1>4, <2>2
  <2>4. b \notin DOMAIN subs' => Count(t)' = 0
    BY <2>2
  <2> QED
    BY <2>1, <2>3, <2>4
<1> QED
  BY <1>3, <1>6, <1>7

\* The agent takes a message, and counts what it says.
LEMMA ReadCounts ==
  ASSUME SubsInv, BusInv, TurnInv, CountInv, BusInv',
         bus # <<>>, bus' = Tail(bus), UNCHANGED <<subscriptions, requests, lost>>,
         \A t \in Topics :
           /\ Count(t)' <= Count(t) + 1
           /\ Count(t)' <= Count(t) \/ IsInit(Head(bus))
                \/ (Is(Head(bus), t) /\ Head(bus).op = "add")
           /\ Is(Head(bus), t) /\ Head(bus).op = "remove" =>
                Count(t)' = 0 \/ Count(t)' <= Count(t) - 1
  PROVE  CountInv'
<1> DEFINE h == Head(bus)
           was == Cardinality(Inits(bus))
           is == Cardinality(Inits(bus'))
           asked == Cardinality(Inits(requests))
           one == IF IsInit(h) THEN 1 ELSE 0
<1>1. was = is + one
  <2>1. bus \in Seq(Messages)
    BY DEF BusInv, Messages
  <2> QED
    BY <2>1, InitsTail
<1>2. ToCome = asked + was /\ ToCome' = asked + is
  BY DEF ToCome
<1>3. was \in Nat /\ is \in Nat /\ asked \in Nat
  <2>1. Len(bus') \in Nat
    BY DEF BusInv
  <2>2. is \in Nat
    BY <2>1, InitsFinite
  <2> QED
    BY <2>2, CountsAre
<1>4. \A t \in Topics : Count(t) \in Nat /\ Ahead(t) \in {0, 1}
  BY CountsAre
<1>5. \A t \in Topics : Count(t)' \in Nat /\ Ahead(t)' \in {0, 1}
  <2>1. ASSUME NEW t \in Topics
        PROVE  Count(t)' \in Nat
    BY DEF BusInv, Count
  <2> QED
    BY <2>1 DEF Ahead
<1>6. \A t \in Topics : Is(h, t) => h.op \in {"add", "remove"} /\ ~IsInit(h)
  BY DEF Is, IsInit
<1>7. lost = 0 => \A t \in Topics :
        /\ ~Is(h, t) => Ahead(t)' = Ahead(t)
        /\ Is(h, t) /\ h.op = "add" => Ahead(t) = 0 /\ Ahead(t)' = 1
        /\ Is(h, t) /\ h.op = "remove" => Ahead(t) = 1
  BY ReadAhead
<1>8. /\ lost = 0 => \A t \in Topics : Count(t) + ToCome <= QueueLimit + Ahead(t)
      /\ ToCome <= QueueLimit /\ Len(requests') <= QueueLimit /\ QueueLimit \in Nat
  BY LimitsAssumption DEF CountInv
<1>9. \A t \in Topics :
        /\ Count(t)' <= Count(t) + 1
        /\ Count(t)' <= Count(t) \/ IsInit(h) \/ (Is(h, t) /\ h.op = "add")
        /\ Is(h, t) /\ h.op = "remove" => Count(t)' = 0 \/ Count(t)' <= Count(t) - 1
  OBVIOUS
<1>10. one = IF IsInit(h) THEN 1 ELSE 0
  OBVIOUS
<1> HIDE DEF h, was, is, asked, one
<1>11. ToCome' <= QueueLimit
  BY <1>1, <1>2, <1>3, <1>8, <1>10
<1>12. ASSUME lost = 0, NEW t \in Topics
       PROVE  Count(t)' + ToCome' <= QueueLimit + Ahead(t)'
  <2>1. /\ Count(t) \in Nat /\ Count(t)' \in Nat
        /\ Ahead(t) \in {0, 1} /\ Ahead(t)' \in {0, 1}
        /\ Count(t) + ToCome <= QueueLimit + Ahead(t)
        /\ Count(t)' <= Count(t) + 1
    BY <1>4, <1>5, <1>8, <1>9, <1>12
  <2>2. CASE Is(h, t) /\ h.op = "add"
    <3>1. Ahead(t) = 0 /\ Ahead(t)' = 1 /\ one = 0
      BY <1>6, <1>7, <1>10, <1>12, <2>2
    <3> QED
      BY <1>1, <1>2, <1>3, <1>8, <2>1, <3>1
  <2>3. CASE Is(h, t) /\ h.op = "remove"
    <3>1. Ahead(t) = 1 /\ (Count(t)' = 0 \/ Count(t)' <= Count(t) - 1) /\ one = 0
      BY <1>6, <1>7, <1>9, <1>10, <1>12, <2>3
    <3> QED
      BY <1>1, <1>2, <1>3, <1>8, <2>1, <3>1
  <2>4. CASE ~Is(h, t)
    <3>1. Ahead(t)' = Ahead(t) /\ (Count(t)' <= Count(t) \/ one = 1) /\ one \in {0, 1}
      BY <1>7, <1>9, <1>10, <1>12, <2>4
    <3> QED
      BY <1>1, <1>2, <1>3, <2>1, <1>8, <3>1
  <2> QED
    BY <1>6, <2>2, <2>3, <2>4
<1> QED
  BY <1>8, <1>11, <1>12 DEF CountInv

\* A process that ends closes its sockets, and forgets what they counted.
LEMMA EndsCounts ==
  ASSUME BusInv, CountInv, Ends, UNCHANGED <<subscriptions, requests>>
  PROVE  SocketsInv' /\ CountInv'
<1>1. subs' = <<>> /\ bus' = <<>> /\ joined' = FALSE /\ alive' = FALSE /\ listed' = FALSE
  BY DEF Ends
<1>2. SocketsInv'
  <2>1. DOMAIN subs' = {}
    BY <1>1
  <2> QED
    BY <1>1, <2>1 DEF SocketsInv
<1>3. \A t : Count(t)' = 0 /\ Ahead(t)' \in {0, 1}
  BY <1>1 DEF Count, Ahead
<1>4. Inits(bus') = {}
  BY <1>1 DEF Inits
<1>5. Cardinality(Inits(bus')) = 0
  BY <1>4, FS_EmptySet
<1>6. ToCome' = Cardinality(Inits(requests))
  <2>1. requests' = requests /\ Cardinality(Inits(requests)) \in Nat
    BY CountsAre
  <2> QED
    BY <1>5, <2>1 DEF ToCome
<1>7. /\ ToCome' \in Nat /\ ToCome' <= ToCome
  BY <1>6, CountsAre DEF ToCome
<1>8. ToCome' <= QueueLimit /\ QueueLimit \in Nat /\ Len(requests') <= QueueLimit
  <2>1. ToCome \in Nat /\ ToCome <= QueueLimit /\ QueueLimit \in Nat
    BY CountsAre, LimitsAssumption DEF CountInv, ToCome
  <2> QED
    BY <1>7, <2>1 DEF CountInv
<1>9. \A t : Count(t)' + ToCome' <= QueueLimit + Ahead(t)'
  BY <1>3, <1>7, <1>8
<1> QED
  BY <1>2, <1>8, <1>9 DEF CountInv

LEMMA UnsubscribeCounts ==
  ASSUME BusInv, SocketsInv, OnUnsubscribe
  PROVE  /\ DOMAIN subs' \subseteq Hosts
         /\ \A b \in DOMAIN subs' : \A t \in Topics : BuildingOf[t] # b => subs'[b][t] = 0
         /\ \A t \in Topics : Count(t)' <= Count(t)
         /\ \A t \in Topics :
              t = Head(bus).topic => Count(t)' = 0 \/ Count(t)' <= Count(t) - 1
<1> DEFINE h == Head(bus)
           u == h.topic
           b0 == BuildingOf[u]
           Less(n) == IF n > 0 THEN n - 1 ELSE 0
<1>1. /\ subs' = IF b0 \in DOMAIN subs
                   THEN [subs EXCEPT ![b0][u] = IF @ > 0 THEN @ - 1 ELSE 0] ELSE subs
      /\ h \in Messages /\ h.op = "remove"
  BY DEF OnUnsubscribe, Receives, Takes, BusInv, Messages
<1>2. u \in Topics
  BY <1>1 DEF Messages, Changes, Answers, Sends
<1>3. b0 = BuildingOf[u] /\ u = Head(bus).topic
  OBVIOUS
<1> HIDE DEF h, u, b0
<1>4. DOMAIN subs' = DOMAIN subs
  BY <1>1
<1>5. \A b \in DOMAIN subs : subs[b] \in [Topics -> Nat]
  BY DEF BusInv
<1>6. \A b \in DOMAIN subs : \A t \in Topics :
        subs'[b][t] = IF b = b0 /\ t = u THEN Less(subs[b][t]) ELSE subs[b][t]
  <2> SUFFICES ASSUME NEW b \in DOMAIN subs
               PROVE  \A t \in Topics :
                        subs'[b][t] = IF b = b0 /\ t = u THEN Less(subs[b][t]) ELSE subs[b][t]
    OBVIOUS
  <2>1. CASE b = b0
    <3>1. subs'[b] = [subs[b] EXCEPT ![u] = IF @ > 0 THEN @ - 1 ELSE 0]
      BY <1>1, <2>1
    <3> QED
      BY <1>2, <1>5, <2>1, <3>1
  <2>2. CASE b # b0
    BY <1>1, <2>2
  <2> QED
    BY <2>1, <2>2
<1>7. \A b \in DOMAIN subs' : \A t \in Topics : BuildingOf[t] # b => subs'[b][t] = 0
  BY <1>3, <1>4, <1>6 DEF SocketsInv
<1>8. ASSUME NEW t \in Topics
      PROVE  Count(t) \in Nat /\ Count(t)' = IF t = u THEN Less(Count(t)) ELSE Count(t)
  <2>1. Count(t) \in Nat
    BY CountsAre
  <2>2. CASE BuildingOf[t] \in DOMAIN subs
    BY <1>3, <1>4, <1>6, <2>1, <2>2 DEF Count
  <2>3. CASE BuildingOf[t] \notin DOMAIN subs
    BY <1>4, <2>1, <2>3 DEF Count
  <2> QED
    BY <2>1, <2>2, <2>3
<1>9. \A t \in Topics : Count(t)' <= Count(t)
  <2> SUFFICES ASSUME NEW t \in Topics
               PROVE  Count(t)' <= Count(t)
    OBVIOUS
  <2> QED
    BY <1>8
<1>10. \A t \in Topics : t = u => Count(t)' = 0 \/ Count(t)' <= Count(t) - 1
  <2> SUFFICES ASSUME NEW t \in Topics, t = u
               PROVE  Count(t)' = 0 \/ Count(t)' <= Count(t) - 1
    OBVIOUS
  <2> QED
    BY <1>8
<1> QED
  BY <1>3, <1>4, <1>7, <1>9, <1>10 DEF SocketsInv

LEMMA HandlerCounts ==
  ASSUME SubsInv, BusInv, CoveredInv, TurnInv, SocketsInv, CountInv, HandleSubMessage
  PROVE  SocketsInv' /\ CountInv'
<1> DEFINE h == Head(bus)
<1>1. BusInv' /\ bus # <<>> /\ UNCHANGED <<subscriptions, requests>>
  BY HandlerConnects, HandlerReads
<1>2. joined /\ h \in Messages
  BY <1>1 DEF BusInv, Messages
<1>3. \A t \in Topics : Count(t) \in Nat
  BY CountsAre
<1>4. ASSUME bus' = Tail(bus), UNCHANGED <<joined, alive>>, listed' \in BOOLEAN,
             DOMAIN subs' \subseteq Hosts,
             \A b \in DOMAIN subs' : \A t \in Topics : BuildingOf[t] # b => subs'[b][t] = 0
      PROVE  SocketsInv'
  BY <1>2, <1>4 DEF SocketsInv
<1>5. CASE OnSubscribe
  <2>1. /\ bus' = Tail(bus) /\ h.op = "add" /\ subs' = AddSubscriptions({h.topic})
        /\ UNCHANGED <<joined, lost, alive, listed>>
    BY <1>5 DEF OnSubscribe, Receives, Takes
  <2>2. {h.topic} \in SUBSET Topics
    BY <1>2, <2>1 DEF Messages, Changes, Answers, Sends
  <2>3. \A t \in {h.topic} : Is(h, t)
    BY <2>1 DEF Is
  <2> HIDE DEF h
  <2>4. /\ DOMAIN subs' \subseteq Hosts
        /\ \A b \in DOMAIN subs' : \A t \in Topics : BuildingOf[t] # b => subs'[b][t] = 0
        /\ \A t \in Topics : Count(t)' <= Count(t) + 1
        /\ \A t \in Topics \ {h.topic} : Count(t)' <= Count(t)
    BY <2>1, <2>2, AddCounts
  <2>5. SocketsInv'
    BY <1>4, <2>1, <2>4 DEF SocketsInv
  <2>6. \A t \in Topics :
          /\ Count(t)' <= Count(t) + 1
          /\ Count(t)' <= Count(t) \/ IsInit(h) \/ (Is(h, t) /\ h.op = "add")
          /\ Is(h, t) /\ h.op = "remove" => Count(t)' = 0 \/ Count(t)' <= Count(t) - 1
    BY <2>1, <2>3, <2>4
  <2>7. CountInv'
    BY <1>1, <2>1, <2>6, ReadCounts DEF h
  <2> QED
    BY <2>5, <2>7
<1>6. CASE OnSubscriptionInit
  <2>1. /\ bus' = Tail(bus) /\ h.op = "list" /\ subs' = AddSubscriptions(h.topics)
        /\ IsInit(h) /\ UNCHANGED <<joined, lost, alive>> /\ listed' = TRUE
    BY <1>6 DEF OnSubscriptionInit, Receives, Takes, IsInit
  <2>2. h.topics \in SUBSET Topics
    BY <1>2, <2>1 DEF Messages, Changes, Answers, Sends
  <2> HIDE DEF h
  <2>3. /\ DOMAIN subs' \subseteq Hosts
        /\ \A b \in DOMAIN subs' : \A t \in Topics : BuildingOf[t] # b => subs'[b][t] = 0
        /\ \A t \in Topics : Count(t)' <= Count(t) + 1
    BY <2>1, <2>2, AddCounts
  <2>4. SocketsInv'
    BY <1>4, <2>1, <2>3
  <2>5. \A t \in Topics :
          /\ Count(t)' <= Count(t) + 1
          /\ Count(t)' <= Count(t) \/ IsInit(h) \/ (Is(h, t) /\ h.op = "add")
          /\ Is(h, t) /\ h.op = "remove" => Count(t)' = 0 \/ Count(t)' <= Count(t) - 1
    BY <2>1, <2>3
  <2>6. CountInv'
    BY <1>1, <2>1, <2>5, ReadCounts DEF h
  <2> QED
    BY <2>4, <2>6
<1>7. CASE OnUnsubscribe
  <2>1. /\ bus' = Tail(bus) /\ h.op = "remove" /\ UNCHANGED <<joined, lost, alive, listed>>
    BY <1>7 DEF OnUnsubscribe, Receives, Takes
  <2>2. /\ DOMAIN subs' \subseteq Hosts
        /\ \A b \in DOMAIN subs' : \A t \in Topics : BuildingOf[t] # b => subs'[b][t] = 0
        /\ \A t \in Topics : Count(t)' <= Count(t)
        /\ \A t \in Topics : t = h.topic => Count(t)' = 0 \/ Count(t)' <= Count(t) - 1
    BY <1>7, UnsubscribeCounts
  <2>3. \A t : Is(h, t) => t = h.topic
    BY DEF Is
  <2> HIDE DEF h
  <2>4. SocketsInv'
    BY <1>4, <2>1, <2>2 DEF SocketsInv
  <2>5. ASSUME NEW t \in Topics
        PROVE  /\ Count(t)' <= Count(t) + 1
               /\ Count(t)' <= Count(t) \/ IsInit(h) \/ (Is(h, t) /\ h.op = "add")
               /\ Is(h, t) /\ h.op = "remove" => Count(t)' = 0 \/ Count(t)' <= Count(t) - 1
    <3>1. Count(t)' \in Nat /\ Count(t) \in Nat
      BY <1>1, <1>3 DEF BusInv, Count
    <3>2. Count(t)' <= Count(t) + 1
      BY <2>2, <3>1
    <3> QED
      BY <2>2, <2>3, <3>2
  <2>6. CountInv'
    BY <1>1, <2>1, <2>5, ReadCounts DEF h
  <2> QED
    BY <2>4, <2>6
<1>8. ASSUME bus' = Tail(bus), h.op \in {"list", "send"}, UNCHANGED <<joined, lost, alive, listed, subs>>
      PROVE  SocketsInv' /\ CountInv'
  <2>1. SocketsInv'
    BY <1>4, <1>8 DEF SocketsInv
  <2>2. \A t : ~Is(h, t) /\ Count(t)' = Count(t)
    BY <1>8 DEF Is, Count
  <2> HIDE DEF h
  <2>3. \A t \in Topics :
          /\ Count(t)' <= Count(t) + 1
          /\ Count(t)' <= Count(t) \/ IsInit(h) \/ (Is(h, t) /\ h.op = "add")
          /\ Is(h, t) /\ h.op = "remove" => Count(t)' = 0 \/ Count(t)' <= Count(t) - 1
    BY <1>3, <2>2
  <2>4. CountInv'
    BY <1>1, <1>8, <2>3, ReadCounts DEF h
  <2> QED
    BY <2>1, <2>4
<1>9. CASE OnSubscriptionList
  <2>1. CASE subs = <<>>
    BY <1>8, <1>9, <2>1 DEF OnSubscriptionList, Takes
  <2>2. CASE subs # <<>>
    BY <1>1, <1>9, <2>2, EndsCounts DEF OnSubscriptionList
  <2> QED
    BY <2>1, <2>2
<1>10. CASE OnSend
  BY <1>8, <1>10 DEF OnSend, Receives, Takes
<1>11. CASE HostsUnreadable
  BY <1>1, <1>11, EndsCounts DEF HostsUnreadable
<1> QED
  BY <1>5, <1>6, <1>7, <1>9, <1>10, <1>11 DEF HandleSubMessage

\* The lists under way move to the bus, or are dropped.
LEMMA BrokerCounts ==
  ASSUME SubsInv, BusInv, TurnInv, SocketsInv, CountInv, BusInv', Broker
  PROVE  SocketsInv' /\ CountInv'
<1>1. UNCHANGED <<joined, alive, listed, subs>>
  BY DEF Broker, AgentExchange, HandleSubscription, HandleMessage
<1>2. SocketsInv'
  BY <1>1 DEF SocketsInv
<1>3. \A t \in Topics : Count(t)' = Count(t) /\ Count(t) \in Nat
  BY <1>1, CountsAre DEF Count
<1>4. ~joined => \A t : Count(t) = 0
  BY DEF SocketsInv, Count
<1>5. /\ \A t : Ahead(t) \in {0, 1} /\ Ahead(t)' \in {0, 1}
      /\ Cardinality(Inits(requests)) \in Nat /\ Cardinality(Inits(bus)) \in Nat
      /\ QueueLimit \in Nat
  BY CountsAre, LimitsAssumption DEF Ahead
<1>6. ASSUME ToCome' \in Nat, ToCome' <= ToCome, Len(requests') <= QueueLimit,
             joined /\ lost' = 0 => lost = 0 /\ \A t \in Topics : Ahead(t)' = Ahead(t),
             ~joined => lost' = lost
      PROVE  CountInv'
  <2>1. ToCome \in Nat /\ ToCome' \in Nat /\ ToCome <= QueueLimit /\ QueueLimit \in Nat
    BY <1>5, <1>6 DEF ToCome, CountInv
  <2>2. ToCome' <= QueueLimit
    BY <1>6, <2>1
  <2>3. ASSUME lost' = 0, NEW t \in Topics
        PROVE  Count(t)' + ToCome' <= QueueLimit + Ahead(t)'
    <3>1. /\ Count(t)' = Count(t) /\ Count(t) \in Nat
          /\ Ahead(t) \in {0, 1} /\ Ahead(t)' \in {0, 1}
          /\ Count(t) + ToCome <= QueueLimit + Ahead(t)
      BY <1>3, <1>5, <1>6, <2>3 DEF CountInv
    <3>2. CASE joined
      <4>1. Ahead(t)' = Ahead(t)
        BY <1>6, <2>3, <3>2
      <4> QED
        BY <1>6, <2>1, <3>1, <4>1
    <3>3. CASE ~joined
      <4>1. Count(t) = 0
        BY <1>4, <3>3
      <4> QED
        BY <2>1, <2>2, <3>1, <4>1
    <3> QED
      BY <3>2, <3>3
  <2> QED
    BY <1>6, <2>2, <2>3 DEF CountInv
<1>7. CASE HandleSubscription
  <2> DEFINE h == Head(changes)
  <2>1. /\ changes # <<>> /\ requests' = requests
        /\ Broadcast(h)
    BY <1>7 DEF HandleSubscription
  <2>2. h \in Messages /\ ~IsInit(h) /\ bus \in Seq(Messages)
    <3>1. h \in Changes
      BY <2>1 DEF BusInv
    <3> QED
      BY <3>1, IsChange DEF BusInv, Messages, IsInit
  <2>7. h = Head(changes)
    OBVIOUS
  <2> HIDE DEF h
  <2>8. \/ lost' = lost /\ bus' = IF joined THEN Append(bus, h) ELSE bus
        \/ joined /\ bus' = bus /\ lost' # 0
    BY <2>1, Broadcasts
  <2>3. Cardinality(Inits(bus')) = Cardinality(Inits(bus))
    <3>1. CASE bus' = Append(bus, h)
      <4>1. Cardinality(Inits(bus')) = Cardinality(Inits(bus)) + (IF IsInit(h) THEN 1 ELSE 0)
        BY <2>1, <2>2, <3>1, InitsAppend
      <4> QED
        BY <1>5, <2>2, <4>1
    <3>2. CASE bus' = bus
      BY <3>2
    <3> QED
      BY <2>8, <3>1, <3>2
  <2>4. ToCome' = ToCome /\ ToCome \in Nat
    BY <1>5, <2>1, <2>3 DEF ToCome
  <2>5. joined /\ lost' = 0 => lost = 0 /\ \A t \in Topics : Ahead(t)' = Ahead(t)
    BY <1>7, <2>7, <2>8, AnnouncedAhead
  <2>9. ~joined => lost' = lost
    BY <2>8
  <2>6. Len(requests') <= QueueLimit
    BY <2>1 DEF CountInv
  <2> QED
    BY <1>2, <1>6, <2>4, <2>5, <2>6, <2>9
<1>8. CASE HandleMessage
  <2> DEFINE r == Head(requests)
             asked == Cardinality(Inits(requests'))
             one == IF IsInit(r) THEN 1 ELSE 0
  <2>1. /\ UNCHANGED subscriptions
        /\ requests # <<>> /\ requests' = Tail(requests)
        /\ \E m \in Messages :
             /\ \A t : ~Is(m, t)
             /\ IsInit(m) <=> IsInit(r)
             /\ \/ lost' = lost /\ bus' = IF joined THEN Append(bus, m) ELSE bus
                \/ joined /\ bus' = bus /\ lost' # 0
    BY <1>8, AnswerSent
  <2>2. PICK m \in Messages :
          /\ \A t : ~Is(m, t)
          /\ IsInit(m) <=> IsInit(r)
          /\ \/ lost' = lost /\ bus' = IF joined THEN Append(bus, m) ELSE bus
             \/ joined /\ bus' = bus /\ lost' # 0
    BY <2>1
  <2>3. requests \in Seq(Queries \cup Sends) /\ bus \in Seq(Messages)
    BY DEF BusInv, Queries, Messages
  <2>4. Cardinality(Inits(requests)) = asked + one
    BY <2>1, <2>3, InitsTail
  <2>5. /\ Len(requests') = Len(requests) - 1 /\ Len(requests) \in Nat
        /\ Len(requests') \in Nat
    BY <2>1, <2>3
  <2>6. asked \in Nat
    BY <2>5, InitsFinite
  <2>7. one \in {0, 1} /\ ToCome' = asked + Cardinality(Inits(bus'))
    BY DEF ToCome
  <2>8. Cardinality(Inits(bus')) \in { Cardinality(Inits(bus)), Cardinality(Inits(bus)) + one }
    <3>1. CASE bus' = Append(bus, m)
      <4>1. Cardinality(Inits(bus')) = Cardinality(Inits(bus)) + (IF IsInit(m) THEN 1 ELSE 0)
        BY <2>2, <2>3, <3>1, InitsAppend
      <4> QED
        BY <2>2, <3>1, <4>1
    <3>2. CASE bus' = bus
      BY <3>2
    <3> QED
      BY <2>2, <3>1, <3>2
  <2> HIDE DEF asked, one
  <2>9. ToCome' \in Nat /\ ToCome' <= ToCome
    <3>1. ToCome = asked + one + Cardinality(Inits(bus))
      BY <1>5, <2>4, <2>6, <2>7 DEF ToCome
    <3> QED
      BY <1>5, <2>6, <2>7, <2>8, <3>1
  <2>10. joined /\ lost' = 0 => lost = 0 /\ \A t \in Topics : Ahead(t)' = Ahead(t)
    <3> SUFFICES ASSUME joined, lost' = 0, lost = 0, bus' = Append(bus, m), NEW t \in Topics
                 PROVE  Ahead(t)' = Ahead(t)
      BY <2>2
    <3>1. /\ NoneOf(bus', t) <=> NoneOf(bus, t)
          /\ \A o : FirstOf(bus', t, o) <=> FirstOf(bus, t, o)
      BY <2>2, <2>3, AppendOther
    <3> QED
      BY <2>1, <3>1 DEF Ahead
  <2>11. Len(requests') <= QueueLimit
    <3>1. Len(requests) <= QueueLimit
      BY DEF CountInv
    <3> QED
      BY <1>5, <2>5, <3>1
  <2>12. ~joined => lost' = lost
    BY <2>2
  <2> QED
    BY <1>2, <1>6, <2>9, <2>10, <2>11, <2>12
<1> QED
  BY <1>2, <1>7, <1>8 DEF Broker, AgentExchange

\* A request that is no list of a setup waits at the exchange.
LEMMA RequestCounts ==
  ASSUME BusInv, CountInv, NEW m \in Queries \cup Sends, ~IsInit(m),
         Len(requests) < QueueLimit, requests' = Append(requests, m),
         UNCHANGED <<subscriptions, bus, lost, subs>>
  PROVE  CountInv'
<1>1. requests \in Seq(Queries \cup Sends)
  BY DEF BusInv, Queries
<1>2. Len(requests') = Len(requests) + 1 /\ Len(requests) \in Nat
  BY <1>1
<1>3. Len(requests') <= QueueLimit
  BY <1>2, LimitsAssumption
<1>4. Cardinality(Inits(requests')) = Cardinality(Inits(requests)) + (IF IsInit(m) THEN 1 ELSE 0)
  BY <1>1, InitsAppend
<1>5. Cardinality(Inits(requests')) = Cardinality(Inits(requests))
  BY <1>4, CountsAre
<1>6. ToCome' = ToCome
  BY <1>5 DEF ToCome
<1>7. \A t : Count(t)' = Count(t) /\ Ahead(t)' = Ahead(t)
  BY DEF Count, Ahead
<1> QED
  BY <1>3, <1>6, <1>7 DEF CountInv

\* A new process starts with nothing counted: what it will count waits at the
\* exchange.
LEMMA RestartCounts ==
  ASSUME BusInv, SocketsInv, CountInv, Restart
  PROVE  SocketsInv' /\ CountInv'
<1> DEFINE m == [op |-> "list", cookie |-> "init"]
<1>1. /\ requests' = Append(requests, m) /\ Len(requests) < QueueLimit
      /\ ~joined /\ bus = <<>> /\ subs = <<>> /\ alive' = TRUE
      /\ UNCHANGED <<subscriptions, joined, bus, listed, subs>>
  BY DEF Restart, Requests, BusInv, SocketsInv
<1>2. m \in Queries /\ requests \in Seq(Queries \cup Sends)
  BY DEF BusInv, Queries
<1> HIDE DEF m
<1>3. Len(requests') = Len(requests) + 1 /\ Len(requests) \in Nat
  BY <1>1, <1>2
<1>4. Len(requests') <= QueueLimit /\ Len(requests') \in Nat /\ QueueLimit \in Nat
  BY <1>1, <1>3, LimitsAssumption
<1>5. /\ Cardinality(Inits(requests')) \in Nat
      /\ Cardinality(Inits(requests')) <= Len(requests')
  BY <1>4, InitsFinite
<1>6. Cardinality(Inits(bus')) = 0
  <2>1. Inits(bus') = {}
    BY <1>1 DEF Inits
  <2> QED
    BY <2>1, FS_EmptySet
<1>7. ToCome' \in Nat /\ ToCome' <= QueueLimit
  BY <1>4, <1>5, <1>6 DEF ToCome
<1>8. \A t : Count(t)' = 0 /\ Ahead(t)' \in {0, 1}
  BY <1>1 DEF Count, Ahead
<1>9. \A t : Count(t)' + ToCome' <= QueueLimit + Ahead(t)'
  BY <1>4, <1>7, <1>8
<1>10. SocketsInv'
  BY <1>1 DEF SocketsInv
<1> QED
  BY <1>4, <1>7, <1>9, <1>10 DEF CountInv

LEMMA NextCounts ==
  ASSUME SubsInv, BusInv, CoveredInv, TurnInv, SocketsInv, CountInv, [Next]_vars
  PROVE  SocketsInv' /\ CountInv'
<1>1. UNCHANGED <<subscriptions, requests, bus, lost, subs>> => CountInv'
  BY DEF CountInv, Count, Ahead, ToCome
<1>2. UNCHANGED <<joined, alive, listed, subs>> => SocketsInv'
  BY DEF SocketsInv
<1>3. CASE LocalAgents
  BY <1>1, <1>2, <1>3 DEF LocalAgents, Subscribe, Unsubscribe
<1>4. ASSUME NEW b \in Buildings, PublishSend(b)
      PROVE  SocketsInv' /\ CountInv'
  <2> DEFINE m == [op |-> "send", building |-> b]
  <2>1. m \in Sends /\ ~IsInit(m)
    BY DEF Sends, IsInit
  <2>2. /\ Len(requests) < QueueLimit /\ requests' = Append(requests, m)
        /\ UNCHANGED <<subscriptions, bus, lost, joined, alive, listed, subs>>
    BY <1>4 DEF PublishSend
  <2> QED
    BY <1>2, <2>1, <2>2, RequestCounts
<1>5. CASE Broker
  BY <1>5, BrokerCounts, BrokerConnects
<1>6. CASE HandleSubMessage
  BY <1>6, HandlerCounts
<1>7. CASE OnCleanup
  <2> DEFINE m == [op |-> "list", cookie |-> "clean"]
  <2>1. m \in Queries /\ ~IsInit(m)
    BY DEF Queries, IsInit
  <2>2. /\ Len(requests) < QueueLimit /\ requests' = Append(requests, m)
        /\ UNCHANGED <<subscriptions, bus, lost, joined, alive, listed, subs>>
    BY <1>7 DEF OnCleanup, Requests
  <2> QED
    BY <1>2, <2>1, <2>2, RequestCounts
<1>8. CASE HandleRepublishFails
  BY <1>8, EndsCounts DEF HandleRepublishFails
<1>9. CASE Join
  <2>1. CountInv'
    BY <1>1, <1>9 DEF Join
  <2> QED
    BY <1>9, <2>1 DEF Join, SocketsInv
<1>10. CASE Restart
  BY <1>10, RestartCounts
<1>11. CASE UNCHANGED vars
  BY <1>1, <1>2, <1>11 DEF vars, exchange
<1>12. CASE EditHosts
  BY <1>1, <1>2, <1>12 DEF EditHosts, exchange
<1> QED
  BY <1>3, <1>4, <1>5, <1>6, <1>7, <1>8, <1>9, <1>10, <1>11, <1>12 DEF Next

\* The PUSH sockets are those of buildings with an address.
PushInv == DOMAIN pubs \subseteq Hosts /\ sequence \in 0 .. LastCleanup

LEMMA NextPush ==
  ASSUME BusInv, PushInv, [Next]_vars
  PROVE  PushInv'
<1>1. UNCHANGED <<pubs, sequence>> => PushInv'
  BY DEF PushInv
<1>2. Ends => PushInv'
  <2> SUFFICES ASSUME Ends
               PROVE  PushInv'
    OBVIOUS
  <2>1. pubs' = <<>> /\ sequence' = 0
    BY DEF Ends
  <2>2. DOMAIN pubs' = {}
    BY <2>1
  <2> QED
    BY <2>1, <2>2, BuildingAssumption DEF PushInv
<1>3. CASE LocalAgents \/ Broker \/ Join \/ Restart \/ EditHosts
          \/ \E b \in Buildings : PublishSend(b)
  BY <1>1, <1>3 DEF LocalAgents, Broker, Join, Restart, EditHosts, PublishSend
<1>4. CASE HandleSubMessage
  <2>1. CASE OnSubscribe \/ OnUnsubscribe \/ OnSubscriptionInit
    BY <1>1, <2>1 DEF OnSubscribe, OnUnsubscribe, OnSubscriptionInit
  <2>2. CASE OnSubscriptionList
    BY <1>1, <1>2, <2>2 DEF OnSubscriptionList
  <2>3. CASE OnSend
    <3> DEFINE b == Head(bus).building
    <3>1. sequence' = sequence
          /\ \/ UNCHANGED pubs
             \/ b \in hosts \cup DOMAIN pubs
                  /\ (pubs' = With(pubs, b, sequence) \/ pubs' = Without(pubs, b))
      BY <2>3 DEF OnSend
    <3> HIDE DEF b
    <3>2. DOMAIN With(pubs, b, sequence) = DOMAIN pubs \cup {b}
      BY DEF With
    <3>3. DOMAIN Without(pubs, b) = DOMAIN pubs \ {b}
      BY DEF Without
    <3> QED
      BY <3>1, <3>2, <3>3 DEF PushInv, BusInv
  <2>4. CASE HostsUnreadable
    BY <1>2, <2>4 DEF HostsUnreadable
  <2> QED
    BY <1>4, <2>1, <2>2, <2>3, <2>4 DEF HandleSubMessage
<1>5. CASE OnCleanup
  <2>1. /\ sequence' = sequence + 1 /\ sequence < LastCleanup
        /\ DOMAIN pubs' \subseteq DOMAIN pubs
    BY <1>5 DEF OnCleanup
  <2> QED
    BY <2>1, BuildingAssumption DEF PushInv
<1>6. CASE HandleRepublishFails
  BY <1>2, <1>6 DEF HandleRepublishFails
<1>7. CASE UNCHANGED vars
  BY <1>1, <1>7 DEF vars
<1> QED
  BY <1>3, <1>4, <1>5, <1>6, <1>7 DEF Next

AgentInv ==
  SubsInv /\ BusInv /\ CoveredInv /\ TurnInv /\ SocketsInv /\ CountInv /\ PushInv

LEMMA InitAgent == Init => AgentInv
<1> SUFFICES ASSUME Init
             PROVE  AgentInv
  OBVIOUS
<1>1. /\ held = [c \in Clients |-> {}] /\ subscriptions = {}
      /\ changes = <<>> /\ requests = <<>> /\ bus = <<>> /\ joined = FALSE
      /\ alive = FALSE /\ listed = FALSE /\ lost = 0
      /\ hosts \subseteq Hosts /\ steady = {}
      /\ subs = <<>> /\ pubs = <<>> /\ sequence = 0
  BY DEF Init, InitExchange
<1>2. DOMAIN subs = {} /\ DOMAIN pubs = {} /\ Held = {}
  BY <1>1 DEF Held
<1>3. SubsInv
  BY <1>1 DEF SubsInv, Held, WillHave, LastAdds, About
<1>4. BusInv /\ CoveredInv
  BY <1>1, <1>2, LimitsAssumption DEF BusInv, CoveredInv
<1>5. TurnInv
  <2>1. /\ \A t : InTurn(changes, t) /\ InTurn(bus, t)
        /\ \A t, o : /\ ~FirstOf(changes, t, o) /\ ~LastOf(changes, t, o)
                     /\ ~LastOf(bus, t, o)
    BY <1>1, EmptyTurn
  <2> QED
    BY <1>1, <1>2, <2>1 DEF TurnInv, TopicInv
<1>6. SocketsInv
  BY <1>1, <1>2 DEF SocketsInv
<1>7. CountInv
  <2>1. Inits(requests) = {} /\ Inits(bus) = {} /\ Len(requests) = 0
    BY <1>1 DEF Inits
  <2>2. ToCome = 0
    <3>1. Cardinality(Inits(requests)) = 0 /\ Cardinality(Inits(bus)) = 0
      BY <2>1, FS_EmptySet
    <3> QED
      BY <3>1 DEF ToCome
  <2>3. \A t : Count(t) = 0 /\ Ahead(t) \in {0, 1}
    BY <1>2 DEF Count, Ahead
  <2> QED
    BY <2>1, <2>2, <2>3, LimitsAssumption DEF CountInv
<1>8. PushInv
  BY <1>1, <1>2, BuildingAssumption DEF PushInv
<1> QED
  BY <1>3, <1>4, <1>5, <1>6, <1>7, <1>8 DEF AgentInv

LEMMA AgentTyped == AgentInv => TypeOK
<1> SUFFICES ASSUME AgentInv
             PROVE  TypeOK
  OBVIOUS
<1>1. SubsInv /\ BusInv /\ SocketsInv /\ CountInv /\ PushInv
  BY DEF AgentInv
<1>2. \A c \in Clients : held[c] \subseteq Topics
  BY <1>1 DEF SubsInv
<1>3. \A m \in ToSet(requests) : m.op \in {"list", "send"}
  <2>1. \A m \in ToSet(requests) : m \in Queries \cup Sends
    BY <1>1 DEF BusInv, Queries, ToSet
  <2> QED
    BY <2>1 DEF Queries, Sends
<1>4. \A m \in ToSet(bus) : m.op \in {"add", "remove", "list", "send"}
  <2>1. \A m \in ToSet(bus) : m \in Messages
    BY <1>1 DEF BusInv, Messages, ToSet
  <2> QED
    BY <2>1 DEF Messages, Changes, Answers, Sends
<1>5. ASSUME NEW b \in DOMAIN subs
      PROVE  subs[b] \in [Topics -> Nat] /\ (lost = 0 => subs[b] \in [Topics -> 0 .. QueueLimit + 1])
  <2>1. subs[b] \in [Topics -> Nat]
    BY <1>1 DEF BusInv
  <2>2. ASSUME lost = 0, NEW t \in Topics
        PROVE  subs[b][t] \in 0 .. QueueLimit + 1
    <3>1. CASE BuildingOf[t] = b
      <4>1. subs[b][t] = Count(t) /\ Count(t) \in Nat
        BY <1>1, <3>1, CountsAre DEF Count
      <4>2. /\ Count(t) + ToCome <= QueueLimit + Ahead(t)
            /\ ToCome \in Nat /\ Ahead(t) \in {0, 1} /\ QueueLimit \in Nat
        BY <1>1, <2>2, CountsAre, LimitsAssumption DEF CountInv, ToCome
      <4>3. Count(t) \in 0 .. QueueLimit + 1
        BY <4>1, <4>2
      <4> QED
        BY <4>1, <4>3
    <3>2. CASE BuildingOf[t] # b
      BY <1>1, <3>2, LimitsAssumption DEF SocketsInv
    <3> QED
      BY <3>1, <3>2
  <2> QED
    BY <2>1, <2>2
<1> QED
  BY <1>1, <1>2, <1>3, <1>4, <1>5 DEF TypeOK, SubsInv, BusInv, SocketsInv, PushInv

\* However often local agents subscribe and unsubscribe, the agent restarts and
\* asks again for the list, and the announcements cross its answers, a SUB
\* socket is set for a topic at most once for each list that was waiting and
\* once for the announcements, which take turns: until the exchange drops one,
\* the counts of add_subscription stay within what waits at the exchange.
\* Sockets are only those of buildings that had an address in the launch file,
\* and every handler finds the messages it expects.
THEOREM SocketsTyped == Spec => []TypeOK
<1>1. AgentInv /\ [Next]_vars => AgentInv'
  BY NextSubs, NextConnects, NextTurn, NextCounts, NextPush DEF AgentInv
<1> QED
  BY <1>1, InitAgent, AgentTyped, PTL DEF Spec

=============================================================================
