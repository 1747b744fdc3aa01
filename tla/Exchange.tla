------------------------------ MODULE Exchange ------------------------------
(***************************************************************************)
(* The message exchange of the platform (agent_exchange in main.py): one   *)
(* thread between a PULL socket, to which agents publish, and an XPUB      *)
(* socket, to which they subscribe.  It announces every topic that gains   *)
(* its first subscriber or loses its last one, and answers requests for    *)
(* the list of topics.  Only topics under building/recv/ are kept here, and *)
(* only the messages one agent, the multi-building agent, subscribes to.   *)
(***************************************************************************)
EXTENDS Integers, SequencesExt

CONSTANTS
  Clients,       \* agents that subscribe to topics
  Topics,        \* what they subscribe to
  QueueLimit,    \* bound on what waits at each socket of the exchange
  HighWater,     \* high-water mark of the XPUB socket: ZeroMQ's, 1000 by default
  MaxLost        \* bound on lost

ASSUME LimitsAssumption == {QueueLimit, HighWater, MaxLost} \subseteq Nat

VARIABLES
  held,          \* the topics each client is subscribed to
  changes,       \* what the XPUB socket has to tell of them
  subscriptions, \* the set kept by the exchange
  requests,      \* messages waiting at the PULL socket
  joined,        \* the agent's own subscriptions have reached the XPUB socket
  bus,           \* messages on their way to the agent
  lost           \* how many were dropped since the agent joined

exchange == <<held, changes, subscriptions, requests, joined, bus, lost>>

Held == UNION { held[c] : c \in Clients }

Change(o, t) == [op |-> o, topic |-> t]
Changes == [op : {"add", "remove"}, topic : Topics]

\* An XPUB socket drops a message no socket is subscribed to, and one for a
\* subscriber that lags behind by the high-water mark.
Broadcast(m) ==
  \/ ~joined /\ UNCHANGED <<bus, lost>>
  \/ joined /\ Len(bus) < HighWater /\ bus' = Append(bus, m) /\ UNCHANGED lost
  \/ joined /\ Len(bus) >= HighWater /\ lost < MaxLost /\ lost' = lost + 1 /\ UNCHANGED bus

-----------------------------------------------------------------------------
(* The clients, and the XPUB socket, which reports a topic once.           *)

Tells(after, o, t) ==
  changes' = IF t \in Held /\ t \in after THEN changes ELSE Append(changes, Change(o, t))

Subscribe(c, t) ==
  /\ t \notin held[c] /\ Len(changes) < QueueLimit
  /\ held' = [held EXCEPT ![c] = @ \cup {t}]
  /\ Tells(Held \cup {t}, "add", t)
  /\ UNCHANGED <<subscriptions, requests, joined, bus, lost>>

\* A client that ends unsubscribes from what it holds, a topic at a time.
Unsubscribe(c, t) ==
  /\ t \in held[c] /\ Len(changes) < QueueLimit
  /\ held' = [held EXCEPT ![c] = @ \ {t}]
  /\ Tells(UNION { held'[d] : d \in Clients }, "remove", t)
  /\ UNCHANGED <<subscriptions, requests, joined, bus, lost>>

-----------------------------------------------------------------------------
(* The loop of agent_exchange.                                             *)

AnnounceOnly ==
  /\ changes # <<>>
  /\ changes' = Tail(changes)
  /\ subscriptions' = subscriptions \cup {Head(changes).topic}
  /\ Broadcast(Head(changes))
  /\ UNCHANGED <<held, requests, joined>>
HandleSubscription ==
  /\ changes # <<>>
  /\ changes' = Tail(changes)
  /\ subscriptions' = IF Head(changes).op = "add"
                        THEN subscriptions \cup {Head(changes).topic}
                        ELSE subscriptions \ {Head(changes).topic}
  /\ Broadcast(Head(changes))
  /\ UNCHANGED <<held, requests, joined>>

HandleMessage ==
  /\ requests # <<>>
  /\ requests' = Tail(requests)
  /\ LET m == Head(requests) IN
     Broadcast(IF m.op = "list"
                 THEN [op |-> "list", cookie |-> m.cookie, topics |-> subscriptions] ELSE m)
  /\ UNCHANGED <<held, changes, subscriptions, joined>>

AgentExchange == HandleSubscription \/ HandleMessage

InitExchange ==
  /\ held = [c \in Clients |-> {}] /\ subscriptions = {}
  /\ changes = <<>> /\ requests = <<>> /\ bus = <<>>
  /\ joined = FALSE /\ lost = 0

=============================================================================
