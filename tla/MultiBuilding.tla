--------------------------- MODULE MultiBuilding ----------------------------
(***************************************************************************)
(* The multi-building agent on the exchange of its platform.  It keeps one *)
(* SUB socket for each building whose messages local agents subscribe to,  *)
(* and one PUSH socket for each building they send to.                     *)
(***************************************************************************)
EXTENDS Exchange

CONSTANTS
  BuildingOf,    \* the building in a topic
  Buildings,
  Hosts,         \* the buildings that ever have an address in the launch file
  LastCleanup    \* bound on sequence

ASSUME BuildingAssumption ==
  /\ BuildingOf \in [Topics -> Buildings]
  /\ Hosts \subseteq Buildings
  /\ LastCleanup \in Nat

VARIABLES
  hosts,     \* the buildings with an address in the launch file
  steady,    \* those that had one ever since the agent started
  alive,     \* no exception has left the loop
  listed,    \* the answer to the request of setup was taken
  subs,      \* the SUB sockets: for each building how often a topic is set
  pubs,      \* the PUSH sockets: for each building the period of its last use
  sequence,  \* the number of cleanups
  idle       \* cleanups since a socket was last used, 2 for two or more

vars == <<exchange, hosts, steady, alive, listed, subs, pubs, sequence, idle>>

Without(f, b) == [x \in DOMAIN f \ {b} |-> f[x]]
With(f, b, v) == [x \in DOMAIN f \cup {b} |-> IF x = b THEN v ELSE f[x]]

AlwaysInit(cookie) == Append(requests, [op |-> "list", cookie |-> "init"])
Requests(cookie) == Append(requests, [op |-> "list", cookie |-> cookie])

\* add_subscription for each topic of a set: the socket of a building is
\* connected with its first topic, and topics of buildings the launch file does
\* not know now are errors, which nobody comes back to.
NoTopics == [t \in Topics |-> 0]
SocketOf(b) == IF b \in DOMAIN subs THEN subs[b] ELSE NoTopics

FirstOnly(topics) ==
  LET added == { t \in topics : BuildingOf[t] \in hosts \ DOMAIN subs } IN
  [b \in DOMAIN subs \cup { BuildingOf[t] : t \in added } |->
     IF b \in DOMAIN subs THEN subs[b]
     ELSE [t \in Topics |-> IF t \in added /\ BuildingOf[t] = b THEN 1 ELSE 0]]
AddSubscriptions(topics) ==
  LET known == { t \in topics : BuildingOf[t] \in hosts \cup DOMAIN subs } IN
  [b \in DOMAIN subs \cup { BuildingOf[t] : t \in known } |->
     [t \in Topics |-> SocketOf(b)[t] + (IF t \in known /\ BuildingOf[t] = b THEN 1 ELSE 0)]]

-----------------------------------------------------------------------------
(* The handlers of messages from the exchange.                             *)

Takes(op) == alive /\ bus # <<>> /\ Head(bus).op = op
Receives(op) ==
  /\ Takes(op)
  /\ bus' = Tail(bus)
  /\ UNCHANGED <<held, changes, subscriptions, joined, lost, hosts, steady>>

\* A process that ends closes its sockets, and what waits at them is lost.
Ends ==
  /\ alive' = FALSE /\ joined' = FALSE /\ bus' = <<>> /\ lost' = 0
  /\ listed' = FALSE /\ steady' = {}
  /\ subs' = <<>> /\ pubs' = <<>> /\ sequence' = 0
  /\ idle' = [b \in Buildings |-> 2]

OnSubscribe ==
  /\ Receives("add")
  /\ subs' = AddSubscriptions({Head(bus).topic})
  /\ UNCHANGED <<requests, alive, listed, pubs, sequence, idle>>

OnUnsubscribe ==
  /\ Receives("remove")
  /\ LET t == Head(bus).topic
         b == BuildingOf[t]
     IN  subs' = IF b \in DOMAIN subs
                   THEN [subs EXCEPT ![b][t] = IF @ > 0 THEN @ - 1 ELSE 0] ELSE subs
  /\ UNCHANGED <<requests, alive, listed, pubs, sequence, idle>>

\* The prefix of the topics is cut off as it is in on_subscription_list.
MiscutInit ==
  /\ Receives("list") /\ Head(bus).cookie = "init"
  /\ listed' = TRUE
  /\ UNCHANGED <<requests, alive, subs, pubs, sequence, idle>>
OnSubscriptionInit ==
  /\ Receives("list") /\ Head(bus).cookie = "init"
  /\ subs' = AddSubscriptions(Head(bus).topics)
  /\ listed' = TRUE
  /\ UNCHANGED <<requests, alive, pubs, sequence, idle>>

\* The loop over self.subs.values() takes each socket for a pair, which
\* raises TypeError: with no socket there is nothing to close, and with one
\* the agent ends.
OnSubscriptionList ==
  /\ Takes("list") /\ Head(bus).cookie = "clean"
  /\ IF subs = <<>>
       THEN /\ bus' = Tail(bus)
            /\ UNCHANGED <<joined, lost, steady, alive, listed, subs, pubs, sequence, idle>>
       ELSE Ends
  /\ UNCHANGED <<held, changes, subscriptions, requests, hosts>>

\* A send that fails drops the socket, which the next send opens again.
StaleSend ==
  \E sent \in BOOLEAN :
    LET b == Head(bus).building IN
    /\ Receives("send")
    /\ UNCHANGED <<requests, alive, listed, subs, sequence>>
    /\ IF b \notin hosts THEN UNCHANGED <<pubs, idle>>
       ELSE /\ pubs' = IF ~sent THEN Without(pubs, b)
                       ELSE IF b \in DOMAIN pubs THEN pubs ELSE With(pubs, b, sequence)
            /\ idle' = [idle EXCEPT ![b] = IF sent THEN 0 ELSE 2]
OnSend ==
  \E sent \in BOOLEAN :
    LET b == Head(bus).building IN
    /\ Receives("send")
    /\ UNCHANGED <<requests, alive, listed, subs, sequence>>
    /\ IF b \notin hosts \cup DOMAIN pubs
         THEN UNCHANGED <<pubs, idle>>
         ELSE /\ pubs' = IF sent THEN With(pubs, b, sequence) ELSE Without(pubs, b)
              /\ idle' = [idle EXCEPT ![b] = IF sent THEN 0 ELSE 2]

\* Both handlers that look a building up read the launch file anew, outside any
\* try: one that cannot be opened or parsed, or has no hosts, ends the agent.
HostsUnreadable ==
  /\ \/ Takes("add") \/ Takes("send")
     \/ Takes("list") /\ Head(bus).cookie = "init" /\ Head(bus).topics # {}
  /\ Ends
  /\ UNCHANGED <<held, changes, subscriptions, requests, hosts>>

HandleSubMessage ==
  \/ OnSubscribe \/ OnUnsubscribe \/ OnSubscriptionInit \/ OnSubscriptionList
  \/ OnSend \/ HostsUnreadable

-----------------------------------------------------------------------------

\* on_cleanup, every cleanup_period.
OnCleanup ==
  /\ alive /\ sequence < LastCleanup /\ Len(requests) < QueueLimit
  /\ requests' = Requests("clean")
  /\ pubs' = [b \in { x \in DOMAIN pubs : pubs[x] = sequence } |-> pubs[b]]
  /\ sequence' = sequence + 1
  /\ idle' = [b \in Buildings |-> IF idle[b] = 0 THEN 1 ELSE 2]
  /\ UNCHANGED <<held, changes, subscriptions, joined, bus, lost,
                 hosts, steady, alive, listed, subs>>

\* handle_republish meets an error: reactor.unregister registers the reactor
\* in the place of the socket, and the next poll raises TypeError.
HandleRepublishFails ==
  /\ subs # <<>>
  /\ Ends
  /\ UNCHANGED <<held, changes, subscriptions, requests, hosts>>

\* The SUB connection of the agent is established, some time after setup.
Join ==
  /\ alive /\ ~joined /\ joined' = TRUE
  /\ UNCHANGED <<held, changes, subscriptions, requests, bus, lost,
                 hosts, steady, alive, listed, subs, pubs, sequence, idle>>

\* A new process asks for the list in its setup.
Restart ==
  /\ ~alive /\ alive' = TRUE
  /\ Len(requests) < QueueLimit
  /\ requests' = Requests("init")
  /\ steady' = hosts
  /\ UNCHANGED <<held, changes, subscriptions, joined, bus, lost,
                 hosts, listed, subs, pubs, sequence, idle>>

\* The launch file is edited.
EditHosts ==
  /\ hosts' \in SUBSET Hosts
  /\ steady' = steady \cap hosts'
  /\ UNCHANGED <<exchange, alive, listed, subs, pubs, sequence, idle>>

\* A local agent publishes to building/send/.
PublishSend(b) ==
  /\ Len(requests) < QueueLimit
  /\ requests' = Append(requests, [op |-> "send", building |-> b])
  /\ UNCHANGED <<held, changes, subscriptions, joined, bus, lost,
                 hosts, steady, alive, listed, subs, pubs, sequence, idle>>

LocalAgents ==
  /\ \E c \in Clients, t \in Topics : Subscribe(c, t) \/ Unsubscribe(c, t)
  /\ UNCHANGED <<hosts, steady, alive, listed, subs, pubs, sequence, idle>>

Broker ==
  /\ AgentExchange
  /\ UNCHANGED <<hosts, steady, alive, listed, subs, pubs, sequence, idle>>

Init ==
  /\ InitExchange
  /\ hosts \in SUBSET Hosts /\ steady = {}
  /\ alive = FALSE /\ listed = FALSE
  /\ subs = <<>> /\ pubs = <<>> /\ sequence = 0
  /\ idle = [b \in Buildings |-> 2]

Next ==
  \/ LocalAgents
  \/ \E b \in Buildings : PublishSend(b)
  \/ Broker
  \/ HandleSubMessage \/ OnCleanup \/ HandleRepublishFails
  \/ Join \/ Restart \/ EditHosts

Spec == Init /\ [][Next]_vars

\* The exchange serves both of its sockets at every poll, and the agent its own.
\* The bound on what is lost stops the exchange only after a loss.
FairSpec ==
  Spec /\ WF_vars(HandleSubscription /\ Broker) /\ WF_vars(HandleMessage /\ Broker)
       /\ WF_vars(HandleSubMessage)

-----------------------------------------------------------------------------

\* Every variable keeps its type; the counts of a socket stay small because
\* the exchange announces a topic once, as long as no announcement is lost.
TypeOK ==
  /\ \A c \in Clients : held[c] \subseteq Topics
  /\ changes \in Seq(Changes)
  /\ \A m \in ToSet(requests) : m.op \in {"list", "send"}
  /\ \A m \in ToSet(bus) : m.op \in {"add", "remove", "list", "send"}
  /\ {joined, alive, listed} \subseteq BOOLEAN /\ lost \in 0 .. MaxLost
  /\ steady \subseteq hosts /\ hosts \subseteq Hosts
  /\ \A b \in DOMAIN subs :
       subs[b] \in [Topics -> Nat] /\ (lost = 0 => subs[b] \in [Topics -> 0 .. QueueLimit + 1])
  /\ DOMAIN subs \subseteq Hosts /\ DOMAIN pubs \subseteq Hosts
  /\ sequence \in 0 .. LastCleanup

\* The set of the exchange is what its clients are subscribed to, as soon as
\* it has read what the XPUB socket tells.
SubscriptionsExact == changes = <<>> => subscriptions = Held

\* Once the list asked for at the start was taken, an agent with nothing left
\* to read has a socket subscribed to every topic under way in the building,
\* however subscriptions, the list, edits of the launch file and a restart were
\* interleaved: unless the exchange dropped a message for it, and for buildings
\* whose address was in the file all the while.
Connected ==
  alive /\ listed /\ bus = <<>> /\ lost = 0 =>
    \A t \in subscriptions :
      BuildingOf[t] \in steady => BuildingOf[t] \in DOMAIN subs /\ subs[BuildingOf[t]][t] > 0

\* A PUSH socket in use is kept by a cleanup, one without use is dropped by
\* the second, and one whose send failed is dropped at once.
PubsFresh == \A b \in Buildings : b \in DOMAIN pubs <=> idle[b] < 2

\* A topic local agents hold is subscribed to at its building in the end,
\* unless it is given up, the agent ends, the exchange drops a message for it or
\* the building's address is taken out of the launch file.
Heard ==
  \A t \in Topics :
    (alive /\ listed /\ t \in Held /\ BuildingOf[t] \in steady)
      ~> (~alive \/ t \notin Held \/ lost > 0 \/ BuildingOf[t] \notin steady
            \/ (BuildingOf[t] \in DOMAIN subs /\ subs[BuildingOf[t]][t] > 0))

=============================================================================
