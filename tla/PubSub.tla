------------------------------- MODULE PubSub -------------------------------
(***************************************************************************)
(* The Gossipsub publisher/subscriber of a network of nodes                *)
(* (protocol/src/pubsub/gossipsub.rs).  On every node the service handle   *)
(* puts requests into an unbounded channel, and one worker polls the swarm *)
(* and the channel in turn.  A request carries the sending half of a       *)
(* channel of its own: a one-shot for its answer or, for subscribe, the    *)
(* stream of messages it gives back to its caller.                         *)
(*                                                                         *)
(* The swarm and the gossip protocol are libp2p's (external): a published  *)
(* or forwarded message goes to every connected node that is subscribed to *)
(* its topic, a message whose identifier was seen before is ignored, and a *)
(* connection that is lost takes the messages on it along.  A node has an  *)
(* address on each of its interfaces, and listens on one of them, or on    *)
(* all when it is asked to listen on the unspecified address, as the       *)
(* command line tools do by default.                                       *)
(***************************************************************************)
EXTENDS Naturals, Sequences, FiniteSets

CONSTANTS Nodes,
          Interfaces,       \* the network interfaces of a node
          Wildcard,         \* the unspecified address, /ip4/0.0.0.0
          BadAddresses,     \* addresses that no transport of the swarm supports
          Topics,           \* topic names
          Data,             \* message payloads
          Tickets,          \* identifies the channel a request brings along
          None              \* no channel

ASSUME PubSubAssumption == None \notin Tickets

\* The addresses of a node, of all nodes, those a transport supports, and all.
Local(n) == {n} \X Interfaces
Sockets == Nodes \X Interfaces
Supported == Sockets \cup {Wildcard}
Addresses == Supported \cup BadAddresses

VARIABLES requests,     \* to_worker / from_service: node -> requests, oldest first
          replies,      \* one-shot channels: ticket -> at most one answer
          streams,      \* message channels: ticket -> messages not yet taken
          dropped,      \* channels whose receiving half is dropped
          inbox,        \* worker: node -> topic hash -> ticket of a stream
          swarm,        \* swarm: node -> subscriptions, addresses, known messages
          links,        \* connections: sets of two nodes
          wire          \* messages in flight over a connection

psvars == <<requests, replies, streams, dropped, inbox, swarm, links, wire>>

\* The two keys that Topic derives from a name; messages carry the first.
no_hash(topic) == <<topic, "plain">>
sha256_hash(topic) == <<topic, "sha256">>
TopicHashes == {no_hash(t) : t \in Topics} \cup {sha256_hash(t) : t \in Topics}

\* message_id_fn: a message is known by its payload alone.
message_id(data) == data

\* Workers just created, or that have done no more than make some connections.
InitWorkers(linked) ==
    /\ replies = [k \in Tickets |-> <<>>]
    /\ streams = [k \in Tickets |-> <<>>]
    /\ inbox = [n \in Nodes |-> [h \in TopicHashes |-> None]]
    /\ swarm = [n \in Nodes |-> [topics |-> {}, binding |-> {},
                                 listeners |-> ({n} \cap UNION linked) \X Interfaces,
                                 dialing |-> {}, received |-> {}]]
    /\ links = linked
    /\ wire = {}

-----------------------------------------------------------------------------
\* The service: every method puts one request into the channel.

Listen(addr, k)        == [op |-> "Listen", addr |-> addr, id |-> k]
Connect(addr, k)       == [op |-> "Connect", addr |-> addr, id |-> k]
Listeners(k)           == [op |-> "Listeners", id |-> k]
Subscribe(topic, k)    == [op |-> "Subscribe", topic |-> topic, id |-> k]
Unsubscribe(topic, k)  == [op |-> "Unsubscribe", topic |-> topic, id |-> k]
Publish(topic, data)   == [op |-> "Publish", topic |-> topic, data |-> data, id |-> None]

\* Faulty: the newest request is served first.
SendFirst(n, request) == requests' = [requests EXCEPT ![n] = <<request>> \o @]

unbounded_send(n, request) == requests' = [requests EXCEPT ![n] = Append(@, request)]

-----------------------------------------------------------------------------
\* The swarm (external).

Peers(n, topic) == {m \in Nodes \ {n} : {n, m} \in links /\ topic \in swarm[m].topics}

Copies(via, to, from, topic, data) ==
    {[via |-> via, to |-> m, from |-> from, topic |-> topic, data |-> data] : m \in to}

\* The addresses that listening on an address leads to: one for each interface, or
\* the address itself if it is one of the node's; another's is never bound.
Resolved(n, addr) == IF addr = Wildcard THEN Local(n) ELSE {addr} \cap Local(n)

\* An address that a listener of the swarm resolves to is bound, sooner or later.
NewListenAddr(n, addr) ==
    /\ \E a \in swarm[n].binding : addr \in Resolved(n, a)
    /\ addr \notin swarm[n].listeners
    /\ swarm' = [swarm EXCEPT ![n].listeners = @ \cup {addr}]
    /\ UNCHANGED <<requests, replies, streams, dropped, inbox, links, wire>>

\* A dial ends: with a connection if somebody listens there, without one if not.
DialEnds(n, addr) ==
    /\ addr \in swarm[n].dialing
    /\ swarm' = [swarm EXCEPT ![n].dialing = @ \ {addr}]
    /\ links' = links \cup {{n, m} : m \in {m \in Nodes \ {n} : addr \in swarm[m].listeners}}
    /\ UNCHANGED <<requests, replies, streams, dropped, inbox, wire>>

\* A connection is lost, with the messages on it.
LinkDown(link) ==
    /\ link \in links
    /\ links' = links \ {link}
    /\ wire' = {w \in wire : {w.via, w.to} # link}
    /\ UNCHANGED <<requests, replies, streams, dropped, inbox, swarm>>

-----------------------------------------------------------------------------
\* The worker's handlers.

\* An answer nobody waits for is lost.
answer(k, ok, addrs) ==
    replies' = IF k \in dropped THEN replies
               ELSE [replies EXCEPT ![k] = <<[ok |-> ok, addrs |-> addrs]>>]

\* listen_on adds a listener; it fails only if the address is not supported.
listen(n, addr, k) ==
    /\ swarm' = IF addr \in Supported THEN [swarm EXCEPT ![n].binding = @ \cup {addr}]
                ELSE swarm
    /\ answer(k, addr \in Supported, {})
    /\ UNCHANGED <<inbox, wire>>

\* Faulty: an address that cannot be dialled gets no answer.
ConnectOrSilence(n, addr, k) ==
    /\ swarm' = IF addr \in Supported THEN [swarm EXCEPT ![n].dialing = @ \cup {addr}]
                ELSE swarm
    /\ IF addr \in Supported THEN answer(k, TRUE, {}) ELSE UNCHANGED replies
    /\ UNCHANGED <<inbox, wire>>

\* dial_addr starts a dial; it fails only if the address is not supported.
connect(n, addr, k) ==
    /\ swarm' = IF addr \in Supported THEN [swarm EXCEPT ![n].dialing = @ \cup {addr}]
                ELSE swarm
    /\ answer(k, addr \in Supported, {})
    /\ UNCHANGED <<inbox, wire>>

\* Faulty: the external addresses are taken for those it listens on.
ListenersOrExternal(n, k) ==
    /\ answer(k, TRUE, Local(n))
    /\ UNCHANGED <<swarm, inbox, wire>>

listeners(n, k) ==
    /\ answer(k, TRUE, swarm[n].listeners)
    /\ UNCHANGED <<swarm, inbox, wire>>

\* Faulty: a second subscription takes the topic over.
SubscribeAgain(n, topic, k) ==
    /\ swarm' = [swarm EXCEPT ![n].topics = @ \cup {topic}]
    /\ inbox' = [inbox EXCEPT ![n][no_hash(topic)] = k]
    /\ UNCHANGED <<replies, wire>>

\* A second subscription is ignored: its stream's sending half is dropped.
subscribe(n, topic, k) ==
    /\ IF topic \notin swarm[n].topics
       THEN /\ swarm' = [swarm EXCEPT ![n].topics = @ \cup {topic}]
            /\ inbox' = [inbox EXCEPT ![n][no_hash(topic)] = k]
       ELSE UNCHANGED <<swarm, inbox>>
    /\ UNCHANGED <<replies, wire>>

\* The inbox is removed under the other hash than it was inserted under.
unsubscribe(n, topic, k) ==
    /\ IF topic \in swarm[n].topics
       THEN /\ swarm' = [swarm EXCEPT ![n].topics = @ \ {topic}]
            /\ inbox' = [inbox EXCEPT ![n][sha256_hash(topic)] = None]
       ELSE UNCHANGED <<swarm, inbox>>
    /\ answer(k, topic \in swarm[n].topics, {})
    /\ UNCHANGED wire

publish(n, topic, data) ==
    /\ swarm' = [swarm EXCEPT ![n].received = @ \cup {message_id(data)}]
    /\ wire' = wire \cup Copies(n, Peers(n, topic), n, topic, data)
    /\ UNCHANGED <<replies, inbox>>

\* poll, its second loop: the oldest request is taken from the channel.
PollRequest(n) ==
    /\ requests[n] # <<>>
    /\ requests' = [requests EXCEPT ![n] = Tail(@)]
    /\ LET r == Head(requests[n])
       IN  \/ r.op = "Listen" /\ listen(n, r.addr, r.id)
           \/ r.op = "Connect" /\ connect(n, r.addr, r.id)
           \/ r.op = "Listeners" /\ listeners(n, r.id)
           \/ r.op = "Subscribe" /\ subscribe(n, r.topic, r.id)
           \/ r.op = "Unsubscribe" /\ unsubscribe(n, r.topic, r.id)
           \/ r.op = "Publish" /\ publish(n, r.topic, r.data)
    /\ UNCHANGED <<streams, dropped, links>>

\* Faulty: known messages are reported again.
ReportedAgain(n, w) == w.topic \in swarm[n].topics

\* What the swarm does with a message that arrives: a known one is ignored, a
\* new one is forwarded and reported if the node is subscribed.
Reported(n, w) ==
    message_id(w.data) \notin swarm[n].received /\ w.topic \in swarm[n].topics

\* poll, its first loop: a message of the swarm goes to the inbox of its topic.
PollSwarm(n, w) ==
    LET k == inbox[n][no_hash(w.topic)]
        forwards == Copies(n, Peers(n, w.topic) \ {w.via, w.from}, w.from, w.topic, w.data)
    IN  /\ w \in wire
        /\ w.to = n
        /\ swarm' = [swarm EXCEPT ![n].received = @ \cup {message_id(w.data)}]
        /\ wire' = (wire \ {w}) \cup (IF Reported(n, w) THEN forwards ELSE {})
        /\ streams' = IF Reported(n, w) /\ k # None /\ k \notin dropped
                      THEN [streams EXCEPT ![k] = Append(@, [from |-> w.from, data |-> w.data])]
                      ELSE streams
        /\ UNCHANGED <<requests, replies, dropped, inbox, links>>

Swarms ==
    \/ \E n \in Nodes : \E addr \in Local(n) : NewListenAddr(n, addr)
    \/ \E n \in Nodes : \E addr \in swarm[n].dialing : DialEnds(n, addr)

Workers ==
    \/ \E n \in Nodes : PollRequest(n)
    \/ \E n \in Nodes, w \in wire : PollSwarm(n, w)

\* Workers are polled again and again (the heartbeat of Gossipsub wakes them),
\* and what the network started, it ends.
WorkerFairness ==
    /\ \A n \in Nodes : WF_psvars(PollRequest(n))
    /\ \A n \in Nodes : WF_psvars(\E w \in wire : PollSwarm(n, w))
    /\ \A n \in Nodes : /\ \A i \in Interfaces : WF_psvars(NewListenAddr(n, <<n, i>>))
                        /\ \A addr \in Supported : WF_psvars(DialEnds(n, addr))

=============================================================================
