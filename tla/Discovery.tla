------------------------------ MODULE Discovery ------------------------------
(***************************************************************************)
(* Peer discovery over the publisher/subscriber                            *)
(* (protocol/src/pubsub/discovery.rs), on nodes that start the way         *)
(* io/src/source/virt.rs and io/src/sink/virt.rs start them: listen, dial  *)
(* the boot nodes once, start discovery, spawn the worker.  Every node     *)
(* announces its addresses on the discovery topic once a minute, and dials *)
(* the addresses that others announce.                                     *)
(*                                                                         *)
(* A timestamp makes every announcement a new message.  Announcements of   *)
(* one node differ in nothing else here, so making one makes its payload   *)
(* unknown again everywhere; the bound is that a node's announcement has   *)
(* been dealt with when, a minute later, it makes the next.                *)
(***************************************************************************)
EXTENDS PubSub

CONSTANTS topic,        \* DISCOVERY_TOPIC_NAME
          Bootnodes,    \* node -> the addresses it dials when it starts
          MaxInFlight,  \* bound on the nodes announcing at the same time
          MaxDowns      \* bound on the connections lost

\* The channels of a node: the answers discovery and connect wait for, the
\* stream of announcements, and those nobody waits for.
Asked(n)  == <<n, "listeners">>
Dialed(n) == <<n, "connect">>
Heard(n)  == <<n, "inbox">>
Ignored(n) == <<n, "ignored">>

Channels == Nodes \X {"listeners", "connect", "inbox", "ignored"}

DiscoveryMessage(n, addrs) == [peer_id |-> n, listeners |-> addrs]
DiscoveryMessages ==
    UNION {{DiscoveryMessage(n, addrs) : addrs \in (SUBSET Local(n)) \ {{}}} : n \in Nodes}

VARIABLES announcer,    \* node -> where its announcing task is
          dialer,       \* node -> what its reading task has still to dial
          downs         \* the number of connections lost

dvars == <<psvars, announcer, dialer, downs>>

\* Every node has been started (its worker may still take any time to run):
\* listen, connect to the boot nodes and subscribe are in the worker's channel.
Started(n) ==
    <<Listen(Wildcard, Ignored(n))>>
      \o [j \in DOMAIN Bootnodes[n] |-> Connect(Bootnodes[n][j], Ignored(n))]
      \o <<Subscribe(topic, Heard(n))>>

DInit ==
    /\ requests = [n \in Nodes |-> Started(n)]
    /\ dropped = {Ignored(n) : n \in Nodes}
    /\ InitWorkers({})
    /\ announcer = [n \in Nodes |-> "loop"]
    /\ dialer = [n \in Nodes |-> [addrs |-> {}, waiting |-> FALSE]]
    /\ downs = 0

\* No announcement of a node is on its way any more.
Dealt(n) ==
    /\ announcer[n] = "loop"
    /\ \A w \in wire : w.from # n
    /\ \A j \in DOMAIN requests[n] : requests[n][j].op # "Publish"
    /\ \A m \in Nodes : /\ \A j \in DOMAIN streams[Heard(m)] : streams[Heard(m)][j].from # n
                        /\ Local(n) \cap (dialer[m].addrs \cup swarm[m].dialing) = {}

\* discovery: a round begins, after the sleep of the last one.
AskListeners(n) ==
    /\ announcer[n] = "loop"
    /\ Dealt(n)
    /\ Cardinality({m \in Nodes : ~Dealt(m)}) < MaxInFlight
    /\ announcer' = [announcer EXCEPT ![n] = "asked"]
    /\ unbounded_send(n, Listeners(Asked(n)))
    /\ UNCHANGED <<replies, streams, dropped, inbox, swarm, links, wire, dialer, downs>>

\* discovery: the addresses are announced if there are any; the loop goes on
\* whether or not there was something to announce.
Announce(n) ==
    LET addrs == replies[Asked(n)][1].addrs
        message == DiscoveryMessage(n, addrs)
    IN  /\ announcer[n] = "asked"
        /\ replies[Asked(n)] # <<>>
        /\ replies' = [replies EXCEPT ![Asked(n)] = <<>>]
        /\ announcer' = [announcer EXCEPT ![n] = "loop"]
        /\ IF addrs # {}
           THEN /\ unbounded_send(n, Publish(topic, message))
                /\ swarm' = [m \in Nodes |-> [swarm[m] EXCEPT !.received = @ \ {message}]]
           ELSE UNCHANGED <<requests, swarm>>
        /\ UNCHANGED <<streams, dropped, inbox, links, wire, dialer, downs>>

\* Faulty: the node's own messages are handled instead.
HandlesOwn(n, message) == message.from = n

Handles(n, message) == message.from # n

\* start and connect: the next message of the stream, unless it is the node's own.
HearMessage(n) ==
    LET message == Head(streams[Heard(n)])
    IN  /\ dialer[n].addrs = {}
        /\ streams[Heard(n)] # <<>>
        /\ streams' = [streams EXCEPT ![Heard(n)] = Tail(@)]
        /\ dialer' = [dialer EXCEPT ![n].addrs =
                        IF Handles(n, message) THEN message.data.listeners ELSE {}]
        /\ UNCHANGED <<requests, replies, dropped, inbox, swarm, links, wire, announcer, downs>>

\* connect: one address is dialled, and the answer awaited before the next.
DialPeer(n, addr) ==
    /\ addr \in dialer[n].addrs
    /\ ~dialer[n].waiting
    /\ dialer' = [dialer EXCEPT ![n].waiting = TRUE]
    /\ unbounded_send(n, Connect(addr, Dialed(n)))
    /\ UNCHANGED <<replies, streams, dropped, inbox, swarm, links, wire, announcer, downs>>

\* Faulty: an address is dialled again and again.
PeerDialedAgain(n, addr) ==
    /\ addr \in dialer[n].addrs
    /\ dialer[n].waiting
    /\ replies[Dialed(n)] # <<>>
    /\ replies' = [replies EXCEPT ![Dialed(n)] = <<>>]
    /\ dialer' = [dialer EXCEPT ![n].waiting = FALSE]
    /\ UNCHANGED <<requests, streams, dropped, inbox, swarm, links, wire, announcer, downs>>

PeerDialed(n, addr) ==
    /\ addr \in dialer[n].addrs
    /\ dialer[n].waiting
    /\ replies[Dialed(n)] # <<>>
    /\ replies' = [replies EXCEPT ![Dialed(n)] = <<>>]
    /\ dialer' = [dialer EXCEPT ![n] = [addrs |-> @.addrs \ {addr}, waiting |-> FALSE]]
    /\ UNCHANGED <<requests, streams, dropped, inbox, swarm, links, wire, announcer, downs>>

\* The network is in one piece, and everyone is connected to everyone.
Connected(edges) ==
    \A S \in (SUBSET Nodes) \ {{}, Nodes} : \E l \in edges : l \cap S # {} /\ l \ S # {}

Full == \A m, n \in Nodes : m # n => {m, n} \in links

\* A connection is lost, but not the last one between two parts of the network:
\* boot nodes are dialled once, and nothing else would join the parts again.
Down(link) ==
    /\ downs < MaxDowns
    /\ Connected(links \ {link})
    /\ LinkDown(link)
    /\ downs' = downs + 1
    /\ UNCHANGED <<announcer, dialer>>

Tasks(n) ==
    \/ AskListeners(n)
    \/ Announce(n)
    \/ HearMessage(n)
    \/ \E addr \in dialer[n].addrs : DialPeer(n, addr) \/ PeerDialed(n, addr)

DNext ==
    \/ \E n \in Nodes : Tasks(n)
    \/ \E l \in links : Down(l)
    \/ (Workers \/ Swarms) /\ UNCHANGED <<announcer, dialer, downs>>

\* The executor runs every task that can go on.
DSpec ==
    /\ DInit
    /\ [][DNext]_dvars
    /\ WorkerFairness
    /\ \A n \in Nodes : /\ SF_dvars(AskListeners(n))
                        /\ WF_dvars(Announce(n))
                        /\ WF_dvars(HearMessage(n))
                        /\ WF_dvars(\E addr \in dialer[n].addrs :
                                        DialPeer(n, addr) \/ PeerDialed(n, addr))

-----------------------------------------------------------------------------

\* Once the network is in one piece, every node ends up connected to every
\* other, also after connections are lost: what a node announces reaches all.
EveryoneConnects == <>Connected(links) => <>[]Full

\* Neither task of a node waits for ever: the announcements go on, and what is
\* heard is dialled.
TasksGoOn ==
    \A n \in Nodes : /\ []<>(announcer[n] = "loop")
                     /\ []<>(dialer[n].addrs = {})

=============================================================================
