---------------------------- MODULE PubSubClients ----------------------------
(***************************************************************************)
(* Clients of the publisher/subscriber: several of them per node share the *)
(* service handle, call its methods in any order without waiting for       *)
(* answers, read their streams at their own pace, and drop streams.        *)
(***************************************************************************)
EXTENDS PubSub

CONSTANTS MaxCalls,     \* bound on the calls made
          Calls,        \* the calls that clients make: [node, op, ...]
          Linked,       \* the connections at the beginning
          MaxDowns      \* bound on the connections lost

\* The methods of the service with their arguments, and the node they are called on.
Methods ==
    [node : Nodes, op : {"Listen", "Connect"}, addr : Addresses]
        \cup [node : Nodes, op : {"Listeners"}]
        \cup [node : Nodes, op : {"Subscribe", "Unsubscribe"}, topic : Topics]
        \cup [node : Nodes, op : {"Publish"}, topic : Topics, data : Data]

ASSUME ClientsAssumption ==
    /\ MaxCalls \in Nat
    /\ Tickets = 1 .. MaxCalls
    /\ Calls \subseteq Methods

VARIABLES log,      \* the calls made so far; a call's position is its ticket
          taken,    \* ticket -> the messages its reader has taken from the stream
          downs     \* the number of connections lost

cvars == <<psvars, log, taken, downs>>

CInit ==
    /\ requests = [n \in Nodes |-> <<>>]
    /\ dropped = {}
    /\ InitWorkers(Linked)
    /\ log = <<>>
    /\ taken = [k \in Tickets |-> <<>>]
    /\ downs = 0

Request(c, k) ==
    IF c.op = "Listen" THEN Listen(c.addr, k)
    ELSE IF c.op = "Connect" THEN Connect(c.addr, k)
    ELSE IF c.op = "Listeners" THEN Listeners(k)
    ELSE IF c.op = "Subscribe" THEN Subscribe(c.topic, k)
    ELSE IF c.op = "Unsubscribe" THEN Unsubscribe(c.topic, k)
    ELSE Publish(c.topic, c.data)

\* A client calls a method of the service.
Call(c) ==
    /\ Len(log) < MaxCalls
    /\ log' = Append(log, c)
    /\ unbounded_send(c.node, Request(c, Len(log) + 1))
    /\ UNCHANGED <<replies, streams, dropped, inbox, swarm, links, wire, taken, downs>>

\* A reader takes the next message from its stream.
Take(k) ==
    /\ k \notin dropped
    /\ streams[k] # <<>>
    /\ taken' = [taken EXCEPT ![k] = Append(@, Head(streams[k]))]
    /\ streams' = [streams EXCEPT ![k] = Tail(@)]
    /\ UNCHANGED <<requests, replies, dropped, inbox, swarm, links, wire, log, downs>>

\* A reader drops its stream, with what is in it.
Drop(k) ==
    /\ k \in DOMAIN log
    /\ log[k].op = "Subscribe"
    /\ k \notin dropped
    /\ dropped' = dropped \cup {k}
    /\ streams' = [streams EXCEPT ![k] = <<>>]
    /\ UNCHANGED <<requests, replies, inbox, swarm, links, wire, log, taken, downs>>

Down(link) ==
    /\ downs < MaxDowns
    /\ LinkDown(link)
    /\ downs' = downs + 1
    /\ UNCHANGED <<log, taken>>

CNext ==
    \/ \E c \in Calls : Call(c)
    \/ \E k \in Tickets : Take(k) \/ Drop(k)
    \/ \E l \in links : Down(l)
    \/ (Workers \/ Swarms) /\ UNCHANGED <<log, taken, downs>>

CSpec == CInit /\ [][CNext]_cvars /\ WorkerFairness

-----------------------------------------------------------------------------

\* The messages a stream has carried, oldest first.
Carried(k) == taken[k] \o streams[k]

\* The worker still has, or will have, the sending half of a stream.
Waiting(k) == \E j \in DOMAIN requests[log[k].node] : requests[log[k].node][j].id = k
Fed(k) == \E h \in TopicHashes : inbox[log[k].node][h] = k

SubscribeCalls == {k \in DOMAIN log : log[k].op = "Subscribe"}

\* A reader gets only what was published on the topic it subscribed to, by the
\* node it is said to be from, and never the same payload twice, whoever else
\* subscribes, unsubscribes and publishes on its node in the meantime.
ReadersGetTheirTopic ==
    \A k \in SubscribeCalls :
        /\ \A j \in DOMAIN Carried(k) : \E p \in DOMAIN log :
               /\ log[p].op = "Publish"
               /\ log[p].topic = log[k].topic
               /\ log[p].node = Carried(k)[j].from
               /\ log[p].data = Carried(k)[j].data
               /\ log[p].node # log[k].node
        /\ \A i, j \in DOMAIN Carried(k) :
               Carried(k)[i].data = Carried(k)[j].data => i = j

\* The calls of one node take effect in the order they were made: unsubscribe
\* answers true exactly if the last call on its topic before it, at its node,
\* was a subscribe, although callers wait for nothing.
AnswersFollowCallOrder ==
    \A k \in DOMAIN log :
        log[k].op = "Unsubscribe" /\ replies[k] # <<>> =>
            LET before == {j \in 1 .. k - 1 : /\ log[j].node = log[k].node
                                              /\ log[j].op \in {"Subscribe", "Unsubscribe"}
                                              /\ log[j].topic = log[k].topic}
            IN  replies[k][1].ok <=>
                  \E j \in before : /\ log[j].op = "Subscribe"
                                    /\ \A i \in before : i <= j

\* While a topic is subscribed its messages go to the first of the subscribe
\* calls that came after the last unsubscribe, whatever was called since.
FirstReaderKeepsTopic ==
    \A n \in Nodes : \A t \in swarm[n].topics :
        LET Served(op) == {k \in DOMAIN log : /\ log[k].node = n
                                              /\ log[k].op = op
                                              /\ log[k].topic = t
                                              /\ ~Waiting(k)}
            since == {k \in Served("Subscribe") : \A j \in Served("Unsubscribe") : j < k}
        IN  /\ inbox[n][no_hash(t)] \in since
            /\ \A k \in since : inbox[n][no_hash(t)] <= k

\* Every call that returns a future gets its answer.
AnswersArrive ==
    \A k \in Tickets :
        (k \in DOMAIN log /\ log[k].op \in {"Listen", "Connect", "Listeners", "Unsubscribe"})
            ~> replies[k] # <<>>

\* The addresses a node reports are addresses of its own that some earlier call,
\* which was told of its success, asked it to listen on, the address itself or the
\* unspecified one: not those of its peers, of interfaces nobody asked for, or of a
\* call that came later or was refused.
ReportedWereAskedFor ==
    \A k \in DOMAIN log :
        log[k].op = "Listeners" /\ replies[k] # <<>> =>
            \A a \in replies[k][1].addrs : \E j \in 1 .. k - 1 :
                /\ log[j].node = log[k].node
                /\ log[j].op = "Listen"
                /\ a \in Resolved(log[j].node, log[j].addr)
                /\ replies[j] # <<>> /\ replies[j][1].ok

\* connect answers true when connected (its documentation).
TrueMeansConnected ==
    \A k \in DOMAIN log :
        log[k].op = "Connect" /\ replies[k] # <<>> /\ replies[k][1].ok =>
            downs > 0 \/ \E m \in Nodes : /\ log[k].addr \in Local(m)
                                           /\ {log[k].node, m} \in links

\* subscribe returns a stream of incoming messages (its documentation): the
\* stream does not end while its topic is subscribed and nobody else reads it.
OnlyReaderIsFed ==
    \A k \in SubscribeCalls \ dropped :
        /\ ~Waiting(k)
        /\ log[k].topic \in swarm[log[k].node].topics
        /\ \A j \in SubscribeCalls \ (dropped \cup {k}) :
               log[j].node # log[k].node \/ log[j].topic # log[k].topic
        => Fed(k)

=============================================================================
