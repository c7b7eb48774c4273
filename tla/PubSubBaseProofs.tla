-------------------------- MODULE PubSubBaseProofs --------------------------
(***************************************************************************)
(* What the proofs about the publisher/subscriber and its clients share,   *)
(* for any nodes, topics, payloads, calls and connections: the types, the  *)
(* queue of requests and what every kind of step does to them.             *)
(***************************************************************************)
EXTENDS PubSubClients, TLAPS

\* A leaf is for Zenon unless it names another prover.
USE ZenonT(60)

-----------------------------------------------------------------------------
\* Sequences.

\* What a sequence with one more element holds.
LEMMA Appended ==
    ASSUME NEW S, NEW s \in Seq(S), NEW x \in S, NEW z, z = Append(s, x)
    PROVE  /\ z \in Seq(S)
           /\ Len(s) \in Nat /\ Len(z) = Len(s) + 1
           /\ DOMAIN s = 1 .. Len(s) /\ DOMAIN z = 1 .. Len(s) + 1
           /\ \A k \in DOMAIN s : k \in DOMAIN z /\ z[k] = s[k]
           /\ z[Len(s) + 1] = x
BY SMTT(60)

\* The head of a queue moves to the end of what was served.
LEMMA HeadMoves ==
    ASSUME NEW S, NEW t \in Seq(S), NEW s \in Seq(S), s # <<>>
    PROVE  Append(t, Head(s)) \o Tail(s) = t \o s
BY SMTT(60)

\* Appending to the queue appends to the whole history.
LEMMA AppendedLast ==
    ASSUME NEW S, NEW t \in Seq(S), NEW s \in Seq(S), NEW x \in S
    PROVE  t \o Append(s, x) = Append(t \o s, x)
BY SMTT(60)

\* What an empty part of a history says.
LEMMA EmptyParts ==
    ASSUME NEW S, NEW s \in Seq(S), NEW t \in Seq(S)
    PROVE  s \o <<>> = s /\ (s \o t = <<>> <=> s = <<>> /\ t = <<>>)
BY SMTT(60)

-----------------------------------------------------------------------------
\* Types.

Swarm == [topics : SUBSET Topics, binding : SUBSET Supported, listeners : SUBSET Sockets,
          dialing : SUBSET Supported, received : SUBSET Data]

Answers == [ok : BOOLEAN, addrs : SUBSET Sockets]

Messages == [from : Nodes, data : Data]

Requests == {Request(c, k) : c \in Calls, k \in Tickets}

ClientsOK ==
    /\ requests \in [Nodes -> Seq(Requests)]
    /\ replies \in [Tickets -> Seq(Answers)]
    /\ streams \in [Tickets -> Seq(Messages)]
    /\ dropped \subseteq Tickets
    /\ inbox \in [Nodes -> [TopicHashes -> Tickets \cup {None}]]
    /\ swarm \in [Nodes -> Swarm]
    /\ log \in Seq(Calls)
    /\ Len(log) <= MaxCalls
    /\ taken \in [Tickets -> Seq(Messages)]
    /\ \A w \in wire : w.topic \in Topics /\ w.from \in Nodes /\ w.data \in Data

\* A call names its method, its node and its arguments.
LEMMA CallFields ==
    ASSUME NEW c \in Calls
    PROVE  /\ c.node \in Nodes
           /\ c.op \in {"Listen", "Connect", "Listeners", "Subscribe", "Unsubscribe", "Publish"}
           /\ c.op \in {"Subscribe", "Unsubscribe", "Publish"} => c.topic \in Topics
           /\ c.op = "Publish" => c.data \in Data
<1>1. c \in Methods
  BY ClientsAssumption
<1> QED  BY <1>1 DEF Methods

\* A request is for its call's method, with its arguments and its ticket.
LEMMA RequestFields ==
    ASSUME NEW c \in Calls, NEW k
    PROVE  /\ Request(c, k).op = c.op
           /\ Request(c, k).id = IF c.op = "Publish" THEN None ELSE k
           /\ c.op \in {"Listen", "Connect"} => Request(c, k).addr = c.addr
           /\ c.op \in {"Subscribe", "Unsubscribe", "Publish"} => Request(c, k).topic = c.topic
           /\ c.op = "Publish" => Request(c, k).data = c.data
<1>1. c.op \in {"Listen", "Connect", "Listeners", "Subscribe", "Unsubscribe", "Publish"}
  BY CallFields
<1> QED
  BY <1>1 DEF Request, Listen, Connect, Listeners, Subscribe, Unsubscribe, Publish

\* The two keys of a topic differ, and a key is of one topic only.
LEMMA HashesDiffer ==
    ASSUME NEW t \in Topics, NEW u \in Topics
    PROVE  /\ no_hash(t) \in TopicHashes /\ sha256_hash(t) \in TopicHashes
           /\ no_hash(t) # sha256_hash(u)
           /\ no_hash(t) = no_hash(u) => t = u
BY DEF TopicHashes, no_hash, sha256_hash

\* Records of a swarm with some fields rewritten.
LEMMA SwarmRecords ==
    ASSUME NEW r \in Swarm, NEW ts \in SUBSET Topics, NEW ns \in SUBSET Supported,
           NEW ls \in SUBSET Sockets, NEW ds \in SUBSET Data
    PROVE  /\ [r EXCEPT !.topics = ts] \in Swarm
           /\ [r EXCEPT !.binding = ns] \in Swarm
           /\ [r EXCEPT !.dialing = ns] \in Swarm
           /\ [r EXCEPT !.received = ds] \in Swarm
           /\ [r EXCEPT !.listeners = ls] \in Swarm
BY DEF Swarm

\* The addresses that the listeners of a node resolve to.
Resolves(n, asked) == UNION {Resolved(n, a) : a \in asked}

\* The addresses a node listens on, or will when what it was asked for is bound.
Reach(n, r) == Resolves(n, r.binding) \cup r.listeners

\* What a node listens on, it reaches.
LEMMA ListensReach ==
    ASSUME NEW n, NEW r
    PROVE  r.listeners \subseteq Reach(n, r)
BY DEF Reach

\* What one node's swarm shows of itself: its subscriptions, the addresses it
\* reaches, and the messages it knows.
Shows(s, n, topics, addrs, received) ==
    /\ s[n].topics = topics
    /\ Reach(n, s[n]) = addrs
    /\ s[n].received = received

\* A write to some fields of one node's swarm leaves the rest alone.
LEMMA SwarmWrites ==
    ASSUME NEW s \in [Nodes -> Swarm], NEW n \in Nodes, NEW r \in Swarm,
           NEW z, z = [s EXCEPT ![n] = r]
    PROVE  /\ z \in [Nodes -> Swarm]
           /\ z[n] = r
           /\ \A m \in Nodes \ {n} : z[m] = s[m]
OBVIOUS

\* subscribe and unsubscribe write the topics.
LEMMA TopicsWritten ==
    ASSUME NEW s \in [Nodes -> Swarm], NEW n \in Nodes, NEW v \in SUBSET Topics,
           NEW z, z = [s EXCEPT ![n].topics = v]
    PROVE  /\ z \in [Nodes -> Swarm]
           /\ Shows(z, n, v, Reach(n, s[n]), s[n].received)
           /\ \A m \in Nodes \ {n} : z[m] = s[m]
<1>1. PICK r : r = [s[n] EXCEPT !.topics = v]
  OBVIOUS
<1>2. s[n] \in Swarm
  OBVIOUS
<1>3. r \in Swarm
  BY <1>1, <1>2, SwarmRecords
<1>4. /\ r.topics = v /\ r.binding = s[n].binding /\ r.listeners = s[n].listeners
      /\ r.received = s[n].received
  BY <1>1, <1>2 DEF Swarm
<1>5. z = [s EXCEPT ![n] = r]
  BY <1>1
<1>6. Reach(n, r) = Reach(n, s[n])
  BY <1>4 DEF Reach
<1> QED  BY SMTT(60), <1>3, <1>4, <1>5, <1>6, SwarmWrites DEF Shows

\* listen writes the addresses that are being bound.
LEMMA BindingWritten ==
    ASSUME NEW s \in [Nodes -> Swarm], NEW n \in Nodes, NEW v \in SUBSET Supported,
           NEW z, z = [s EXCEPT ![n].binding = v]
    PROVE  /\ z \in [Nodes -> Swarm]
           /\ Shows(z, n, s[n].topics, Resolves(n, v) \cup s[n].listeners,
                    s[n].received)
           /\ \A m \in Nodes \ {n} : z[m] = s[m]
<1>1. PICK r : r = [s[n] EXCEPT !.binding = v]
  OBVIOUS
<1>2. s[n] \in Swarm
  OBVIOUS
<1>3. r \in Swarm
  BY <1>1, <1>2, SwarmRecords
<1>4. /\ r.topics = s[n].topics /\ r.binding = v /\ r.listeners = s[n].listeners
      /\ r.received = s[n].received
  BY <1>1, <1>2 DEF Swarm
<1>5. z = [s EXCEPT ![n] = r]
  BY <1>1
<1>6. Reach(n, r) = Resolves(n, v) \cup s[n].listeners
  BY <1>4 DEF Reach
<1> QED  BY SMTT(60), <1>3, <1>4, <1>5, <1>6, SwarmWrites DEF Shows

\* connect and the end of a dial write the addresses that are being dialled.
LEMMA DialingWritten ==
    ASSUME NEW s \in [Nodes -> Swarm], NEW n \in Nodes, NEW v \in SUBSET Supported,
           NEW z, z = [s EXCEPT ![n].dialing = v]
    PROVE  /\ z \in [Nodes -> Swarm]
           /\ Shows(z, n, s[n].topics, Reach(n, s[n]), s[n].received)
           /\ \A m \in Nodes \ {n} : z[m] = s[m]
<1>1. PICK r : r = [s[n] EXCEPT !.dialing = v]
  OBVIOUS
<1>2. s[n] \in Swarm
  OBVIOUS
<1>3. r \in Swarm
  BY <1>1, <1>2, SwarmRecords
<1>4. /\ r.topics = s[n].topics /\ r.binding = s[n].binding /\ r.listeners = s[n].listeners
      /\ r.received = s[n].received
  BY <1>1, <1>2 DEF Swarm
<1>5. z = [s EXCEPT ![n] = r]
  BY <1>1
<1>6. Reach(n, r) = Reach(n, s[n])
  BY <1>4 DEF Reach
<1> QED  BY SMTT(60), <1>3, <1>4, <1>5, <1>6, SwarmWrites DEF Shows

\* publish and a message that arrives write the known messages.
LEMMA ReceivedWritten ==
    ASSUME NEW s \in [Nodes -> Swarm], NEW n \in Nodes, NEW v \in SUBSET Data,
           NEW z, z = [s EXCEPT ![n].received = v]
    PROVE  /\ z \in [Nodes -> Swarm]
           /\ Shows(z, n, s[n].topics, Reach(n, s[n]), v)
           /\ \A m \in Nodes \ {n} : z[m] = s[m]
<1>1. PICK r : r = [s[n] EXCEPT !.received = v]
  OBVIOUS
<1>2. s[n] \in Swarm
  OBVIOUS
<1>3. r \in Swarm
  BY <1>1, <1>2, SwarmRecords
<1>4. /\ r.topics = s[n].topics /\ r.binding = s[n].binding /\ r.listeners = s[n].listeners
      /\ r.received = v
  BY <1>1, <1>2 DEF Swarm
<1>5. z = [s EXCEPT ![n] = r]
  BY <1>1
<1>6. Reach(n, r) = Reach(n, s[n])
  BY <1>4 DEF Reach
<1> QED  BY SMTT(60), <1>3, <1>4, <1>5, <1>6, SwarmWrites DEF Shows

\* An address that a listener resolves to is bound.
LEMMA ListenersWritten ==
    ASSUME NEW s \in [Nodes -> Swarm], NEW n \in Nodes, NEW a \in Local(n),
           \E b \in s[n].binding : a \in Resolved(n, b),
           NEW z, z = [s EXCEPT ![n].listeners = @ \cup {a}]
    PROVE  /\ z \in [Nodes -> Swarm]
           /\ Shows(z, n, s[n].topics, Reach(n, s[n]), s[n].received)
           /\ \A m \in Nodes \ {n} : z[m] = s[m]
<1>1. PICK r : r = [s[n] EXCEPT !.listeners = @ \cup {a}]
  OBVIOUS
<1>2. s[n] \in Swarm /\ s[n].listeners \subseteq Sockets /\ a \in Sockets
  BY DEF Swarm, Local, Sockets
<1>3. s[n].listeners \cup {a} \in SUBSET Sockets
  BY <1>2
<1>4. r \in Swarm
  BY <1>1, <1>2, <1>3, SwarmRecords
<1>5. /\ r.topics = s[n].topics /\ r.binding = s[n].binding
      /\ r.listeners = s[n].listeners \cup {a} /\ r.received = s[n].received
  BY <1>1, <1>2 DEF Swarm
<1>6. z = [s EXCEPT ![n] = r]
  BY <1>1
<1>7. z \in [Nodes -> Swarm] /\ z[n] = r /\ \A m \in Nodes \ {n} : z[m] = s[m]
  BY SMTT(60), <1>4, <1>6, SwarmWrites
<1>8. Reach(n, r) = Reach(n, s[n])
  <2>1. a \in Resolves(n, s[n].binding)
    BY DEF Resolves
  <2> QED  BY <1>5, <2>1 DEF Reach
<1> QED  BY <1>5, <1>7, <1>8 DEF Shows

-----------------------------------------------------------------------------
\* The requests, and how a step moves them.

\* A handler serves the call c with the ticket k.
Serves(n, c, k) ==
    \/ c.op = "Listen" /\ listen(n, c.addr, k)
    \/ c.op = "Connect" /\ connect(n, c.addr, k)
    \/ c.op = "Listeners" /\ listeners(n, k)
    \/ c.op = "Subscribe" /\ subscribe(n, c.topic, k)
    \/ c.op = "Unsubscribe" /\ unsubscribe(n, c.topic, k)
    \/ c.op = "Publish" /\ publish(n, c.topic, c.data)

\* The worker serves the call that the oldest request was made for.
LEMMA PollServes ==
    ASSUME ClientsOK, NEW n \in Nodes, PollRequest(n),
           NEW c \in Calls, NEW k \in Tickets, Head(requests[n]) = Request(c, k)
    PROVE  Serves(n, c, k)
<1> DEFINE r == Head(requests[n])
<1>1. /\ r.op = c.op
      /\ r.id = IF c.op = "Publish" THEN None ELSE k
      /\ c.op \in {"Listen", "Connect"} => r.addr = c.addr
      /\ c.op \in {"Subscribe", "Unsubscribe", "Publish"} => r.topic = c.topic
      /\ c.op = "Publish" => r.data = c.data
  BY SMTT(60), RequestFields
<1>2. \/ r.op = "Listen" /\ listen(n, r.addr, r.id)
      \/ r.op = "Connect" /\ connect(n, r.addr, r.id)
      \/ r.op = "Listeners" /\ listeners(n, r.id)
      \/ r.op = "Subscribe" /\ subscribe(n, r.topic, r.id)
      \/ r.op = "Unsubscribe" /\ unsubscribe(n, r.topic, r.id)
      \/ r.op = "Publish" /\ publish(n, r.topic, r.data)
  BY DEF PollRequest
<1> HIDE DEF r
<1>3. CASE c.op = "Listen"
  <2>1. r.id = k /\ r.addr = c.addr /\ listen(n, r.addr, r.id)
    BY <1>1, <1>2, <1>3
  <2> QED  BY <1>3, <2>1 DEF Serves
<1>4. CASE c.op = "Connect"
  <2>1. r.id = k /\ r.addr = c.addr /\ connect(n, r.addr, r.id)
    BY <1>1, <1>2, <1>4
  <2> QED  BY <1>4, <2>1 DEF Serves
<1>5. CASE c.op = "Listeners"
  <2>1. r.id = k /\ listeners(n, r.id)
    BY <1>1, <1>2, <1>5
  <2> QED  BY <1>5, <2>1 DEF Serves
<1>6. CASE c.op = "Subscribe"
  <2>1. r.id = k /\ r.topic = c.topic /\ subscribe(n, r.topic, r.id)
    BY <1>1, <1>2, <1>6
  <2> QED  BY <1>6, <2>1 DEF Serves
<1>7. CASE c.op = "Unsubscribe"
  <2>1. r.id = k /\ r.topic = c.topic /\ unsubscribe(n, r.topic, r.id)
    BY <1>1, <1>2, <1>7
  <2> QED  BY <1>7, <2>1 DEF Serves
<1>8. CASE c.op = "Publish"
  <2>1. r.topic = c.topic /\ r.data = c.data /\ publish(n, r.topic, r.data)
    BY <1>1, <1>2, <1>8
  <2> QED  BY <1>8, <2>1 DEF Serves
<1> QED  BY <1>3, <1>4, <1>5, <1>6, <1>7, <1>8, CallFields

\* The addresses that a node reaches now.
Addrs(n) == Reach(n, swarm[n])

\* A swarm as it was, but for what one node's shows of itself.
Becomes(n, topics, addrs, received) ==
    /\ swarm' \in [Nodes -> Swarm]
    /\ Shows(swarm', n, topics, addrs, received)
    /\ \A m \in Nodes \ {n} : swarm'[m] = swarm[m]

\* The swarm may stay as it is.
LEMMA SwarmStays ==
    ASSUME ClientsOK, NEW n \in Nodes, swarm' = swarm
    PROVE  Becomes(n, swarm[n].topics, Addrs(n), swarm[n].received)
BY DEF ClientsOK, Becomes, Shows, Addrs

\* An answer is the only one of its channel, unless nobody waits for it.
LEMMA AnswerGiven ==
    ASSUME ClientsOK, NEW k \in Tickets, NEW ok \in BOOLEAN, NEW addrs \in SUBSET Sockets,
           answer(k, ok, addrs)
    PROVE  /\ replies' \in [Tickets -> Seq(Answers)]
           /\ \A j \in Tickets \ {k} : replies'[j] = replies[j]
           /\ k \in dropped => replies'[k] = replies[k]
           /\ k \notin dropped => /\ replies'[k] # <<>>
                                  /\ replies'[k][1].ok = ok
                                  /\ replies'[k][1].addrs = addrs
<1> DEFINE a == [ok |-> ok, addrs |-> addrs]
<1>1. a \in Answers /\ a.ok = ok /\ a.addrs = addrs
  BY DEF Answers
<1>2. replies' = IF k \in dropped THEN replies ELSE [replies EXCEPT ![k] = <<a>>]
  BY DEF answer
<1> HIDE DEF a
<1>3. <<a>> \in Seq(Answers) /\ <<a>> # <<>> /\ <<a>>[1] = a
  BY SMTT(60), <1>1
<1>4. CASE k \in dropped
  BY <1>2, <1>4 DEF ClientsOK
<1>5. CASE k \notin dropped
  <2>1. replies' = [replies EXCEPT ![k] = <<a>>]
    BY <1>2, <1>5
  <2> PICK b : b = <<a>>
    OBVIOUS
  <2>2. /\ replies' \in [Tickets -> Seq(Answers)] /\ replies'[k] = b
        /\ \A j \in Tickets \ {k} : replies'[j] = replies[j]
    BY <1>3, <2>1 DEF ClientsOK
  <2> QED  BY <1>1, <1>3, <1>5, <2>2
<1> QED  BY <1>4, <1>5

\* The answer may be whether something is in a set.
LEMMA AnswerWhether ==
    ASSUME ClientsOK, NEW k \in Tickets, NEW x, NEW S, answer(k, x \in S, {})
    PROVE  /\ replies' \in [Tickets -> Seq(Answers)]
           /\ \A j \in Tickets \ {k} : replies'[j] = replies[j]
           /\ k \in dropped => replies'[k] = replies[k]
           /\ k \notin dropped => /\ replies'[k] # <<>>
                                  /\ replies'[k][1].ok = (x \in S)
                                  /\ replies'[k][1].addrs = {}
<1>1. {} \in SUBSET Sockets /\ (x \in S) \in BOOLEAN
  BY SMTT(60)
<1> QED  BY <1>1, AnswerGiven

\* What serving a listen request changes.
LEMMA ListenServed ==
    ASSUME ClientsOK, NEW n \in Nodes, NEW addr, NEW k \in Tickets, listen(n, addr, k)
    PROVE  /\ Becomes(n, swarm[n].topics, Addrs(n) \cup Resolved(n, addr), swarm[n].received)
           /\ answer(k, addr \in Supported, {})
           /\ inbox' = inbox /\ wire' = wire
<1>1. CASE addr \in Supported
  <2>1. swarm' = [swarm EXCEPT ![n].binding = swarm[n].binding \cup {addr}]
    BY <1>1 DEF listen
  <2>2. swarm[n].binding \cup {addr} \in SUBSET Supported
    BY <1>1 DEF ClientsOK, Swarm
  <2>3. /\ swarm' \in [Nodes -> Swarm]
        /\ Shows(swarm', n, swarm[n].topics, 
                 Resolves(n, swarm[n].binding \cup {addr}) \cup swarm[n].listeners,
                 swarm[n].received)
        /\ \A m \in Nodes \ {n} : swarm'[m] = swarm[m]
    BY <2>1, <2>2, BindingWritten DEF ClientsOK
  <2>4. Resolves(n, swarm[n].binding \cup {addr}) \cup swarm[n].listeners
            = Addrs(n) \cup Resolved(n, addr)
    <3>1. Resolves(n, swarm[n].binding \cup {addr})
              = Resolves(n, swarm[n].binding) \cup Resolved(n, addr)
      BY DEF Resolves
    <3> QED  BY <3>1 DEF Addrs, Reach
  <2>5. Becomes(n, swarm[n].topics, Addrs(n) \cup Resolved(n, addr), swarm[n].received)
    BY <2>3, <2>4 DEF Becomes
  <2>6. answer(k, addr \in Supported, {}) /\ inbox' = inbox /\ wire' = wire
    BY <1>1 DEF listen
  <2> QED  BY <2>5, <2>6
<1>2. CASE addr \notin Supported
  <2>1. Resolved(n, addr) = {}
    BY <1>2 DEF Resolved, Supported, Sockets, Local
  <2> QED  BY <1>2, <2>1, SwarmStays DEF listen
<1> QED  BY <1>1, <1>2

\* What serving a connect request changes.
LEMMA ConnectServed ==
    ASSUME ClientsOK, NEW n \in Nodes, NEW addr, NEW k \in Tickets, connect(n, addr, k)
    PROVE  /\ Becomes(n, swarm[n].topics, Addrs(n), swarm[n].received)
           /\ answer(k, addr \in Supported, {})
           /\ inbox' = inbox /\ wire' = wire
<1>1. CASE addr \in Supported
  <2>1. swarm' = [swarm EXCEPT ![n].dialing = swarm[n].dialing \cup {addr}]
    BY <1>1 DEF connect
  <2>2. swarm[n].dialing \cup {addr} \in SUBSET Supported
    BY <1>1 DEF ClientsOK, Swarm
  <2>3. /\ swarm' \in [Nodes -> Swarm]
        /\ Shows(swarm', n, swarm[n].topics, Reach(n, swarm[n]),
                 swarm[n].received)
        /\ \A m \in Nodes \ {n} : swarm'[m] = swarm[m]
    BY <2>1, <2>2, DialingWritten DEF ClientsOK
  <2> QED  BY <2>3 DEF Becomes, connect, Addrs
<1>2. CASE addr \notin Supported
  BY <1>2, SwarmStays DEF connect
<1> QED  BY <1>1, <1>2

\* What serving a listeners request changes.
LEMMA ListenersServed ==
    ASSUME ClientsOK, NEW n \in Nodes, NEW k \in Tickets, listeners(n, k)
    PROVE  /\ Becomes(n, swarm[n].topics, Addrs(n), swarm[n].received)
           /\ answer(k, TRUE, swarm[n].listeners)
           /\ inbox' = inbox /\ wire' = wire
BY SwarmStays DEF listeners

\* What serving a subscribe request changes.
LEMMA SubscribeServed ==
    ASSUME ClientsOK, NEW n \in Nodes, NEW t \in Topics, NEW k \in Tickets, subscribe(n, t, k)
    PROVE  /\ Becomes(n, swarm[n].topics \cup {t}, Addrs(n), swarm[n].received)
           /\ replies' = replies /\ wire' = wire
           /\ inbox' = IF t \in swarm[n].topics THEN inbox
                       ELSE [inbox EXCEPT ![n][no_hash(t)] = k]
<1>1. CASE t \notin swarm[n].topics
  <2>1. swarm' = [swarm EXCEPT ![n].topics = swarm[n].topics \cup {t}]
    BY <1>1 DEF subscribe
  <2>2. swarm[n].topics \cup {t} \in SUBSET Topics
    BY DEF ClientsOK, Swarm
  <2> QED  BY <1>1, <2>1, <2>2, TopicsWritten DEF ClientsOK, Becomes, subscribe, Addrs
<1>2. CASE t \in swarm[n].topics
  <2>1. swarm[n].topics \cup {t} = swarm[n].topics
    BY <1>2
  <2> QED  BY <1>2, <2>1, SwarmStays DEF subscribe
<1> QED  BY <1>1, <1>2

\* What serving an unsubscribe request changes.
LEMMA UnsubscribeServed ==
    ASSUME ClientsOK, NEW n \in Nodes, NEW t \in Topics, NEW k \in Tickets, unsubscribe(n, t, k)
    PROVE  /\ Becomes(n, swarm[n].topics \ {t}, Addrs(n), swarm[n].received)
           /\ answer(k, t \in swarm[n].topics, {})
           /\ wire' = wire
           /\ inbox' = IF t \notin swarm[n].topics THEN inbox
                       ELSE [inbox EXCEPT ![n][sha256_hash(t)] = None]
<1>1. CASE t \in swarm[n].topics
  <2>1. swarm' = [swarm EXCEPT ![n].topics = swarm[n].topics \ {t}]
    BY <1>1 DEF unsubscribe
  <2>2. swarm[n].topics \ {t} \in SUBSET Topics
    BY DEF ClientsOK, Swarm
  <2> QED  BY <1>1, <2>1, <2>2, TopicsWritten DEF ClientsOK, Becomes, unsubscribe, Addrs
<1>2. CASE t \notin swarm[n].topics
  <2>1. swarm[n].topics \ {t} = swarm[n].topics
    BY <1>2
  <2> QED  BY <1>2, <2>1, SwarmStays DEF unsubscribe
<1> QED  BY <1>1, <1>2

\* What serving a publish request changes.
LEMMA PublishServed ==
    ASSUME ClientsOK, NEW n \in Nodes, NEW t \in Topics, NEW d \in Data, publish(n, t, d)
    PROVE  /\ Becomes(n, swarm[n].topics, Addrs(n), swarm[n].received \cup {d})
           /\ replies' = replies /\ inbox' = inbox
           /\ wire' = wire \cup Copies(n, Peers(n, t), n, t, d)
<1>1. swarm' = [swarm EXCEPT ![n].received = swarm[n].received \cup {d}]
  BY DEF publish, message_id
<1>2. swarm[n].received \cup {d} \in SUBSET Data
  BY DEF ClientsOK, Swarm
<1>3. /\ swarm' \in [Nodes -> Swarm]
      /\ Shows(swarm', n, swarm[n].topics, Reach(n, swarm[n]),
               swarm[n].received \cup {d})
      /\ \A m \in Nodes \ {n} : swarm'[m] = swarm[m]
  BY <1>1, <1>2, ReceivedWritten DEF ClientsOK
<1> QED  BY <1>3 DEF Becomes, publish, Addrs

-----------------------------------------------------------------------------
\* What serving a call does, one lemma per part of the state.

\* The swarm of the node that serves.
LEMMA ServedSwarm ==
    ASSUME ClientsOK, NEW n \in Nodes, NEW c \in Calls, NEW k \in Tickets, Serves(n, c, k)
    PROVE  /\ swarm' \in [Nodes -> Swarm]
           /\ \A m \in Nodes \ {n} : swarm'[m] = swarm[m]
           /\ swarm'[n].topics = IF c.op = "Subscribe" THEN swarm[n].topics \cup {c.topic}
                                 ELSE IF c.op = "Unsubscribe" THEN swarm[n].topics \ {c.topic}
                                 ELSE swarm[n].topics
           /\ Addrs(n)' = IF c.op = "Listen" THEN Addrs(n) \cup Resolved(n, c.addr) ELSE Addrs(n)
           /\ swarm'[n].received = IF c.op = "Publish" THEN swarm[n].received \cup {c.data}
                                   ELSE swarm[n].received
<1> USE CallFields
<1>1. CASE c.op = "Listen"
  <2>1. listen(n, c.addr, k)
    BY <1>1 DEF Serves
  <2> QED  BY <1>1, <2>1, ListenServed DEF Becomes, Shows, Addrs
<1>2. CASE c.op = "Connect"
  <2>1. connect(n, c.addr, k)
    BY <1>2 DEF Serves
  <2> QED  BY <1>2, <2>1, ConnectServed DEF Becomes, Shows, Addrs
<1>3. CASE c.op = "Listeners"
  <2>1. listeners(n, k)
    BY <1>3 DEF Serves
  <2> QED  BY <1>3, <2>1, ListenersServed DEF Becomes, Shows, Addrs
<1>4. CASE c.op = "Subscribe"
  <2>1. subscribe(n, c.topic, k)
    BY <1>4 DEF Serves
  <2> QED  BY <1>4, <2>1, SubscribeServed DEF Becomes, Shows, Addrs
<1>5. CASE c.op = "Unsubscribe"
  <2>1. unsubscribe(n, c.topic, k)
    BY <1>5 DEF Serves
  <2> QED  BY <1>5, <2>1, UnsubscribeServed DEF Becomes, Shows, Addrs
<1>6. CASE c.op = "Publish"
  <2>1. publish(n, c.topic, c.data)
    BY <1>6 DEF Serves
  <2> QED  BY <1>6, <2>1, PublishServed DEF Becomes, Shows, Addrs
<1> QED  BY <1>1, <1>2, <1>3, <1>4, <1>5, <1>6

\* The inbox: the first subscription to a topic binds it to its stream, and no
\* call ever takes that binding away (unsubscribe removes another key).
LEMMA ServedInbox ==
    ASSUME ClientsOK, NEW n \in Nodes, NEW c \in Calls, NEW k \in Tickets, Serves(n, c, k)
    PROVE  /\ inbox' \in [Nodes -> [TopicHashes -> Tickets \cup {None}]]
           /\ \A m \in Nodes, t \in Topics :
                inbox'[m][no_hash(t)] =
                    IF c.op = "Subscribe" /\ m = n /\ t = c.topic /\ t \notin swarm[n].topics
                    THEN k ELSE inbox[m][no_hash(t)]
<1> USE CallFields
<1>1. CASE c.op \notin {"Subscribe", "Unsubscribe"}
  BY <1>1 DEF Serves, listen, connect, listeners, publish, ClientsOK
<1>2. CASE c.op = "Subscribe"
  <2>1. inbox' = IF c.topic \in swarm[n].topics THEN inbox
                 ELSE [inbox EXCEPT ![n][no_hash(c.topic)] = k]
    BY <1>2, SubscribeServed DEF Serves
  <2>2. no_hash(c.topic) \in TopicHashes /\ c.topic \in Topics
    BY <1>2, HashesDiffer
  <2>3. ASSUME NEW m \in Nodes, NEW t \in Topics
        PROVE  no_hash(t) \in TopicHashes /\ (no_hash(t) = no_hash(c.topic) <=> t = c.topic)
    BY <2>2, HashesDiffer
  <2> QED  BY <1>2, <2>1, <2>2, <2>3 DEF ClientsOK
<1>3. CASE c.op = "Unsubscribe"
  <2>1. inbox' = IF c.topic \notin swarm[n].topics THEN inbox
                 ELSE [inbox EXCEPT ![n][sha256_hash(c.topic)] = None]
    BY <1>3, UnsubscribeServed DEF Serves
  <2>2. sha256_hash(c.topic) \in TopicHashes /\ c.topic \in Topics
    BY <1>3, HashesDiffer
  <2>3. ASSUME NEW m \in Nodes, NEW t \in Topics
        PROVE  no_hash(t) \in TopicHashes /\ no_hash(t) # sha256_hash(c.topic)
    BY <2>2, HashesDiffer
  <2> QED  BY <1>3, <2>1, <2>2, <2>3 DEF ClientsOK
<1> QED  BY <1>1, <1>2, <1>3

\* What a call is told.
ToldOk(n, c) ==
    /\ c.op \in {"Listen", "Connect"} => c.addr \in Supported
    /\ c.op = "Unsubscribe" => c.topic \in swarm[n].topics
ToldAddrs(n, c) == IF c.op = "Listeners" THEN swarm[n].listeners ELSE {}

\* The answers: calls with a future get theirs, nobody else gets one.
LEMMA ServedReplies ==
    ASSUME ClientsOK, NEW n \in Nodes, NEW c \in Calls, NEW k \in Tickets, Serves(n, c, k)
    PROVE  /\ replies' \in [Tickets -> Seq(Answers)]
           /\ \A j \in Tickets \ {k} : replies'[j] = replies[j]
           /\ c.op \in {"Subscribe", "Publish"} \/ k \in dropped => replies'[k] = replies[k]
           /\ c.op \notin {"Subscribe", "Publish"} /\ k \notin dropped =>
                /\ replies'[k] # <<>>
                /\ (replies'[k][1].ok <=> ToldOk(n, c))
                /\ replies'[k][1].addrs = ToldAddrs(n, c)
<1> USE CallFields
<1>1. CASE c.op \in {"Subscribe", "Publish"}
  BY <1>1 DEF Serves, subscribe, publish, ClientsOK
<1>2. CASE c.op \notin {"Subscribe", "Publish"}
  <2>1. CASE c.op = "Listen"
    <3>1. answer(k, c.addr \in Supported, {}) /\ (c.addr \in Supported) \in BOOLEAN /\ {} \in SUBSET Sockets
      BY SMTT(60), <2>1 DEF Serves, listen, ClientsOK, Swarm
    <3>2. /\ replies' \in [Tickets -> Seq(Answers)]
          /\ \A j \in Tickets \ {k} : replies'[j] = replies[j]
          /\ k \in dropped => replies'[k] = replies[k]
          /\ k \notin dropped => /\ replies'[k] # <<>>
                                 /\ replies'[k][1].ok = (c.addr \in Supported)
                                 /\ replies'[k][1].addrs = {}
      BY <3>1, AnswerGiven
    <3> QED  BY <2>1, <3>2 DEF ToldOk, ToldAddrs
  <2>2. CASE c.op = "Connect"
    <3>1. answer(k, c.addr \in Supported, {}) /\ (c.addr \in Supported) \in BOOLEAN /\ {} \in SUBSET Sockets
      BY SMTT(60), <2>2 DEF Serves, connect, ClientsOK, Swarm
    <3>2. /\ replies' \in [Tickets -> Seq(Answers)]
          /\ \A j \in Tickets \ {k} : replies'[j] = replies[j]
          /\ k \in dropped => replies'[k] = replies[k]
          /\ k \notin dropped => /\ replies'[k] # <<>>
                                 /\ replies'[k][1].ok = (c.addr \in Supported)
                                 /\ replies'[k][1].addrs = {}
      BY <3>1, AnswerGiven
    <3> QED  BY <2>2, <3>2 DEF ToldOk, ToldAddrs
  <2>3. CASE c.op = "Listeners"
    <3>1. /\ answer(k, TRUE, swarm[n].listeners)
          /\ (TRUE) \in BOOLEAN /\ swarm[n].listeners \in SUBSET Sockets
      BY <2>3 DEF Serves, listeners, ClientsOK, Swarm
    <3>2. /\ replies' \in [Tickets -> Seq(Answers)]
          /\ \A j \in Tickets \ {k} : replies'[j] = replies[j]
          /\ k \in dropped => replies'[k] = replies[k]
          /\ k \notin dropped => /\ replies'[k] # <<>>
                                 /\ replies'[k][1].ok = (TRUE)
                                 /\ replies'[k][1].addrs = swarm[n].listeners
      BY <3>1, AnswerGiven
    <3> QED  BY <2>3, <3>2 DEF ToldOk, ToldAddrs
  <2>4. CASE c.op = "Unsubscribe"
    <3>1. /\ answer(k, c.topic \in swarm[n].topics, {})
          /\ (c.topic \in swarm[n].topics) \in BOOLEAN /\ {} \in SUBSET Sockets
      BY SMTT(60), <2>4 DEF Serves, unsubscribe, ClientsOK, Swarm
    <3>2. /\ replies' \in [Tickets -> Seq(Answers)]
          /\ \A j \in Tickets \ {k} : replies'[j] = replies[j]
          /\ k \in dropped => replies'[k] = replies[k]
          /\ k \notin dropped => /\ replies'[k] # <<>>
                                 /\ replies'[k][1].ok = (c.topic \in swarm[n].topics)
                                 /\ replies'[k][1].addrs = {}
      BY <3>1, AnswerWhether
    <3> QED  BY <2>4, <3>2 DEF ToldOk, ToldAddrs
  <2> QED  BY <1>2, <2>1, <2>2, <2>3, <2>4
<1> QED  BY <1>1, <1>2

\* The messages in flight.
LEMMA ServedWire ==
    ASSUME NEW n \in Nodes, NEW c \in Calls, NEW k \in Tickets, Serves(n, c, k)
    PROVE  wire' = IF c.op = "Publish" THEN wire \cup Copies(n, Peers(n, c.topic), n, c.topic, c.data)
                   ELSE wire
BY CallFields DEF Serves, listen, connect, listeners, subscribe, unsubscribe, publish

-----------------------------------------------------------------------------
\* The types are kept.

\* The types hold at the start.
LEMMA TypeInit ==
    ASSUME CInit
    PROVE  ClientsOK
<1> USE ClientsAssumption DEF CInit, InitWorkers
<1>1. /\ requests \in [Nodes -> Seq(Requests)] /\ replies \in [Tickets -> Seq(Answers)]
      /\ streams \in [Tickets -> Seq(Messages)] /\ dropped \subseteq Tickets
      /\ taken \in [Tickets -> Seq(Messages)]
      /\ log \in Seq(Calls) /\ Len(log) <= MaxCalls
  BY SMTT(60)
<1>2. inbox \in [Nodes -> [TopicHashes -> Tickets \cup {None}]]
  OBVIOUS
<1>3. swarm \in [Nodes -> Swarm]
  <2>1. \A n \in Nodes : ({n} \cap UNION Linked) \X Interfaces \subseteq Sockets
    BY DEF Sockets
  <2> QED  BY <2>1 DEF Swarm
<1>4. \A w \in wire : w.topic \in Topics /\ w.from \in Nodes /\ w.data \in Data
  OBVIOUS
<1> QED  BY <1>1, <1>2, <1>3, <1>4 DEF ClientsOK

\* A call is recorded, and its request queued last.
LEMMA CallQueued ==
    ASSUME ClientsOK, NEW c \in Calls, Call(c)
    PROVE  /\ log' \in Seq(Calls)
           /\ Len(log') = Len(log) + 1 /\ Len(log') <= MaxCalls
           /\ \A k \in DOMAIN log : k \in DOMAIN log' /\ log'[k] = log[k]
           /\ log'[Len(log) + 1] = c
           /\ Len(log) + 1 \in Tickets
           /\ requests' = [requests EXCEPT ![c.node] = Append(@, Request(c, Len(log) + 1))]
           /\ requests' \in [Nodes -> Seq(Requests)]
<1>1. /\ log' = Append(log, c) /\ Len(log) < MaxCalls
      /\ requests' = [requests EXCEPT ![c.node] = Append(@, Request(c, Len(log) + 1))]
  BY DEF Call, unbounded_send
<1>2. Len(log) + 1 \in Tickets
  BY SMTT(60), <1>1, ClientsAssumption DEF ClientsOK
<1>3. Request(c, Len(log) + 1) \in Requests
  BY SMTT(60), <1>2 DEF Requests
<1>4. requests' \in [Nodes -> Seq(Requests)]
  BY SMTT(60), <1>1, <1>3, CallFields DEF ClientsOK
<1>5. /\ log' \in Seq(Calls)
      /\ Len(log') = Len(log) + 1 /\ Len(log') <= MaxCalls
      /\ \A k \in DOMAIN log : k \in DOMAIN log' /\ log'[k] = log[k]
      /\ log'[Len(log) + 1] = c
  <2>1. log \in Seq(Calls) /\ Len(log) \in Nat /\ MaxCalls \in Nat
    BY SMTT(60), ClientsAssumption DEF ClientsOK
  <2> QED  BY SMTT(60), <1>1, <2>1, Appended
<1> QED  BY <1>1, <1>2, <1>4, <1>5

\* A client's call keeps the types.
LEMMA TypeCall ==
    ASSUME ClientsOK, NEW c \in Calls, Call(c)
    PROVE  ClientsOK'
BY CallQueued DEF ClientsOK, Call

\* A reader takes the oldest message: what its stream has carried stays.
LEMMA TakeMoves ==
    ASSUME ClientsOK, NEW k \in Tickets, Take(k)
    PROVE  /\ taken' \in [Tickets -> Seq(Messages)]
           /\ streams' \in [Tickets -> Seq(Messages)]
           /\ \A j \in Tickets : Carried(j)' = Carried(j)
<1>1. /\ streams[k] # <<>> /\ streams[k] \in Seq(Messages) /\ taken[k] \in Seq(Messages)
      /\ taken' = [taken EXCEPT ![k] = Append(taken[k], Head(streams[k]))]
      /\ streams' = [streams EXCEPT ![k] = Tail(streams[k])]
  BY DEF Take, ClientsOK
<1>2. Head(streams[k]) \in Messages /\ Tail(streams[k]) \in Seq(Messages)
  BY SMTT(60), <1>1
<1>3. Append(taken[k], Head(streams[k])) \in Seq(Messages)
  BY SMTT(60), <1>1, <1>2
<1>4. /\ taken' \in [Tickets -> Seq(Messages)] /\ streams' \in [Tickets -> Seq(Messages)]
      /\ taken'[k] = Append(taken[k], Head(streams[k])) /\ streams'[k] = Tail(streams[k])
      /\ \A j \in Tickets \ {k} : taken'[j] = taken[j] /\ streams'[j] = streams[j]
  BY <1>1, <1>2, <1>3 DEF ClientsOK
<1>5. Append(taken[k], Head(streams[k])) \o Tail(streams[k]) = taken[k] \o streams[k]
  BY <1>1, HeadMoves
<1> QED  BY <1>4, <1>5 DEF Carried

\* A copy of a message differs from it only in who sends it to whom.
LEMMA CopyFields ==
    ASSUME NEW via, NEW to, NEW from, NEW topic, NEW data,
           NEW w \in Copies(via, to, from, topic, data)
    PROVE  w.from = from /\ w.topic = topic /\ w.data = data
BY SMTT(60) DEF Copies

\* A message that arrives: its node knows it from now on, and the stream of its
\* topic may get it.
LEMMA SwarmPolled ==
    ASSUME ClientsOK, NEW n \in Nodes, NEW w \in wire, PollSwarm(n, w)
    PROVE  /\ Becomes(n, swarm[n].topics, Addrs(n), swarm[n].received \cup {w.data})
           /\ \A v \in wire' : \/ v \in wire
                               \/ v.from = w.from /\ v.topic = w.topic /\ v.data = w.data
           /\ streams' \in [Tickets -> Seq(Messages)]
           /\ \A j \in Tickets :
                \/ streams'[j] = streams[j]
                \/ /\ Reported(n, w)
                   /\ j = inbox[n][no_hash(w.topic)]
                   /\ streams'[j] = Append(streams[j], [from |-> w.from, data |-> w.data])
           /\ UNCHANGED <<requests, replies, dropped, inbox, links>>
<1>1. w.topic \in Topics /\ w.from \in Nodes /\ w.data \in Data
  BY DEF ClientsOK
<1>2. Becomes(n, swarm[n].topics, Addrs(n), swarm[n].received \cup {w.data})
  <2>1. swarm' = [swarm EXCEPT ![n].received = swarm[n].received \cup {w.data}]
    BY DEF PollSwarm, message_id
  <2>2. swarm[n].received \cup {w.data} \in SUBSET Data
    BY <1>1 DEF ClientsOK, Swarm
  <2>3. /\ swarm' \in [Nodes -> Swarm]
        /\ Shows(swarm', n, swarm[n].topics, Reach(n, swarm[n]),
                 swarm[n].received \cup {w.data})
        /\ \A m \in Nodes \ {n} : swarm'[m] = swarm[m]
    BY <2>1, <2>2, ReceivedWritten DEF ClientsOK
  <2> QED  BY <2>3 DEF Becomes, Addrs
<1>3. ASSUME NEW v \in wire', v \notin wire
      PROVE  v.from = w.from /\ v.topic = w.topic /\ v.data = w.data
  <2>1. v \in Copies(n, Peers(n, w.topic) \ {w.via, w.from}, w.from, w.topic, w.data)
    BY <1>3 DEF PollSwarm
  <2> QED  BY SMTT(60), <2>1, CopyFields
<1>4. PICK m \in Messages : m = [from |-> w.from, data |-> w.data]
  BY <1>1 DEF Messages
<1>5. PICK k \in Tickets \cup {None} : k = inbox[n][no_hash(w.topic)]
  BY SMTT(60), <1>1, HashesDiffer DEF ClientsOK
<1>6. streams' = IF Reported(n, w) /\ k # None /\ k \notin dropped
                 THEN [streams EXCEPT ![k] = Append(@, m)] ELSE streams
  BY <1>4, <1>5 DEF PollSwarm
<1>7. streams' \in [Tickets -> Seq(Messages)]
  BY SMTT(60), <1>5, <1>6 DEF ClientsOK
<1>8. ASSUME NEW j \in Tickets, streams'[j] # streams[j]
      PROVE  Reported(n, w) /\ j = k /\ streams'[j] = Append(streams[j], m)
  BY <1>5, <1>6, <1>8 DEF ClientsOK
<1>9. UNCHANGED <<requests, replies, dropped, inbox, links>>
  BY DEF PollSwarm
<1> QED  BY <1>2, <1>3, <1>4, <1>5, <1>7, <1>8, <1>9

\* Serving a request keeps the types.
LEMMA TypePoll ==
    ASSUME ClientsOK, NEW n \in Nodes, PollRequest(n), UNCHANGED <<log, taken>>
    PROVE  ClientsOK'
<1>1. requests[n] \in Seq(Requests) /\ requests[n] # <<>>
  BY DEF ClientsOK, PollRequest
<1>2. Head(requests[n]) \in Requests /\ Tail(requests[n]) \in Seq(Requests)
  BY SMTT(60), <1>1
<1>3. PICK c \in Calls, k \in Tickets : Head(requests[n]) = Request(c, k)
  BY SMTT(60), <1>2 DEF Requests
<1>4. Serves(n, c, k)
  BY <1>3, PollServes
<1>5. requests' \in [Nodes -> Seq(Requests)]
  BY <1>2 DEF ClientsOK, PollRequest
<1>6. \A w \in wire' : w.topic \in Topics /\ w.from \in Nodes /\ w.data \in Data
  <2>1. ASSUME NEW w \in wire', w \notin wire
        PROVE  w.topic \in Topics /\ w.from \in Nodes /\ w.data \in Data
    <3>1. c.op = "Publish" /\ w \in Copies(n, Peers(n, c.topic), n, c.topic, c.data)
      BY <1>4, <2>1, ServedWire
    <3>2. w.from = n /\ w.topic = c.topic /\ w.data = c.data
      BY SMTT(60), <3>1, CopyFields
    <3> QED  BY <3>1, <3>2, CallFields
  <2> QED  BY <2>1 DEF ClientsOK
<1> QED
  BY <1>4, <1>5, <1>6, ServedSwarm, ServedInbox, ServedReplies DEF ClientsOK, PollRequest

\* Every step keeps the types.
LEMMA TypeStep ==
    ASSUME ClientsOK, [CNext]_cvars
    PROVE  ClientsOK'
<1>1. CASE UNCHANGED cvars
  BY <1>1 DEF ClientsOK, cvars, psvars
<1>2. ASSUME NEW c \in Calls, Call(c)  PROVE ClientsOK'
  BY <1>2, TypeCall
<1>3. ASSUME NEW k \in Tickets, Take(k)  PROVE ClientsOK'
  BY <1>3, TakeMoves DEF ClientsOK, Take
<1>4. ASSUME NEW k \in Tickets, Drop(k)  PROVE ClientsOK'
  <2>1. streams' \in [Tickets -> Seq(Messages)]
    BY SMTT(60), <1>4 DEF Drop, ClientsOK
  <2> QED  BY <1>4, <2>1 DEF ClientsOK, Drop
<1>5. ASSUME NEW l \in links, Down(l)  PROVE ClientsOK'
  <2>1. \A w \in wire' : w \in wire
    BY <1>5 DEF Down, LinkDown
  <2> QED  BY <1>5, <2>1 DEF ClientsOK, Down, LinkDown
<1> DEFINE Rest == UNCHANGED <<log, taken, downs>>
<1>6. ASSUME NEW n \in Nodes, PollRequest(n), Rest  PROVE ClientsOK'
  BY <1>6, TypePoll
<1>7. ASSUME NEW n \in Nodes, NEW w \in wire, PollSwarm(n, w), Rest  PROVE ClientsOK'
  BY <1>7, SwarmPolled DEF ClientsOK, Becomes
<1>8. ASSUME NEW n \in Nodes, NEW a \in Local(n), NewListenAddr(n, a), Rest
      PROVE  ClientsOK'
  <2>1. swarm' \in [Nodes -> Swarm]
    BY <1>8, ListenersWritten DEF ClientsOK, NewListenAddr
  <2> QED  BY <1>8, <2>1 DEF ClientsOK, NewListenAddr
<1>9. ASSUME NEW n \in Nodes, NEW a \in swarm[n].dialing, DialEnds(n, a), Rest
      PROVE  ClientsOK'
  <2>1. swarm[n].dialing \ {a} \in SUBSET Supported
    BY DEF ClientsOK, Swarm
  <2>2. swarm' \in [Nodes -> Swarm]
    BY <1>9, <2>1, DialingWritten DEF ClientsOK, DialEnds
  <2> QED  BY <1>9, <2>2 DEF ClientsOK, DialEnds
<1> QED
  BY <1>1, <1>2, <1>3, <1>4, <1>5, <1>6, <1>7, <1>8, <1>9 DEF CNext, Workers, Swarms

-----------------------------------------------------------------------------
\* The queues.

\* What is queued at a node are requests of calls made there, in the order of
\* the calls; of the calls with a ticket of their own, those that no longer wait
\* were made before those that do.
QueueOK ==
    \A n \in Nodes :
        /\ \A j \in DOMAIN requests[n] : \E k \in DOMAIN log :
               log[k].node = n /\ requests[n][j] = Request(log[k], k)
        /\ \A i, j \in DOMAIN requests[n] :
               i < j /\ requests[n][i].id # None /\ requests[n][j].id # None
                   => requests[n][i].id < requests[n][j].id
        /\ \A k \in DOMAIN log :
               log[k].node = n /\ log[k].op # "Publish" /\ ~Waiting(k)
                   => \A j \in DOMAIN requests[n] :
                          requests[n][j].id # None => k < requests[n][j].id

\* A ticket is the number of a call.
LEMMA TicketOfCall ==
    ASSUME ClientsOK
    PROVE  /\ DOMAIN log = 1 .. Len(log) /\ Len(log) \in Nat
           /\ \A k \in DOMAIN log : /\ k \in Tickets /\ k \in Nat /\ k # None
                                    /\ log[k] \in Calls /\ log[k].node \in Nodes
           /\ \A n \in Nodes : /\ requests[n] \in Seq(Requests)
                               /\ DOMAIN requests[n] = 1 .. Len(requests[n])
                               /\ Len(requests[n]) \in Nat
<1>1. /\ log \in Seq(Calls) /\ Len(log) <= MaxCalls /\ MaxCalls \in Nat
      /\ Tickets = 1 .. MaxCalls
  BY ClientsAssumption DEF ClientsOK
<1>2. DOMAIN log = 1 .. Len(log) /\ Len(log) \in Nat /\ \A k \in DOMAIN log : log[k] \in Calls
  BY SMTT(60), <1>1
<1>3. ASSUME NEW n \in Nodes
      PROVE  /\ requests[n] \in Seq(Requests) /\ DOMAIN requests[n] = 1 .. Len(requests[n])
             /\ Len(requests[n]) \in Nat
  BY SMTT(60) DEF ClientsOK
<1>4. \A k \in DOMAIN log : k \in Tickets /\ k \in Nat /\ k # None
  BY SMTT(60), <1>1, <1>2, PubSubAssumption
<1> QED  BY <1>2, <1>3, <1>4, CallFields

\* The tickets of what is queued.
LEMMA QueuedTicket ==
    ASSUME ClientsOK, QueueOK, NEW n \in Nodes, NEW j \in DOMAIN requests[n],
           requests[n][j].id # None
    PROVE  /\ requests[n][j].id \in DOMAIN log
           /\ log[requests[n][j].id].node = n
           /\ log[requests[n][j].id].op # "Publish"
           /\ requests[n][j] = Request(log[requests[n][j].id], requests[n][j].id)
<1>1. PICK k \in DOMAIN log : log[k].node = n /\ requests[n][j] = Request(log[k], k)
  BY DEF QueueOK
<1>2. log[k] \in Calls
  BY TicketOfCall
<1>3. requests[n][j].id = IF log[k].op = "Publish" THEN None ELSE k
  BY SMTT(60), <1>1, <1>2, RequestFields
<1> QED  BY <1>1, <1>3

\* A new call waits behind all others; nobody else stops or begins to wait.
LEMMA CallWaits ==
    ASSUME ClientsOK, QueueOK, NEW c \in Calls, Call(c), NEW K, K = Len(log) + 1
    PROVE  /\ \A k \in DOMAIN log : Waiting(k)' <=> Waiting(k)
           /\ c.op # "Publish" => Waiting(K)'
           /\ QueueOK'
<1> DEFINE r == Request(c, K)
<1>1. /\ K \in Tickets /\ K \in Nat /\ K # None /\ Len(log) \in Nat
      /\ DOMAIN log = 1 .. Len(log) /\ DOMAIN log' = 1 .. K
      /\ \A k \in DOMAIN log : log'[k] = log[k]
      /\ log'[K] = c
  <2>1. K \in Tickets /\ log' \in Seq(Calls) /\ Len(log') = K /\ Len(log) \in Nat
    BY CallQueued, TicketOfCall
  <2>2. DOMAIN log' = 1 .. K
    BY SMTT(60), <2>1
  <2> QED  BY SMTT(60), <2>1, <2>2, CallQueued, TicketOfCall, PubSubAssumption
<1>2. r.id = IF c.op = "Publish" THEN None ELSE K
  BY RequestFields
<1>3. c.node \in Nodes
  BY CallFields
<1>4. /\ DOMAIN requests'[c.node] = 1 .. Len(requests[c.node]) + 1
      /\ requests'[c.node][Len(requests[c.node]) + 1] = r
      /\ \A j \in DOMAIN requests[c.node] : requests'[c.node][j] = requests[c.node][j]
      /\ \A n \in Nodes \ {c.node} : requests'[n] = requests[n]
  <2>1. r \in Requests
    BY SMTT(60), <1>1 DEF Requests
  <2>2. requests[c.node] \in Seq(Requests)
    BY <1>3 DEF ClientsOK
  <2>3. requests' = [requests EXCEPT ![c.node] = Append(requests[c.node], r)]
    BY CallQueued
  <2> HIDE DEF r
  <2>4. /\ requests'[c.node] = Append(requests[c.node], r)
        /\ \A n \in Nodes \ {c.node} : requests'[n] = requests[n]
    BY <1>3, <2>3 DEF ClientsOK
  <2> QED  BY SMTT(60), <2>1, <2>2, <2>4, Appended
<1> HIDE DEF r
<1> DEFINE L == Len(requests[c.node])
<1>5. L \in Nat /\ DOMAIN requests[c.node] = 1 .. L
  BY <1>3, TicketOfCall
<1>6. ASSUME NEW k \in DOMAIN log
      PROVE  /\ Waiting(k)' <=> Waiting(k)
             /\ k # K /\ k \in Nat /\ k # None /\ k < K
  <2>1. k # None /\ k # K /\ k < K /\ log'[k] = log[k] /\ log[k].node \in Nodes /\ k \in Nat
    BY SMTT(60), <1>1, TicketOfCall
  <2>2. r.id # k
    BY <1>2, <2>1
  <2>3. CASE log[k].node # c.node
    BY SMTT(60), <1>4, <2>1, <2>3 DEF Waiting
  <2>4. CASE log[k].node = c.node
    <3>1. Waiting(k)' <=> \E j \in 1 .. L + 1 : requests'[c.node][j].id = k
      BY <1>4, <2>1, <2>4 DEF Waiting
    <3>2. Waiting(k) <=> \E j \in 1 .. L : requests[c.node][j].id = k
      BY <1>5, <2>4 DEF Waiting
    <3>3. ASSUME NEW j \in 1 .. L + 1, requests'[c.node][j].id = k
          PROVE  j \in 1 .. L /\ requests[c.node][j].id = k
      <4>1. j # L + 1
        BY <1>4, <2>2, <3>3
      <4>2. j \in 1 .. L
        BY SMTT(60), <1>5, <4>1
      <4> QED  BY <1>4, <1>5, <3>3, <4>2
    <3>4. ASSUME NEW j \in 1 .. L, requests[c.node][j].id = k
          PROVE  j \in 1 .. L + 1 /\ requests'[c.node][j].id = k
      BY SMTT(60), <1>4, <1>5, <3>4
    <3> HIDE DEF L
    <3> QED  BY <2>1, <3>1, <3>2, <3>3, <3>4
  <2> QED  BY <2>1, <2>3, <2>4
<1>7. ASSUME c.op # "Publish"
      PROVE  Waiting(K)'
  <2>1. L + 1 \in DOMAIN requests'[c.node] /\ requests'[c.node][L + 1].id = K
    BY SMTT(60), <1>2, <1>4, <1>5, <1>7
  <2>2. log'[K].node = c.node
    BY <1>1
  <2> QED  BY <2>1, <2>2 DEF Waiting
<1>8. QueueOK'
  <2> SUFFICES ASSUME NEW n \in Nodes
      PROVE  /\ \A j \in DOMAIN requests'[n] : \E k \in DOMAIN log' :
                    log'[k].node = n /\ requests'[n][j] = Request(log'[k], k)
             /\ \A i, j \in DOMAIN requests'[n] :
                    i < j /\ requests'[n][i].id # None /\ requests'[n][j].id # None
                        => requests'[n][i].id < requests'[n][j].id
             /\ \A k \in DOMAIN log' :
                    log'[k].node = n /\ log'[k].op # "Publish" /\ ~Waiting(k)'
                        => \A j \in DOMAIN requests'[n] :
                               requests'[n][j].id # None => k < requests'[n][j].id
    BY DEF QueueOK
  <2>1. ASSUME NEW j \in DOMAIN requests[n]
        PROVE  /\ \E k \in DOMAIN log' : log'[k].node = n /\ requests[n][j] = Request(log'[k], k)
               /\ requests[n][j].id # None => requests[n][j].id \in DOMAIN log
    <3>1. PICK k \in DOMAIN log : log[k].node = n /\ requests[n][j] = Request(log[k], k)
      BY DEF QueueOK
    <3>2. k \in DOMAIN log' /\ log'[k] = log[k]
      BY SMTT(60), <1>1
    <3> QED  BY <3>1, <3>2, QueuedTicket
  <2>2. ASSUME NEW k \in DOMAIN log', log'[k].op # "Publish", ~Waiting(k)'
        PROVE  k \in DOMAIN log /\ log'[k] = log[k] /\ ~Waiting(k)
    <3>1. k # K
      BY <1>1, <1>7, <2>2
    <3>2. k \in DOMAIN log
      BY SMTT(60), <1>1, <3>1
    <3> QED  BY <1>1, <1>6, <2>2, <3>2
  <2>3. CASE n # c.node
    <3>1. requests'[n] = requests[n]
      BY <1>4, <2>3
    <3> QED  BY SMTT(60), <2>1, <2>2, <3>1 DEF QueueOK
  <2>4. CASE n = c.node
    <3>1. \A j \in DOMAIN requests'[n] :
              /\ j \in Nat
              /\ \/ j \in DOMAIN requests[n] /\ requests'[n][j] = requests[n][j] /\ j < L + 1
                 \/ j = L + 1 /\ requests'[n][j] = r
      <4>1. /\ L \in Nat /\ DOMAIN requests[n] = 1 .. L /\ DOMAIN requests'[n] = 1 .. L + 1
            /\ requests'[n][L + 1] = r
            /\ \A j \in 1 .. L : requests'[n][j] = requests[n][j]
        BY <1>4, <1>5, <2>4
      <4>2. \A j \in 1 .. L + 1 : j \in Nat /\ ((j \in 1 .. L /\ j < L + 1) \/ j = L + 1)
        BY SMTT(60), <4>1
      <4> QED  BY <4>1, <4>2
    <3>2. \E k \in DOMAIN log' : log'[k].node = n /\ r = Request(log'[k], k)
      BY SMTT(60), <1>1, <2>4 DEF r
    <3>3. \A j \in DOMAIN requests'[n] : \E k \in DOMAIN log' :
              log'[k].node = n /\ requests'[n][j] = Request(log'[k], k)
      BY <2>1, <3>1, <3>2
    <3>4. ASSUME NEW i \in DOMAIN requests'[n], NEW j \in DOMAIN requests'[n], i < j,
                 requests'[n][i].id # None, requests'[n][j].id # None
          PROVE  requests'[n][i].id < requests'[n][j].id
      <4>1. j \in Nat /\ i \in Nat
        BY <3>1
      <4>2. i \in DOMAIN requests[n] /\ requests'[n][i] = requests[n][i]
        BY SMTT(60), <1>4, <1>5, <2>4, <3>1, <3>4, <4>1
      <4>3. CASE j \in DOMAIN requests[n] /\ requests'[n][j] = requests[n][j]
        BY <3>4, <4>2, <4>3 DEF QueueOK
      <4>4. CASE requests'[n][j] = r
        <5>1. r.id = K
          BY <1>2, <3>4, <4>4
        <5>2. requests[n][i].id \in DOMAIN log
          BY <2>1, <3>4, <4>2
        <5> QED  BY <1>6, <4>2, <4>4, <5>1, <5>2
      <4> QED  BY <3>1, <4>3, <4>4
    <3>5. ASSUME NEW k \in DOMAIN log', log'[k].node = n, log'[k].op # "Publish", ~Waiting(k)',
                 NEW j \in DOMAIN requests'[n], requests'[n][j].id # None
          PROVE  k < requests'[n][j].id
      <4>1. k \in DOMAIN log /\ log'[k] = log[k] /\ ~Waiting(k)
        BY <2>2, <3>5
      <4>2. CASE j \in DOMAIN requests[n] /\ requests'[n][j] = requests[n][j]
        BY SMTT(60), <3>5, <4>1, <4>2 DEF QueueOK
      <4>3. CASE requests'[n][j] = r
        BY <1>2, <1>6, <3>5, <4>1, <4>3
      <4> QED  BY <3>1, <4>2, <4>3
    <3> QED  BY <3>3, <3>4, <3>5
  <2> QED  BY <2>3, <2>4
<1> QED  BY <1>6, <1>7, <1>8

\* The worker serves the oldest of the calls that wait at its node.
LEMMA PollWaits ==
    ASSUME ClientsOK, QueueOK, NEW n \in Nodes, PollRequest(n), log' = log
    PROVE  /\ \E k \in DOMAIN log :
                 /\ log[k].node = n
                 /\ Serves(n, log[k], k)
                 /\ ~Waiting(k)'
                 /\ \A j \in DOMAIN log \ {k} : Waiting(j)' <=> Waiting(j)
                 /\ log[k].op # "Publish" =>
                      /\ Waiting(k)
                      /\ \A j \in DOMAIN log \ {k} :
                             log[j].node = n /\ log[j].op # "Publish" =>
                                 (~Waiting(j) => j < k) /\ (Waiting(j) => k < j)
           /\ QueueOK'
<1> DEFINE q == requests[n]
<1>1. q \in Seq(Requests) /\ q # <<>> /\ DOMAIN q = 1 .. Len(q) /\ Len(q) \in Nat \ {0}
  BY SMTT(60) DEF ClientsOK, PollRequest
<1>2. /\ 1 \in DOMAIN q /\ Head(q) = q[1] /\ Len(Tail(q)) = Len(q) - 1
      /\ DOMAIN Tail(q) = 1 .. Len(q) - 1
      /\ \A j \in 1 .. Len(q) - 1 : j + 1 \in DOMAIN q /\ Tail(q)[j] = q[j + 1]
  BY SMTT(60), <1>1
<1>3. requests'[n] = Tail(q) /\ \A m \in Nodes \ {n} : requests'[m] = requests[m]
  BY DEF ClientsOK, PollRequest
<1>4. PICK k \in DOMAIN log : log[k].node = n /\ q[1] = Request(log[k], k)
  BY <1>2 DEF QueueOK
<1>5. /\ log[k] \in Calls /\ k \in Tickets /\ k \in Nat /\ k # None
      /\ \A j \in DOMAIN log : j \in Nat /\ j # None /\ log[j].node \in Nodes
  BY TicketOfCall
<1>6. Serves(n, log[k], k)
  BY <1>2, <1>4, <1>5, PollServes
<1>7. q[1].id = IF log[k].op = "Publish" THEN None ELSE k
  BY SMTT(60), <1>4, <1>5, RequestFields
<1> HIDE DEF q
\* What is left of the queue.
<1>8. /\ \A j \in DOMAIN requests'[n] : j + 1 \in DOMAIN q /\ requests'[n][j] = q[j + 1]
                                        /\ j \in Nat /\ j >= 1
      /\ \A j \in DOMAIN q : j # 1 => j - 1 \in DOMAIN requests'[n] /\ requests'[n][j - 1] = q[j]
  <2>1. ASSUME NEW j \in DOMAIN q, j # 1
        PROVE  j - 1 \in 1 .. Len(q) - 1 /\ (j - 1) + 1 = j
    BY SMTT(60), <1>1, <2>1
  <2> QED  BY SMTT(60), <1>1, <1>2, <1>3, <2>1
<1>9. \A i \in DOMAIN q : i # 1 /\ q[i].id # None /\ q[1].id # None => q[1].id < q[i].id
  <2>1. \A i \in DOMAIN q : i # 1 => 1 < i
    BY SMTT(60), <1>1
  <2> QED  BY <1>2, <2>1 DEF QueueOK, q
<1>10. ASSUME NEW j \in DOMAIN log, j # k  PROVE Waiting(j)' <=> Waiting(j)
  <2>1. CASE log[j].node # n
    BY <1>3, <1>5, <2>1 DEF Waiting
  <2>2. CASE log[j].node = n
    <3>1. q[1].id # j
      BY <1>5, <1>7, <1>10
    <3>2. Waiting(j) <=> \E i \in DOMAIN q : q[i].id = j
      BY <2>2 DEF Waiting, q
    <3>3. Waiting(j)' <=> \E i \in DOMAIN requests'[n] : requests'[n][i].id = j
      BY <2>2 DEF Waiting
    <3> QED  BY SMTT(60), <1>8, <3>1, <3>2, <3>3
  <2> QED  BY <2>1, <2>2
<1>11. ~Waiting(k)'
  <2> SUFFICES ASSUME NEW i \in DOMAIN requests'[n], requests'[n][i].id = k  PROVE FALSE
    BY <1>4 DEF Waiting
  <2>1. i + 1 \in DOMAIN q /\ q[i + 1].id = k /\ i + 1 # 1
    BY SMTT(60), <1>8
  <2>2. log[k].op # "Publish"
    <3>1. requests[n][i + 1].id # None /\ i + 1 \in DOMAIN requests[n]
      BY <1>5, <2>1 DEF q
    <3> QED  BY <2>1, <3>1, QueuedTicket DEF q
  <2> QED  BY SMTT(60), <1>5, <1>7, <1>9, <2>1, <2>2
<1>12. ASSUME log[k].op # "Publish"
       PROVE  /\ Waiting(k)
              /\ \A j \in DOMAIN log \ {k} :
                     log[j].node = n /\ log[j].op # "Publish" =>
                         (~Waiting(j) => j < k) /\ (Waiting(j) => k < j)
  <2>1. q[1].id = k
    BY <1>7, <1>12
  <2>2. Waiting(k)
    BY <1>2, <1>4, <2>1 DEF Waiting, q
  <2>3. ASSUME NEW j \in DOMAIN log \ {k}, log[j].node = n, log[j].op # "Publish", ~Waiting(j)
        PROVE  j < k
    BY <1>2, <1>5, <2>1, <2>3 DEF QueueOK, q
  <2>4. ASSUME NEW j \in DOMAIN log \ {k}, log[j].node = n, Waiting(j)
        PROVE  k < j
    <3>1. PICK i \in DOMAIN q : q[i].id = j
      BY <2>4 DEF Waiting, q
    <3>2. i # 1
      BY <2>1, <3>1
    <3> QED  BY <1>5, <1>9, <2>1, <3>1, <3>2
  <2> QED  BY <2>2, <2>3, <2>4
<1>13. QueueOK'
  <2> SUFFICES ASSUME NEW m \in Nodes
      PROVE  /\ \A j \in DOMAIN requests'[m] : \E i \in DOMAIN log :
                    log[i].node = m /\ requests'[m][j] = Request(log[i], i)
             /\ \A i, j \in DOMAIN requests'[m] :
                    i < j /\ requests'[m][i].id # None /\ requests'[m][j].id # None
                        => requests'[m][i].id < requests'[m][j].id
             /\ \A i \in DOMAIN log :
                    log[i].node = m /\ log[i].op # "Publish" /\ ~Waiting(i)'
                        => \A j \in DOMAIN requests'[m] :
                               requests'[m][j].id # None => i < requests'[m][j].id
    BY DEF QueueOK
  <2>1. CASE m # n
    <3>1. requests'[m] = requests[m] /\ \A i \in DOMAIN log : log[i].node = m => i # k
      BY <1>3, <1>4, <2>1
    <3> QED  BY SMTT(60), <1>10, <3>1 DEF QueueOK
  <2>2. CASE m = n
    <3>1. \A j \in DOMAIN requests'[m] : \E i \in DOMAIN log :
              log[i].node = m /\ requests'[m][j] = Request(log[i], i)
      BY SMTT(60), <1>8, <2>2 DEF QueueOK, q
    <3>2. ASSUME NEW i \in DOMAIN requests'[m], NEW j \in DOMAIN requests'[m], i < j,
                 requests'[m][i].id # None, requests'[m][j].id # None
          PROVE  requests'[m][i].id < requests'[m][j].id
      <4>1. /\ i + 1 \in DOMAIN q /\ j + 1 \in DOMAIN q /\ i + 1 < j + 1
            /\ q[i + 1].id # None /\ q[j + 1].id # None
        BY SMTT(60), <1>8, <2>2, <3>2
      <4>2. q[i + 1].id < q[j + 1].id
        BY <4>1 DEF QueueOK, q
      <4> QED  BY <1>8, <2>2, <4>2
    <3>3. ASSUME NEW i \in DOMAIN log, log[i].node = m, log[i].op # "Publish", ~Waiting(i)',
                 NEW j \in DOMAIN requests'[m], requests'[m][j].id # None
          PROVE  i < requests'[m][j].id
      <4>1. j + 1 \in DOMAIN q /\ j + 1 # 1 /\ requests'[m][j] = q[j + 1] /\ q[j + 1].id # None
        BY SMTT(60), <1>8, <2>2, <3>3
      <4>2. CASE i # k
        <5>1. ~Waiting(i)
          BY <1>10, <3>3, <4>2
        <5> QED  BY SMTT(60), <2>2, <3>3, <4>1, <5>1 DEF QueueOK, q
      <4>3. CASE i = k
        BY <1>5, <1>7, <1>9, <3>3, <4>1, <4>3
      <4> QED  BY <4>2, <4>3
    <3> QED  BY <3>1, <3>2, <3>3
  <2> QED  BY <2>1, <2>2
<1> QED  BY <1>4, <1>6, <1>10, <1>11, <1>12, <1>13

-----------------------------------------------------------------------------
\* The steps, as what the invariants below see of them.

\* Nothing but what readers have got, messages in flight and streams that are
\* dropped.
Quiet ==
    /\ UNCHANGED <<requests, replies, inbox, log>>
    /\ \A n \in Nodes : /\ swarm'[n].topics = swarm[n].topics
                        /\ swarm'[n].received = swarm[n].received
                        /\ Addrs(n)' = Addrs(n)
    /\ wire' \subseteq wire
    /\ \A k \in Tickets : Carried(k)' = Carried(k) \/ Carried(k)' = taken[k]
    /\ \A k \in dropped' \ dropped : k \in DOMAIN log /\ log[k].op = "Subscribe"

\* A step is a call, a served request or an event of the swarm, or it disturbs
\* nothing that the invariants are about.
LEMMA Steps ==
    ASSUME ClientsOK, [CNext]_cvars
    PROVE  \/ \E c \in Calls : Call(c)
           \/ \E n \in Nodes : PollRequest(n) /\ UNCHANGED <<log, taken>>
           \/ \E n \in Nodes, w \in wire : PollSwarm(n, w) /\ UNCHANGED <<log, taken>>
           \/ Quiet
<1>1. CASE UNCHANGED cvars
  BY <1>1 DEF cvars, psvars, Quiet, Carried, Addrs
<1>2. ASSUME NEW k \in Tickets, Take(k)  PROVE Quiet
  BY <1>2, TakeMoves DEF Take, Quiet, Addrs
<1>3. ASSUME NEW k \in Tickets, Drop(k)  PROVE Quiet
  <2>1. \A j \in Tickets : Carried(j)' = Carried(j) \/ Carried(j)' = taken[j]
    <3>1. taken' = taken /\ streams' = [streams EXCEPT ![k] = <<>>]
      BY <1>3 DEF Drop
    <3>2. taken[k] \in Seq(Messages)
      BY DEF ClientsOK
    <3>3. taken[k] \o <<>> = taken[k]
      BY <3>2, EmptyParts
    <3>4. streams'[k] = <<>> /\ \A j \in Tickets \ {k} : streams'[j] = streams[j]
      BY <3>1 DEF ClientsOK
    <3> QED  BY <3>1, <3>3, <3>4 DEF Carried
  <2> QED  BY <1>3, <2>1 DEF Drop, Quiet, Addrs
<1>4. ASSUME NEW l \in links, Down(l)  PROVE Quiet
  BY <1>4 DEF Down, LinkDown, Quiet, Addrs, Carried
<1> DEFINE Rest == UNCHANGED <<log, taken, downs>>
<1>5. ASSUME NEW n \in Nodes, NEW a \in Local(n), NewListenAddr(n, a), Rest
      PROVE  Quiet
  <2>1. /\ Shows(swarm', n, swarm[n].topics, Reach(n, swarm[n]),
                 swarm[n].received)
        /\ \A m \in Nodes \ {n} : swarm'[m] = swarm[m]
    BY <1>5, ListenersWritten DEF ClientsOK, NewListenAddr
  <2> QED  BY <1>5, <2>1 DEF NewListenAddr, Quiet, Addrs, Shows, Carried
<1>6. ASSUME NEW n \in Nodes, NEW a \in swarm[n].dialing, DialEnds(n, a), Rest
      PROVE  Quiet
  <2>1. swarm[n].dialing \ {a} \in SUBSET Supported
    BY DEF ClientsOK, Swarm
  <2>2. /\ Shows(swarm', n, swarm[n].topics, Reach(n, swarm[n]),
                 swarm[n].received)
        /\ \A m \in Nodes \ {n} : swarm'[m] = swarm[m]
    BY <1>6, <2>1, DialingWritten DEF ClientsOK, DialEnds
  <2> QED  BY <1>6, <2>2 DEF DialEnds, Quiet, Addrs, Shows, Carried
<1> QED
  BY <1>1, <1>2, <1>3, <1>4, <1>5, <1>6 DEF CNext, Workers, Swarms

-----------------------------------------------------------------------------
\* Answers are of calls that were served, and only streams are dropped.

RepliesOK ==
    /\ \A k \in Tickets : replies[k] # <<>> => k \in DOMAIN log /\ ~Waiting(k)
    /\ \A k \in dropped : k \in DOMAIN log /\ log[k].op = "Subscribe"

BaseOK == ClientsOK /\ QueueOK /\ RepliesOK

\* At the start nothing was called and nothing waits.
LEMMA BaseInit ==
    ASSUME CInit
    PROVE  BaseOK
<1>1. ClientsOK
  BY TypeInit
<1>2. /\ log = <<>> /\ dropped = {} /\ \A n \in Nodes : requests[n] = <<>>
      /\ \A k \in Tickets : replies[k] = <<>>
  BY DEF CInit, InitWorkers
<1>3. QueueOK
  BY SMTT(60), <1>2 DEF QueueOK
<1> QED  BY <1>1, <1>2, <1>3 DEF BaseOK, RepliesOK

\* What the invariants need to know of a call.
LEMMA BaseCall ==
    ASSUME BaseOK, NEW c \in Calls, Call(c), NEW K, K = Len(log) + 1
    PROVE  /\ BaseOK'
           /\ DOMAIN log' = DOMAIN log \cup {K} /\ K \notin DOMAIN log /\ K \in Tickets
           /\ \A k \in DOMAIN log : k < K /\ log'[k] = log[k] /\ (Waiting(k)' <=> Waiting(k))
           /\ log'[K] = c
           /\ c.op # "Publish" => Waiting(K)'
           /\ replies[K] = <<>>
           /\ UNCHANGED <<replies, streams, dropped, inbox, swarm, links, wire, taken>>
<1>1. UNCHANGED <<replies, streams, dropped, inbox, swarm, links, wire, taken>>
  BY DEF Call
<1>2. ClientsOK /\ QueueOK /\ RepliesOK
  BY DEF BaseOK
<1>3. /\ log' \in Seq(Calls) /\ Len(log') = K /\ K \in Tickets /\ log'[K] = c
      /\ \A k \in DOMAIN log : k \in DOMAIN log' /\ log'[k] = log[k]
  BY <1>2, CallQueued
<1>4. DOMAIN log = 1 .. Len(log) /\ Len(log) \in Nat
  BY <1>2, TicketOfCall
<1>5. DOMAIN log' = DOMAIN log \cup {K} /\ K \notin DOMAIN log
  BY SMTT(60), <1>3, <1>4
<1>6. /\ \A k \in DOMAIN log : Waiting(k)' <=> Waiting(k)
      /\ c.op # "Publish" => Waiting(K)'
      /\ QueueOK'
  BY <1>2, CallWaits
<1>7. ClientsOK'
  BY <1>2, TypeCall
<1>8. RepliesOK'
  <2>1. \A k \in Tickets : replies'[k] # <<>> => k \in DOMAIN log' /\ ~Waiting(k)'
    BY <1>1, <1>2, <1>5, <1>6 DEF RepliesOK
  <2>2. \A k \in dropped' : k \in DOMAIN log' /\ log'[k].op = "Subscribe"
    BY <1>1, <1>2, <1>3, <1>5 DEF RepliesOK
  <2> QED  BY <2>1, <2>2 DEF RepliesOK
<1>9. replies[K] = <<>>
  BY <1>2, <1>3, <1>5 DEF RepliesOK
<1>10. \A k \in DOMAIN log : k < K
  BY SMTT(60), <1>4
<1> QED  BY <1>1, <1>3, <1>5, <1>6, <1>7, <1>8, <1>9, <1>10 DEF BaseOK

\* What they need to know of a call that is served: its number is k.
ServesOldest(n, k) ==
    /\ k \in DOMAIN log /\ log[k] \in Calls /\ log[k].node = n /\ k \in Tickets
    /\ Serves(n, log[k], k)
    /\ ~Waiting(k)'
    /\ \A j \in DOMAIN log \ {k} : Waiting(j)' <=> Waiting(j)
    /\ log[k].op # "Publish" =>
         /\ Waiting(k)
         /\ \A j \in DOMAIN log \ {k} :
                log[j].node = n /\ log[j].op # "Publish" =>
                    (~Waiting(j) => j < k) /\ (Waiting(j) => k < j)
    /\ UNCHANGED <<log, streams, dropped, taken>>

\* The worker serves the oldest request of its channel.
LEMMA BasePoll ==
    ASSUME BaseOK, NEW n \in Nodes, PollRequest(n), UNCHANGED <<log, taken>>
    PROVE  /\ \E k \in Tickets : ServesOldest(n, k)
           /\ BaseOK'
<1>1. ClientsOK /\ QueueOK /\ RepliesOK /\ log' = log
  BY DEF BaseOK
<1>2. PICK k \in DOMAIN log :
                 /\ log[k].node = n
                 /\ Serves(n, log[k], k)
                 /\ ~Waiting(k)'
                 /\ \A j \in DOMAIN log \ {k} : Waiting(j)' <=> Waiting(j)
                 /\ log[k].op # "Publish" =>
                      /\ Waiting(k)
                      /\ \A j \in DOMAIN log \ {k} :
                             log[j].node = n /\ log[j].op # "Publish" =>
                                 (~Waiting(j) => j < k) /\ (Waiting(j) => k < j)
  BY <1>1, PollWaits
<1>3. k \in Tickets /\ log[k] \in Calls
  BY <1>1, TicketOfCall
<1>4. ServesOldest(n, k)
  BY <1>2, <1>3 DEF ServesOldest, PollRequest
<1>5. ClientsOK' /\ QueueOK'
  BY <1>1, PollWaits, TypePoll
<1>6. RepliesOK'
  <2>1. ASSUME NEW j \in Tickets, replies'[j] # <<>>
        PROVE  j \in DOMAIN log' /\ ~Waiting(j)'
    <3>1. CASE j = k
      BY <1>1, <1>2, <3>1
    <3>2. CASE j # k
      <4>1. replies'[j] = replies[j]
        BY SMTT(60), <1>1, <1>2, <1>3, <3>2, ServedReplies
      <4> QED  BY <1>1, <1>2, <2>1, <3>2, <4>1 DEF RepliesOK
    <3> QED  BY <3>1, <3>2
  <2>2. \A j \in dropped' : j \in DOMAIN log' /\ log'[j].op = "Subscribe"
    BY <1>1, <1>4 DEF RepliesOK, ServesOldest
  <2> QED  BY <2>1, <2>2 DEF RepliesOK
<1> QED  BY <1>3, <1>4, <1>5, <1>6 DEF BaseOK

\* A step that leaves the channel and the answers alone keeps who waits.
LEMMA BaseRest ==
    ASSUME BaseOK, ClientsOK', UNCHANGED <<requests, replies, log>>,
           \A k \in dropped' \ dropped : k \in DOMAIN log /\ log[k].op = "Subscribe"
    PROVE  BaseOK' /\ \A k \in DOMAIN log : Waiting(k)' <=> Waiting(k)
<1>1. \A k : Waiting(k)' <=> Waiting(k)
  BY DEF Waiting
<1>2. QueueOK'
  BY <1>1 DEF BaseOK, QueueOK
<1>3. RepliesOK'
  BY <1>1 DEF BaseOK, RepliesOK
<1> QED  BY <1>1, <1>2, <1>3 DEF BaseOK

\* Every step is a call, a call served, a message that arrives, or quiet.
LEMMA BaseStep ==
    ASSUME BaseOK, [CNext]_cvars
    PROVE  /\ BaseOK'
           /\ \/ \E c \in Calls : Call(c)
              \/ \E n \in Nodes, k \in Tickets : ServesOldest(n, k)
              \/ \E n \in Nodes, w \in wire : PollSwarm(n, w) /\ UNCHANGED <<log, taken>>
              \/ Quiet
<1>1. ClientsOK /\ ClientsOK'
  BY TypeStep DEF BaseOK
<1>2. ASSUME NEW c \in Calls, Call(c)  PROVE BaseOK'
  <2>1. PICK K : K = Len(log) + 1
    OBVIOUS
  <2> QED  BY <1>2, <2>1, BaseCall
<1>3. ASSUME NEW n \in Nodes, NEW w \in wire, PollSwarm(n, w), UNCHANGED <<log, taken>>
      PROVE  BaseOK'
  BY <1>1, <1>3, BaseRest DEF PollSwarm
<1>4. CASE Quiet
  BY <1>1, <1>4, BaseRest DEF Quiet
<1>5. ASSUME NEW n \in Nodes, PollRequest(n), UNCHANGED <<log, taken>>
      PROVE  BaseOK' /\ \E k \in Tickets : ServesOldest(n, k)
  BY <1>5, BasePoll
<1> QED  BY <1>1, <1>2, <1>3, <1>4, <1>5, Steps

=============================================================================
