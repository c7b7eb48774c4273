---------------------------- MODULE PubSubProofs ----------------------------
(***************************************************************************)
(* Proofs about the publisher/subscriber and its clients, for any nodes,   *)
(* topics, payloads, calls and connections.                                *)
(***************************************************************************)
EXTENDS PubSubBaseProofs

\* A leaf is for Zenon unless it names another prover.
USE ZenonT(60)

-----------------------------------------------------------------------------
\* Which subscription a topic belongs to.

\* A topic is subscribed or not, its inbox entry is box, and the calls on it that
\* were served are the subscribe calls S and the unsubscribe calls U.
TopicState(subscribed, box, S, U) ==
    LET since == {k \in S : \A j \in U : j < k}
    IN  IF subscribed
        THEN /\ \E j \in S : \A i \in S \cup U : i <= j
             /\ box \in since
             /\ \A k \in since : box <= k
        ELSE \A k \in S : \E j \in U : k < j

\* The first subscription takes the topic, a later one changes nothing.
LEMMA SubscribesTopic ==
    ASSUME NEW b, NEW box, NEW S \in SUBSET Nat, NEW U \in SUBSET Nat, NEW k \in Nat,
           TopicState(b, box, S, U), \A j \in S \cup U : j < k
    PROVE  TopicState(TRUE, IF b THEN box ELSE k, S \cup {k}, U)
<1>1. CASE b
  <2> DEFINE before == {i \in S : \A j \in U : j < i}
             since == {i \in S \cup {k} : \A j \in U : j < i}
  <2>1. box \in before /\ \A i \in before : box <= i
    BY <1>1 DEF TopicState
  <2>2. box \in since /\ box < k
    BY <2>1
  <2>3. \A i \in since : box <= i
    <3>1. ASSUME NEW i \in since, i # k  PROVE box <= i
      BY <2>1, <3>1
    <3> QED  BY SMTT(60), <2>1, <2>2, <3>1
  <2>4. \E j \in S \cup {k} : \A i \in (S \cup {k}) \cup U : i <= j
    <3>1. \A i \in (S \cup {k}) \cup U : i <= k
      BY SMTT(60)
    <3> QED  BY <3>1
  <2>5. TopicState(TRUE, box, S \cup {k}, U)
    BY <2>2, <2>3, <2>4 DEF TopicState
  <2> QED  BY <1>1, <2>5
<1>2. CASE ~b
  BY SMTT(60), <1>2 DEF TopicState
<1> QED  BY <1>1, <1>2

\* After the latest unsubscribe the topic is off.
LEMMA UnsubscribesTopic ==
    ASSUME NEW b, NEW box, NEW S \in SUBSET Nat, NEW U \in SUBSET Nat, NEW k \in Nat,
           TopicState(b, box, S, U), \A j \in S \cup U : j < k
    PROVE  TopicState(FALSE, box, S, U \cup {k})
BY DEF TopicState

\* The calls of a kind on a topic that the worker of a node has served.
ServedOn(n, op, t) ==
    {k \in DOMAIN log : log[k].node = n /\ log[k].op = op /\ log[k].topic = t /\ ~Waiting(k)}

TopicsOK ==
    \A n \in Nodes, t \in Topics :
        TopicState(t \in swarm[n].topics, inbox[n][no_hash(t)],
                   ServedOn(n, "Subscribe", t), ServedOn(n, "Unsubscribe", t))

\* At the start no topic is subscribed.
LEMMA TopicsInit ==
    ASSUME CInit
    PROVE  TopicsOK
<1>1. log = <<>> /\ \A n \in Nodes : swarm[n].topics = {}
  BY DEF CInit, InitWorkers
<1>2. \A n \in Nodes, t \in Topics : t \notin swarm[n].topics /\ ServedOn(n, "Subscribe", t) = {}
  BY SMTT(60), <1>1 DEF ServedOn
<1> QED  BY <1>2 DEF TopicsOK, TopicState

\* Nothing changes where the served calls, the topics and the inbox stay.
LEMMA TopicsStay ==
    ASSUME TopicsOK, NEW n \in Nodes, NEW t \in Topics,
           t \in swarm'[n].topics <=> t \in swarm[n].topics,
           inbox'[n][no_hash(t)] = inbox[n][no_hash(t)],
           ServedOn(n, "Subscribe", t)' = ServedOn(n, "Subscribe", t),
           ServedOn(n, "Unsubscribe", t)' = ServedOn(n, "Unsubscribe", t)
    PROVE  TopicState(t \in swarm'[n].topics, inbox'[n][no_hash(t)],
                      ServedOn(n, "Subscribe", t)', ServedOn(n, "Unsubscribe", t)')
<1>1. (t \in swarm'[n].topics) = (t \in swarm[n].topics)
  BY SMTT(60)
<1>2. TopicState(t \in swarm[n].topics, inbox[n][no_hash(t)],
                 ServedOn(n, "Subscribe", t), ServedOn(n, "Unsubscribe", t))
  BY DEF TopicsOK
<1> QED  BY <1>1, <1>2

\* A new call waits behind those that were served.
LEMMA TopicsCall ==
    ASSUME BaseOK, TopicsOK, NEW c \in Calls, Call(c)
    PROVE  TopicsOK'
<1>1. PICK K : K = Len(log) + 1
  OBVIOUS
<1>2. /\ DOMAIN log' = DOMAIN log \cup {K} /\ K \notin DOMAIN log
      /\ \A k \in DOMAIN log : log'[k] = log[k] /\ (Waiting(k)' <=> Waiting(k))
      /\ log'[K] = c
      /\ c.op # "Publish" => Waiting(K)'
      /\ UNCHANGED <<inbox, swarm>>
  BY <1>1, BaseCall
<1>3. ASSUME NEW n, NEW op \in {"Subscribe", "Unsubscribe"}, NEW t
      PROVE  ServedOn(n, op, t)' = ServedOn(n, op, t)
  <2>1. ASSUME NEW k
        PROVE  k \in ServedOn(n, op, t)' <=> k \in ServedOn(n, op, t)
    <3>1. CASE k = K
      <4>1. k \notin ServedOn(n, op, t)
        BY <1>2, <3>1 DEF ServedOn
      <4>2. op # "Publish"
        OBVIOUS
      <4>3. k \notin ServedOn(n, op, t)'
        BY <1>2, <3>1, <4>2 DEF ServedOn
      <4> QED  BY <4>1, <4>3
    <3>2. CASE k # K
      BY <1>2, <3>2 DEF ServedOn
    <3> QED  BY <3>1, <3>2
  <2> QED  BY <2>1
<1>4. ASSUME NEW n \in Nodes, NEW t \in Topics
      PROVE  TopicState(t \in swarm'[n].topics, inbox'[n][no_hash(t)],
                        ServedOn(n, "Subscribe", t)', ServedOn(n, "Unsubscribe", t)')
  BY <1>2, <1>3, TopicsStay
<1> QED  BY <1>4 DEF TopicsOK

\* Steps that serve nothing leave topics and inboxes alone.
LEMMA TopicsRest ==
    ASSUME BaseOK, BaseOK', TopicsOK, UNCHANGED <<requests, replies, log, inbox>>,
           \A n \in Nodes : swarm'[n].topics = swarm[n].topics
    PROVE  TopicsOK'
<1>1. ASSUME NEW n, NEW op, NEW t
      PROVE  ServedOn(n, op, t)' = ServedOn(n, op, t)
  BY DEF ServedOn, Waiting
<1>2. ASSUME NEW n \in Nodes, NEW t \in Topics
      PROVE  TopicState(t \in swarm'[n].topics, inbox'[n][no_hash(t)],
                        ServedOn(n, "Subscribe", t)', ServedOn(n, "Unsubscribe", t)')
  BY <1>1, TopicsStay
<1> QED  BY <1>2 DEF TopicsOK

\* The served calls are numbers of calls, and older than the call being served.
LEMMA ServedBefore ==
    ASSUME BaseOK, NEW n \in Nodes, NEW k \in Tickets, ServesOldest(n, k),
           log[k].op # "Publish", NEW op \in {"Subscribe", "Unsubscribe"}, NEW t
    PROVE  /\ ServedOn(n, op, t) \in SUBSET Nat /\ k \in Nat
           /\ \A j \in ServedOn(n, op, t) : j < k
<1>1. \A j \in DOMAIN log : j \in Nat
  BY TicketOfCall DEF BaseOK
<1>2. k \in DOMAIN log /\ Waiting(k)
  BY DEF ServesOldest
<1>3. ASSUME NEW j \in ServedOn(n, op, t)  PROVE j \in Nat /\ j < k
  <2>1. j \in DOMAIN log /\ log[j].node = n /\ log[j].op = op /\ ~Waiting(j)
    BY DEF ServedOn
  <2>2. j # k /\ log[j].op # "Publish"
    BY <1>2, <2>1
  <2> QED  BY <1>1, <2>1, <2>2 DEF ServesOldest
<1> QED  BY <1>1, <1>2, <1>3

\* Serving a call adds it to the served calls of its kind, topic and node.
LEMMA ServedGrows ==
    ASSUME NEW n \in Nodes, NEW k \in Tickets, ServesOldest(n, k), NEW m, NEW op, NEW t,
           op # "Publish"
    PROVE  ServedOn(m, op, t)' = IF m = n /\ log[k].op = op /\ log[k].topic = t
                                 THEN ServedOn(m, op, t) \cup {k} ELSE ServedOn(m, op, t)
<1>1. /\ k \in DOMAIN log /\ log' = log /\ ~Waiting(k)' /\ log[k].node = n
      /\ \A j \in DOMAIN log \ {k} : Waiting(j)' <=> Waiting(j)
      /\ log[k].op # "Publish" => Waiting(k)
  BY DEF ServesOldest
<1>2. ASSUME NEW j, j # k
      PROVE  j \in ServedOn(m, op, t)' <=> j \in ServedOn(m, op, t)
  BY <1>1, <1>2 DEF ServedOn
<1>3. k \notin ServedOn(m, op, t)
  BY <1>1 DEF ServedOn
<1>4. k \in ServedOn(m, op, t)' <=> m = n /\ log[k].op = op /\ log[k].topic = t
  BY <1>1 DEF ServedOn
<1> QED  BY SMTT(60), <1>2, <1>3, <1>4

\* A served request leaves the topic as the served calls tell.
LEMMA TopicsPoll ==
    ASSUME BaseOK, TopicsOK, NEW n \in Nodes, NEW k \in Tickets, ServesOldest(n, k)
    PROVE  TopicsOK'
<1> DEFINE c == log[k]
<1>1. c \in Calls /\ c.node = n /\ Serves(n, c, k) /\ ClientsOK
  BY DEF ServesOldest, BaseOK
<1>2. /\ \A m \in Nodes \ {n} : swarm'[m] = swarm[m]
      /\ swarm'[n].topics = IF c.op = "Subscribe" THEN swarm[n].topics \cup {c.topic}
                            ELSE IF c.op = "Unsubscribe" THEN swarm[n].topics \ {c.topic}
                            ELSE swarm[n].topics
  BY <1>1, ServedSwarm
<1>3. \A m \in Nodes, t \in Topics :
          inbox'[m][no_hash(t)] =
              IF c.op = "Subscribe" /\ m = n /\ t = c.topic /\ t \notin swarm[n].topics
              THEN k ELSE inbox[m][no_hash(t)]
  BY SMTT(60), <1>1, ServedInbox
<1>4. ASSUME NEW m, NEW t, NEW op \in {"Subscribe", "Unsubscribe"}
      PROVE  ServedOn(m, op, t)' = IF m = n /\ c.op = op /\ c.topic = t
                                   THEN ServedOn(m, op, t) \cup {k} ELSE ServedOn(m, op, t)
  BY SMTT(60), ServedGrows
<1> HIDE DEF c
<1> SUFFICES ASSUME NEW m \in Nodes, NEW t \in Topics
    PROVE  TopicState(t \in swarm'[m].topics, inbox'[m][no_hash(t)],
                      ServedOn(m, "Subscribe", t)', ServedOn(m, "Unsubscribe", t)')
  BY DEF TopicsOK
<1> DEFINE S == ServedOn(m, "Subscribe", t)
           U == ServedOn(m, "Unsubscribe", t)
<1>5. TopicState(t \in swarm[m].topics, inbox[m][no_hash(t)], S, U)
  BY DEF TopicsOK
<1>6. CASE ~(m = n /\ c.op \in {"Subscribe", "Unsubscribe"} /\ c.topic = t)
  <2>1. t \in swarm'[m].topics <=> t \in swarm[m].topics
    BY <1>2, <1>6
  <2>2. inbox'[m][no_hash(t)] = inbox[m][no_hash(t)]
    BY <1>3, <1>6
  <2>3. S' = S /\ U' = U
    BY <1>4, <1>6
  <2> QED  BY <2>1, <2>2, <2>3, TopicsStay
<1>7. ASSUME m = n, c.op \in {"Subscribe", "Unsubscribe"}
      PROVE  S \in SUBSET Nat /\ U \in SUBSET Nat /\ k \in Nat /\ \A j \in S \cup U : j < k
  <2>1. log[k].op # "Publish"
    BY <1>7 DEF c
  <2> QED  BY <1>7, <2>1, ServedBefore
<1>8. CASE m = n /\ c.op = "Subscribe" /\ c.topic = t
  <2>1. /\ (t \in swarm'[m].topics) = TRUE
        /\ inbox'[m][no_hash(t)] = IF t \in swarm[m].topics THEN inbox[m][no_hash(t)] ELSE k
        /\ S' = S \cup {k} /\ U' = U
    BY <1>2, <1>3, <1>4, <1>8
  <2> HIDE DEF S, U
  <2>2. TopicState(TRUE, IF t \in swarm[m].topics THEN inbox[m][no_hash(t)] ELSE k, S \cup {k}, U)
    BY <1>5, <1>7, <1>8, SubscribesTopic
  <2> QED  BY <2>1, <2>2 DEF S, U
<1>9. CASE m = n /\ c.op = "Unsubscribe" /\ c.topic = t
  <2>1. /\ (t \in swarm'[m].topics) = FALSE
        /\ inbox'[m][no_hash(t)] = inbox[m][no_hash(t)]
        /\ S' = S /\ U' = U \cup {k}
    BY SMTT(60), <1>2, <1>3, <1>4, <1>9
  <2> HIDE DEF S, U
  <2>2. TopicState(FALSE, inbox[m][no_hash(t)], S, U \cup {k})
    BY <1>5, <1>7, <1>9, UnsubscribesTopic
  <2> QED  BY <2>1, <2>2 DEF S, U
<1> QED  BY <1>6, <1>8, <1>9

\* Every step keeps topics and inboxes as the served calls tell.
LEMMA TopicsStep ==
    ASSUME BaseOK, TopicsOK, [CNext]_cvars
    PROVE  BaseOK' /\ TopicsOK'
<1>1. BaseOK'
  BY BaseStep
<1>2. ASSUME NEW n \in Nodes, NEW w \in wire, PollSwarm(n, w), UNCHANGED <<log, taken>>
      PROVE  TopicsOK'
  <2>1. \A m \in Nodes : swarm'[m].topics = swarm[m].topics
    BY <1>2, SwarmPolled DEF BaseOK, Becomes, Shows
  <2>2. UNCHANGED <<requests, replies, log, inbox>>
    BY <1>2 DEF PollSwarm
  <2> QED  BY <1>1, <2>1, <2>2, TopicsRest
<1>3. CASE Quiet
  BY <1>1, <1>3, TopicsRest DEF Quiet
<1> QED  BY <1>1, <1>2, <1>3, BaseStep, TopicsCall, TopicsPoll

\* While a topic is subscribed at a node its messages go to the first of the
\* subscribe calls served after the last unsubscribe, for every network.
THEOREM FirstReaderKeeps == CSpec => []FirstReaderKeepsTopic
<1>1. CInit => BaseOK /\ TopicsOK
  BY BaseInit, TopicsInit
<1>2. BaseOK /\ TopicsOK /\ [CNext]_cvars => (BaseOK /\ TopicsOK)'
  BY TopicsStep
<1>3. BaseOK /\ TopicsOK => FirstReaderKeepsTopic
  <2> SUFFICES ASSUME BaseOK, TopicsOK  PROVE FirstReaderKeepsTopic
    OBVIOUS
  <2> DEFINE Since(n, t) == {k \in ServedOn(n, "Subscribe", t) :
                                 \A j \in ServedOn(n, "Unsubscribe", t) : j < k}
  <2>1. ASSUME NEW n \in Nodes, NEW t \in swarm[n].topics
        PROVE  /\ inbox[n][no_hash(t)] \in Since(n, t)
               /\ \A k \in Since(n, t) : inbox[n][no_hash(t)] <= k
    <3>1. t \in Topics
      BY DEF BaseOK, ClientsOK, Swarm
    <3>2. TopicState(TRUE, inbox[n][no_hash(t)],
                     ServedOn(n, "Subscribe", t), ServedOn(n, "Unsubscribe", t))
      BY <3>1 DEF TopicsOK, TopicState
    <3> QED  BY <3>2 DEF TopicState
  <2> QED  BY SMTT(60), <2>1 DEF FirstReaderKeepsTopic, ServedOn
<1> QED  BY <1>1, <1>2, <1>3, PTL DEF CSpec

-----------------------------------------------------------------------------
\* The answers of unsubscribe.

\* The calls on the topic of the call k, at its node and before it.
Before(k) ==
    {j \in 1 .. k - 1 : /\ log[j].node = log[k].node
                        /\ log[j].op \in {"Subscribe", "Unsubscribe"}
                        /\ log[j].topic = log[k].topic}

LastSubscribes(k) ==
    \E j \in Before(k) : log[j].op = "Subscribe" /\ \A i \in Before(k) : i <= j

\* All that was called before is served before.
LEMMA BeforeIsServed ==
    ASSUME BaseOK, TopicsOK, NEW n \in Nodes, NEW k \in Tickets, ServesOldest(n, k),
           log[k].op = "Unsubscribe"
    PROVE  log[k].topic \in swarm[n].topics <=> LastSubscribes(k)
<1> DEFINE t == log[k].topic
           S == ServedOn(n, "Subscribe", t)
           U == ServedOn(n, "Unsubscribe", t)
<1>1. /\ k \in DOMAIN log /\ log[k] \in Calls /\ log[k].node = n /\ log[k].op # "Publish"
      /\ \A j \in DOMAIN log \ {k} :
             log[j].node = n /\ log[j].op # "Publish" =>
                 (~Waiting(j) => j < k) /\ (Waiting(j) => k < j)
  BY DEF ServesOldest
<1>2. DOMAIN log = 1 .. Len(log) /\ Len(log) \in Nat /\ k \in Nat /\ t \in Topics
  BY <1>1, TicketOfCall, CallFields DEF BaseOK
<1>3. /\ S \in SUBSET Nat /\ \A j \in S : j < k
      /\ U \in SUBSET Nat /\ \A j \in U : j < k
  BY <1>1, ServedBefore
<1>4. ASSUME NEW j \in S \cup U  PROVE j \in Before(k)
  BY SMTT(60), <1>1, <1>2, <1>3 DEF Before, ServedOn
<1>5. ASSUME NEW j \in Before(k)
      PROVE  j \in S \cup U /\ (log[j].op = "Subscribe" <=> j \in S)
  <2>1. /\ j \in 1 .. k - 1 /\ log[j].node = n /\ log[j].topic = t
        /\ log[j].op \in {"Subscribe", "Unsubscribe"}
    BY <1>1 DEF Before
  <2>2. j \in DOMAIN log /\ j # k /\ ~(k < j) /\ log[j].op # "Publish"
    BY SMTT(60), <1>1, <1>2, <2>1
  <2>3. ~Waiting(j)
    BY <1>1, <2>1, <2>2
  <2> QED  BY <2>1, <2>2, <2>3 DEF ServedOn
<1>6. TopicState(t \in swarm[n].topics, inbox[n][no_hash(t)], S, U)
  BY <1>2 DEF TopicsOK
<1> HIDE DEF S, U, t
<1>7. LastSubscribes(k) <=> \E j \in S : \A i \in S \cup U : i <= j
  <2>1. ASSUME NEW j \in Before(k), log[j].op = "Subscribe", \A i \in Before(k) : i <= j
        PROVE  j \in S /\ \A i \in S \cup U : i <= j
    BY <1>4, <1>5, <2>1
  <2>2. ASSUME NEW j \in S, \A i \in S \cup U : i <= j
        PROVE  j \in Before(k) /\ log[j].op = "Subscribe" /\ \A i \in Before(k) : i <= j
    BY <1>4, <1>5, <2>2
  <2> QED  BY <2>1, <2>2 DEF LastSubscribes
<1>8. t \in swarm[n].topics <=> \E j \in S : \A i \in S \cup U : i <= j
  <2>1. ASSUME t \in swarm[n].topics  PROVE \E j \in S : \A i \in S \cup U : i <= j
    BY <1>6, <2>1 DEF TopicState
  <2>2. ASSUME t \notin swarm[n].topics, NEW j \in S, \A i \in S \cup U : i <= j
        PROVE  FALSE
    <3>1. PICK i \in U : j < i
      BY <1>6, <2>2 DEF TopicState
    <3>2. i <= j /\ i \in Nat /\ j \in Nat
      BY <1>3, <2>2
    <3> QED  BY SMTT(60), <3>1, <3>2
  <2> QED  BY <2>1, <2>2
<1> QED  BY <1>7, <1>8 DEF t

\* The same statement as AnswersFollowCallOrder, with the operators above.
AnswersOK ==
    \A k \in DOMAIN log :
        log[k].op = "Unsubscribe" /\ replies[k] # <<>> => (replies[k][1].ok <=> LastSubscribes(k))

\* Calls to come do not change what came before.
LEMMA BeforeStays ==
    ASSUME NEW k \in Nat, \A j \in 1 .. k : log'[j] = log[j], k >= 1
    PROVE  LastSubscribes(k)' <=> LastSubscribes(k)
<1>1. Before(k)' = Before(k)
  BY SMTT(60) DEF Before
<1>2. \A j \in Before(k) : log'[j] = log[j]
  BY SMTT(60) DEF Before
<1> QED  BY <1>1, <1>2 DEF LastSubscribes

\* Every step keeps the answers to be those of the order of calls.
LEMMA AnswersStep ==
    ASSUME BaseOK, TopicsOK, AnswersOK, [CNext]_cvars
    PROVE  AnswersOK'
<1>1. /\ DOMAIN log = 1 .. Len(log) /\ Len(log) \in Nat
      /\ \A k \in DOMAIN log : k \in Nat /\ k >= 1 /\ k \in Tickets
  BY SMTT(60), TicketOfCall DEF BaseOK
<1>2. ASSUME NEW k \in DOMAIN log, \A j \in DOMAIN log : log'[j] = log[j]
      PROVE  LastSubscribes(k)' <=> LastSubscribes(k)
  <2>1. \A j \in 1 .. k : j \in DOMAIN log
    BY SMTT(60), <1>1
  <2> QED  BY <1>1, <1>2, <2>1, BeforeStays
<1>3. ASSUME NEW c \in Calls, Call(c)  PROVE AnswersOK'
  <2>1. PICK K : K = Len(log) + 1
    OBVIOUS
  <2>2. /\ DOMAIN log' = DOMAIN log \cup {K} /\ replies' = replies /\ replies[K] = <<>>
        /\ \A k \in DOMAIN log : log'[k] = log[k]
    BY <1>3, <2>1, BaseCall
  <2> QED  BY <1>2, <2>2 DEF AnswersOK
<1>4. ASSUME NEW n \in Nodes, NEW k \in Tickets, ServesOldest(n, k)  PROVE AnswersOK'
  <2>1. log' = log /\ k \in DOMAIN log /\ log[k] \in Calls /\ Serves(n, log[k], k) /\ ClientsOK
    BY <1>4 DEF ServesOldest, BaseOK
  <2>2. ASSUME NEW j \in DOMAIN log, j # k, log[j].op = "Unsubscribe", replies'[j] # <<>>
        PROVE  replies'[j][1].ok <=> LastSubscribes(j)'
    <3>1. replies'[j] = replies[j]
      BY SMTT(60), <1>1, <2>1, <2>2, ServedReplies
    <3> QED  BY <1>2, <2>1, <2>2, <3>1 DEF AnswersOK
  <2>3. ASSUME log[k].op = "Unsubscribe", replies'[k] # <<>>
        PROVE  replies'[k][1].ok <=> LastSubscribes(k)'
    <3>1. k \notin dropped
      BY <2>3 DEF BaseOK, RepliesOK
    <3>2. replies'[k][1].ok <=> log[k].topic \in swarm[n].topics
      BY <2>1, <2>3, <3>1, ServedReplies DEF ToldOk
    <3>3. log[k].topic \in swarm[n].topics <=> LastSubscribes(k)
      BY <1>4, <2>3, BeforeIsServed
    <3> QED  BY <1>2, <2>1, <3>2, <3>3
  <2> QED  BY <2>1, <2>2, <2>3 DEF AnswersOK
<1>5. ASSUME UNCHANGED <<log, replies>>  PROVE AnswersOK'
  BY <1>2, <1>5 DEF AnswersOK
<1> QED  BY <1>3, <1>4, <1>5, BaseStep DEF PollSwarm, Quiet

\* unsubscribe answers true exactly if the last call on its topic before it, at
\* its node, was a subscribe: the calls of a node take effect in their order.
THEOREM AnswersInOrder == CSpec => []AnswersFollowCallOrder
<1> DEFINE IInv == BaseOK /\ TopicsOK /\ AnswersOK
<1>1. CInit => IInv
  <2> SUFFICES ASSUME CInit  PROVE AnswersOK
    BY BaseInit, TopicsInit
  <2>1. log = <<>>
    BY DEF CInit
  <2> QED  BY SMTT(60), <2>1 DEF AnswersOK
<1>2. IInv /\ [CNext]_cvars => IInv'
  BY TopicsStep, AnswersStep
<1>3. IInv => AnswersFollowCallOrder
  BY DEF AnswersOK, AnswersFollowCallOrder, LastSubscribes, Before
<1> HIDE DEF IInv
<1> QED  BY <1>1, <1>2, <1>3, PTL DEF CSpec

-----------------------------------------------------------------------------
\* The addresses that a node reports.

\* The call j asked for the address or for all, and was told of its success.
Asked(n, a, j) ==
    /\ log[j].node = n /\ log[j].op = "Listen" /\ a \in Resolved(n, log[j].addr)
    /\ ~Waiting(j) /\ replies[j] # <<>> /\ replies[j][1].ok

AddrsOK == \A n \in Nodes : \A a \in Addrs(n) : \E j \in DOMAIN log : Asked(n, a, j)

\* ReportedWereAskedFor, with the operator above.
ReportsOK ==
    \A k \in DOMAIN log :
        log[k].op = "Listeners" /\ replies[k] # <<>> =>
            \A a \in replies[k][1].addrs : \E j \in 1 .. k - 1 :
                j \in DOMAIN log /\ Asked(log[k].node, a, j)

\* Who was told stays told.
LEMMA AskedStays ==
    ASSUME BaseOK, [CNext]_cvars, NEW n, NEW a, NEW j \in DOMAIN log, Asked(n, a, j)
    PROVE  j \in DOMAIN log' /\ Asked(n, a, j)' /\ log'[j] = log[j]
<1>1. j \in Tickets
  BY TicketOfCall DEF BaseOK
<1>2. ASSUME NEW c \in Calls, Call(c)
      PROVE  j \in DOMAIN log' /\ Asked(n, a, j)' /\ log'[j] = log[j]
  <2>1. PICK K : K = Len(log) + 1
    OBVIOUS
  <2>2. /\ DOMAIN log' = DOMAIN log \cup {K} /\ replies' = replies
        /\ log'[j] = log[j] /\ (Waiting(j)' <=> Waiting(j))
    BY <1>2, <2>1, BaseCall
  <2> QED  BY <2>2 DEF Asked
<1>3. ASSUME NEW m \in Nodes, NEW k \in Tickets, ServesOldest(m, k)
      PROVE  j \in DOMAIN log' /\ Asked(n, a, j)' /\ log'[j] = log[j]
  <2>1. /\ log' = log /\ k \in DOMAIN log /\ log[k] \in Calls /\ Serves(m, log[k], k)
        /\ ClientsOK /\ (log[k].op # "Publish" => Waiting(k))
        /\ \A i \in DOMAIN log \ {k} : Waiting(i)' <=> Waiting(i)
    BY <1>3 DEF ServesOldest, BaseOK
  <2>2. j # k
    BY <2>1 DEF Asked
  <2>3. replies'[j] = replies[j]
    BY <1>1, <2>1, <2>2, ServedReplies
  <2> QED  BY <2>1, <2>2, <2>3 DEF Asked
<1>4. ASSUME UNCHANGED <<requests, log, replies>>
      PROVE  j \in DOMAIN log' /\ Asked(n, a, j)' /\ log'[j] = log[j]
  BY <1>4 DEF Asked, Waiting
<1> QED  BY <1>2, <1>3, <1>4, BaseStep DEF PollSwarm, Quiet

\* Every step keeps the addresses to those a served call asked for.
LEMMA AddrsStep ==
    ASSUME BaseOK, AddrsOK, [CNext]_cvars
    PROVE  AddrsOK'
<1> SUFFICES ASSUME NEW n \in Nodes, NEW a \in Addrs(n)'
             PROVE  \E j \in DOMAIN log' : Asked(n, a, j)'
  BY DEF AddrsOK
<1>1. CASE a \in Addrs(n)
  BY <1>1, AskedStays DEF AddrsOK
<1>2. CASE a \notin Addrs(n)
  <2>1. ASSUME NEW m \in Nodes, NEW k \in Tickets, ServesOldest(m, k)
        PROVE  \E j \in DOMAIN log' : Asked(n, a, j)'
    <3>1. /\ log' = log /\ k \in DOMAIN log /\ log[k] \in Calls /\ Serves(m, log[k], k)
          /\ ClientsOK /\ ~Waiting(k)' /\ log[k].node = m
      BY <2>1 DEF ServesOldest, BaseOK
    <3>2. /\ \A i \in Nodes \ {m} : swarm'[i] = swarm[i]
          /\ Addrs(m)' = IF log[k].op = "Listen" THEN Addrs(m) \cup Resolved(m, log[k].addr)
                         ELSE Addrs(m)
      BY <3>1, ServedSwarm
    <3>3. n = m
      BY <1>2, <3>2 DEF Addrs
    <3>4. log[k].op = "Listen" /\ a \in Resolved(n, log[k].addr)
      BY <1>2, <3>2, <3>3
    <3>5. k \notin dropped
      BY <3>4 DEF BaseOK, RepliesOK
    <3>6. replies'[k] # <<>> /\ replies'[k][1].ok
      <4>1. log[k].addr \in Supported
        BY <3>4 DEF Resolved, Supported, Sockets, Local
      <4>2. ToldOk(m, log[k])
        BY <3>4, <4>1 DEF ToldOk
      <4> QED  BY SMTT(60), <3>1, <3>4, <3>5, <4>2, ServedReplies
    <3> QED  BY <3>1, <3>3, <3>4, <3>6 DEF Asked
  <2>2. ASSUME NEW m \in Nodes, NEW w \in wire, PollSwarm(m, w)  PROVE FALSE
    <3>1. Becomes(m, swarm[m].topics, Addrs(m), swarm[m].received \cup {w.data})
      BY <2>2, SwarmPolled DEF BaseOK
    <3> QED  BY <1>2, <3>1 DEF Becomes, Shows, Addrs
  <2>3. ~Quiet
    BY <1>2 DEF Quiet
  <2>4. ASSUME NEW c \in Calls, Call(c)  PROVE FALSE
    BY <1>2, <2>4 DEF Call, Addrs
  <2> QED  BY <2>1, <2>2, <2>3, <2>4, BaseStep
<1> QED  BY <1>1, <1>2

\* Every step keeps the reported addresses to those asked for before.
LEMMA ReportsStep ==
    ASSUME BaseOK, AddrsOK, ReportsOK, [CNext]_cvars
    PROVE  ReportsOK'
<1>1. \A k \in DOMAIN log : k \in Tickets /\ k \in Nat
  BY TicketOfCall DEF BaseOK
<1>2. ASSUME NEW k \in DOMAIN log, log'[k] = log[k], replies'[k] = replies[k],
             log[k].op = "Listeners", replies[k] # <<>>, NEW a \in replies[k][1].addrs
      PROVE  \E j \in 1 .. k - 1 : j \in DOMAIN log' /\ Asked(log[k].node, a, j)'
  <2>1. PICK j \in 1 .. k - 1 : j \in DOMAIN log /\ Asked(log[k].node, a, j)
    BY <1>2 DEF ReportsOK
  <2>2. PICK n : n = log[k].node
    OBVIOUS
  <2>3. j \in DOMAIN log' /\ Asked(n, a, j)'
    BY <2>1, <2>2, AskedStays
  <2> QED  BY <1>2, <2>2, <2>3
<1>3. ASSUME NEW c \in Calls, Call(c)  PROVE ReportsOK'
  <2>1. PICK K : K = Len(log) + 1
    OBVIOUS
  <2>2. /\ DOMAIN log' = DOMAIN log \cup {K} /\ replies' = replies /\ replies[K] = <<>>
        /\ \A k \in DOMAIN log : log'[k] = log[k]
    BY <1>3, <2>1, BaseCall
  <2> QED  BY <1>2, <2>2 DEF ReportsOK
<1>4. ASSUME NEW n \in Nodes, NEW k \in Tickets, ServesOldest(n, k)  PROVE ReportsOK'
  <2>1. /\ log' = log /\ k \in DOMAIN log /\ log[k] \in Calls /\ Serves(n, log[k], k)
        /\ ClientsOK /\ log[k].node = n
    BY <1>4 DEF ServesOldest, BaseOK
  <2>2. \A j \in DOMAIN log : j # k => replies'[j] = replies[j]
    BY SMTT(60), <1>1, <2>1, ServedReplies
  <2>3. ASSUME log[k].op = "Listeners", replies'[k] # <<>>, NEW a \in replies'[k][1].addrs
        PROVE  \E j \in 1 .. k - 1 : j \in DOMAIN log' /\ Asked(n, a, j)'
    <3>1. k \notin dropped
      BY <2>3 DEF BaseOK, RepliesOK
    <3>2. replies'[k][1].addrs = swarm[n].listeners
      BY SMTT(60), <2>1, <2>3, <3>1, ServedReplies DEF ToldAddrs
    <3>3. PICK j \in DOMAIN log : Asked(n, a, j)
      <4>1. swarm[n].listeners \subseteq Addrs(n)
        BY ListensReach DEF Addrs
      <4>2. a \in swarm[n].listeners
        BY <2>3, <3>2
      <4> QED  BY <4>1, <4>2 DEF AddrsOK
    <3>4. j < k
      <4>1. j # k /\ log[j].op # "Publish" /\ log[j].node = n /\ ~Waiting(j)
        BY <2>3, <3>3 DEF Asked
      <4> QED  BY <1>4, <2>3, <4>1 DEF ServesOldest
    <3>5. j \in 1 .. k - 1
      <4>1. DOMAIN log = 1 .. Len(log) /\ Len(log) \in Nat
        BY TicketOfCall DEF BaseOK
      <4> QED  BY SMTT(60), <2>1, <3>4, <4>1
    <3> QED  BY <3>3, <3>5, AskedStays
  <2> QED  BY <1>2, <2>1, <2>2, <2>3 DEF ReportsOK
<1>5. ASSUME UNCHANGED <<log, replies>>  PROVE ReportsOK'
  BY <1>2, <1>5 DEF ReportsOK
<1> QED  BY <1>3, <1>4, <1>5, BaseStep DEF PollSwarm, Quiet

\* The addresses a node reports are its own, and were asked for by calls made before,
\* one by one or as the unspecified address, which were told of their success; nodes
\* begin without connections, so without listeners.
THEOREM ReportedAddresses == Linked = {} => (CSpec => []ReportedWereAskedFor)
<1> SUFFICES ASSUME Linked = {}  PROVE CSpec => []ReportedWereAskedFor
  OBVIOUS
<1> DEFINE IInv == BaseOK /\ AddrsOK /\ ReportsOK
<1>1. CInit => IInv
  <2> SUFFICES ASSUME CInit  PROVE AddrsOK /\ ReportsOK
    BY BaseInit
  <2>1. log = <<>> /\ \A n \in Nodes : swarm[n].binding = {} /\ swarm[n].listeners = {}
    BY DEF CInit, InitWorkers
  <2>2. DOMAIN log = {}
    BY SMTT(60), <2>1
  <2>3. \A n \in Nodes : Addrs(n) = {}
    BY <2>1 DEF Addrs, Reach, Resolves
  <2> QED  BY <2>2, <2>3 DEF AddrsOK, ReportsOK
<1>2. IInv /\ [CNext]_cvars => IInv'
  BY BaseStep, AddrsStep, ReportsStep
<1>3. IInv => ReportedWereAskedFor
  BY SMTT(60) DEF ReportsOK, ReportedWereAskedFor, Asked
<1> HIDE DEF IInv
<1> QED  BY <1>1, <1>2, <1>3, PTL DEF CSpec

-----------------------------------------------------------------------------
\* What readers get.

\* The call p published the data on the topic.
Published(p, node, topic, data) ==
    /\ log[p].op = "Publish" /\ log[p].topic = topic
    /\ log[p].node = node /\ log[p].data = data

\* What is in flight was published by the node it is said to be from, which
\* knows it; an inbox belongs to a subscription to its topic at its node.
WireOK ==
    \A w \in wire :
        /\ w.data \in swarm[w.from].received
        /\ \E p \in DOMAIN log : Published(p, w.from, w.topic, w.data)

InboxOK ==
    \A n \in Nodes, t \in Topics :
        LET k == inbox[n][no_hash(t)]
        IN  k # None => /\ k \in DOMAIN log /\ log[k].op = "Subscribe"
                        /\ log[k].node = n /\ log[k].topic = t

\* What a reader got is of its topic, from another node, known to its own, and
\* all different.
Reads(node, topic, s) ==
    /\ \A j \in DOMAIN s :
           /\ \E p \in DOMAIN log : Published(p, s[j].from, topic, s[j].data)
           /\ s[j].from # node
           /\ s[j].data \in swarm[node].received
    /\ \A i, j \in DOMAIN s : s[i].data = s[j].data => i = j

ReadersOK ==
    \A k \in Tickets :
        Carried(k) # <<>> => /\ k \in DOMAIN log /\ log[k].op = "Subscribe"
                             /\ Reads(log[k].node, log[k].topic, Carried(k))

\* What was published, and what is known, stays so.
LEMMA KnownStays ==
    ASSUME BaseOK, [CNext]_cvars
    PROVE  /\ \A k \in DOMAIN log : k \in DOMAIN log' /\ log'[k] = log[k]
           /\ \A n \in Nodes : swarm[n].received \subseteq swarm'[n].received
<1> DEFINE Goal == /\ \A k \in DOMAIN log : k \in DOMAIN log' /\ log'[k] = log[k]
                   /\ \A n \in Nodes : swarm[n].received \subseteq swarm'[n].received
<1>1. ASSUME NEW c \in Calls, Call(c)  PROVE Goal
  BY <1>1, CallQueued DEF BaseOK, Call
<1>2. ASSUME NEW n \in Nodes, NEW k \in Tickets, ServesOldest(n, k)  PROVE Goal
  <2>1. log' = log /\ log[k] \in Calls /\ Serves(n, log[k], k) /\ ClientsOK
    BY <1>2 DEF ServesOldest, BaseOK
  <2>2. /\ \A m \in Nodes \ {n} : swarm'[m] = swarm[m]
        /\ swarm[n].received \subseteq swarm'[n].received
    BY <2>1, ServedSwarm
  <2> QED  BY <2>1, <2>2
<1>3. ASSUME NEW n \in Nodes, NEW w \in wire, PollSwarm(n, w), UNCHANGED <<log, taken>>
      PROVE  Goal
  BY <1>3, SwarmPolled DEF BaseOK, Becomes, Shows
<1>4. CASE Quiet
  BY <1>4 DEF Quiet
<1> QED  BY <1>1, <1>2, <1>3, <1>4, BaseStep

\* What was published stays published.
LEMMA PublishedStays ==
    ASSUME BaseOK, [CNext]_cvars, NEW n, NEW t, NEW d,
           \E p \in DOMAIN log : Published(p, n, t, d)
    PROVE  \E p \in DOMAIN log' : Published(p, n, t, d)'
BY KnownStays DEF Published

\* Every step keeps what is on the wire to be what was published.
LEMMA WireStep ==
    ASSUME BaseOK, WireOK, [CNext]_cvars
    PROVE  WireOK'
<1>1. ClientsOK /\ \A w \in wire : w.from \in Nodes
  BY DEF BaseOK, ClientsOK
<1>2. ASSUME NEW w \in wire
      PROVE  /\ w.data \in swarm'[w.from].received
             /\ \E p \in DOMAIN log' : Published(p, w.from, w.topic, w.data)'
  <2>1. PICK f, t, d : f = w.from /\ t = w.topic /\ d = w.data
    OBVIOUS
  <2>2. \E p \in DOMAIN log' : Published(p, f, t, d)'
    BY <2>1, PublishedStays DEF WireOK
  <2> QED  BY <1>1, <2>1, <2>2, KnownStays DEF WireOK
<1>3. ASSUME NEW v, v \in wire', v \notin wire
      PROVE  \/ \E w \in wire : v.from = w.from /\ v.topic = w.topic /\ v.data = w.data
             \/ /\ v.data \in swarm'[v.from].received
                /\ \E p \in DOMAIN log' : Published(p, v.from, v.topic, v.data)'
  <2>1. ASSUME NEW n \in Nodes, NEW k \in Tickets, ServesOldest(n, k)
        PROVE  /\ v.data \in swarm'[v.from].received
               /\ \E p \in DOMAIN log' : Published(p, v.from, v.topic, v.data)'
    <3>1. /\ log' = log /\ k \in DOMAIN log /\ log[k] \in Calls /\ Serves(n, log[k], k)
          /\ log[k].node = n
      BY <2>1 DEF ServesOldest
    <3>2. /\ log[k].op = "Publish"
          /\ v \in Copies(n, Peers(n, log[k].topic), n, log[k].topic, log[k].data)
      BY SMTT(60), <1>3, <3>1, ServedWire
    <3>3. v.from = n /\ v.topic = log[k].topic /\ v.data = log[k].data
      BY SMTT(60), <3>2, CopyFields
    <3>4. log[k].data \in swarm'[n].received
      BY <1>1, <3>1, <3>2, ServedSwarm
    <3>5. Published(k, n, v.topic, v.data)'
      BY <3>1, <3>2, <3>3 DEF Published
    <3> QED  BY <3>1, <3>3, <3>4, <3>5
  <2>2. ASSUME NEW n \in Nodes, NEW w \in wire, PollSwarm(n, w)
        PROVE  v.from = w.from /\ v.topic = w.topic /\ v.data = w.data
    BY <1>1, <1>3, <2>2, SwarmPolled
  <2>3. ~Quiet
    BY <1>3 DEF Quiet
  <2>4. ASSUME NEW c \in Calls, Call(c)  PROVE FALSE
    BY <1>3, <2>4 DEF Call
  <2> QED  BY <2>1, <2>2, <2>3, <2>4, BaseStep
<1>4. ASSUME NEW v, v \in wire'
      PROVE  /\ v.data \in swarm'[v.from].received
             /\ \E p \in DOMAIN log' : Published(p, v.from, v.topic, v.data)'
  BY <1>2, <1>3, <1>4
<1> QED  BY <1>4 DEF WireOK

\* Every step keeps the inbox of a topic with a subscriber to that topic.
LEMMA InboxStep ==
    ASSUME BaseOK, InboxOK, [CNext]_cvars
    PROVE  InboxOK'
<1> SUFFICES ASSUME NEW n \in Nodes, NEW t \in Topics, NEW k, k = inbox'[n][no_hash(t)], k # None
             PROVE  k \in DOMAIN log' /\ log'[k].op = "Subscribe"
                    /\ log'[k].node = n /\ log'[k].topic = t
  BY SMTT(60) DEF InboxOK
<1>1. CASE k = inbox[n][no_hash(t)]
  BY SMTT(60), <1>1, KnownStays DEF InboxOK
<1>2. CASE k # inbox[n][no_hash(t)]
  <2>1. ASSUME NEW m \in Nodes, NEW j \in Tickets, ServesOldest(m, j)
        PROVE  k = j /\ log[j].op = "Subscribe" /\ m = n /\ t = log[j].topic
    <3>1. log[j] \in Calls /\ Serves(m, log[j], j) /\ ClientsOK
      BY <2>1 DEF ServesOldest, BaseOK
    <3> QED  BY SMTT(60), <1>2, <3>1, ServedInbox
  <2>2. \E m \in Nodes, j \in Tickets : ServesOldest(m, j)
    BY <1>2, BaseStep DEF Call, PollSwarm, Quiet
  <2> QED  BY <2>1, <2>2 DEF ServesOldest
<1> QED  BY <1>1, <1>2

\* Reading is kept by a step that keeps what was read.
LEMMA ReadsStays ==
    ASSUME BaseOK, [CNext]_cvars, NEW n \in Nodes, NEW t, NEW s, Reads(n, t, s)
    PROVE  Reads(n, t, s)'
<1>1. ASSUME NEW j \in DOMAIN s
      PROVE  /\ \E p \in DOMAIN log' : Published(p, s[j].from, t, s[j].data)'
             /\ s[j].from # n /\ s[j].data \in swarm'[n].received
  <2>1. PICK f, d : f = s[j].from /\ d = s[j].data
    OBVIOUS
  <2>2. \E p \in DOMAIN log' : Published(p, f, t, d)'
    BY <2>1, PublishedStays DEF Reads
  <2> QED  BY <2>1, <2>2, KnownStays DEF Reads
<1> QED  BY <1>1 DEF Reads

\* A part of what was read is read.
LEMMA ReadsPrefix ==
    ASSUME NEW n, NEW t, NEW S, NEW s \in Seq(S), NEW u \in Seq(S), Reads(n, t, s \o u)
    PROVE  Reads(n, t, s)
<1>1. \A j \in DOMAIN s : j \in DOMAIN (s \o u) /\ (s \o u)[j] = s[j]
  BY SMTT(60)
<1> QED  BY <1>1 DEF Reads

\* A message that its node does not know may be read next.
LEMMA ReadsNext ==
    ASSUME NEW n, NEW t, NEW s \in Seq(Messages), NEW m \in Messages, Reads(n, t, s),
           \E p \in DOMAIN log : Published(p, m.from, t, m.data),
           m.data \notin swarm[n].received, m.from # n,
           NEW u, u = Append(s, m)
    PROVE  /\ \A j \in DOMAIN u : /\ \E p \in DOMAIN log : Published(p, u[j].from, t, u[j].data)
                                  /\ u[j].from # n
                                  /\ u[j].data \in swarm[n].received \cup {m.data}
           /\ \A i, j \in DOMAIN u : u[i].data = u[j].data => i = j
<1>1. /\ \A j \in DOMAIN u : \/ j \in DOMAIN s /\ u[j] = s[j]
                             \/ j = Len(s) + 1 /\ u[j] = m
  BY SMTT(60)
<1>2. \A j \in DOMAIN s : s[j].data # m.data
  BY DEF Reads
<1> QED  BY SMTT(60), <1>1, <1>2 DEF Reads

\* Every step keeps what readers got to be what was published on their topic.
LEMMA ReadersStep ==
    ASSUME BaseOK, WireOK, InboxOK, ReadersOK, [CNext]_cvars
    PROVE  ReadersOK'
<1>1. ClientsOK
  BY DEF BaseOK
<1>2. ASSUME NEW k \in Tickets, Carried(k)' # <<>>,
             Carried(k)' = Carried(k) \/ Carried(k)' = taken[k]
      PROVE  /\ k \in DOMAIN log' /\ log'[k].op = "Subscribe"
             /\ Reads(log[k].node, log[k].topic, Carried(k))'
  <2>1. taken[k] \in Seq(Messages) /\ streams[k] \in Seq(Messages)
    BY <1>1 DEF ClientsOK
  <2>2. Carried(k) # <<>>
    <3>1. CASE Carried(k)' = Carried(k)
      BY <1>2, <3>1
    <3>2. CASE Carried(k)' = taken[k]
      <4>1. taken[k] # <<>>
        BY <1>2, <3>2
      <4>2. taken[k] \o streams[k] # <<>>
        BY <2>1, <4>1, EmptyParts
      <4> QED  BY <4>2 DEF Carried
    <3> QED  BY <1>2, <3>1, <3>2
  <2>3. /\ k \in DOMAIN log /\ log[k].op = "Subscribe"
        /\ Reads(log[k].node, log[k].topic, Carried(k))
    BY <2>2 DEF ReadersOK
  <2>4. PICK n, t, s : n = log[k].node /\ t = log[k].topic /\ s = Carried(k)'
    OBVIOUS
  <2>5. Reads(n, t, s)
    <3>1. CASE s = Carried(k)
      BY <2>3, <2>4, <3>1
    <3>2. CASE s = taken[k]
      <4>1. Reads(n, t, taken[k] \o streams[k])
        BY <2>3, <2>4 DEF Carried
      <4> QED  BY <2>1, <3>2, <4>1, ReadsPrefix
    <3> QED  BY <1>2, <2>4, <3>1, <3>2
  <2>6. n \in Nodes
    BY <1>1, <2>3, <2>4, TicketOfCall
  <2>7. Reads(n, t, s)'
    BY <2>5, <2>6, ReadsStays
  <2>8. k \in DOMAIN log' /\ log'[k] = log[k]
    BY <2>3, KnownStays
  <2> QED  BY <2>3, <2>4, <2>7, <2>8
<1>3. ASSUME NEW n \in Nodes, NEW w \in wire, PollSwarm(n, w), UNCHANGED <<log, taken>>,
             NEW k \in Tickets, Reported(n, w), k = inbox[n][no_hash(w.topic)],
             streams'[k] = Append(streams[k], [from |-> w.from, data |-> w.data])
      PROVE  /\ k \in DOMAIN log' /\ log'[k].op = "Subscribe"
             /\ Reads(log[k].node, log[k].topic, Carried(k))'
  <2>1. w.topic \in Topics /\ w.from \in Nodes /\ w.data \in Data
    BY <1>1 DEF ClientsOK
  <2>2. k # None
    BY PubSubAssumption
  <2>3. k \in DOMAIN log /\ log[k].op = "Subscribe" /\ log[k].node = n /\ log[k].topic = w.topic
    <3>1. k = inbox[n][no_hash(w.topic)]
      BY <1>3
    <3> QED  BY <2>1, <2>2, <3>1 DEF InboxOK
  <2>4. PICK m \in Messages : m = [from |-> w.from, data |-> w.data]
    BY <2>1 DEF Messages
  <2>5. m.from = w.from /\ m.data = w.data
    BY <2>4
  <2>6. taken[k] \in Seq(Messages) /\ streams[k] \in Seq(Messages)
    BY <1>1 DEF ClientsOK
  <2>7. Carried(k)' = Append(Carried(k), m) /\ Carried(k) \in Seq(Messages)
    <3>1. Carried(k) \in Seq(Messages)
      BY SMTT(60), <2>6 DEF Carried
    <3>2. Carried(k)' = taken[k] \o Append(streams[k], m)
      BY <1>3, <2>4 DEF Carried
    <3>3. taken[k] \o Append(streams[k], m) = Append(taken[k] \o streams[k], m)
      <4>1. PICK x \in Seq(Messages), y \in Seq(Messages) : x = taken[k] /\ y = streams[k]
        BY <2>6
      <4>2. x \o Append(y, m) = Append(x \o y, m)
        BY SMTT(60), AppendedLast
      <4> QED  BY <4>1, <4>2
    <3> QED  BY <3>1, <3>2, <3>3 DEF Carried
  <2>8. Reads(n, w.topic, Carried(k))
    <3>1. CASE Carried(k) = <<>>
      BY SMTT(60), <3>1 DEF Reads
    <3>2. CASE Carried(k) # <<>>
      BY <2>3, <3>2 DEF ReadersOK
    <3> QED  BY <3>1, <3>2
  <2>9. m.data \notin swarm[n].received /\ m.from # n
    BY <1>3, <2>5 DEF Reported, message_id, WireOK
  <2>10. \E p \in DOMAIN log : Published(p, m.from, w.topic, m.data)
    BY <2>5 DEF WireOK
  <2>11. PICK t, u : t = w.topic /\ u = Append(Carried(k), m)
    OBVIOUS
  <2>12. /\ \A j \in DOMAIN u : /\ \E p \in DOMAIN log : Published(p, u[j].from, t, u[j].data)
                                /\ u[j].from # n
                                /\ u[j].data \in swarm[n].received \cup {m.data}
         /\ \A i, j \in DOMAIN u : u[i].data = u[j].data => i = j
    <3>1. PICK s \in Seq(Messages) : s = Carried(k)
      BY <2>7
    <3>2. Reads(n, t, s) /\ \E p \in DOMAIN log : Published(p, m.from, t, m.data)
      BY <2>8, <2>10, <2>11, <3>1
    <3>3. u = Append(s, m)
      BY <2>11, <3>1
    <3> QED  BY SMTT(60), <2>9, <3>2, <3>3, ReadsNext
  <2>13. swarm'[n].received = swarm[n].received \cup {m.data}
    <3>1. Becomes(n, swarm[n].topics, Addrs(n), swarm[n].received \cup {w.data})
      BY <1>1, <1>3, SwarmPolled
    <3> QED  BY <2>5, <3>1 DEF Becomes, Shows
  <2>14. Reads(n, t, u)'
    BY <1>3, <2>12, <2>13 DEF Reads, Published
  <2> QED  BY <1>3, <2>3, <2>7, <2>11, <2>14
<1>4. ASSUME NEW k \in Tickets, Carried(k)' # <<>>
      PROVE  /\ k \in DOMAIN log' /\ log'[k].op = "Subscribe"
             /\ Reads(log[k].node, log[k].topic, Carried(k))'
  <2>1. ASSUME NEW n \in Nodes, NEW w \in wire, PollSwarm(n, w), UNCHANGED <<log, taken>>
        PROVE  /\ k \in DOMAIN log' /\ log'[k].op = "Subscribe"
               /\ Reads(log[k].node, log[k].topic, Carried(k))'
    <3>1. CASE streams'[k] = streams[k]
      <4>1. Carried(k)' = Carried(k)
        BY <2>1, <3>1 DEF Carried
      <4> QED  BY <1>2, <1>4, <4>1
    <3>2. CASE streams'[k] # streams[k]
      <4>1. /\ Reported(n, w) /\ k = inbox[n][no_hash(w.topic)]
            /\ streams'[k] = Append(streams[k], [from |-> w.from, data |-> w.data])
        BY <1>1, <2>1, <3>2, SwarmPolled
      <4> QED  BY <1>3, <2>1, <4>1
    <3> QED  BY <3>1, <3>2
  <2>2. ASSUME UNCHANGED <<streams, taken>>
        PROVE  /\ k \in DOMAIN log' /\ log'[k].op = "Subscribe"
               /\ Reads(log[k].node, log[k].topic, Carried(k))'
    BY <1>2, <1>4, <2>2 DEF Carried
  <2>3. CASE Quiet
    <3>1. Carried(k)' = Carried(k) \/ Carried(k)' = taken[k]
      BY <2>3 DEF Quiet
    <3> QED  BY <1>2, <1>4, <3>1
  <2> QED  BY <2>1, <2>2, <2>3, BaseStep DEF Call, ServesOldest
<1> QED  BY <1>4 DEF ReadersOK

\* A reader gets only what was published on its topic, by the node it is said to
\* be from, and never the same payload twice, for every network and every calls.
THEOREM ReadersTopic == CSpec => []ReadersGetTheirTopic
<1> DEFINE IInv == BaseOK /\ WireOK /\ InboxOK /\ ReadersOK
<1>1. CInit => IInv
  <2> SUFFICES ASSUME CInit  PROVE WireOK /\ InboxOK /\ ReadersOK
    BY BaseInit
  <2>1. /\ wire = {}
        /\ \A n \in Nodes, t \in Topics : inbox[n][no_hash(t)] = None
        /\ \A k \in Tickets : streams[k] = <<>> /\ taken[k] = <<>>
    BY HashesDiffer DEF CInit, InitWorkers
  <2>2. \A k \in Tickets : Carried(k) = <<>>
    BY SMTT(60), <2>1 DEF Carried
  <2> QED  BY <2>1, <2>2 DEF WireOK, InboxOK, ReadersOK
<1>2. IInv /\ [CNext]_cvars => IInv'
  BY BaseStep, WireStep, InboxStep, ReadersStep
<1>3. IInv => ReadersGetTheirTopic
  <2> SUFFICES ASSUME IInv, NEW k \in DOMAIN log, log[k].op = "Subscribe"
      PROVE  /\ \A j \in DOMAIN Carried(k) : \E p \in DOMAIN log :
                    /\ log[p].op = "Publish"
                    /\ log[p].topic = log[k].topic
                    /\ log[p].node = Carried(k)[j].from
                    /\ log[p].data = Carried(k)[j].data
                    /\ log[p].node # log[k].node
             /\ \A i, j \in DOMAIN Carried(k) :
                    Carried(k)[i].data = Carried(k)[j].data => i = j
    BY DEF ReadersGetTheirTopic, SubscribeCalls
  <2>1. k \in Tickets
    BY TicketOfCall DEF BaseOK
  <2>2. CASE Carried(k) = <<>>
    BY SMTT(60), <2>2
  <2>3. CASE Carried(k) # <<>>
    BY SMTT(60), <2>1, <2>3 DEF ReadersOK, Reads, Published
  <2> QED  BY <2>2, <2>3
<1> HIDE DEF IInv
<1> QED  BY <1>1, <1>2, <1>3, PTL DEF CSpec

=============================================================================
