------------------------------ MODULE RosChain ------------------------------
(***************************************************************************)
(* The ROS bridge: start(), the publishers it returns, and the services on *)
(* the chain and on its state.  Services run in threads of the ROS library *)
(* and read the client while it imports, reorganises and finalises blocks. *)
(*                                                                         *)
(* The client is external.  A block is the sequence of values that it and  *)
(* its ancestors gave one storage entry: its number is its length, and its *)
(* own state holds the last value.                                         *)
(***************************************************************************)
EXTENDS Naturals, Sequences, FiniteSets

CONSTANTS Entries,      \* values of the storage entry, Missing among them
          Missing,      \* the entry is not there
          Empty,        \* the entry is there and is empty
          Zero,         \* the hash of 32 zero bytes
          Null,         \* the JSON answer "null"
          Error,        \* a failed request
          MaxHeight,    \* bound: height of the chain
          MaxBlocks     \* bound: known blocks

ASSUME RosChainAssumption ==
    /\ {Missing, Empty} \subseteq Entries
    /\ MaxHeight \in Nat /\ MaxBlocks \in Nat

VARIABLES known, best, final,   \* the client's blocks, best one and finalised one
          justified,            \* blocks with a stored justification
          imports, finals,      \* notification streams of the bridge, not yet read
          up,                   \* groups of topics and services that are registered
          st,                   \* "starting", "started", "failed", "dead"
          ros,                  \* "up" or "down"
          sent,                 \* topic -> messages sent
          asked,                \* the client's last "block_hash" request and answer
          reply,                \* the last answer: service, requested hash, answer
          bests                 \* history: imported as new best since the subscription

client == <<known, best, final, justified>>
bridge == <<imports, finals, up, st, ros, sent>>
calls  == <<asked, reply>>
rcvars == <<client, bridge, calls, bests>>

Groups == <<"system_topics", "import_topics", "finality_topics", "system", "author",
            "state", "chain">>
Group(g) == CHOOSE i \in DOMAIN Groups : Groups[i] = g
Registered(g) == up >= Group(g)

SystemTopics == {"name", "version", "chain", "health"}
Topics == SystemTopics \cup
          {"best_number", "best_hash", "finalized_number", "finalized_hash"}

RosInit ==
    /\ known = {<<>>} /\ best = <<>> /\ final = <<>> /\ justified = {}
    /\ imports = <<>> /\ finals = <<>> /\ up = 0 /\ st = "starting" /\ ros = "up"
    /\ sent = [t \in Topics |-> <<>>]
    /\ asked = [number |-> 0, hash |-> <<>>]
    /\ reply = [srv |-> "none", hash |-> Zero, ans |-> Null]
    /\ bests = <<>>

-----------------------------------------------------------------------------
\* start(): topics first, then services, each registration with "?".  A failure
\* drops the topics, streams and services made so far.
StartGroup ==
    /\ st = "starting" /\ ros = "up" /\ up < Len(Groups)
    /\ \/ up' = up + 1 /\ UNCHANGED <<imports, finals, st>>
       \/ up' = 0 /\ st' = "failed" /\ imports' = <<>> /\ finals' = <<>>
    /\ UNCHANGED <<client, ros, sent, calls, bests>>

\* The caller gets the services and the publishers' future, and polls it.
Started ==
    /\ st = "starting" /\ up = Len(Groups)
    /\ st' = "started"
    /\ UNCHANGED <<client, imports, finals, up, ros, sent, calls, bests>>

RosShutdown == ros = "up" /\ ros' = "down"
               /\ UNCHANGED <<client, imports, finals, up, st, sent, calls, bests>>

\* The sequence t begins with s, and goes on after it.
IsPrefix(s, t) == Len(s) <= Len(t) /\ s = SubSeq(t, 1, Len(s))
IsStrictPrefix(s, t) == IsPrefix(s, t) /\ s # t

\* A block descends from a block, or is that block.
Extends(b, a) == IsPrefix(a, b)

Parent(b) == SubSeq(b, 1, Len(b) - 1)

\* Mutant: the stream is taken when the future is first polled.
SubscribedLate == st = "started"

\* A publisher takes its notification stream when its topics are registered.
Subscribed == st \in {"starting", "started"} /\ Registered("import_topics")

\* The client imports a block, which may become the best one, also by a
\* reorganisation; blocks of abandoned forks are refused.
Import(b, newBest) ==
    /\ b \notin known /\ Parent(b) \in known /\ Extends(b, final)
    /\ Cardinality(known) < MaxBlocks
    /\ newBest => Len(b) >= Len(best)
    /\ newBest \/ Len(b) <= Len(best)
    /\ known' = known \cup {b}
    /\ best' = IF newBest THEN b ELSE best
    /\ imports' = IF Subscribed THEN Append(imports, [block |-> b, isNewBest |-> newBest])
                  ELSE imports
    /\ bests' = IF newBest /\ st \in {"starting", "started"} /\ Registered("import_topics")
                THEN Append(bests, b) ELSE bests
    /\ UNCHANGED <<final, justified, finals, up, st, ros, sent, calls>>

\* A block is finalised; it becomes the best one, without an import notification, if
\* the best one is on another fork.  The justification is kept for some of them, one
\* in justification_period and those that change the authorities.
Finalize(b, kept) ==
    /\ b \in known /\ b # final /\ Extends(b, final)
    /\ final' = b
    /\ justified' = IF kept THEN justified \cup {b} ELSE justified
    /\ best' = IF Extends(best, b) THEN best ELSE b
    /\ finals' = IF st \in {"starting", "started"} /\ Registered("finality_topics")
                 THEN Append(finals, b) ELSE finals
    /\ UNCHANGED <<known, imports, up, st, ros, sent, calls, bests>>

-----------------------------------------------------------------------------
\* Sending to a topic of a ROS node that is shut down is an error, and expect()
\* ends the joined future with all of its publishers.
Send(number, hash, b) ==
    IF ros = "up"
    THEN /\ sent' = [sent EXCEPT ![number] = Append(@, Len(b)), ![hash] = Append(@, b)]
         /\ UNCHANGED <<st, ros>>
    ELSE st' = "dead" /\ UNCHANGED <<sent, ros>>

\* The node is shut down after the number and before the hash is sent.
SendHalf(number, b) ==
    /\ ros = "up" /\ ros' = "down" /\ st' = "dead"
    /\ sent' = [sent EXCEPT ![number] = Append(@, Len(b))]

ImportNotification ==
    /\ st = "started" /\ imports # <<>>
    /\ imports' = Tail(imports)
    /\ LET n == Head(imports) IN
           IF n.isNewBest
           THEN \/ Send("best_number", "best_hash", n.block)
                \/ SendHalf("best_number", n.block)
           ELSE UNCHANGED <<sent, st, ros>>
    /\ UNCHANGED <<client, finals, up, calls, bests>>

\* Mutant: the number is that of the best block.
FinalityNotificationOfBest ==
    /\ st = "started" /\ finals # <<>>
    /\ finals' = Tail(finals)
    /\ sent' = [sent EXCEPT !["finalized_number"] = Append(@, Len(best)),
                            !["finalized_hash"] = Append(@, Head(finals))]
    /\ UNCHANGED <<client, imports, up, st, ros, calls, bests>>

FinalityNotification ==
    /\ st = "started" /\ finals # <<>>
    /\ finals' = Tail(finals)
    /\ \/ Send("finalized_number", "finalized_hash", Head(finals))
       \/ SendHalf("finalized_number", Head(finals))
    /\ UNCHANGED <<client, imports, up, calls, bests>>

\* Mutant: a failed send is ignored.
PublishSystemQuietly(t) ==
    /\ st = "started"
    /\ UNCHANGED rcvars

\* One turn of a publisher of the system API.  It sends the same or a fresh value
\* after every delay; a message is as good as another, so none is recorded.
PublishSystem(t) ==
    /\ st = "started"
    /\ st' = IF ros = "up" THEN st ELSE "dead"
    /\ UNCHANGED <<client, imports, finals, up, ros, sent, calls, bests>>

-----------------------------------------------------------------------------
\* Services.  A handler reads the client once; a zero hash stands for no hash.
Serving(g) == ros = "up" /\ Registered(g)
Answer(srv, h, a) == reply' = [srv |-> srv, hash |-> h, ans |-> a]

\* Mutant: the best block answers for every hash.
AlwaysBest(h) == best

\* to_hash and zero_guard with unwrap_or_best
UnwrapOrBest(h) == IF h = Zero THEN best ELSE h

\* The JSON of a signed block holds the justification, if there is one.
SignedBlock(b) == [block |-> b, justified |-> b \in justified]

GetBlock(srv, h) ==
    /\ Serving("chain") /\ srv \in {"block", "header"}
    /\ LET b == UnwrapOrBest(h)
       IN  Answer(srv, h, IF b \notin known THEN Null
                          ELSE IF srv = "block" THEN SignedBlock(b) ELSE b)
    /\ UNCHANGED <<client, bridge, asked, bests>>

\* A number above the best block has no header and gives the default hash.
GetBlockHash(n) ==
    /\ Serving("chain")
    /\ LET h == IF n <= Len(best) THEN SubSeq(best, 1, n) ELSE Zero
       IN  asked' = [number |-> n, hash |-> h] /\ Answer("block_hash", Zero, h)
    /\ UNCHANGED <<client, bridge, bests>>

GetHead(srv) ==
    /\ Serving("chain") /\ srv \in {"best_hash", "finalized_hash"}
    /\ Answer(srv, Zero, IF srv = "best_hash" THEN best ELSE final)
    /\ UNCHANGED <<client, bridge, asked, bests>>

Entry(b) == IF b = <<>> THEN Missing ELSE b[Len(b)]

\* What the state of a block answers.  A missing entry leaves the default in the
\* response: no data, a zero hash, size 0.
StateAnswer(srv, b) ==
    LET e == Entry(b)
    IN  CASE srv = "query" -> IF e = Missing THEN Empty ELSE e
          [] srv = "hash"  -> IF e = Missing THEN Zero ELSE e
          [] srv = "size"  -> IF e \in {Missing, Empty} THEN 0 ELSE 1
          [] OTHER         -> b           \* call, keys and version: of this state

\* The state of a block before the finalised one may have been pruned.
QueryState(srv, h) ==
    /\ Serving("state") /\ srv \in {"query", "hash", "size", "call", "keys", "version"}
    /\ srv = "version" => h = Zero
    /\ LET b == UnwrapOrBest(h)
       IN  \/ b \in known /\ Answer(srv, h, StateAnswer(srv, b))
           \/ /\ b \notin known \/ (b # final /\ Extends(final, b))
              /\ Answer(srv, h, Error)
    /\ UNCHANGED <<client, bridge, asked, bests>>

\* A caller asks with a hash it has been given, or with none.
Hashes == {Zero, asked.hash, reply.hash}
          \cup (IF reply.srv \in {"best_hash", "finalized_hash"} THEN {reply.ans} ELSE {})

Services == \/ \E srv \in {"block", "header"}, h \in Hashes : GetBlock(srv, h)
            \/ \E n \in 0 .. MaxHeight : GetBlockHash(n)
            \/ \E srv \in {"best_hash", "finalized_hash"} : GetHead(srv)
            \/ \E srv \in {"query", "hash", "size", "call", "keys", "version"}, h \in Hashes :
                   QueryState(srv, h)

Publishers == \/ ImportNotification \/ FinalityNotification
              \/ \E t \in SystemTopics : PublishSystem(t)

Chain == \/ \E p \in known, e \in Entries, nb \in BOOLEAN :
                Len(p) < MaxHeight /\ Import(Append(p, e), nb)
         \/ \E b \in known, kept \in BOOLEAN : Finalize(b, kept)

\* Services change nothing of the client or the bridge, so the publishers are checked
\* without them, and they on a bridge that has started.
PublishNext == StartGroup \/ Started \/ RosShutdown \/ Chain \/ Publishers

\* A publisher's delay ends and the future is polled.
PublishSpec == /\ RosInit /\ [][PublishNext]_rcvars
               /\ \A t \in SystemTopics : WF_rcvars(PublishSystem(t))

ServeInit ==
    /\ known = {<<>>} /\ best = <<>> /\ final = <<>> /\ justified = {}
    /\ imports = <<>> /\ finals = <<>> /\ up = Len(Groups) /\ st = "started" /\ ros = "up"
    /\ sent = [t \in Topics |-> <<>>] /\ bests = <<>>
    /\ asked = [number |-> 0, hash |-> <<>>]
    /\ reply = [srv |-> "none", hash |-> Zero, ans |-> Null]
ServeNext == Chain \/ Services
ServeSpec == ServeInit /\ [][ServeNext]_rcvars

-----------------------------------------------------------------------------
\* The number of new best blocks among the first i notifications that wait.
NewBests(i) == Cardinality({j \in 1 .. i : imports[j].isNewBest})

\* The first of the new best blocks have been announced, and the others wait in
\* their order.
AnnouncedInOrder ==
    /\ IsPrefix(sent["best_hash"], bests)
    /\ st \in {"starting", "started"} =>
        /\ Len(bests) = Len(sent["best_hash"]) + NewBests(Len(imports))
        /\ \A i \in DOMAIN imports : imports[i].isNewBest =>
               bests[Len(sent["best_hash"]) + NewBests(i)] = imports[i].block

\* From the moment its topics are registered, also before the publishers are polled
\* for the first time, every block that is imported as the new best one is announced
\* once and in order; a publisher that is dead or never began has announced the first
\* of them.  A block that finality makes the best one is not announced as such, so
\* the last one that is, or is about to be, is the client's best block unless that is
\* the finalised one.
BestImportsAnnounced ==
    /\ AnnouncedInOrder
    /\ st \in {"starting", "started"} /\ bests # <<>> =>
           best \in {bests[Len(bests)], final}

\* The two messages of a notification belong together: the i-th number is that of the
\* i-th hash, and only a publisher that died between the two has sent a number more.
\* Of the finalised blocks each one extends the one announced before.
TopicsAgree ==
    /\ \A t \in {<<"best_number", "best_hash">>, <<"finalized_number", "finalized_hash">>} :
        LET numbers == sent[t[1]] hashes == sent[t[2]]
        IN  /\ \A i \in DOMAIN hashes : numbers[i] = Len(hashes[i])
            /\ Len(numbers) \in {Len(hashes)} \cup (IF st = "dead" THEN {Len(hashes) + 1} ELSE {})
    /\ LET hashes == sent["finalized_hash"]
       IN  \A i, j \in DOMAIN hashes : i < j => IsStrictPrefix(hashes[i], hashes[j])

\* When ROS shuts down the publishers end, also when the chain stands still: the next
\* turn of a system publisher fails and ends the joined future.
ShutdownStopsPublishers == (st = "started" /\ ros = "down") ~> (st = "dead")

\* The JSON of one block, asked for twice, differs at most in a justification that
\* was stored in between.
SameBlock(first, second) ==
    /\ first.block = second.block
    /\ first.justified => second.justified

\* Two answers of a state or chain service for one block hash are the same, whatever
\* was imported, reorganised or finalised between the requests, unless one is an error;
\* only a block's justification may appear, and none disappears.
SameHashSameAnswer ==
    [][ reply.srv = reply'.srv /\ reply.hash = reply'.hash /\ reply.hash # Zero
        /\ Error \notin {reply.ans, reply'.ans} =>
            IF reply.srv = "block" THEN SameBlock(reply.ans, reply'.ans)
            ELSE reply.ans = reply'.ans ]_rcvars

=============================================================================
