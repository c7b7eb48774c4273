------------------------------ MODULE MCPubSub ------------------------------
(***************************************************************************)
(* Clients of the publisher/subscriber, small enough for TLC.              *)
(***************************************************************************)
EXTENDS PubSubClients

CONSTANTS n1, n2, t1, t2, d1, d2, bad, lan, wlan

MCTickets == 1 .. MaxCalls

Sub(n, t)    == [node |-> n, op |-> "Subscribe", topic |-> t]
Unsub(n, t)  == [node |-> n, op |-> "Unsubscribe", topic |-> t]
Pub(n, t, d) == [node |-> n, op |-> "Publish", topic |-> t, data |-> d]
At(n, op, a) == [node |-> n, op |-> op, addr |-> a]

\* One node reads two topics, the other publishes on them.
MCReaders == {Sub(n1, t1), Sub(n1, t2), Unsub(n1, t1), Pub(n2, t1, d1), Pub(n2, t2, d1),
              Pub(n2, t1, d2)}

\* One node listens on one of its interfaces or on all, the other dials it and is
\* refused an address it cannot use.  The first is also asked to listen on an address
\* of the other, for its addresses, and to unsubscribe.
MCDialers == {At(n1, "Connect", <<n2, lan>>), At(n1, "Connect", bad), At(n1, "Listen", bad),
              At(n2, "Listen", <<n2, lan>>), At(n2, "Listen", Wildcard),
              At(n2, "Listen", <<n1, lan>>),
              [node |-> n2, op |-> "Listeners"], Unsub(n2, t1)}

\* One client reads one topic.
MCReader == {Sub(n1, t1)}

=============================================================================
