---------------------------- MODULE MCDiscovery ----------------------------
(***************************************************************************)
(* Discovery on three nodes, two of which know the third as a boot node.   *)
(***************************************************************************)
EXTENDS Discovery

CONSTANTS n1, n2, n3, lan

MCBootnodes == [n \in Nodes |-> IF n = n1 THEN <<>> ELSE << <<n1, lan>> >>]
MCTickets == Channels
MCData == DiscoveryMessages

=============================================================================
