--------------------------- MODULE MCLiabilityPool ---------------------------
(***************************************************************************)
(* Two nodes with a pool each, under the economics the Robonomics runtime  *)
(* configures (Communism): two parties, and a promisor who signs two       *)
(* different reports for the first liability, so that they race.           *)
(***************************************************************************)
EXTENDS LiabilityPool

CONSTANTS alice, bob, n1, n2, task, done, failed

MCGenesis == [a \in Accounts |-> [free |-> 0, reserved |-> 0]]

MCTerms == {new(task, 0, alice, bob)}

MCWilling ==
    ParamsProofs \cup {proof_report(0, r, bob) : r \in Reports}

=============================================================================
