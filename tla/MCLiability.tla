----------------------------- MODULE MCLiability -----------------------------
(***************************************************************************)
(* Instances of the liability pallet for TLC: two account holders, each    *)
(* able to be either party of an agreement, and one of them without funds  *)
(* at genesis, so that the payee of a liability may not exist yet.         *)
(***************************************************************************)
EXTENDS Liability

CONSTANTS alice, bob, task, done

MCGenesis == [a \in Accounts |-> [free |-> IF a = alice THEN 7 ELSE 0, reserved |-> 0]]

\* Alice hires bob, for a price and for nothing; bob hires alice; and alice
\* signs an agreement as both of its parties.
MCTerms == {new(task, 2, alice, bob), new(task, 0, alice, bob),
            new(task, 2, bob, alice), new(task, 2, alice, alice)}

\* A price below the existential deposit.
MCDustTerms == {new(task, 1, alice, bob)}

\* Both holders sign the parameters of every price; alice reports on liability 0
\* only, bob on every one of them.
MCWilling ==
    ParamsProofs \cup {p \in ReportProofs : p.signer = alice => p.over[1] = 0}

=============================================================================
