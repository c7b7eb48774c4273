--------------------------- MODULE SignedLiability ---------------------------
(***************************************************************************)
(* The agreement type of the liability pallet: its parameters, the proofs  *)
(* (signatures) both parties give, and the economical processing that runs *)
(* when it starts and when it finishes (frame/liability/src/signed.rs).    *)
(*                                                                         *)
(* A signature is the pair of its signer and of the payload it was made    *)
(* over; verifying it compares the two.  Processing is a function from a   *)
(* balance sheet to a result: whether the call succeeded, and the sheet    *)
(* afterwards (a failed dispatch is not rolled back, so the sheet of a     *)
(* failed call matters as much as that of a successful one).               *)
(***************************************************************************)
EXTENDS Currency

CONSTANTS Technics,     \* technical parameters (IPFS hashes)
          Economics,    \* economical parameters: the price under OpenMarket
          Reports,      \* technical reports (IPFS hashes)
          OpenMarket    \* TRUE: OpenMarket economics, FALSE: Communism

ASSUME EconomicsAssumption ==
    /\ Economics \subseteq Nat
    /\ OpenMarket \in BOOLEAN

Liabilities == [technics : Technics, economics : Economics,
                promisee : Accounts, promisor : Accounts]

new(technics, economics, promisee, promisor) ==
    [technics |-> technics, economics |-> economics,
     promisee |-> promisee, promisor |-> promisor]

\* ProofSigner and AppProofSigner.
proof_params(technics, economics, sender) ==
    [signer |-> sender, over |-> <<technics, economics>>]

proof_report(index, report, sender) ==
    [signer |-> sender, over |-> <<index, report>>]

ParamsProofs == {proof_params(t, e, a) : t \in Technics, e \in Economics, a \in Accounts}

\* The signature covers the technical and the economical parameter.
check_params(liability, proof, sender) ==
    proof = proof_params(liability.technics, liability.economics, sender)

\* Faulty: anyone's signature will do.
check_report_anyone(liability, index, report, proof) ==
    proof.over = <<index, report>>

\* The report is signed by the promisor, together with the liability's index.
check_report(liability, index, report, proof) ==
    proof = proof_report(index, report, liability.promisor)

-----------------------------------------------------------------------------

\* Faulty: nothing is put aside.
on_start_free(bal, liability) == [ok |-> TRUE, bal |-> bal]

on_start(bal, liability) ==
    IF OpenMarket
    THEN reserve(bal, liability.promisee, liability.economics)
    ELSE [ok |-> TRUE, bal |-> bal]

\* Faulty: the price goes back to the promisee.
on_finish_refund(bal, liability, success) ==
    [ok |-> TRUE, bal |-> unreserve(bal, liability.promisee, liability.economics).bal]

\* The amount repatriate_reserved could not move is dropped; a refund succeeds
\* when what unreserve returns equals the price.
on_finish(bal, liability, success) ==
    IF ~OpenMarket THEN [ok |-> TRUE, bal |-> bal]
    ELSE IF success
    THEN repatriate_reserved(bal, liability.promisee, liability.promisor,
                             liability.economics)
    ELSE LET refund == unreserve(bal, liability.promisee, liability.economics)
         IN  [ok |-> refund.left = liability.economics, bal |-> refund.bal]

=============================================================================
