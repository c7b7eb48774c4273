------------------------------- MODULE FeeFlow -------------------------------
(***************************************************************************)
(* Where transaction fees go.  A signed transaction pays its fee and tip   *)
(* before it is dispatched and gets back what the dispatch did not use;    *)
(* the rest is handed to the runtime's OnTransactionPayment:               *)
(*   robonomics  DealWithFees, 80% to the treasury and 20% to the author;  *)
(*   parachain   the treasury;                                             *)
(*   ipci        nobody, the fee is burnt.                                 *)
(* Funds in transit are imbalances: a number that must end in an account   *)
(* or leave the total issuance.  The balances, treasury and transaction  *)
(* payment pallets are external, modelled by the calls made here.          *)
(***************************************************************************)
EXTENDS Integers, FiniteSets

CONSTANTS
    Holders,             \* all accounts but the treasury's
    Treasury,            \* the treasury's account
    Runtimes,            \* the runtimes looked at
    ExistentialDeposit,  \* a smaller balance is no account
    Fees, Tips,          \* what a transaction may be charged
    Stashes,             \* the stash accounts of the initial authorities
    Endowment, Stash,    \* balances at genesis
    MaxSettled           \* bound: transactions

ASSUME FeeAssumption ==
    /\ IsFiniteSet(Holders) /\ Treasury \notin Holders /\ Stashes \subseteq Holders
    /\ Fees \subseteq Nat /\ Tips \subseteq Nat
    /\ ExistentialDeposit \in Nat /\ ExistentialDeposit > 0
    /\ Endowment \in Nat /\ Endowment >= ExistentialDeposit
    /\ Stash \in Nat /\ Stash >= ExistentialDeposit /\ MaxSettled \in Nat

All == Holders \cup {Treasury}

VARIABLES network, bal, issued, author, inFlight,
          charged, settled    \* history: paid in all, by how many transactions

history == <<charged, settled>>
fvars == <<network, bal, issued, author, inFlight, history>>

NoneInFlight == [payer |-> Treasury, fee |-> 0, tip |-> 0]

\* mk_genesis of the development chain lists a stash twice, once among the endowed
\* accounts and once as an authority: the later entry is the balance, both count
\* as issued.  The other chains' specifications list every account once.
GenesisBalance(a) == IF a = Treasury THEN ExistentialDeposit
                     ELSE IF a \in Stashes THEN Stash ELSE Endowment

GenesisGap == IF network = "robonomics" THEN Cardinality(Stashes) * Endowment ELSE 0

\* The units of currency in accounts: unit k of account a is <<a, k>>.
Held(b) == Cardinality(UNION {{a} \X (1 .. b[a]) : a \in All})

GenesisIssuance == Held([a \in All |-> GenesisBalance(a)]) + GenesisGap

FInit ==
    /\ network \in Runtimes
    /\ bal = [a \in All |-> GenesisBalance(a)]
    /\ issued = GenesisIssuance
    /\ author \in Holders
    /\ inFlight = NoneInFlight
    /\ charged = 0 /\ settled = 0

-----------------------------------------------------------------------------
\* resolve_creating: the amount is deposited, unless it is too little to open
\* an account; a result is the balances and what was dropped.
ResolveCreating(b, who, amount) ==
    IF b[who] = 0 /\ amount < ExistentialDeposit
    THEN [bal |-> b, dropped |-> amount]
    ELSE [bal |-> [b EXCEPT ![who] = @ + amount], dropped |-> 0]

\* Imbalance::ration: the first share is rounded down.
Ration(amount, first, second) == (amount * first) \div (first + second)

\* Author::on_nonzero_unbalanced.
AuthorOnUnbalanced(b, amount) == ResolveCreating(b, author, amount)

\* Mutant: the halves of the split are handed to the wrong receivers.
DealWithFeesSwapped(b, fee, tip) ==
    LET toTreasury == Ration(fee, 80, 20) + Ration(tip, 80, 20)
        paid       == ResolveCreating(b, Treasury, (fee + tip) - toTreasury)
        rest       == AuthorOnUnbalanced(paid.bal, toTreasury)
    IN  [bal |-> rest.bal, dropped |-> paid.dropped + rest.dropped]

\* DealWithFees: fee and tip are rationed one by one and their shares merged.
DealWithFees(b, fee, tip) ==
    LET toTreasury == Ration(fee, 80, 20) + Ration(tip, 80, 20)
        paid       == ResolveCreating(b, Treasury, toTreasury)
        rest       == AuthorOnUnbalanced(paid.bal, (fee + tip) - toTreasury)
    IN  [bal |-> rest.bal, dropped |-> paid.dropped + rest.dropped]

\* OnTransactionPayment of the parachain.
TreasuryTakes(b, fee, tip) == ResolveCreating(b, Treasury, fee + tip)

\* OnTransactionPayment of ipci: a dropped imbalance is burnt.
Burnt(b, fee, tip) == [bal |-> b, dropped |-> fee + tip]

OnTransactionPayment(b, fee, tip) ==
    IF network = "robonomics" THEN DealWithFees(b, fee, tip)
    ELSE IF network = "parachain" THEN TreasuryTakes(b, fee, tip)
    ELSE Burnt(b, fee, tip)

-----------------------------------------------------------------------------
\* Before the dispatch: the whole fee and tip, and the payer stays alive.
Withdraw(payer, fee, tip) ==
    /\ inFlight = NoneInFlight /\ settled < MaxSettled
    /\ fee + tip > 0
    /\ bal[payer] >= fee + tip + ExistentialDeposit
    /\ bal' = [bal EXCEPT ![payer] = @ - (fee + tip)]
    /\ inFlight' = [payer |-> payer, fee |-> fee, tip |-> tip]
    /\ UNCHANGED <<network, issued, author, history>>

\* The dispatch itself may send the payer's funds away, the account with them.
DispatchCall(to) ==
    /\ inFlight # NoneInFlight
    /\ to # inFlight.payer
    /\ bal[inFlight.payer] >= ExistentialDeposit
    /\ bal' = [bal EXCEPT ![to] = @ + bal[inFlight.payer], ![inFlight.payer] = 0]
    /\ UNCHANGED <<network, issued, author, inFlight, history>>

\* After it: what was not used goes back to the payer if the account is still
\* there; the rest to OnTransactionPayment; what that drops is no longer issued.
Settle(unused) ==
    /\ inFlight # NoneInFlight
    /\ unused <= inFlight.fee
    /\ LET refund == IF bal[inFlight.payer] = 0 THEN 0 ELSE unused
           back == [bal EXCEPT ![inFlight.payer] = @ + refund]
           done == OnTransactionPayment(back, inFlight.fee - refund, inFlight.tip)
       IN  /\ bal' = done.bal /\ issued' = issued - done.dropped
           /\ charged' = charged + ((inFlight.fee - refund) + inFlight.tip)
    /\ settled' = settled + 1
    /\ inFlight' = NoneInFlight
    /\ UNCHANGED <<network, author>>

\* The next block has another author.
NextAuthor(a) ==
    /\ inFlight = NoneInFlight
    /\ a # author
    /\ author' = a
    /\ UNCHANGED <<network, bal, issued, inFlight, history>>

FNext ==
    \/ \E a \in Holders, f \in Fees, t \in Tips : Withdraw(a, f, t)
    \/ \E a \in Holders : DispatchCall(a) \/ NextAuthor(a)
    \/ \E u \in Fees : Settle(u)

FSpec == FInit /\ [][FNext]_fvars

-----------------------------------------------------------------------------
\* What the treasury may have gained and the issuance lost when so much was paid in
\* so many transactions.  In robonomics the treasury misses less than a unit of 80%
\* of each fee and of each tip, and only an author's share that is too small to open
\* their account is lost; the parachain's treasury gets all, and ipci burns all.
Shares(gained, paid, times, lost) ==
    /\ network = "robonomics" =>
        /\ 5 * gained <= 4 * paid /\ 4 * paid <= 5 * gained + 8 * times
        /\ 0 <= lost /\ lost <= times * (ExistentialDeposit - 1)
    /\ network = "parachain" => gained = paid /\ lost = 0
    /\ network = "ipci" => gained = 0 /\ lost = paid

\* Over any number of transactions, refunds, emptied payers and changes of author,
\* the runtime's split of fees and tips holds in the sum (rounding and dropped shares
\* do not pile up beyond that); what is issued is in an account, being charged, or was
\* never in an account at genesis; and no account, whoever was paid a share, lies
\* below the existential deposit.
FundsAreAccounted ==
    /\ Shares(bal[Treasury] - ExistentialDeposit, charged, settled,
              GenesisIssuance - issued)
    /\ issued = Held(bal) + inFlight.fee + inFlight.tip + GenesisGap
    /\ \A a \in All : bal[a] = 0 \/ bal[a] >= ExistentialDeposit
=============================================================================
