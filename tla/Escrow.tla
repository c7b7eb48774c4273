------------------------------- MODULE Escrow -------------------------------
(***************************************************************************)
(* What an agreement with a price promises its two parties, with no word   *)
(* of pallets, proofs or reserves: starting it takes the price out of the  *)
(* payer's purse and into a box of its own, finishing it hands the whole   *)
(* box to the payee, once, and nothing else ever touches a box (the life   *)
(* cycle described in frame/liability/src/traits.rs).                      *)
(***************************************************************************)
EXTENDS Naturals, Sequences

CONSTANTS Holders,      \* who can be a party
          Prices,       \* the prices of deals
          MaxDeals,     \* bound on the number of deals
          Wealth,       \* the purses at the beginning
          Amounts,      \* what holders pay each other outside of deals
          Deposit       \* a purse below this may be swept away as dust

VARIABLES purse,    \* holder -> funds at the holder's disposal
          deals     \* the deals made so far: parties, price, and what the box holds

evars == <<purse, deals>>

Init ==
    /\ purse = Wealth
    /\ deals = <<>>

\* The purses after some holder received an amount and some holder gave one.
Moved(from, given, to, received) ==
    [h \in Holders |-> (purse[h] + IF h = to THEN received ELSE 0)
                          - IF h = from THEN given ELSE 0]

\* A small remainder in the purse of a holder may be swept away.
Swept(purses, holder) == [h \in Holders |-> IF h = holder THEN 0 ELSE purses[h]]

MaybeSwept(purses, holder) ==
    \/ purse' = purses
    \/ purses[holder] < Deposit /\ purse' = Swept(purses, holder)

Start(from, to, price) ==
    /\ Len(deals) < MaxDeals
    /\ purse[from] >= price
    /\ purse' = Moved(from, price, to, 0)
    /\ deals' = Append(deals, [from |-> from, to |-> to, price |-> price,
                               box |-> price, open |-> TRUE])

\* A deal that is finished, with nothing left in its box.
Emptied(deal) ==
    [from |-> deal.from, to |-> deal.to, price |-> deal.price, box |-> 0, open |-> FALSE]

Finish(d) ==
    /\ deals[d].open
    /\ MaybeSwept(Moved(deals[d].from, 0, deals[d].to, deals[d].box), deals[d].from)
    /\ deals' = [deals EXCEPT ![d] = Emptied(@)]

Pay(from, to, amount) ==
    /\ from # to
    /\ purse[from] >= amount
    /\ MaybeSwept(Moved(from, amount, to, amount), from)
    /\ UNCHANGED deals

Next ==
    \/ \E from, to \in Holders, price \in Prices : Start(from, to, price)
    \/ \E d \in DOMAIN deals : Finish(d)
    \/ \E from, to \in Holders, amount \in Amounts : Pay(from, to, amount)

Spec == Init /\ [][Next]_evars

=============================================================================
