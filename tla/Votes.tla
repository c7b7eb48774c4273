-------------------------------- MODULE Votes --------------------------------
(***************************************************************************)
(* The weights of an election (impls.rs, the same in all three runtimes):  *)
(* staking and the council election turn balances into u64 votes with      *)
(* CurrencyToVoteHandler and turn sums of votes back into balances.  The   *)
(* factor between the two follows the total issuance, which every block    *)
(* may change, and the cast to u64 keeps only the low bits.                *)
(***************************************************************************)
EXTENDS Integers, FiniteSetsExt

CONSTANTS
    Voters,       \* the accounts whose stake is weighed
    MaxVote,      \* u64::max_value()
    MaxIssuance   \* bound: the total issuance

ASSUME VoteAssumption == MaxVote \in Nat \ {0} /\ MaxIssuance \in Nat

VARIABLES
    issuance,  \* Balances::total_issuance()
    stake      \* [Voters -> the balance they stake]

vvars == <<issuance, stake>>

-----------------------------------------------------------------------------
\* The larger of two numbers.
MaxOf(a, b) == IF a >= b THEN a ELSE b

\* factor: issuance over the largest vote, at least one.
Factor(total) == MaxOf(total \div MaxVote, 1)

\* Mutant: the cast is left out, a larger product wraps after the factor.
ToVoteLate(total, x) == (x % (MaxVote + 1)) \div Factor(total)

\* Convert<Balance, u64>: the quotient, cast to u64.
ToVote(total, x) == (x \div Factor(total)) % (MaxVote + 1)

\* Convert<u128, Balance>.
ToBalance(total, v) == v * Factor(total)

-----------------------------------------------------------------------------
VInit ==
    /\ issuance = 0
    /\ stake = [a \in Voters |-> 0]

\* Newly issued funds: rewards.
Mint(a) ==
    /\ issuance < MaxIssuance
    /\ issuance' = issuance + 1
    /\ stake' = [stake EXCEPT ![a] = @ + 1]

\* Funds taken out of issuance: slashes and dust.
Burn(a) ==
    /\ stake[a] > 0
    /\ issuance' = issuance - 1
    /\ stake' = [stake EXCEPT ![a] = @ - 1]

\* Funds that are issued to somebody who stakes nothing.
Dilute ==
    /\ issuance < MaxIssuance
    /\ issuance' = issuance + 1
    /\ UNCHANGED stake

\* All that is staked.
Staked == MapThenSumSet(LAMBDA a : stake[a], Voters)

\* Funds nobody stakes are taken out of issuance.
Concentrate ==
    /\ issuance > Staked
    /\ issuance' = issuance - 1
    /\ UNCHANGED stake

VNext == Dilute \/ Concentrate \/ \E a \in Voters : Mint(a) \/ Burn(a)

VSpec == VInit /\ [][VNext]_vvars

-----------------------------------------------------------------------------
\* A stake whose quotient fits in a vote.  With less than MaxVote issued every
\* stake does; between MaxVote and its double the factor is still one, and a
\* stake above MaxVote is cut by the cast.
Fits(a) == stake[a] < (MaxVote + 1) * Factor(issuance)

\* Of two stakes that fit the larger never has the smaller weight, and a stake
\* read back from its weight is short of less than one factor, never above it
\* (CurrencyToVoteHandler, both conversions, whatever the issuance became).
VotesFollowStakes ==
    \A a, b \in Voters :
        Fits(a) /\ Fits(b) =>
            /\ stake[a] <= stake[b] =>
                   ToVote(issuance, stake[a]) <= ToVote(issuance, stake[b])
            /\ ToBalance(issuance, ToVote(issuance, stake[a])) <= stake[a]
            /\ stake[a] < ToBalance(issuance, ToVote(issuance, stake[a])) + Factor(issuance)

=============================================================================
