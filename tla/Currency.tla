------------------------------ MODULE Currency ------------------------------
(***************************************************************************)
(* The reservable currency that the economical processing of a liability   *)
(* runs on (external: the balances pallet, modelled from the three calls   *)
(* that signed.rs makes and from what a plain transfer does to the same    *)
(* accounts).  A balance sheet maps every account to its free and its      *)
(* reserved funds; each call is a function from a balance sheet to its     *)
(* result, and it is the caller that stores the sheet it gets back.        *)
(***************************************************************************)
EXTENDS Naturals

CONSTANTS Accounts,             \* the account identifiers
          ExistentialDeposit    \* an account holding less than this is reaped

ASSUME DepositAssumption == ExistentialDeposit \in Nat \ {0}

Balances == [Accounts -> [free : Nat, reserved : Nat]]

Total(account) == account.free + account.reserved

\* An account is in storage iff it holds the existential deposit.
Exists(account) == Total(account) >= ExistentialDeposit

\* What a write to an account stores: below the existential deposit the whole
\* account, its reserved funds included, is removed as dust.
Reap(account) ==
    IF Exists(account) THEN account ELSE [free |-> 0, reserved |-> 0]

Lesser(a, b) == IF a <= b THEN a ELSE b

\* Faulty: funds are taken before they are found to be too few.
ReservePartly(bal, who, value) ==
    LET actual == Lesser(bal[who].free, value)
    IN  [ok  |-> bal[who].free >= value,
         bal |-> [bal EXCEPT ![who] = [free     |-> @.free - actual,
                                       reserved |-> @.reserved + actual]]]

\* Faulty: the free funds are not looked at.
ReserveBlindly(bal, who, value) ==
    [ok  |-> TRUE,
     bal |-> [bal EXCEPT ![who] = [free |-> @.free - value, reserved |-> @.reserved + value]]]

\* reserve: all of the value or an error; the account's total does not change.
reserve(bal, who, value) ==
    LET enough == bal[who].free >= value
    IN  [ok  |-> enough,
         bal |-> IF enough
                 THEN [bal EXCEPT ![who] =
                         [free     |-> bal[who].free - value,
                          reserved |-> bal[who].reserved + value]]
                 ELSE bal]

\* unreserve: moves as much as there is, returns what could not be moved.
unreserve(bal, who, value) ==
    LET actual == Lesser(bal[who].reserved, value)
    IN  [left |-> value - actual,
         bal  |-> [bal EXCEPT ![who] =
                     [free     |-> bal[who].free + actual,
                      reserved |-> bal[who].reserved - actual]]]

\* Faulty: the payer keeps what the payee gets.
RepatriateMinting(bal, slashed, beneficiary, value) ==
    [ok  |-> TRUE,
     bal |-> [bal EXCEPT ![beneficiary] =
                [free |-> @.free + value, reserved |-> @.reserved]]]

\* Faulty: the payee gets all that the payer has reserved.
RepatriateAll(bal, slashed, beneficiary, value) ==
    [ok  |-> TRUE,
     bal |-> [a \in Accounts |->
                [free     |-> bal[a].free + IF a = beneficiary THEN bal[slashed].reserved ELSE 0,
                 reserved |-> IF a = slashed THEN 0 ELSE bal[a].reserved]]]

\* repatriate_reserved to free funds: moves as much as there is; an error only
\* when the beneficiary's account does not exist.
repatriate_reserved(bal, slashed, beneficiary, value) ==
    LET actual == Lesser(bal[slashed].reserved, value)
        payer  == Reap([free     |-> bal[slashed].free,
                        reserved |-> bal[slashed].reserved - actual])
        payee  == [free     |-> bal[beneficiary].free + actual,
                   reserved |-> bal[beneficiary].reserved]
    IN  IF value = 0 THEN [ok |-> TRUE, bal |-> bal]
        ELSE IF slashed = beneficiary
        THEN [ok |-> TRUE, bal |-> unreserve(bal, slashed, value).bal]
        ELSE IF Exists(bal[beneficiary])
        THEN [ok  |-> TRUE,
              bal |-> [bal EXCEPT ![slashed]     = payer,
                                  ![beneficiary] = payee]]
        ELSE [ok |-> FALSE, bal |-> bal]

\* A transfer of free funds that may let the sender's account die.
CanTransfer(bal, from, to, value) ==
    /\ from # to
    /\ value > 0
    /\ bal[from].free >= value
    /\ Total(bal[to]) + value >= ExistentialDeposit

transfer(bal, from, to, value) ==
    [bal EXCEPT ![from] = Reap([free     |-> bal[from].free - value,
                                reserved |-> bal[from].reserved]),
                ![to]   = [free     |-> bal[to].free + value,
                           reserved |-> bal[to].reserved]]

=============================================================================
