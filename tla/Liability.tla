------------------------------ MODULE Liability ------------------------------
(***************************************************************************)
(* The liability pallet (frame/liability/src/lib.rs): agreements between a *)
(* promisee and a promisor, created by an unsigned call that carries both  *)
(* parties' proofs and finalized by an unsigned call that carries the      *)
(* promisor's signed report.                                               *)
(*                                                                         *)
(* The state is the pallet's four storage items, the events it deposits,   *)
(* the balance sheet its economics works on, the proofs that the account   *)
(* holders have produced so far, and the result of a dispatch just made.   *)
(* Dispatch is not transactional: a call that fails keeps what it wrote    *)
(* before it failed.                                                       *)
(***************************************************************************)
EXTENDS SignedLiability, Sequences, FiniteSets

CONSTANTS MaxIndex,         \* bound: liabilities ever created (u64::MAX in the code)
          Terms,            \* the agreements that are proposed, by whomever
          Willing,          \* the proofs the account holders are willing to give
          Genesis,          \* the balance sheet at genesis
          TransferValues,   \* the amounts that plain transfers move
          NoBytes           \* the default of a map to bytes: decodes to nothing

Indices == 0 .. MaxIndex - 1

ReportProofs == {proof_report(i, r, a) : i \in Indices, r \in Reports, a \in Accounts}
Proofs == ParamsProofs \cup ReportProofs

ASSUME LiabilityAssumption ==
    /\ IsFiniteSet(Accounts)
    /\ MaxIndex \in Nat
    /\ Terms \subseteq Liabilities
    /\ Willing \subseteq Proofs
    /\ Genesis \in Balances
    /\ \A a \in Accounts : Genesis[a].reserved = 0
    /\ TransferValues \subseteq Nat
    /\ NoBytes \notin Liabilities
    /\ NoBytes \notin Reports

VARIABLES latestIndex,  \* LatestIndex
          liabilityOf,  \* LiabilityOf
          isFinalized,  \* IsFinalized
          reportOf,     \* ReportOf
          events,       \* the events deposited so far, oldest first
          bal,          \* the balance sheet of the currency
          signed,       \* the proofs produced so far
          result        \* the result of the dispatch just made, "None" if none was

storage == <<latestIndex, liabilityOf, isFinalized, reportOf>>
vars == <<latestIndex, liabilityOf, isFinalized, reportOf, events, bal, signed, result>>

Results == {"None", "Ok", "BadOrigin", "BadPromiseeProof", "BadPromisorProof",
            "StartFailed", "AlreadyFinalized", "LiabilityDecodeFailure",
            "BadReportProof", "FinishFailed"}

\* The origins a call is dispatched with: both calls are for the unsigned one.
Origins == {"None", "Signed"}

Events == [ev : {"NewLiability"}, index : Indices, what : Liabilities]
              \cup [ev : {"NewReport"}, index : Indices, what : Reports]

Init ==
    /\ latestIndex = 0
    /\ liabilityOf = [i \in Indices |-> NoBytes]
    /\ isFinalized = [i \in Indices |-> FALSE]
    /\ reportOf = [i \in Indices |-> NoBytes]
    /\ events = <<>>
    /\ bal = Genesis
    /\ signed = {}
    /\ result = "None"

-----------------------------------------------------------------------------
\* The account holders.

\* An account holder signs parameters or a report off chain.
Sign(proof) ==
    /\ proof \notin signed
    /\ signed' = signed \cup {proof}
    /\ result' = "None"
    /\ UNCHANGED <<latestIndex, liabilityOf, isFinalized, reportOf, events, bal>>

\* A plain transfer between two accounts, outside of the pallet.
Transfer(from, to, value) ==
    /\ CanTransfer(bal, from, to, value)
    /\ bal' = transfer(bal, from, to, value)
    /\ result' = "None"
    /\ UNCHANGED <<latestIndex, liabilityOf, isFinalized, reportOf, events, signed>>

-----------------------------------------------------------------------------
\* The calls.

CreateCall(l, promiseeProof, promisorProof) ==
    [fn |-> "create", liability |-> l,
     promisee_proof |-> promiseeProof, promisor_proof |-> promisorProof]

FinalizeCall(i, r, proof) ==
    [fn |-> "finalize", index |-> i, report |-> r, proof |-> proof]

\* Faulty: the event is numbered after the index was advanced.
StoreNextEvent(liability) ==
    /\ liabilityOf' = [liabilityOf EXCEPT ![latestIndex] = liability]
    /\ latestIndex' = latestIndex + 1
    /\ events' = Append(events, [ev |-> "NewLiability", index |-> latestIndex',
                                 what |-> liability])

\* create's writes: the liability, the next index, the event.
StoreLiability(liability) ==
    /\ liabilityOf' = [liabilityOf EXCEPT ![latestIndex] = liability]
    /\ latestIndex' = latestIndex + 1
    /\ events' = Append(events, [ev |-> "NewLiability", index |-> latestIndex,
                                 what |-> liability])

create(origin, c) ==
    LET liability == new(c.liability.technics, c.liability.economics,
                         c.liability.promisee, c.liability.promisor)
        started == on_start(bal, liability)
        Fail(error) == /\ result' = error
                       /\ UNCHANGED <<latestIndex, liabilityOf, events>>
    IN  /\ \/ /\ origin # "None"
              /\ Fail("BadOrigin")
              /\ bal' = bal
           \/ /\ origin = "None"
              /\ ~check_params(liability, c.promisee_proof, liability.promisee)
              /\ Fail("BadPromiseeProof")
              /\ bal' = bal
           \/ /\ origin = "None"
              /\ check_params(liability, c.promisee_proof, liability.promisee)
              /\ ~check_params(liability, c.promisor_proof, liability.promisor)
              /\ Fail("BadPromisorProof")
              /\ bal' = bal
           \/ /\ origin = "None"
              /\ check_params(liability, c.promisee_proof, liability.promisee)
              /\ check_params(liability, c.promisor_proof, liability.promisor)
              /\ bal' = started.bal
              /\ \/ ~started.ok /\ Fail("StartFailed")
                 \/ started.ok /\ StoreLiability(liability) /\ result' = "Ok"
        /\ UNCHANGED <<isFinalized, reportOf, signed>>

\* finalize's writes: the report, the flag, the event.
StoreReport(i, report) ==
    /\ reportOf' = [reportOf EXCEPT ![i] = report]
    /\ isFinalized' = [isFinalized EXCEPT ![i] = TRUE]
    /\ events' = Append(events, [ev |-> "NewReport", index |-> i, what |-> report])

FailFinalize(error) ==
    /\ result' = error
    /\ UNCHANGED <<isFinalized, reportOf, events>>

\* finalize past its first checks: decode, check the proof, process, write.
Publish(c) ==
    LET i == c.index
        liability == liabilityOf[i]
        finished == on_finish(bal, liability, TRUE)
    IN  \/ /\ liability = NoBytes
           /\ FailFinalize("LiabilityDecodeFailure")
           /\ bal' = bal
        \/ /\ liability # NoBytes
           /\ ~check_report(liability, i, c.report, c.proof)
           /\ FailFinalize("BadReportProof")
           /\ bal' = bal
        \/ /\ liability # NoBytes
           /\ check_report(liability, i, c.report, c.proof)
           /\ bal' = finished.bal
           /\ \/ ~finished.ok /\ FailFinalize("FinishFailed")
              \/ finished.ok /\ StoreReport(i, c.report) /\ result' = "Ok"

\* Faulty: a finalized liability can be finalized again.
FinalizeUnchecked(origin, c) ==
    origin = "None" /\ Publish(c) /\ UNCHANGED <<latestIndex, liabilityOf, signed>>

finalize(origin, c) ==
    /\ \/ /\ origin # "None"
          /\ FailFinalize("BadOrigin")
          /\ bal' = bal
       \/ /\ origin = "None"
          /\ isFinalized[c.index]
          /\ FailFinalize("AlreadyFinalized")
          /\ bal' = bal
       \/ origin = "None" /\ ~isFinalized[c.index] /\ Publish(c)
    /\ UNCHANGED <<latestIndex, liabilityOf, signed>>

Create ==
    /\ latestIndex < MaxIndex
    /\ \E o \in Origins, l \in Terms, p, q \in signed : create(o, CreateCall(l, p, q))

Finalize ==
    \E o \in Origins, i \in Indices, r \in Reports, p \in signed :
        finalize(o, FinalizeCall(i, r, p))

Holders ==
    \/ \E p \in Willing : Sign(p)
    \/ \E from, to \in Accounts, v \in TransferValues : Transfer(from, to, v)

Next == Create \/ Finalize \/ Holders

Spec == Init /\ [][Next]_vars

-----------------------------------------------------------------------------
\* Properties.

\* Every storage item, the balance sheet, the proofs and the result have their
\* types; in particular no balance ever becomes negative.
TypeOK ==
    /\ latestIndex \in 0 .. MaxIndex
    /\ liabilityOf \in [Indices -> Liabilities \cup {NoBytes}]
    /\ isFinalized \in [Indices -> BOOLEAN]
    /\ reportOf \in [Indices -> Reports \cup {NoBytes}]
    /\ events \in Seq(Events)
    /\ bal \in Balances
    /\ signed \subseteq Proofs
    /\ result \in Results

Exist(i) == liabilityOf[i] # NoBytes

\* The liabilities of a promisee that are started and not finished, and the
\* units of currency they lock: unit k of liability i is <<i, k>>.
OpenOf(a) == {i \in Indices : Exist(i) /\ ~isFinalized[i] /\ liabilityOf[i].promisee = a}

Price(liability) == IF OpenMarket THEN liability.economics ELSE 0

LockedUnits(a) == UNION {{i} \X (1 .. Price(liabilityOf[i])) : i \in OpenOf(a)}

\* The currency keeps one reserved figure per account and knows nothing of
\* liabilities.  Whatever calls succeed or fail, and whatever transfers come
\* between them, that figure is exactly the sum of the prices of the account's
\* open liabilities (on_start and on_finish balance each other).
EscrowBacked == \A a \in Accounts : bal[a].reserved = Cardinality(LockedUnits(a))

\* Both parties of a stored liability have signed its parameters, and the
\* promisor has signed the stored report for this index (the proof checks of
\* create and finalize).
Consent ==
    \A i \in Indices :
        /\ Exist(i) => \A a \in {liabilityOf[i].promisee, liabilityOf[i].promisor} :
                proof_params(liabilityOf[i].technics, liabilityOf[i].economics, a) \in signed
        /\ isFinalized[i] => /\ Exist(i)
                             /\ proof_report(i, reportOf[i], liabilityOf[i].promisor) \in signed

\* Replaying the events gives the storage: liabilities are numbered without a
\* gap in the order of their events, a report's event follows its liability's,
\* nothing is announced twice, and nothing is stored without its event.
EventsTellStorage ==
    LET At(kind) == {n \in DOMAIN events : events[n].ev = kind}
    IN  /\ Cardinality(At("NewLiability")) = latestIndex
        /\ \A i \in Indices :
              Exist(i) <=> \E n \in At("NewLiability") :
                               events[n].index = i /\ events[n].what = liabilityOf[i]
        /\ \A i \in Indices :
              isFinalized[i] <=> \E n \in At("NewReport") :
                                     events[n].index = i /\ events[n].what = reportOf[i]
        /\ \A m, n \in DOMAIN events :
              m < n => /\ events[m].index = events[n].index =>
                            events[m].ev = "NewLiability" /\ events[n].ev = "NewReport"
                       /\ m \in At("NewLiability") /\ n \in At("NewLiability") =>
                            events[m].index < events[n].index

\* What create and finalize have stored never changes again: a liability keeps
\* its parameters, a finalized one stays finalized with the report it has.
WrittenOnce ==
    [][\A i \in Indices :
          /\ Exist(i) => liabilityOf'[i] = liabilityOf[i]
          /\ isFinalized[i] => isFinalized'[i] /\ reportOf'[i] = reportOf[i]]_vars

\* A dispatch that returns an error leaves the storage, the events and every
\* balance as they were, although nothing rolls it back (the checks and the
\* economical processing of create and finalize come before their writes).
FailureWritesNothing ==
    [][result' \notin {"Ok", "None"} => UNCHANGED <<storage, events, bal>>]_vars

\* The step that finalizes a liability pays its promisor the whole price (what
\* repatriate_reserved could not move is never more than nothing).
PaidOnFinish ==
    [][\A i \in Indices :
          ~isFinalized[i] /\ isFinalized'[i] =>
              LET l == liabilityOf[i]
              IN  bal'[l.promisor].free = bal[l.promisor].free + Price(l)]_vars

\* The units of currency there are: unit k of account a is <<a, k>>.
Issuance == Cardinality(UNION {{a} \X (1 .. Total(bal[a])) : a \in Accounts})

\* No step creates currency, and what one step removes is dust, less than an
\* existential deposit (on_start, on_finish and transfers only move funds).
NothingMinted ==
    [][/\ Issuance' <= Issuance
       /\ Issuance - Issuance' < ExistentialDeposit]_vars

\* The pallet seen as an escrow: the purse is the free balance, a liability is
\* a deal, and its box holds its price until it is finalized.
DealOf(i) ==
    [from  |-> liabilityOf[i].promisee,
     to    |-> liabilityOf[i].promisor,
     price |-> Price(liabilityOf[i]),
     box   |-> IF isFinalized[i] THEN 0 ELSE Price(liabilityOf[i]),
     open  |-> ~isFinalized[i]]

E == INSTANCE Escrow WITH
         Holders  <- Accounts,
         Prices   <- IF OpenMarket THEN Economics ELSE {0},
         MaxDeals <- MaxIndex,
         Wealth   <- [a \in Accounts |-> Genesis[a].free],
         Amounts  <- TransferValues,
         Deposit  <- ExistentialDeposit,
         purse    <- [a \in Accounts |-> bal[a].free],
         deals    <- [d \in 1 .. latestIndex |-> DealOf(d - 1)]

\* The pallet implements the escrow: although all reserves of an account are
\* one figure, each liability behaves as if its price lay in a box of its own.
ImplementsEscrow == E!Spec

\* Prices are zero or at least the existential deposit.
PricesCoverDeposit == \A v \in Economics : v = 0 \/ v >= ExistentialDeposit

=============================================================================
