-------------------------------- MODULE TxEra --------------------------------
(***************************************************************************)
(* The lifetime of a transaction made by a runtime's create_transaction    *)
(* (for the off-chain workers; the same code in all three runtimes).  It   *)
(* is signed over the hash of the block in which its era begins; a block   *)
(* that wants to include it looks that hash up again, in a table that      *)
(* keeps the last BlockHashCount hashes only.  Eras and the table are the  *)
(* system pallet's (external).                                             *)
(***************************************************************************)
EXTENDS Naturals, FiniteSets, FiniteSetsExt

CONSTANTS
    HashCounts,  \* the values of BlockHashCount looked at
    MaxBlock,    \* bound: the height of the chain
    MaxMade      \* bound: transactions made

\* The system pallet keeps two hashes at least; the runtimes keep 2400.
ASSUME EraAssumption ==
    HashCounts \subseteq Nat /\ \A c \in HashCounts : 2 <= c /\ c <= 4096

VARIABLES
    count,    \* BlockHashCount of this chain
    number,   \* System::block_number(): the block being executed
    hashes,   \* the blocks whose hash the system pallet still has
    made,     \* transactions made and not included
    missed    \* whether a transaction could not be made

evars == <<count, number, hashes, made, missed>>

-----------------------------------------------------------------------------
\* Powers of two up to the largest BlockHashCount.
PowersOfTwo == {1, 2, 4, 8, 16, 32, 64, 128, 256, 512, 1024, 2048, 4096}

NextPowerOfTwo(n) == Min({p \in PowersOfTwo : p >= n})

\* Mutant: the power of two is not halved.
PeriodDoubled == NextPowerOfTwo(count)

\* "take the biggest period possible".
Period == NextPowerOfTwo(count) \div 2

\* The last block that is complete.
CurrentBlock == IF number = 0 THEN 0 ELSE number - 1

\* Era::mortal: at least four blocks, starting at the current one.
Mortal(period, current) ==
    LET p == Max({4, NextPowerOfTwo(period)})
    IN  [period |-> p, phase |-> current % p]

\* Era::birth as seen from a block.
Birth(era, n) ==
    ((Max({n, era.phase}) - era.phase) \div era.period) * era.period + era.phase

EInit ==
    /\ count \in HashCounts
    /\ number = 1
    /\ hashes = {0}
    /\ made = {} /\ missed = FALSE

\* A block is done and the next begins: the hash of the one before is stored,
\* the oldest but the genesis is dropped.
BeginBlock ==
    /\ number < MaxBlock
    /\ number' = number + 1
    /\ hashes' = {n \in hashes \cup {number} : n = 0 \/ n + count >= number}
    /\ UNCHANGED <<count, made, missed>>

\* create_transaction: SignedPayload::new fails if the hash of the era's first
\* block is not known.
CreateTransaction ==
    /\ Cardinality(made) < MaxMade
    /\ LET era == Mortal(Period, CurrentBlock)
           birth == Birth(era, number)
       IN  IF birth \in hashes
           THEN /\ made' = made \cup {[era |-> era, over |-> birth, from |-> CurrentBlock]}
                /\ UNCHANGED missed
           ELSE missed' = TRUE /\ UNCHANGED made
    /\ UNCHANGED <<count, number, hashes>>

\* CheckEra: the signature holds if the first block of the era, seen from the
\* block that includes the transaction, is the one that was signed.
Valid(tx) ==
    /\ Birth(tx.era, number) \in hashes
    /\ Birth(tx.era, number) = tx.over

\* A block includes a transaction, and it is gone.
Include(tx) ==
    /\ Valid(tx)
    /\ made' = made \ {tx}
    /\ UNCHANGED <<count, number, hashes, missed>>

ENext == BeginBlock \/ CreateTransaction \/ \E tx \in made : Include(tx)

ESpec == EInit /\ [][ENext]_evars

-----------------------------------------------------------------------------
\* A transaction can be made at every height, and stays valid from the block it
\* is made in until its period has passed, although the table of hashes keeps
\* moving, and not a block longer (create_transaction: "take the biggest period
\* possible").
ValidThroughPeriod ==
    /\ ~missed
    /\ \A tx \in made : number < tx.from + tx.era.period <=> Valid(tx)
=============================================================================
