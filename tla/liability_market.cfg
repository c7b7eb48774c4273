SPECIFICATION Spec
CONSTANTS
    alice = alice
    bob = bob
    task = task
    done = done
    NoBytes = NoBytes
    Accounts = {alice, bob}
    ExistentialDeposit = 2
    Technics = {task}
    Economics = {0, 2}
    Reports = {done}
    OpenMarket = TRUE
    MaxIndex = 2
    Terms <- MCTerms
    Willing <- MCWilling
    Genesis <- MCGenesis
    TransferValues = {2}
INVARIANTS
    TypeOK
    EscrowBacked
    Consent
    EventsTellStorage
PROPERTIES
    FailureWritesNothing
    PaidOnFinish
    NothingMinted
    ImplementsEscrow
