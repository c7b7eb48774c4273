SPECIFICATION Spec
CONSTANTS
    alice = alice
    bob = bob
    task = task
    done = done
    NoBytes = NoBytes
    Accounts = {alice, bob}
    ExistentialDeposit = 2
    Technics = {task}
    Economics = {1}
    Reports = {done}
    OpenMarket = TRUE
    MaxIndex = 1
    Terms <- MCDustTerms
    Willing <- MCWilling
    Genesis <- MCGenesis
    TransferValues = {2}
PROPERTIES
    PaidOnFinish
