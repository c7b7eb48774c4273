SPECIFICATION PoolSpec
CONSTANTS
    alice = alice
    bob = bob
    n1 = n1
    n2 = n2
    task = task
    done = done
    failed = failed
    NoBytes = NoBytes
    Accounts = {alice, bob}
    ExistentialDeposit = 1
    Technics = {task}
    Economics = {0}
    Reports = {done, failed}
    OpenMarket = FALSE
    MaxIndex = 2
    Terms <- MCTerms
    Willing <- MCWilling
    Genesis <- MCGenesis
    TransferValues = {}
    Nodes = {n1, n2}
    Longevity = 2
INVARIANTS
    PooledStaysValid
PROPERTIES
    WrittenOnce
    PooledCallsLeave
