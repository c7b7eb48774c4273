SPECIFICATION Spec
CONSTANTS
    alice = alice
    bob = bob
    task = task
    Accounts = {alice, bob}
    ExistentialDeposit = 1
    Technics = {task}
    Economics = {2}
    Reports = {}
    OpenMarket = TRUE
    Terms <- MCTerms
    Genesis <- MCGenesis
    MaxStarted = 2
INVARIANT RefundErrorIsTrue
CHECK_DEADLOCK FALSE
