SPECIFICATION ThisNodeSpec
CONSTANTS
    Parts = {"startup", "publishers", "services", "author", "datalog", "votes", "fees", "era"}
    Commands = {"node", "base", "io", "browser"}
    Chains = {"", "dev", "ipci", "parachain", "file"}
    FileIds = {"dev", "ipci", "robonomics", "other", "bad"}
    Builds = {TRUE, FALSE}
    Missing = Missing
    Empty = Empty
    Entries = {Missing, Empty}
    Zero = Zero
    Null = Null
    Error = Error
    MaxHeight = 3
    MaxBlocks = 4
    t1 = t1
    t2 = t2
    t3 = t3
    Txs = {t1, t2, t3}
    Junk = Junk
    Needs <- MCNeeds
    Keys = {k1}
    Refused = Refused
    Accounts = {alice, bob}
    Records = {r1, r2}
    MaxTime = 2
    MaxEvents = 4
    Voters = {"a", "b"}
    MaxVote = 3
    MaxIssuance = 16
    Holders <- MCHolders
    Treasury = "treasury"
    Runtimes = {"robonomics", "parachain", "ipci"}
    ExistentialDeposit = 2
    Fees = {0, 3, 7}
    Tips = {0, 4}
    Stashes = {"alice_stash"}
    Endowment = 16
    Stash = 8
    MaxSettled = 5
    HashCounts <- MCHashCounts
    MaxBlock = 26
    MaxMade = 2
INVARIANTS
    RoleDecidesTasks
    
    TopicsAgree
    RemovedStaysOut
    LogsReplayEvents
    TimesOrdered
    VotesFollowStakes
    FundsAreAccounted
    ValidThroughPeriod
PROPERTIES
    ConsensusFailureEndsNode
    StartSettles
    ShutdownStopsPublishers
    SameHashSameAnswer
CHECK_DEADLOCK FALSE
