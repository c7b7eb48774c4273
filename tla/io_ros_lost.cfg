SPECIFICATION ToolsSpec
CONSTANTS
    Parts = {"read"}
    p1 = p1
    p2 = p2
    on = on
    Procs = {p1, p2}
    Cmds = {"pubsub", "ros", "datalog", "launch", "ipfs", "cat"}
    Lines = {on}
    On = on
    MaxLines = 3
    OutputFails = TRUE
    NoCall = NoCall
    Kinds = {"ros"}
    Payloads <- MCPayloads
    Garbage = Garbage
    Broken = Broken
    NoString = NoString
    MaxArrivals = 3
    Schemes = {"sr25519", "ed25519", "ecdsa"}
    Phrases = {"p1"}
    Passwords <- MCPasswords
    Networks <- MCNetworks
    Default = "substrate"
    Messages = {"m1", "m2"}
    Targets <- MCTargets
    Chains <- MCChains
    Version <- MCVersion
    NodeVersion <- MCNodeVersion
    Files = {"f1"}
    Commands = {"generate", "inspect", "vanity", "moduleid", "sign", "verify", "transfer", "sign-transaction", "insert", "generate-node-key", "inspect-node-key"}
    MaxCommands = 3
    MaxMixed = 3
    RpcFails = TRUE
    None = None
    Patterns <- MCPatterns
    Base58 <- MCBase58
    Wide = {"umlaut"}
    Digits = 3
    SeedLen = 2
    Address <- MCAddress
    AddressLen = 5
    Batch = 6
    MaxDone = 13
PROPERTY ArrivalsShown
CHECK_DEADLOCK FALSE
