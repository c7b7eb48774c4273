SPECIFICATION DSpec
CONSTANTS
    n1 = n1
    n2 = n2
    n3 = n3
    lan = lan
    Interfaces = {lan}
    Wildcard = Wildcard
    None = None
    topic = topic
    Nodes = {n1, n2, n3}
    BadAddresses = {}
    Topics = {topic}
    Data <- MCData
    Tickets <- MCTickets
    Bootnodes <- MCBootnodes
    MaxInFlight = 1
    MaxDowns = 1
PROPERTIES
    EveryoneConnects
    TasksGoOn
