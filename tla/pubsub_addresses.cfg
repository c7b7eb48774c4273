SPECIFICATION CSpec
CONSTANTS
    n1 = n1
    n2 = n2
    t1 = t1
    t2 = t2
    d1 = d1
    d2 = d2
    bad = bad
    lan = lan
    wlan = wlan
    Interfaces = {lan, wlan}
    Wildcard = Wildcard
    None = None
    Nodes = {n1, n2}
    BadAddresses = {bad}
    Topics = {t1, t2}
    Data = {d1, d2}
    Tickets <- MCTickets
    MaxCalls = 4
    Calls <- MCDialers
    Linked = {}
    MaxDowns = 0
INVARIANTS
    ReportedWereAskedFor
PROPERTY AnswersArrive
CHECK_DEADLOCK FALSE
