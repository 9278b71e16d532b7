SPECIFICATION FairSpec
CONSTANTS
    Clients = {c1, c2}
    MaxConnects = 2
    MaxPublish = 1
    Events = {"refuse"}
INVARIANTS ExitScheduled OneAnswer
PROPERTIES StopsUnused ConnectReturns ServerLeaves
