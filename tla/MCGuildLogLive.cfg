CONSTANTS
    Nodes = {1, 2}
    Genesis = {1, 2}
    HomeDomain <- MCHomeDomain
    Domains = {"east", "west"}
    Groups = {g1}
    Placement <- MCPlacement
    KeyBytes = {k}
    Policies <- MCPolicies
    FirstCoordinator = 1
    OperatorKinds = {}
    MaxSequence = 6
    MaxWriterEpoch = 1
    MaxInterruptions = 1
    MaxLosses = 0
SPECIFICATION FairBackground
CHECK_DEADLOCK FALSE
PROPERTY VotesDecide
PROPERTY ImplementsGuildHistory
