CONSTANTS
    Nodes = {1, 2, 3}
    Genesis = {1, 2}
    HomeDomain <- MCHomeDomain
    Domains = {"east", "west"}
    Groups = {g1}
    Placement <- MCPlacement
    KeyBytes = {k}
    Policies <- MCPolicies
    MaxSequence = 5
SPECIFICATION Spec
CHECK_DEADLOCK FALSE
INVARIANT TypeOK
INVARIANT Governable
INVARIANT RetentionWindow
PROPERTY EpochFencesAuthority
PROPERTY KeysNeverRevive
PROPERTY RemovedForGood
