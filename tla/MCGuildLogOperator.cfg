CONSTANTS
    Nodes = {1, 2, 3}
    Genesis = {1, 2, 3}
    HomeDomain <- MCHomeDomain
    Domains = {"east", "west"}
    Groups = {}
    Placement <- MCPlacement
    KeyBytes = {k}
    Policies <- MCPolicies
    FirstCoordinator = 1
    OperatorKinds = {"RemoveMember", "SetQuorum", "RevokeKey", "RotateKey"}
    MaxSequence = 4
    MaxWriterEpoch = 0
    MaxInterruptions = 0
    MaxLosses = 2
SPECIFICATION OperatorSpec
CHECK_DEADLOCK FALSE
INVARIANT Agreement
INVARIANT OneCertificate
