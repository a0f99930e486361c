CONSTANTS
    NVol = 3
    NCoding = 2
    NRepair = 2
    MaxDraining = 1
    Settings <- Nodes
SPECIFICATION VolumesSpec
INVARIANTS
    TypeOK
    RetiredIsEmpty
    RowsTraced
    ReceiptLeadsToCopy
    SettledIsGone
    EmergencyCleared
PROPERTIES
    LastCopyKept
    ReceiptKept
CHECK_DEADLOCK FALSE
