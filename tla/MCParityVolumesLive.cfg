CONSTANTS
    NVol = 2
    NCoding = 1
    NRepair = 0
    MaxDraining = 1
    Settings <- Holder
SPECIFICATION FairHolder
PROPERTIES
    CleanupSettles
    DrainCompletes
CHECK_DEADLOCK FALSE
