SPECIFICATION Spec
CONSTANTS
    Stores = {1, 2}
    Procs = {p1, p2}
    Routes <- BothWays
    Crashes = 2
    MaxEdits = 2
PROPERTIES NoEditLost AttachmentsKept TransferEnds
