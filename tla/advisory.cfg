CONSTANTS
    Ops = {"x", "y", "z", "w"}
    Legacy = {"z"}
    Procs = {"p", "q"}
    Servers = {"p"}
    Hosts = {"f", "h", "g"}
    HostOf <- MCHostOf
    Offset <- MCOffset
    None = None
    Horizon = 2
    Skew = 1
    Capacity = 5
    Found <- MCFound
    Born <- MCBorn
    MaxTime = 6
    MaxExpiry = 4
    MaxLate = 1
    MaxCalls = 3
SPECIFICATION Spec
CHECK_DEADLOCK FALSE
INVARIANTS HeldByOne ReleaseIsFinal
PROPERTIES CleanupInvisible
