SPECIFICATION NotifySpec
CONSTANTS
    m1 = m1  m2 = m2  old = old  k1 = k1
    Messages = {m1, m2, old}
    Urgent = {m2}
    DedupeKeys = {k1}
    KeyOf <- MCKeyOf
    Procs = {server, cli}
    Servers = {server}
    NoMessage = none
    OldLogs <- MCOldLogs
    Limit = 1
    CompactAt = 4
    Keep = 2
    MaxFaults = 1
    MaxQuiet = 1
INVARIANTS LaterHoldsStay CompletedOnce
PROPERTIES HeldOnce HeldIsReported
CHECK_DEADLOCK FALSE
