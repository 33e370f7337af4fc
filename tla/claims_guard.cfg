SPECIFICATION Spec
CONSTANTS
    Tickets = {t1}
    Workers = {w1, w2}
    NoWorker = nobody
    Editors = {}
    Guarders = {w1}
    Reviewers = {w1}
    Leases = {2}
    Patches <- MCFewPatches
    NewStatuses = {"not_started"}
    MaxTime = 3
    MaxHistory = 5
PROPERTIES GuardOwnedThroughout HandoffUntouched
