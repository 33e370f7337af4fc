SPECIFICATION Spec
CONSTANTS
    Tickets = {t1}
    Workers = {w1, w2}
    NoWorker = nobody
    Editors = {e1}
    Guarders = {}
    Reviewers = {}
    Leases = {2}
    Patches <- MCPatches
    NewStatuses = {"not_started", "backlog", "deleted"}
    MaxTime = 3
    MaxHistory = 4
SYMMETRY WorkerSymmetry
INVARIANTS LifecycleConsistent HistoryMatchesClaim CountIsAttempts
PROPERTIES LiveLeaseRespected
