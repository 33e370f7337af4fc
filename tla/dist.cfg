SPECIFICATION Spec
CONSTANTS
    Tickets = {1}
    Workers = {w1, w2}
    None = none
    Lease = 1
    MaxPass = 2
    MaxFaults = 2
    Outcomes = {"completed", "continued", "failed"}
INVARIANTS StartedOnce
PROPERTIES MarkerNeverStolen MarkersReaped
