SPECIFICATION Spec
CONSTANTS
    Ops = {"a", "b", "c"}
    Tickets = {"t", "u"}
    TicketOf <- MCTicketOf
    Batches <- MCBatches
    MaxPending = 2
    Window = 2
    MaxFaults = 1
    MaxEdits = 1
    MaxRetries = 1
INVARIANTS ConfirmedReached LaterIntentStays
PROPERTIES WritesInOrder Settles
CHECK_DEADLOCK FALSE
