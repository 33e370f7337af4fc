SPECIFICATION Spec
CONSTANTS
    Stores = 2
    Tickets <- MCTickets
    Home <- MCHome
    Priority <- MCPriority
    Workers = {w1}
    Others = {o1}
    NoWorker = nobody
    Attempts = 3
INVARIANTS EmptyAnswerHonest
PROPERTIES MergedOrder NeverDisplaced CallEnds
