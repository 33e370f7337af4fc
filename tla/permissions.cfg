SPECIFICATION Spec
CONSTANTS
    r1 = r1  r2 = r2  r3 = r3  c1 = c1  c2 = c2
    a = a  b = b  p = p  q = q
    Requests = {r1, r2}
    Hooks = {r1}
    Conns = {c1}
    ConnOf <- MCConnOf
    Actions = {a}
    ActionOf <- MCActionOf
    Patterns = {p}
    Covers <- MCCovers
    None = none
    StartVaults <- MCVaults
    MaxEdits = 2
    MaxOutages = 1
INVARIANTS FailClosed NoLostWakeup
PROPERTIES AnsweredOnce DurableRulesStored
CONSTRAINT OneAtATime
CHECK_DEADLOCK FALSE
