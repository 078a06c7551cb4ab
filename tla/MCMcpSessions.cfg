SPECIFICATION Spec
CONSTANTS
    h1 = h1
    h2 = h2
    a = a
    s1 = s1
    s2 = s2
    Foreign = {x}
    NoSid = NoSid
    NoAgent = NoAgent
    Handlers <- MCHandlers
    Calls <- MCCalls
    Agents = {a}
    Sids <- MCSids
    MaxChanges = 2
    MaxRestarts = 1
SYMMETRY Symmetry
INVARIANTS
    SessionRequired
    SessionKept
PROPERTIES
    DecidedByOperator
