SPECIFICATION Spec
CONSTANTS
    p1 = p1
    p2 = p2
    c1 = c1
    c2 = c2
    w1 = w1
    Payload = {p1, p2}
    Copier = {c1, c2}
    Writer = {w1}
    Content <- Contents
    Written <- Writes
    MaxGeneration = 3
    MaximumAttempts = 3
INVARIANTS
    TypeOK
PROPERTIES
    ImplementsStore
CHECK_DEADLOCK FALSE
