SPECIFICATION Spec
CONSTANTS
    s = s  t = t  g = g  h = h
    Servers = {s, t}
    Getters = {g, h}
    Order <- MCOrder
    Timeout = 4
    Period = 2
    MaxDelay = 1
    UpdateTimeout = 2
    MaxFetch = 1
    MaxAge = 6
    MaxIndex = 1
CHECK_DEADLOCK FALSE
INVARIANTS TypeOK
PROPERTIES NeverDropsBeating RefreshedIsRecent RoundRobinFair
