SPECIFICATION FairRegistrySpec
CONSTANTS
    s = s
    Servers = {s}
    Timeout = 4
    Period = 2
    MaxDelay = 1
    MaxAge = 4
CHECK_DEADLOCK FALSE
PROPERTY LiveIsRegistered
