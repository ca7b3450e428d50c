CONSTANTS
    Modules = {m1}
    Clients = {c1, c2}
    NoModule = NoModule
    NoClient = NoClient
    Priorities = {1}
    MaxHooks = 1
    MaxStack = 3
    MaxCommands = 0
    MaxPending = 1
    MaxToken = 2
    Timeouts = {1, 2}
    MaxTime = 2
    Tidy = TRUE
    Careful = TRUE
    Polite = TRUE
SPECIFICATION FairSpec
PROPERTY HeldDecided
