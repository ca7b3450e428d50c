CONSTANTS
    Modules = {m1, m2}
    Clients = {c1}
    NoModule = NoModule
    NoClient = NoClient
    Priorities = {1}
    MaxHooks = 2
    MaxStack = 4
    MaxCommands = 1
    MaxPending = 1
    MaxToken = 2
    Timeouts = {1}
    MaxTime = 2
    Tidy = TRUE
    Careful = TRUE
    Polite = TRUE
SPECIFICATION Spec
SYMMETRY Symmetry
INVARIANTS
    TypeOK StandsOnLinked CountIsLive ReapedWhenIdle OwnersLoaded
