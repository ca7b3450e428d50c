CONSTANTS
    Modules = {m1}
    Clients = {c1, c2}
    NoModule = NoModule
    NoClient = NoClient
    Priorities = {1}
    MaxHooks = 2
    MaxStack = 3
    MaxCommands = 0
    MaxPending = 2
    MaxToken = 3
    Timeouts = {1}
    MaxTime = 2
    Tidy = TRUE
    Careful = TRUE
    Polite = TRUE
SPECIFICATION Spec
SYMMETRY Symmetry
INVARIANTS
    AnswersOwnQuestion HeldByOne DeadlineArmed
