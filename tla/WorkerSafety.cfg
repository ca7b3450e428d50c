SPECIFICATION Spec
SYMMETRY Symmetry
CONSTANTS
    Core = Core
    NoTask = NoTask
    Tasks = {t1, t2, t3}
    Modules = {m1}
    Workers = {w1}
    MaxThreads = 2
    QueueMaxes = {2}
    MaxChain = 1
    Restartable = FALSE
INVARIANTS
    TypeOK
    OnePlace
    Accounting
    UnloadedOwnsNothing
    NoLostWake
    RunningInThreads
    HeldUntilUp
PROPERTIES
    ImplementsService
