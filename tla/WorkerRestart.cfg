SPECIFICATION Spec
CONSTANTS
    Core = Core
    NoTask = NoTask
    Tasks = {t1, t2}
    Modules = {m1}
    Workers = {w1}
    MaxThreads = 2
    QueueMaxes = {2}
    MaxChain = 1
    Restartable = TRUE
INVARIANT
    ArmedMeansByte
