SPECIFICATION Spec
CONSTANTS
    Modules = {m1}
    Core = Core
    Operators = {o1}
    Nobody = Nobody
    MaxVersion = 3
    CoreVersions = 1
    MaxCalls = 2
    Refusing = TRUE
    Patient = TRUE
INVARIANTS
    TypeOK
    OneCallPerJob
    OneJobPerModule
    GapFree
    PlanStaysTrue
