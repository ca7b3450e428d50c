SPECIFICATION FairSpec
CONSTANTS
    Modules = {m1}
    Core = Core
    Operators = {o1}
    Nobody = Nobody
    MaxVersion = 2
    CoreVersions = 1
    MaxCalls = 2
    Refusing = FALSE
    Patient = FALSE
PROPERTY
    JobsEnd
