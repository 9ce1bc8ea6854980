CONSTANTS
    unit = unit
    system = system
    plan = plan
    ann = ann
    bob = bob
    TestFile <- MCTestFile
    Plan <- MCPlan
    Proc <- MCProc
    Web = TRUE
    Serialised = TRUE
    MaxVersion = 2
SPECIFICATION Spec
INVARIANTS
    TypeOK
    LockedAreHashed
PROPERTIES
    WorkOnLockedTests
