CONSTANTS
    main = main
    core = core
    testmain = testmain
    ann = ann
    bob = bob
    File <- MCFile
    Test <- MCTest
    Flat <- MCFlat
    Occurs <- Apart
    Proc <- MCProc
    Serialised = TRUE
    MaxDiff = 3
SPECIFICATION Spec
INVARIANTS
    TypeOK
    FlatMarkedAtRest
PROPERTIES
    VerdictsFinal
CHECK_DEADLOCK FALSE
