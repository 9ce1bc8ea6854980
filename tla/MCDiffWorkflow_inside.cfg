CONSTANTS
    main = main
    core = core
    testmain = testmain
    ann = ann
    bob = bob
    File <- MCFile
    Test <- MCTest
    Flat <- MCFlat
    Occurs <- Inside
    Proc <- One
    Serialised = TRUE
    MaxDiff = 2
SPECIFICATION Spec
INVARIANTS
    TestsUntouched
CHECK_DEADLOCK FALSE
