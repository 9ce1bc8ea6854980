CONSTANTS
    main = main
    core = core
    testmain = testmain
    ann = ann
    bob = bob
    File <- MCFile
    Test <- MCTest
    Flat <- MCFlat
    Occurs <- Apart
    Proc <- MCProc
    Serialised = FALSE
    MaxDiff = 2
SPECIFICATION Spec
INVARIANTS
    OnlyReviewedCode
    TestsUntouched
    AppliedIsReal
CHECK_DEADLOCK FALSE
