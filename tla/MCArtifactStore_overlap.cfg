CONSTANTS
    plan = plan
    design = design
    cli = cli
    web = web
    Artifact <- MCTestPlan
    TestPlan <- MCTestPlan
    Outdated <- MCTestPlan
    Proc <- MCProc
    Resident <- MCResident
    Approver <- MCProc
    Editor <- Nobody
    Migrator <- Nobody
    Serialised = FALSE
    MaxRev = 1
    MaxBackups = 1
SPECIFICATION Spec
PROPERTIES
    LockedForever
