CONSTANTS
    plan = plan
    design = design
    cli = cli
    web = web
    Artifact <- MCArtifact
    TestPlan <- MCTestPlan
    Outdated <- MCTestPlan
    Proc <- MCProc
    Resident <- MCResident
    Approver <- MCProc
    Editor <- Nobody
    Migrator <- Nobody
    Serialised = TRUE
    MaxRev = 1
    MaxBackups = 1
SPECIFICATION Spec
INVARIANTS
    ApprovalsOutlast
