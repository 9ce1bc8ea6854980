CONSTANTS
    Informed <- Everyone
    Supplies = TRUE
SPECIFICATION FairSpec
INVARIANTS
    TypeOK
    ChainOfApprovals
PROPERTIES
    
    WorkflowCompletes
