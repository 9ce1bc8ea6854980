CONSTANTS
    Informed <- AsBuilt
    Supplies = FALSE
SPECIFICATION FairSpec
PROPERTIES
    WorkflowCompletes
