SPECIFICATION MCSpec
CONSTANTS
    Call = {call1, call2}
    Task = {task1, task2}
    MaxWorkers = 1
    Client = {ann, bob}
    Broadcast = {news1, news2}
    Request = {ask1, ask2}
    ByPriority <- MCProviders
    ByCost <- MCByCost
    AgentList <- MCAgents
    MaxRetries = 2
    Turns = 2
    LastPhase = 3
INVARIANTS TypeOK ReportsAreTrue EndedNotListed AudienceReached ResumesInOrder
PROPERTIES EveryCallReturns EndpointsGoOn EveryTaskEnds
CHECK_DEADLOCK FALSE
