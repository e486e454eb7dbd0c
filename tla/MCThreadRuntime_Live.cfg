CONSTANTS
    Stream = {}
    Wait = {w1}
    Resume = {u1}
    AgUiTurn = {}
    AgUiResume = {}
    Cancel = {c1}
    Delete = {}
    Route <- MCRoute
    AgentRoute <- MCAgentRoute
    Tid = Tid
    NoRun = NoRun
    NoRoute = NoRoute
    MayShutdown = FALSE
    MaxInterrupts = 1
    MaxFaults = 1
    MaxCrashes = 1
SPECIFICATION FairSpec
PROPERTIES
    EveryRequestAnswered
    HoldersLetGo
    TakesTurns
CHECK_DEADLOCK FALSE
