CONSTANTS
    Stream = {s1}
    Wait = {}
    Resume = {}
    AgUiTurn = {}
    AgUiResume = {}
    Cancel = {}
    Delete = {d1}
    Route <- MCRoute
    AgentRoute <- MCAgentRoute
    Tid = Tid
    NoRun = NoRun
    NoRoute = NoRoute
    MayShutdown = FALSE
    MaxInterrupts = 2
    MaxFaults = 0
    MaxCrashes = 0
SPECIFICATION Spec
INVARIANTS
    RowAndPromptGoTogether
CHECK_DEADLOCK FALSE
