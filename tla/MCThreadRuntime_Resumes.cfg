CONSTANTS
    Stream = {}
    Wait = {}
    Resume = {u1}
    AgUiTurn = {a1}
    AgUiResume = {b1}
    Cancel = {}
    Delete = {d1}
    Route <- MCRoute
    AgentRoute <- MCAgentRoute
    Tid = Tid
    NoRun = NoRun
    NoRoute = NoRoute
    MayShutdown = FALSE
    MaxInterrupts = 1
    MaxFaults = 1
    MaxCrashes = 0
SPECIFICATION Spec
INVARIANTS
    ResumesSerialized
    NoStrandedPrompt
    NobodyIsStuck
CHECK_DEADLOCK FALSE
