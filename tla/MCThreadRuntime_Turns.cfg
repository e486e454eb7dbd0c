CONSTANTS
    Stream = {s1}
    Wait = {w1}
    Resume = {}
    AgUiTurn = {}
    AgUiResume = {}
    Cancel = {c1}
    Delete = {}
    Route <- MCRoute
    AgentRoute <- MCAgentRoute
    Tid = Tid
    NoRun = NoRun
    NoRoute = NoRoute
    MayShutdown = TRUE
    MaxInterrupts = 2
    MaxFaults = 1
    MaxCrashes = 1
SPECIFICATION Spec
INVARIANTS
    SlotCoversExecution
    ParkRecorded
    NeverStuckBusy
PROPERTIES CancelHitsHolder
CHECK_DEADLOCK FALSE
