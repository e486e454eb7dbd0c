CONSTANTS
    Child <- MCChild
    NoChild = 0
    MaxChanges = 3
    MaxKills = 1
SPECIFICATION FairSpec
INVARIANTS OneChild ServesTheLatest OnlyARestartLeavesAChild NobodyWaitsInVain
PROPERTIES RestartsAndEndingsEnd
CHECK_DEADLOCK FALSE
