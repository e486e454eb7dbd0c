CONSTANTS
    Row <- MCRow
    Initially <- MCInitially
    PageSize = 1
    ResidentCap = 3
    MaxTrouble = 3
SPECIFICATION FairSpec
INVARIANTS AnswersOneQuestion NothingIsSkippedOrDoubled
PROPERTIES NothingIsEvicted PollingConverges
CHECK_DEADLOCK FALSE
