CONSTANTS
    Cmd = {c1, c2}
    Acquirer = {a1, a2}
    Remover = {r1}
    Config = {k1, k2}
    NoState = NoState
    MaxKeepers = 3
SPECIFICATION FairSpec
CHECK_DEADLOCK FALSE
INVARIANTS RetryMeetsTheNextKeeper ServesItsOwnKeeper
PROPERTIES CommandsKeepTheirKeeper CallsEnd
