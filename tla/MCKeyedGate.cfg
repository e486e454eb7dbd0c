CONSTANTS
    Shared = {s1, s2}
    Exclusive = {e1, e2}
    Gate = {g1, g2, g3, g4}
    NoGate = NoGate
SPECIFICATION FairSpec
CHECK_DEADLOCK FALSE
PROPERTIES KeepsTheLine
