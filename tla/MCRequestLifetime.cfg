CONSTANTS
    Request = {q1, q2}
    Run = {w1, w2}
    Closer = {c1, c2}
    NoRequest = NoRequest
SPECIFICATION TimerSpec
CHECK_DEADLOCK FALSE
INVARIANTS CountersAreExact StoresOutliveTheirUsers ShutdownReachesEveryRun
PROPERTIES StoresAreDisposed CloseReturns
