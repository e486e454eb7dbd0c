CONSTANTS
    Turn = {u1, u2, u3}
    Reaper = {r1, r2}
    Deleter = {d1}
    Leftover = {TRUE, FALSE}
    Nobody = Nobody
SPECIFICATION SpecManager
CHECK_DEADLOCK FALSE
INVARIANTS ServedHandleIsLive WaitersHaveACall
 
