\* A callback that arrives late: its handler blocks on the unbuffered channel.
CONSTANTS
    r1 = r1
    r2 = r2
    r3 = r3
    NoReq = NoReq
    Req <- MCReq2
INIT Init
NEXT Next
INVARIANT NoStrandedSender
CHECK_DEADLOCK FALSE
