\* Does DoLoopbackAuthorization always return, as spec 4.3 says?
CONSTANTS
    r1 = r1
    r2 = r2
    r3 = r3
    NoReq = NoReq
    Req <- MCReq2
SPECIFICATION Spec
PROPERTY FlowReturns
CHECK_DEADLOCK FALSE
