\* A request reaches the implicit handler before o.redirectURI is assigned.
CONSTANTS
    r1 = r1
    r2 = r2
    r3 = r3
    NoReq = NoReq
    Req <- MCReq2
INIT Init
NEXT Next
INVARIANT ScriptUsesRedirectURI
CHECK_DEADLOCK FALSE
