\* oauthCmd running the loopback flow with two concurrent callbacks.
CONSTANTS
    r1 = r1
    r2 = r2
    NoReq = NoReq
    Req <- MCReq
    Flags <- MCFlags
INIT Init
NEXT Next
INVARIANT LoopbackPrintsAuthenticToken
\* oauthCmd returns, or hangs in srv.Close(): the command really stops.
CHECK_DEADLOCK FALSE
