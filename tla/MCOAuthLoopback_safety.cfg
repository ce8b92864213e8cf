\* Three concurrent callbacks; safety of what the flow returns.
CONSTANTS
    r1 = r1
    r2 = r2
    r3 = r3
    NoReq = NoReq
    Req <- MCReq3
SYMMETRY MCSymmetry
INIT Init
NEXT Next
INVARIANT TokenSoundness
INVARIANT MalformedKeepsWaiting
INVARIANT ExchangeUsesRedirectURI
\* A handler blocked on an unbuffered send after the select has returned
\* hangs srv.Close() for ever: the code really can stop there.
CHECK_DEADLOCK FALSE
