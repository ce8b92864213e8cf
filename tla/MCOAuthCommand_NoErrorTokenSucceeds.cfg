INIT Init
NEXT Next
INVARIANT NoErrorTokenSucceeds
CHECK_DEADLOCK FALSE
