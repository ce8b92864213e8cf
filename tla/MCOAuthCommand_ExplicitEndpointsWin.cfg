INIT Init
NEXT Next
INVARIANT ExplicitEndpointsWin
CHECK_DEADLOCK FALSE
