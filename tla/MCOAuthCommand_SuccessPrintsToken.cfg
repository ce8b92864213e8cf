INIT Init
NEXT Next
INVARIANT SuccessPrintsToken
CHECK_DEADLOCK FALSE
