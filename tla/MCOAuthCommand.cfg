\* Every command line the model distinguishes.
INIT Init
NEXT Next
INVARIANT TypeOK
INVARIANT DefaultClientOnlyGoogle
\* The command exits (or hangs in the loopback flow): it really stops.
CHECK_DEADLOCK FALSE
