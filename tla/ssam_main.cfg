\* The request multiplexer under a lossy link, wrap-around, retries and
\* lifecycle failures.
CONSTANTS
    c1 = c1
    c2 = c2
    Clients <- MCClients
    SeqMod = 2
    MaxRetries = 1
    MaxSubmits = 2
    MaxCtl = 2
SPECIFICATION Spec
INVARIANT TypeOK
PROPERTIES RequestRefines SubmitReturns
CHECK_DEADLOCK FALSE
