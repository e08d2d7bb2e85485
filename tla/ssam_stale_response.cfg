\* A late response to a call that timed out, after the sequence numbers
\* wrapped, answers a new call with the same number.
CONSTANTS
    c1 = c1
    c2 = c2
    Clients <- MCClients
    SeqMod = 2
    MaxRetries = 1
    MaxSubmits = 2
    MaxCtl = 0
SPECIFICATION Spec
PROPERTY NoResponseBeforeSent
CHECK_DEADLOCK FALSE
