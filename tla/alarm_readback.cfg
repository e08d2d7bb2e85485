\* Writes to the alarm file of an ordinary value while the EC
\* attaches and detaches the battery and any SSAM request may fail.
CONSTANTS
    Bad = Bad
    Inputs <- MCInputs
    WarnVals <- MCWarnVals
    Fallible = {"ec"}
    MaxUser = 2
    MaxEc = 2
SPECIFICATION Spec
\* Once the bounded writes and EC events are used up, the device rests.
CHECK_DEADLOCK FALSE
INVARIANT AlarmReadsBack
