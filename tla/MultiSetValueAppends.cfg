CONSTANTS
    arr = arr
    arrName = arrName
    Params <- MCParams
    Arrays <- MCArrays
    NamePrefix <- MCNamePrefix
    MaxLength <- MCMaxLength
    TotalLength <- MCTotalLength
    MultiSetEnabled = TRUE
    Lengths = {1, 2}
    MaxEntries = 2
    MaxIndex = 2
SPECIFICATION Spec
INVARIANT AcceptedRequestsGoThrough
\* The process may have crashed.
CHECK_DEADLOCK FALSE
