\* Logs of up to 3 lines whose own timestamps rise with the line order,
\* with a thread-timing line among them.
CONSTANTS
    None = NoneValue
    NoneValue = NoneValue
    Lines <- OrderLines
    MaxLines = 3
INIT Init
NEXT Next
INVARIANT TimelineFollowsLog
CHECK_DEADLOCK FALSE
