\* Spec 4.2 against 'and last_timestamp': a legacy probe after a timestamp of 0.
CONSTANTS
    None = NoneValue
    NoneValue = NoneValue
    Lines <- ProbeLines
    MaxLines = 2
INIT Init
NEXT Next
INVARIANT LegacyDroppedOnlyWithoutTimestamp
CHECK_DEADLOCK FALSE
