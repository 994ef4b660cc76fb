\* Spec section 3 against parse_log_file: a BWE-ConfigLimit line.
CONSTANTS
    None = NoneValue
    NoneValue = NoneValue
    Lines <- MCLines
    MaxLines = 2
INIT Init
NEXT Next
INVARIANT ConfigLimitRecorded
CHECK_DEADLOCK FALSE
