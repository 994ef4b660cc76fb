\* Spec section 3 against the timestamp regex: a legacy probe after a decision snapshot.
CONSTANTS
    None = NoneValue
    NoneValue = NoneValue
    Lines <- ProbeLines
    MaxLines = 3
INIT Init
NEXT Next
INVARIANT CarryForwardFromAnyTimestamp
CHECK_DEADLOCK FALSE
