\* Spec 4.1 against lines 90-98: a Trendline line logging nan.
CONSTANTS
    None = NoneValue
    NoneValue = NoneValue
    Lines <- MCLines
    MaxLines = 2
INIT Init
NEXT Next
INVARIANT NanReadAsZero
CHECK_DEADLOCK FALSE
