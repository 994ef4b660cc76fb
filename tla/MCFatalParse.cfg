\* Spec section 7 against lines 146 and 292: a field float() cannot convert.
CONSTANTS
    None = NoneValue
    NoneValue = NoneValue
    Lines <- MCLines
    MaxLines = 2
INIT Init
NEXT Next
INVARIANT OnlyIoErrorsFatal
CHECK_DEADLOCK FALSE
