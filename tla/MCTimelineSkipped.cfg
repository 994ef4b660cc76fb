\* Spec section 8, property 7, against lines 353-355: a log of decisions only.
CONSTANTS
    None = NoneValue
    NoneValue = NoneValue
    Lines <- MCLines
    MaxLines = 3
INIT Init
NEXT Next
INVARIANT DecisionTimelineProduced
CHECK_DEADLOCK FALSE
