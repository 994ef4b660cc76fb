\* The classification engine on logs of up to three lines drawn from every
\* format, overlapping and irrelevant lines included: its invariants
\* and its refinement of the abstract classification contract.
CONSTANTS
    None = NoneValue
    NoneValue = NoneValue
    Lines <- MCLines
    MaxLines = 3
SPECIFICATION Spec
INVARIANTS
    TypeOK
    CarryForward
    ClassifiedOnce
PROPERTIES
    ImplementsContract
\* The program stops after plotting: the run ends.
CHECK_DEADLOCK FALSE
