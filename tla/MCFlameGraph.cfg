\* Parsing, folding and reporting for every log of up to 4 lines drawn from
\* every sub-parser's formats.
CONSTANTS
    None = NoneValue
    NoneValue = NoneValue
    Lines <- MCLines
    MaxLines = 4
INIT Init
NEXT Next
INVARIANTS
    TypeOK
    FlameGraphMatchesReport
\* The generator is a batch program: it stops once the report is written.
CHECK_DEADLOCK FALSE
