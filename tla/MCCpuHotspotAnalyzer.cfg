\* Finding the report (none, in data_dir, only in the subdirectory), then
\* parsing, categorisation and aggregation: reports of up to 5 lines,
\* at most 3 hotspots kept.
CONSTANTS
    None = NoneValue
    NoneValue = NoneValue
    f1 = f1
    f2 = f2
    Files = {f1, f2}
    ReportLines <- MCLines
    FileSetups <- MainSetups
    MaxLines = 5
    HotspotLimit = 3
INIT Init
NEXT Next
INVARIANTS
    TypeOK
    HotspotsFromSection
    CategoryBreakdownExact
    CategoryTotalsPartition
\* The analyzer is a batch program: it stops once the summary is written.
CHECK_DEADLOCK FALSE
