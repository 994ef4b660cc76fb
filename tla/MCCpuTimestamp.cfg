\* Every arrangement of two reports over data_dir and its
\* webrtc_config_results/ subdirectory, with a one-row report.
CONSTANTS
    None = NoneValue
    NoneValue = NoneValue
    f1 = f1
    f2 = f2
    Files = {f1, f2}
    ReportLines <- ShortLines
    FileSetups <- AllSetups
    MaxLines = 2
    HotspotLimit = 3
INIT Init
NEXT Next
INVARIANT TimestampOfAnalyzedReport
CHECK_DEADLOCK FALSE
