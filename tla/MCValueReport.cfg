CONSTANTS
    Threads = {t1, t2}
    Values = {1}
    Window = 1
    MaxLag = 1
    MaxEvents = 2
    Self = edge
    Others = {core}
    OtherReports <- MCOtherReports
SPECIFICATION ReportSpec
INVARIANTS RateIsExact NothingLingers SummaryBetween
