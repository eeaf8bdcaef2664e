SPECIFICATION UDFairSpec
CONSTANTS
    None = None
    Dialog = {d1, d2}
    MaxVersion = 2
    MaxTries = 2
    DiskFills = TRUE
INVARIANTS SwapsWhatItChecked
PROPERTIES ComesBack KeepsUpToDate
CHECK_DEADLOCK FALSE
