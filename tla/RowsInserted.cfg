SPECIFICATION RowSpec
CONSTANTS
    RowKeys = {k1}
    Inserts = TRUE
    MaxWritten = 4
    MaxOutages = 0
INVARIANT SavesReplaceLog
CHECK_DEADLOCK FALSE
