CONSTANT Count = 2
SPECIFICATION MeasureSpec
INVARIANT RecordsAllLaunched
CHECK_DEADLOCK FALSE
