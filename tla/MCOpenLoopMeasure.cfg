CONSTANT Count = 4
SPECIFICATION FairMeasureSpec
INVARIANTS MeasureTypeOK FinishedIsSettled InvalidHasReason
PROPERTY MeasureEnds
CHECK_DEADLOCK FALSE
