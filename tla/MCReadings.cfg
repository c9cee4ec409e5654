\* One monitor of each kind; the file's values as in Samples.
SPECIFICATION ReadSpec
CONSTANT Holds <- Samples
INVARIANTS TextTellsValue OnlyLowVoltageDies FailureIsTold
CHECK_DEADLOCK FALSE
